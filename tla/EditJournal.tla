------------------------------ MODULE EditJournal ------------------------------
(***************************************************************************)
(* The V1 journal of an edit transaction (journal.rs) and the sequences of *)
(* records its recovery parses (transaction/recovery_model.rs).  It is a   *)
(* separate implementation beside the V3 journal of JournalGrammar and a   *)
(* more lenient one: it fixes no order between paths and takes Finished    *)
(* anywhere behind the header.                                             *)
(*                                                                         *)
(* As there, a journal is the sequence of its complete lines, payloads are *)
(* left out and paths are numbered from 1.                                 *)
(***************************************************************************)
EXTENDS Naturals, Sequences

CONSTANT N    \* files of the plan

ASSUME EditAssumption == N \in Nat \ {0}

Path == 1..N

Header            == [type |-> "Header",         index |-> 0]
PreparedFile(p)   == [type |-> "PreparedFile",   index |-> p]
Prepared          == [type |-> "Prepared",       index |-> 0]
CommitIntent(p)   == [type |-> "CommitIntent",   index |-> p]
Committed(p)      == [type |-> "Committed",      index |-> p]
RollbackIntent(p) == [type |-> "RollbackIntent", index |-> p]
RolledBack(p)     == [type |-> "RolledBack",     index |-> p]

\* Finished, with its outcome as the type.
Outcomes    == {"committed", "rolled_back", "aborted"}
Finished(o) == [type |-> o, index |-> 0]

Record ==
  {Header, Prepared} \cup {Finished(o) : o \in Outcomes}
    \cup UNION {{PreparedFile(p), CommitIntent(p), Committed(p), RollbackIntent(p),
                 RolledBack(p)} : p \in Path}

Has(j, r)        == \E k \in DOMAIN j : j[k] = r
IsFinished(j)    == \E o \in Outcomes : Has(j, Finished(o))
CommitIntents(j) == {p \in Path : Has(j, CommitIntent(p))}

-----------------------------------------------------------------------------
(* parse_journal: record r may follow journal j.                           *)

MayFollow(j, r) ==
  \/ j = <<>> /\ r = Header
  \/ /\ j # <<>> /\ ~IsFinished(j)
     /\ \/ \E o \in Outcomes : r = Finished(o)
        \/ /\ r = Prepared /\ ~Has(j, Prepared)
           /\ \A p \in Path : Has(j, PreparedFile(p))
        \/ \E p \in Path :
             \/ r = PreparedFile(p) /\ ~Has(j, Prepared) /\ ~Has(j, r)
             \/ r = CommitIntent(p) /\ Has(j, Prepared) /\ ~Has(j, r)
             \/ r = Committed(p) /\ Has(j, CommitIntent(p)) /\ ~Has(j, r)
             \/ r = RollbackIntent(p) /\ Has(j, CommitIntent(p)) /\ ~Has(j, r)
             \/ r = RolledBack(p) /\ Has(j, RollbackIntent(p))

\* The journals the next recovery accepts.
Replayable(j) == \A k \in DOMAIN j : MayFollow(SubSeq(j, 1, k - 1), j[k])
=============================================================================
