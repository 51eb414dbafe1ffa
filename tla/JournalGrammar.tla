---------------------------- MODULE JournalGrammar ----------------------------
(***************************************************************************)
(* The records of the V3 operation journal (operation/journal.rs) and the  *)
(* sequences of them the strict parser accepts (operation/recovery_model), *)
(* stated as which record may follow which journal.                        *)
(*                                                                         *)
(* A journal is the sequence of its complete lines: a torn last line is    *)
(* not part of it, as the reader ignores it and the resumed writer cuts it *)
(* off.  Path records and operation records are numbered from 1 (the code  *)
(* counts from 0).  Payloads other than the index are left out: they never *)
(* change after PathStaged and are compared by the model of the paths.     *)
(***************************************************************************)
EXTENDS Naturals, Sequences, FiniteSets

CONSTANTS N,    \* unique paths of the plan
          Ops   \* logical operations of the plan

ASSUME JournalAssumption == N \in Nat \ {0} /\ Ops \in Nat \ {0}

Path == 1..N

Header            == [type |-> "Header",         index |-> 0]
Operation(o)      == [type |-> "Operation",      index |-> o]
PathIntent(p)     == [type |-> "PathIntent",     index |-> p]
PathStaged(p)     == [type |-> "PathStaged",     index |-> p]
Prepared          == [type |-> "Prepared",       index |-> 0]
CommitIntent(p)   == [type |-> "CommitIntent",   index |-> p]
Committed(p)      == [type |-> "Committed",      index |-> p]
RollbackIntent(p) == [type |-> "RollbackIntent", index |-> p]
RolledBack(p)     == [type |-> "RolledBack",     index |-> p]

\* Finished(COMMITTED), Finished(ABORTED) and Finished(ROLLED_BACK).
FinishedCommitted  == [type |-> "FinishedCommitted",  index |-> 0]
FinishedAborted    == [type |-> "FinishedAborted",    index |-> 0]
FinishedRolledBack == [type |-> "FinishedRolledBack", index |-> 0]
Finished == {FinishedCommitted, FinishedAborted, FinishedRolledBack}

Record ==
  {Header, Prepared} \cup Finished
    \cup {Operation(o) : o \in 1..Ops}
    \cup UNION {{PathIntent(p), PathStaged(p), CommitIntent(p), Committed(p),
                 RollbackIntent(p), RolledBack(p)} : p \in Path}

-----------------------------------------------------------------------------
(* What a journal says.                                                    *)
Has(j, r) == \E k \in DOMAIN j : j[k] = r

StagedPaths(j)     == {p \in Path : Has(j, PathStaged(p))}
CommitIntents(j)   == {p \in Path : Has(j, CommitIntent(p))}
CommittedPaths(j)  == {p \in Path : Has(j, Committed(p))}
RollbackIntents(j) == {p \in Path : Has(j, RollbackIntent(p))}
RolledBackPaths(j) == {p \in Path : Has(j, RolledBack(p))}

IsFinished(j) == \E r \in Finished : Has(j, r)

(***************************************************************************)
(* Preparation writes one fixed script: the header, every operation, every *)
(* path intent, every staged path, Prepared.                               *)
(***************************************************************************)
PreambleLength == Ops + 2*N + 2

PreambleAt(k) ==
  CASE k = 1                  -> Header
    [] k \in 2..Ops+1         -> Operation(k - 1)
    [] k \in Ops+2..Ops+N+1   -> PathIntent(k - Ops - 1)
    [] k \in Ops+N+2..Ops+2*N+1 -> PathStaged(k - Ops - N - 1)
    [] OTHER                  -> Prepared

MayPrepare(j, r) == Len(j) < PreambleLength /\ r = PreambleAt(Len(j) + 1)

\* Commit intents ascend, each behind the completion of the one before it.
MayIntend(j, p) ==
  /\ Has(j, Prepared)
  /\ RollbackIntents(j) = {}
  /\ CommitIntents(j) = CommittedPaths(j)
  /\ \A q \in CommitIntents(j) : q < p

\* A completion answers the latest intent, once, before any rollback.
MayCommit(j, p) ==
  /\ RollbackIntents(j) = {}
  /\ p \in CommitIntents(j) \ CommittedPaths(j)
  /\ \A q \in CommitIntents(j) : q <= p

\* Rollback intents descend over intended paths, each behind a completed one.
MayRollback(j, p) ==
  /\ p \in CommitIntents(j)
  /\ RollbackIntents(j) = RolledBackPaths(j)
  /\ \A q \in RollbackIntents(j) : p < q

MayRestore(j, p) ==
  /\ p \in RollbackIntents(j) \ RolledBackPaths(j)
  /\ \A q \in RollbackIntents(j) : p <= q

MayFinish(j, r) ==
  \/ r = FinishedCommitted /\ Has(j, Prepared) /\ CommitIntents(j) = Path
                           /\ CommittedPaths(j) = Path
  \/ r = FinishedAborted /\ j # <<>> /\ CommitIntents(j) = {}
  \/ r = FinishedRolledBack /\ Has(j, Prepared) /\ CommitIntents(j) # {}

\* Record r may follow journal j.
MayFollow(j, r) ==
  /\ ~IsFinished(j)
  /\ \/ MayPrepare(j, r)
     \/ \E p \in Path : r = CommitIntent(p) /\ MayIntend(j, p)
     \/ \E p \in Path : r = Committed(p) /\ MayCommit(j, p)
     \/ \E p \in Path : r = RollbackIntent(p) /\ MayRollback(j, p)
     \/ \E p \in Path : r = RolledBack(p) /\ MayRestore(j, p)
     \/ MayFinish(j, r)

\* The journals parse_journal accepts.
Replayable(j) == \A k \in DOMAIN j : MayFollow(SubSeq(j, 1, k - 1), j[k])
=============================================================================
