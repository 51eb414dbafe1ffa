--------------------------- MODULE OperationCleanup ---------------------------
(***************************************************************************)
(* What follows the Finished record, in the call that wrote it as in the   *)
(* recovery of a later process: the artifacts are removed or retained and  *)
(* the journal goes last.                                                  *)
(***************************************************************************)
EXTENDS OperationState

\* A retained commit keeps its backups as the evidence of its receipt.
Keeping == receipt = "full" /\ Has(log, FinishedCommitted)

Removable(p) == stage[p] # "none" \/ (~Keeping /\ backup[p] # "none")

\* cleanup, cleanup_stages and cleanup_artifacts.  Recovery compares an artifact
\* of a staged path with its evidence first; it is complete, or it is gone.
Clean ==
  /\ pc = "clean"
  /\ \/ \E p \in Path :
          /\ First({q \in Path : Removable(q)}, p)
          /\ RemoveStage(p) \/ (stage[p] = "none" /\ RemoveBackup(p))
     \/ /\ \A p \in Path : ~Removable(p)
        /\ \/ Keeping /\ Step("keep", 0)
           \/ ~Keeping /\ Recovering /\ receipt = "full" /\ Step("drop_transitional", 0)
           \/ ~Keeping /\ ~(Recovering /\ receipt = "full") /\ Step("remove_journal", 0)
        /\ Quiet

\* retain_backups and relocate_backups: one backup after the other moves to the
\* state directory; one that is there already was moved before a crash.
Unkept == {p \in Path : backup[p] = "bak" /\ kept[p] = "none"}

RetainBackup ==
  /\ pc = "keep"
  /\ \E p \in Path :
       /\ First(Unkept, p)
       /\ Call("keep", p,
               kept' = [kept EXCEPT ![p] = "bak"] /\ Gone(backup, p), UNCHANGED <<kept, backup>>,
               UNCHANGED call, Leave("recovery_required"))
  /\ UNCHANGED <<kind, slot, stage, receipt, journal, log, poisoned>>

AllRetained ==
  /\ pc = "keep"
  /\ Unkept = {}
  /\ \A p \in Path : kind[p] # "create" => kept[p] = "bak"
  /\ Step("remove_journal", 0)
  /\ Quiet

\* The receipt of a transaction that did not commit.
DropTransitional ==
  /\ pc = "drop_transitional"
  /\ Call("drop_receipt", 0, receipt' = "none", UNCHANGED receipt,
          Step("remove_journal", 0), Leave("recovery_required"))
  /\ UNCHANGED <<kind, slot, stage, backup, kept, journal, log, poisoned>>

\* What the call, or RecoveryReport::action, says of the paths.
Resolution == IF Has(log, FinishedCommitted) THEN "committed" ELSE "unchanged"

RemoveJournal ==
  /\ pc = "remove_journal"
  /\ Call("remove_journal", 0, journal' = FALSE /\ log' = <<>>, UNCHANGED <<journal, log>>,
          Leave(Resolution), Leave("recovery_required"))
  /\ UNCHANGED <<kind, disk, poisoned>>

Cleanup == Clean \/ RetainBackup \/ AllRetained \/ DropTransitional \/ RemoveJournal
=============================================================================
