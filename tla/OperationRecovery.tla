-------------------------- MODULE OperationRecovery --------------------------
(***************************************************************************)
(* recover_operation_transaction (operation/recovery): the next process    *)
(* reads the journal the last one left and puts every path back, or        *)
(* finishes a commit whose Finished record is durable.  Every decision is  *)
(* made from the journal as it was parsed (parsed) and the disk as it is   *)
(* found; a state that neither explains is refused.                        *)
(***************************************************************************)
EXTENDS OperationState

Intended(p)  == p \in CommitIntents(parsed)
Announced(p) == p \in RollbackIntents(parsed)
Restored(p)  == p \in RolledBackPaths(parsed)

\* The paths the journal names; a preparation that died early has not named all.
Listed == {p \in Path : Has(parsed, PathIntent(p))}

\* Mutant of Open: an empty journal is rejected.
OpenNonEmpty ==
  /\ pc = "down" /\ journal
  /\ \/ (log = <<>> \/ ~Replayable(log)) /\ Leave("corrupt")
     \/ /\ log # <<>> /\ Replayable(log)
        /\ parsed' = log /\ pc' = "recover" /\ at' = 0
        /\ UNCHANGED <<job, retain, report>>
  /\ poisoned' = FALSE
  /\ UNCHANGED <<kind, disk, journal, log>> /\ Steady

\* The journal is read, parsed and resumed.
Open ==
  /\ pc = "down" /\ journal
  /\ \/ log = <<>> /\ Step("remove_journal", 0)
     \/ ~Replayable(log) /\ Leave("corrupt")
     \/ /\ log # <<>> /\ Replayable(log)
        /\ parsed' = log /\ pc' = "recover" /\ at' = 0
        /\ UNCHANGED <<job, retain, report>>
  /\ poisoned' = FALSE
  /\ UNCHANGED <<kind, disk, journal, log>> /\ Steady

OpenFails ==
  /\ pc = "down" /\ journal
  /\ Fault("open", 0) /\ Leave("recovery_required")
  /\ Still

Uncommitted == ~Has(parsed, Prepared) \/ CommitIntents(parsed) = {}

\* recover_state for a finished journal: verify_finished.
RecoverFinished ==
  /\ pc = "recover" /\ IsFinished(parsed)
  /\ LET Fits(p) == IF Has(parsed, FinishedCommitted) THEN MatchesAfter(p)
                                                      ELSE MatchesBefore(p)
     IN \/ (\A p \in Listed : Fits(p)) /\ Step("recover_receipt", 0)
        \/ (\E p \in Listed : ~Fits(p)) /\ Leave("refused")
  /\ Quiet

\* discard_uncommitted: no path has an intent, so none may have changed.
RecoverUncommitted ==
  /\ pc = "recover" /\ ~IsFinished(parsed) /\ Uncommitted
  /\ \/ (\A p \in Listed : MatchesBefore(p)) /\ Step("recover_abort", 0)
     \/ (\E p \in Listed : ~MatchesBefore(p)) /\ Leave("refused")
  /\ Quiet

RecordAbort ==
  /\ pc = "recover_abort"
  /\ Log(FinishedAborted, Step("recover_receipt", 0), Leave("recovery_required"))

\* Mutant of RecoverChanged: a finished journal is rolled back as well.
RecoverAnything == pc = "recover" /\ ~Uncommitted /\ Step("recover_path", N) /\ Quiet

RecoverChanged ==
  /\ pc = "recover" /\ ~IsFinished(parsed) /\ ~Uncommitted
  /\ Step("recover_path", N)
  /\ Quiet

-----------------------------------------------------------------------------
(* rollback_changed, from the last path downwards.                         *)

HalfRestored == kind[at] = "delete" /\ LinkedBackup(at)
HalfCreated  == kind[at] = "create" /\ LinkedStage(at)

\* append_rollback_intent, and on to control point l.
Announce(l) ==
  \/ Announced(at) /\ Step(l, at) /\ Quiet
  \/ ~Announced(at) /\ Log(RollbackIntent(at), Step(l, at), Leave("recovery_required"))

AtPath == pc = "recover_path" /\ at > 0

\* A restore that stopped between its link and its unlink is finished.
ResumeRestore ==
  /\ AtPath /\ HalfRestored
  /\ ~Restored(at) /\ Announced(at)
  /\ Step("recover_unlink", at)
  /\ Quiet

\* The path is as it was before: it is skipped, or its intent is attested.
SkipPath ==
  /\ AtPath /\ MatchesBefore(at)
  /\ Restored(at) \/ ~Intended(at)
  /\ Step("recover_path", at - 1)
  /\ Quiet

AttestPath ==
  /\ AtPath /\ MatchesBefore(at)
  /\ ~Restored(at) /\ Intended(at)
  /\ Announce("recover_record")

\* Mutant of RollbackPath: whatever an intended path holds is rolled back.
RollbackAnything ==
  /\ AtPath
  /\ ~MatchesBefore(at) /\ ~Restored(at) /\ Intended(at)
  /\ Announce("recover_restore")

\* The path carries the change, or half of a create.
RollbackPath ==
  /\ AtPath /\ (HalfCreated \/ MatchesAfter(at))
  /\ ~MatchesBefore(at) /\ ~Restored(at) /\ Intended(at)
  /\ Announce("recover_restore")

Explained ==
  \/ HalfRestored /\ ~Restored(at) /\ Announced(at)
  \/ MatchesBefore(at)
  \/ (HalfCreated \/ MatchesAfter(at)) /\ ~Restored(at) /\ Intended(at)

RefusePath == AtPath /\ ~Explained /\ Refuse("refused")

RecordRollback ==
  /\ pc = "recover_path" /\ at = 0
  /\ Log(FinishedRolledBack, Step("recover_receipt", 0), Leave("recovery_required"))

\* restore_before and rollback_linked_create.
RecoverRestore ==
  /\ pc = "recover_restore"
  /\ \/ kind[at] = "create" /\ RemoveCreated("recover_record", "refused")
     \/ kind[at] # "create" /\ backup[at] # "bak" /\ Refuse("refused")
     \/ kind[at] = "modify" /\ backup[at] = "bak" /\ RenameBackup("recover_verify")
     \/ /\ kind[at] = "delete" /\ backup[at] = "bak"
        /\ \/ slot[at] = "none" /\ LinkBackup("recover_unlink")
           \/ slot[at] # "none" /\ Refuse("refused")

RecoverUnlink == pc = "recover_unlink" /\ UnlinkBackup("recover_verify", "refused")

RecoverVerify ==
  /\ pc = "recover_verify"
  /\ \/ slot[at] = "bak" /\ Step("recover_record", at)
     \/ slot[at] # "bak" /\ Leave("refused")
  /\ Quiet

RecordPath ==
  /\ pc = "recover_record"
  /\ Log(RolledBack(at), Step("recover_path", at - 1), Leave("recovery_required"))

\* retained_receipt: a receipt that does not parse stops the recovery.
ReadReceipt ==
  /\ pc = "recover_receipt"
  /\ \/ receipt # "torn" /\ Step("clean", 0)
     \/ receipt = "torn" /\ Leave("corrupt")
  /\ Quiet

Recover ==
  \/ Open \/ OpenFails \/ RecoverFinished \/ RecoverUncommitted \/ RecordAbort
  \/ RecoverChanged \/ ResumeRestore \/ SkipPath \/ AttestPath \/ RollbackPath
  \/ RefusePath \/ RecordRollback \/ RecoverRestore \/ RecoverUnlink
  \/ RecoverVerify \/ RecordPath \/ ReadReceipt
=============================================================================
