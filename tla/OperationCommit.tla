--------------------------- MODULE OperationCommit ---------------------------
(***************************************************************************)
(* A prepared transaction is committed, retained, aborted or dropped       *)
(* (operation/commit.rs and commit/): the paths are revalidated, changed   *)
(* one at a time behind a synchronized intent and, after a failure, put    *)
(* back in reverse order.                                                  *)
(***************************************************************************)
EXTENDS OperationState

\* The caller's choice; a dropped transaction leaves its journal to recover.
Commit == pc = "prepared" /\ \E r \in Modes :
  /\ pc' = "verify" /\ at' = 0 /\ retain' = r /\ UNCHANGED <<job, parsed, report>>
  /\ Quiet

Abort == pc = "prepared" /\ Step("unchanged", 0) /\ Quiet

Drop == pc = "prepared" /\ Refuse("recovery_required")

\* abort and finish_without_changes.
FinishUnchanged ==
  /\ pc = "unchanged"
  /\ Log(FinishedAborted, Step("clean", 0), Leave("recovery_required"))

VerifyAll ==
  /\ pc = "verify"
  /\ \/ /\ \A p \in Path : slot[p] = Before(p)
        /\ IF retain THEN Step("receipt", 0) ELSE Step("check", 1)
        /\ Steady
     \/ (\E p \in Path : slot[p] # Before(p)) /\ Step("unchanged", 0) /\ Steady
     \/ Fault("verify", 0) /\ Step("unchanged", 0)
  /\ Still

-----------------------------------------------------------------------------
(* prepare_retention: the receipt is written before the first change.      *)

ReceiptStep(Effect, NoEffect, next, failed, c) ==
  /\ Call(c, 0, Effect, NoEffect, Step(next, 1), Step(failed, 0))
  /\ UNCHANGED <<kind, slot, stage, backup, kept, journal, log, poisoned>>

\* The receipts of other transactions leave no room for this one, or its file
\* cannot be created.
StoreFull == pc = "receipt" /\ Step("unchanged", 0) /\ Quiet

CreateReceipt ==
  /\ pc = "receipt"
  /\ receipt' = "torn" /\ Step("receipt_write", 0)
  /\ UNCHANGED <<kind, slot, stage, backup, kept, journal, log, poisoned>> /\ Steady

WriteReceipt ==
  /\ pc = "receipt_write"
  /\ ReceiptStep(receipt' = "full", UNCHANGED receipt, "receipt_sync", "receipt_discard", "receipt")

\* The half-written receipt is removed, if that works.
DiscardReceipt ==
  /\ pc = "receipt_discard"
  /\ ReceiptStep(receipt' = "none", UNCHANGED receipt, "unchanged", "unchanged", "receipt_discard")

\* The directory entry is synchronized; a failure leaves the receipt behind.
SyncReceipt ==
  /\ pc = "receipt_sync"
  /\ ReceiptStep(UNCHANGED receipt, UNCHANGED receipt, "check", "unchanged", "receipt_sync")

-----------------------------------------------------------------------------
(* commit_one, path by path.                                               *)

\* Mutant of Unwind: the receipt is not dropped.
UnwindOnly(k) == Step("rollback", k)

\* The paths up to k changed: they are rolled back, behind the receipt.
Unwind(k) == IF retain THEN Step("drop_receipt", k) ELSE Step("rollback", k)

\* Mutant of Check: the path is changed without a durable intent.
CheckAndMutate ==
  /\ pc = "check"
  /\ slot[at] = Before(at) /\ Step("mutate", at)
  /\ Quiet

Check ==
  /\ pc = "check"
  /\ \/ slot[at] = Before(at) /\ Step("intent", at) /\ Steady
     \/ slot[at] # Before(at) /\ Unwind(at - 1) /\ Steady
     \/ Fault("check", at) /\ Unwind(at - 1)
  /\ Still

Intend ==
  /\ pc = "intent"
  /\ Log(CommitIntent(at), Step("mutate", at), Unwind(at - 1))

\* One system call of mutate: a failure is classified by what it left.
MutateStep(Effect, NoEffect, next) ==
  /\ Call("mutate", at, Effect, NoEffect, Step(next, at), Step("classify", at))
  /\ UNCHANGED <<kind, kept, receipt, journal, log, poisoned>>

Unsuited == Step("classify", at) /\ Quiet

\* install_absent_from: a link that clobbers nothing, then the stage goes.
LinkStage ==
  /\ pc = "mutate" /\ kind[at] = "create"
  /\ \/ /\ slot[at] = "none"
        /\ MutateStep(Becomes(at, "new"), UNCHANGED slot, "unlink_stage")
        /\ UNCHANGED <<stage, backup>>
     \/ slot[at] # "none" /\ Unsuited

UnlinkStage ==
  /\ pc = "unlink_stage"
  /\ \/ /\ LinkedStage(at)
        /\ MutateStep(Gone(stage, at), UNCHANGED stage, "sync")
        /\ UNCHANGED <<slot, backup>>
     \/ ~LinkedStage(at) /\ Unsuited

\* replace_from: a rename over whatever is there.
ReplaceTarget ==
  /\ pc = "mutate" /\ kind[at] = "modify"
  /\ MutateStep(Becomes(at, "new") /\ Gone(stage, at), UNCHANGED <<slot, stage>>, "sync")
  /\ UNCHANGED backup

\* remove_exact: the exact source goes, and the name is still absent after it.
RemoveSource ==
  /\ pc = "mutate" /\ kind[at] = "delete"
  /\ \/ /\ slot[at] = Before(at)
        /\ MutateStep(Becomes(at, "none"), UNCHANGED slot, "sync")
        /\ UNCHANGED <<stage, backup>>
     \/ slot[at] # Before(at) /\ Unsuited

SyncParent ==
  /\ pc = "sync"
  /\ Call("sync", at, TRUE, TRUE, Step("committed", at), Step("classify", at))
  /\ Still

\* Mutant of Classify: a changed path is not added to the paths to roll back.
ClassifyShort ==
  /\ pc = "classify"
  /\ slot[at] \in {Before(at), After(at)} /\ Unwind(at - 1)
  /\ Quiet

\* MutationState: changed (or half installed), unchanged, or ambiguous, as it
\* is when the path cannot be read.
Classify ==
  /\ pc = "classify"
  /\ \/ slot[at] = After(at) /\ Unwind(at) /\ Steady
     \/ slot[at] = Before(at) /\ Unwind(at - 1) /\ Steady
     \/ slot[at] \notin {Before(at), After(at)} /\ Leave("recovery_required") /\ Steady
     \/ Fault("classify", at) /\ Leave("recovery_required")
  /\ Still

\* Mutant of CompletePath: one path too many.
CompletePastEnd ==
  /\ pc = "committed"
  /\ Log(Committed(at),
         IF at <= N THEN Step("check", at + 1) ELSE Step("finish", 0),
         Unwind(at))

CompletePath ==
  /\ pc = "committed"
  /\ Log(Committed(at),
         IF at < N THEN Step("check", at + 1) ELSE Step("finish", 0),
         Unwind(at))

FinishCommit ==
  /\ pc = "finish"
  /\ Log(FinishedCommitted, Step("clean", 0), Leave("recovery_required"))

-----------------------------------------------------------------------------
(* rollback_changed, from path at downwards.                               *)

DropReceipt ==
  /\ pc = "drop_receipt"
  /\ Call("drop_receipt", 0, receipt' = "none", UNCHANGED receipt,
          Step("rollback", at), Leave("recovery_required"))
  /\ UNCHANGED <<kind, slot, stage, backup, kept, journal, log, poisoned>>

IntendRollback ==
  /\ pc = "rollback" /\ at > 0
  /\ Log(RollbackIntent(at), Step("restore", at), Leave("recovery_required"))

FinishRollback ==
  /\ pc = "rollback" /\ at = 0
  /\ Log(FinishedRolledBack, Step("clean", 0), Leave("recovery_required"))

\* restore: the created file goes, or the backup comes back.
Restore ==
  /\ pc = "restore"
  /\ \/ kind[at] = "create" /\ RemoveCreated("rolled_back", "recovery_required")
     \/ /\ kind[at] # "create"
        /\ \/ slot[at] = "none" /\ LinkBackup("unlink_backup")
           \/ slot[at] = "new" /\ RenameBackup("restored")
           \/ slot[at] \notin {"none", "new"} /\ Refuse("recovery_required")

FinishRestore == pc = "unlink_backup" /\ UnlinkBackup("restored", "recovery_required")

VerifyRestored ==
  /\ pc = "restored"
  /\ \/ slot[at] = "bak" /\ Step("rolled_back", at)
     \/ slot[at] # "bak" /\ Leave("recovery_required")
  /\ Quiet

\* Mutants of CompleteRollback: the restored path is not recorded, and the
\* commit is tried again.
CompleteUnrecorded ==
  /\ pc = "rolled_back"
  /\ Step("rollback", at - 1)
  /\ Quiet

CompleteAndRetry ==
  /\ pc = "rolled_back"
  /\ Log(RolledBack(at), Step("check", at), Leave("recovery_required"))

CompleteRollback ==
  /\ pc = "rolled_back"
  /\ Log(RolledBack(at), Step("rollback", at - 1), Leave("recovery_required"))

CommitSteps ==
  \/ Commit \/ Abort \/ Drop \/ FinishUnchanged \/ VerifyAll
  \/ StoreFull \/ CreateReceipt \/ WriteReceipt \/ DiscardReceipt \/ SyncReceipt
  \/ Check \/ Intend \/ LinkStage \/ UnlinkStage \/ ReplaceTarget \/ RemoveSource
  \/ SyncParent \/ Classify \/ CompletePath \/ FinishCommit
  \/ DropReceipt \/ IntendRollback \/ FinishRollback
  \/ Restore \/ FinishRestore \/ VerifyRestored \/ CompleteRollback
=============================================================================
