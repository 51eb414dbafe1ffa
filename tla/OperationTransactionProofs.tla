---------------------- MODULE OperationTransactionProofs ----------------------
(***************************************************************************)
(* What holds of an operation transaction for every number of paths,       *)
(* operations and workers, whatever crashes, fails or interferes.          *)
(***************************************************************************)
EXTENDS OperationTransaction, TLAPS

USE JournalAssumption, OperationAssumption DEF Path

-----------------------------------------------------------------------------
(* Type correctness, part by part.                                         *)

LEMMA RecordTypes ==
  /\ Header \in Record /\ Prepared \in Record
  /\ FinishedCommitted \in Record /\ FinishedAborted \in Record
  /\ FinishedRolledBack \in Record
  /\ \A o \in 1..Ops : Operation(o) \in Record
  /\ \A p \in Path : /\ PathIntent(p) \in Record /\ PathStaged(p) \in Record
                     /\ CommitIntent(p) \in Record /\ Committed(p) \in Record
                     /\ RollbackIntent(p) \in Record /\ RolledBack(p) \in Record
  BY DEF Record, Finished

LEMMA LogTypes ==
  ASSUME LogOK, EnvOK, NEW r \in Record, Logged(r) \/ NotLogged(r), UNCHANGED journal
  PROVE  LogOK' /\ EnvOK'
<1>1. Append(log, r) \in Seq(Record)
  BY DEF LogOK
<1>2. CASE Logged(r)
  BY <1>1, <1>2 DEF Logged, LogOK, EnvOK, Steady, env
<1>3. CASE NotLogged(r)
  <2>1. EnvOK'
    BY <1>3 DEF NotLogged, EnvOK, Steady, env, Fault
  <2>2. poisoned' \in BOOLEAN /\ log' \in Seq(Record)
    BY <1>1, <1>3 DEF NotLogged, LogOK
  <2> QED BY <2>1, <2>2 DEF LogOK
<1> QED BY <1>2, <1>3

LEMMA AppendTypes ==
  ASSUME TypeOK, NEW r \in Record, Logged(r) \/ NotLogged(r), UNCHANGED <<kind, disk, journal>>
  PROVE  DiskOK' /\ LogOK' /\ EnvOK'
  BY LogTypes DEF TypeOK, DiskOK, disk, artifacts

LEMMA SteadyTypes == ASSUME EnvOK, Steady PROVE EnvOK'
  BY DEF EnvOK, Steady, env

LEMMA FaultTypes == ASSUME EnvOK, NEW c, NEW p, Fault(c, p) PROVE EnvOK'
  BY DEF EnvOK, Fault

LEMMA StepTypes ==
  ASSUME CallOK, NEW l \in ControlPoints, NEW i \in Nat, AtFits(l, i), Step(l, i)
  PROVE  CallOK'
  BY DEF CallOK, Step, AtFits

LEMMA IdleTypes == Idle \in [Path -> JobStates]
  BY DEF Idle, JobStates

LEMMA LeaveTypes == ASSUME CallOK, NEW r \in Reports, Leave(r) PROVE CallOK'
<1>1. "down" \in ControlPoints /\ AtFits("down", 0)
  BY DEF AtFits, ControlPoints, OtherPoints, PathPoints, UnwindPoints
<1>2. <<>> \in Seq(Record)
  OBVIOUS
<1> QED BY <1>1, <1>2, IdleTypes DEF CallOK, Leave

LEMMA StillTypes == ASSUME DiskOK, LogOK, Still PROVE DiskOK' /\ LogOK'
  BY DEF DiskOK, LogOK, Still, disk, artifacts

LEMMA Points ==
  /\ \A l \in OtherPoints : l \in ControlPoints /\ \A i \in Nat : AtFits(l, i)
  /\ \A l \in PathPoints : l \in ControlPoints /\ \A i \in Path : AtFits(l, i)
  /\ \A l \in UnwindPoints : l \in ControlPoints /\ \A i \in 0..N : AtFits(l, i)
  /\ "operations" \in ControlPoints /\ \A i \in 1..Ops : AtFits("operations", i)
  BY DEF ControlPoints, AtFits, OtherPoints, PathPoints, UnwindPoints

\* One staging job, whatever it does, changes its own control point and the
\* two artifacts.
LEMMA JobTypes ==
  ASSUME CallOK, NEW p \in Path, NEW f, NEW t \in JobStates, JobStep(p, f, t)
  PROVE  CallOK'
  BY DEF CallOK, JobStep

LEMMA StageTypes == ASSUME TypeOK, NEW p \in Path, StageJob(p) PROVE TypeOK'
<1> USE DEF TypeOK
<1>1. LogOK'
  BY DEF StageJob, AdmitJob, CreateBackup, WriteBackup, CreateStage, WriteStage,
         SyncArtifacts, UndoJob, CancelJobs, JobCall, JobStep, LogOK
<1>2. CallOK'
  BY JobTypes
     DEF StageJob, AdmitJob, CreateBackup, WriteBackup, CreateStage, WriteStage,
         SyncArtifacts, UndoJob, CancelJobs, JobCall, AfterBackup, JobStates
<1>3. EnvOK'
  BY SteadyTypes, FaultTypes
     DEF StageJob, AdmitJob, CreateBackup, WriteBackup, CreateStage, WriteStage,
         SyncArtifacts, UndoJob, CancelJobs, JobCall
<1>4. UNCHANGED <<kind, slot, kept, receipt>>
  BY DEF StageJob, AdmitJob, CreateBackup, WriteBackup, CreateStage, WriteStage,
         SyncArtifacts, UndoJob, CancelJobs, JobCall, JobStep
<1>5. stage' \in [Path -> {"none", "partial", "new"}]
  BY DEF StageJob, AdmitJob, CreateBackup, WriteBackup, CreateStage, WriteStage,
         SyncArtifacts, UndoJob, CancelJobs, JobCall, Gone, DiskOK
<1>6. backup' \in [Path -> {"none", "partial", "bak"}]
  BY DEF StageJob, AdmitJob, CreateBackup, WriteBackup, CreateStage, WriteStage,
         SyncArtifacts, UndoJob, CancelJobs, JobCall, Gone, DiskOK
<1> QED BY <1>1, <1>2, <1>3, <1>4, <1>5, <1>6 DEF DiskOK

LEMMA RemoveTypes ==
  ASSUME TypeOK, NEW p \in Path, RemoveStage(p) \/ RemoveBackup(p) PROVE TypeOK'
<1> USE DEF TypeOK
<1>1. DiskOK' /\ LogOK'
  BY DEF RemoveStage, RemoveBackup, Call, Gone, DiskOK, LogOK
<1>2. EnvOK'
  BY SteadyTypes, FaultTypes DEF RemoveStage, RemoveBackup, Call
<1>3. CallOK'
  BY LeaveTypes DEF RemoveStage, RemoveBackup, Call, CallOK, call, Reports
<1> QED BY <1>1, <1>2, <1>3

LEMMA CollectTypes == ASSUME TypeOK, Collect PROVE TypeOK'
<1>1. CASE \E p \in Path : RemoveStage(p) \/ RemoveBackup(p)
  BY <1>1, RemoveTypes
<1>2. CASE /\ Quiet
           /\ Step("fail_prepare", 0) \/ Leave("recovery_required")
  BY <1>2, StillTypes, SteadyTypes, StepTypes, LeaveTypes, Points
     DEF Quiet, OtherPoints, Reports, TypeOK
<1> QED BY <1>1, <1>2 DEF Collect

LEMMA PrepareTypes == ASSUME TypeOK, Prepare PROVE TypeOK'
<1> USE DEF TypeOK
<1>1. CASE CreateJournal
  <2>1. DiskOK' /\ LogOK'
    BY <1>1 DEF CreateJournal, DiskOK, LogOK, disk, artifacts
  <2>2. CallOK' /\ EnvOK'
    BY <1>1, SteadyTypes, FaultTypes, StepTypes, LeaveTypes, Points
       DEF CreateJournal, OtherPoints, Reports
  <2> QED BY <2>1, <2>2
<1>2. CASE WriteHeader
  BY <1>2, LogTypes, StepTypes, LeaveTypes, Points, RecordTypes
     DEF WriteHeader, Log, DiskOK, disk, artifacts, Reports
<1>3. CASE WriteOperation
  <2>1. at \in 1..Ops
    BY <1>3 DEF WriteOperation, CallOK, AtFits
  <2>2. DiskOK' /\ LogOK' /\ EnvOK'
    BY <1>3, <2>1, AppendTypes, RecordTypes DEF WriteOperation, Log
  <2>3. CallOK'
    <3>1. CASE Step("operations", at + 1) /\ at < Ops
      BY <2>1, <3>1, StepTypes, Points
    <3>2. CASE Step("intents", 1)
      BY <3>2, StepTypes, Points DEF PathPoints
    <3>3. CASE Step("fail_prepare", 0)
      BY <3>3, StepTypes, Points DEF OtherPoints
    <3> QED BY <1>3, <3>1, <3>2, <3>3 DEF WriteOperation, Log, Then
  <2> QED BY <2>2, <2>3
<1>4. CASE WritePathIntent
  <2>1. at \in Path
    BY <1>4 DEF WritePathIntent, CallOK, AtFits, PathPoints
  <2>2. DiskOK' /\ LogOK' /\ EnvOK'
    BY <1>4, <2>1, AppendTypes, RecordTypes DEF WritePathIntent, Log
  <2>3. CallOK'
    <3>1. CASE Step("intents", at + 1) /\ at < N
      BY <2>1, <3>1, StepTypes, Points DEF PathPoints
    <3>2. CASE Step("staging", 0) \/ Step("fail_prepare", 0)
      BY <3>2, StepTypes, Points DEF OtherPoints
    <3> QED BY <1>4, <3>1, <3>2 DEF WritePathIntent, Log, Then
  <2> QED BY <2>2, <2>3
<1>5. ASSUME NEW p \in Path, StageJob(p) PROVE TypeOK'
  BY <1>5, StageTypes
<1>6. CASE Join
  BY <1>6, StillTypes, SteadyTypes, StepTypes, Points
     DEF Join, Quiet, OtherPoints, PathPoints
<1>7. CASE Collect
  BY <1>7, CollectTypes
<1>8. CASE FailPrepare
  BY <1>8, LogTypes, StepTypes, LeaveTypes, Points, RecordTypes
     DEF FailPrepare, Log, DiskOK, disk, artifacts, Reports, OtherPoints
<1>9. CASE WritePathStaged
  <2>1. at \in Path
    BY <1>9 DEF WritePathStaged, CallOK, AtFits, PathPoints
  <2>2. DiskOK' /\ LogOK' /\ EnvOK'
    BY <1>9, <2>1, AppendTypes, RecordTypes DEF WritePathStaged, Log
  <2>3. CallOK'
    <3>1. CASE Step("staged", at + 1) /\ at < N
      BY <2>1, <3>1, StepTypes, Points DEF PathPoints
    <3>2. CASE Step("prepare", 0) \/ Leave("recovery_required")
      BY <3>2, StepTypes, LeaveTypes, Points DEF OtherPoints, Reports
    <3> QED BY <1>9, <3>1, <3>2 DEF WritePathStaged, Log, Then
  <2> QED BY <2>2, <2>3
<1>10. CASE WritePrepared
  BY <1>10, LogTypes, StepTypes, LeaveTypes, Points, RecordTypes
     DEF WritePrepared, Log, DiskOK, disk, artifacts, Reports, OtherPoints
<1> QED
  BY <1>1, <1>2, <1>3, <1>4, <1>5, <1>6, <1>7, <1>8, <1>9, <1>10 DEF Prepare

-----------------------------------------------------------------------------
(* The steps of a commit.                                                  *)

LEMMA PathIndex ==
  /\ CallOK /\ pc \in PathPoints => at \in Path
  /\ CallOK /\ pc \in UnwindPoints => at \in 0..N
  BY DEF CallOK, AtFits

LEMMA UnwindTypes ==
  ASSUME CallOK, NEW k \in 0..N, Unwind(k) PROVE CallOK'
  BY StepTypes, Points DEF Unwind, UnwindPoints

LEMMA QuietTypes ==
  ASSUME TypeOK, Quiet PROVE DiskOK' /\ LogOK' /\ EnvOK'
  BY StillTypes, SteadyTypes DEF Quiet, TypeOK

\* One failing system call that changes one target or artifact.
LEMMA ChangeTypes ==
  ASSUME TypeOK, NEW p \in Path, NEW file \in {"none", "new", "bak"},
         \/ slot' = slot \/ Becomes(p, file),
         \/ stage' = stage \/ Gone(stage, p),
         \/ backup' = backup \/ Gone(backup, p),
         UNCHANGED <<kind, kept, receipt, journal, log, poisoned>>
  PROVE  DiskOK' /\ LogOK'
<1>1. LogOK'
  BY DEF TypeOK, LogOK
<1>2. /\ slot \in [Path -> {"none", "old", "new", "bak", "ext"}]
      /\ stage \in [Path -> {"none", "partial", "new"}]
      /\ backup \in [Path -> {"none", "partial", "bak"}]
  BY DEF TypeOK, DiskOK
<1>3. slot' \in [Path -> {"none", "old", "new", "bak", "ext"}]
  BY <1>2 DEF Becomes
<1>4. /\ stage' \in [Path -> {"none", "partial", "new"}]
      /\ backup' \in [Path -> {"none", "partial", "bak"}]
  BY <1>2 DEF Gone
<1> QED
  BY <1>1, <1>3, <1>4 DEF TypeOK, DiskOK

LEMMA DecideTypes ==
  ASSUME TypeOK, Commit \/ Abort \/ Drop \/ FinishUnchanged \/ VerifyAll
  PROVE  TypeOK'
<1> USE DEF TypeOK
<1>1. CASE Commit
  <2>1. pc' \in ControlPoints /\ at' = 0 /\ AtFits(pc', at')
    BY <1>1, Points DEF Commit, OtherPoints
  <2>2. CallOK'
    BY <1>1, <2>1 DEF Commit, CallOK
  <2> QED BY <1>1, <2>2, QuietTypes DEF Commit
<1>2. CASE Abort \/ Drop
  BY <1>2, QuietTypes, StepTypes, LeaveTypes, Points
     DEF Abort, Drop, Refuse, OtherPoints, Reports
<1>3. CASE FinishUnchanged
  BY <1>3, AppendTypes, RecordTypes, StepTypes, LeaveTypes, Points
     DEF FinishUnchanged, Log, OtherPoints, Reports
<1>4. CASE VerifyAll
  <2>1. CallOK'
    BY <1>4, StepTypes, Points DEF VerifyAll, OtherPoints, PathPoints
  <2>2. EnvOK'
    BY <1>4, SteadyTypes, FaultTypes DEF VerifyAll
  <2> QED BY <1>4, <2>1, <2>2, StillTypes DEF VerifyAll
<1> QED BY <1>1, <1>2, <1>3, <1>4

LEMMA ReceiptTypes ==
  ASSUME TypeOK,
         \/ StoreFull \/ CreateReceipt \/ WriteReceipt \/ DiscardReceipt
         \/ SyncReceipt \/ DropReceipt
  PROVE  TypeOK'
<1> USE DEF TypeOK
<1>1. LogOK'
  BY QuietTypes
     DEF StoreFull, CreateReceipt, WriteReceipt, DiscardReceipt, SyncReceipt, DropReceipt,
         ReceiptStep, LogOK
<1>2. DiskOK'
  BY QuietTypes
     DEF StoreFull, CreateReceipt, WriteReceipt, DiscardReceipt, SyncReceipt, DropReceipt,
         ReceiptStep, Call, DiskOK
<1>3. EnvOK'
  BY QuietTypes, SteadyTypes, FaultTypes
     DEF StoreFull, CreateReceipt, WriteReceipt, DiscardReceipt, SyncReceipt, DropReceipt,
         ReceiptStep, Call
<1>4. CallOK'
  <2>1. CASE DropReceipt
    <3>1. at \in 0..N
      BY <2>1, PathIndex DEF DropReceipt, UnwindPoints
    <3> QED BY <2>1, <3>1, StepTypes, LeaveTypes, Points
               DEF DropReceipt, Call, UnwindPoints, Reports
  <2>2. CASE StoreFull \/ CreateReceipt
    BY <2>2, StepTypes, Points DEF StoreFull, CreateReceipt, OtherPoints
  <2>3. CASE WriteReceipt \/ DiscardReceipt \/ SyncReceipt
    BY <2>3, StepTypes, Points
       DEF WriteReceipt, DiscardReceipt, SyncReceipt, ReceiptStep, Call, OtherPoints, PathPoints
  <2> QED BY <2>1, <2>2, <2>3
<1> QED BY <1>1, <1>2, <1>3, <1>4

LEMMA MutateTypes ==
  ASSUME TypeOK,
         \/ LinkStage \/ UnlinkStage \/ ReplaceTarget \/ RemoveSource \/ SyncParent
  PROVE  TypeOK'
<1> USE DEF TypeOK
<1>1. at \in Path
  BY PathIndex
     DEF LinkStage, UnlinkStage, ReplaceTarget, RemoveSource, SyncParent, PathPoints
<1>2. DiskOK' /\ LogOK'
  BY <1>1, ChangeTypes, StillTypes
     DEF LinkStage, UnlinkStage, ReplaceTarget, RemoveSource, SyncParent, MutateStep, Unsuited,
         Call, Quiet
<1>3. EnvOK'
  BY SteadyTypes, FaultTypes
     DEF LinkStage, UnlinkStage, ReplaceTarget, RemoveSource, SyncParent, MutateStep, Unsuited,
         Call, Quiet
<1>4. CallOK'
  BY <1>1, StepTypes, Points
     DEF LinkStage, UnlinkStage, ReplaceTarget, RemoveSource, SyncParent, MutateStep, Unsuited,
         Call, PathPoints
<1> QED BY <1>2, <1>3, <1>4

LEMMA CommitPathTypes ==
  ASSUME TypeOK, Check \/ Intend \/ Classify \/ CompletePath \/ FinishCommit
  PROVE  TypeOK'
<1> USE DEF TypeOK
<1>1. at \in Path \/ FinishCommit
  BY PathIndex DEF Check, Intend, Classify, CompletePath, PathPoints
<1>2. at \in Path => at \in 0..N /\ at - 1 \in 0..N /\ (at < N => at + 1 \in Path)
  OBVIOUS
<1>3. CASE Check
  <2>1. CallOK'
    BY <1>1, <1>2, <1>3, StepTypes, UnwindTypes, Points DEF Check, FinishCommit, PathPoints
  <2>2. EnvOK'
    BY <1>3, SteadyTypes, FaultTypes DEF Check
  <2> QED BY <1>3, <2>1, <2>2, StillTypes DEF Check
<1>4. CASE Intend
  BY <1>1, <1>2, <1>4, AppendTypes, RecordTypes, StepTypes, UnwindTypes, Points
     DEF Intend, FinishCommit, Log, PathPoints
<1>5. CASE Classify
  <2>1. DiskOK' /\ LogOK'
    BY <1>1, <1>5, StillTypes DEF Classify
  <2>2. CallOK'
    BY <1>1, <1>2, <1>5, LeaveTypes, UnwindTypes DEF Classify, FinishCommit, Reports
  <2>3. EnvOK'
    BY <1>1, <1>5, SteadyTypes, FaultTypes DEF Classify
  <2> QED BY <2>1, <2>2, <2>3 DEF TypeOK
<1>6. CASE CompletePath
  <2>1. DiskOK' /\ LogOK' /\ EnvOK'
    BY <1>1, <1>6, AppendTypes, RecordTypes DEF CompletePath, FinishCommit, Log
  <2>2. CallOK'
    BY <1>1, <1>2, <1>6, StepTypes, UnwindTypes, Points
       DEF CompletePath, FinishCommit, Log, PathPoints, OtherPoints
  <2> QED BY <2>1, <2>2
<1>7. CASE FinishCommit
  BY <1>7, AppendTypes, RecordTypes, StepTypes, LeaveTypes, Points
     DEF FinishCommit, Log, OtherPoints, Reports
<1> QED BY <1>3, <1>4, <1>5, <1>6, <1>7

LEMMA RestoreTypes ==
  ASSUME TypeOK, NEW l \in PathPoints, NEW r \in Reports, at \in Path,
         RemoveCreated(l, r) \/ RenameBackup(l) \/ LinkBackup(l) \/ UnlinkBackup(l, r)
  PROVE  TypeOK'
<1> USE DEF TypeOK
<1>1. DiskOK' /\ LogOK'
  BY ChangeTypes, StillTypes
     DEF RemoveCreated, RenameBackup, LinkBackup, UnlinkBackup, RestoreStep, Call, Refuse, Quiet
<1>2. EnvOK'
  BY SteadyTypes, FaultTypes
     DEF RemoveCreated, RenameBackup, LinkBackup, UnlinkBackup, RestoreStep, Call, Refuse, Quiet
<1>3. CallOK'
  BY StepTypes, LeaveTypes, Points
     DEF RemoveCreated, RenameBackup, LinkBackup, UnlinkBackup, RestoreStep, Call, Refuse, Reports
<1> QED BY <1>1, <1>2, <1>3

LEMMA RollbackTypes ==
  ASSUME TypeOK,
         \/ IntendRollback \/ FinishRollback \/ Restore \/ FinishRestore
         \/ VerifyRestored \/ CompleteRollback
  PROVE  TypeOK'
<1> USE DEF TypeOK
<1>1. CASE IntendRollback
  <2>1. at \in Path
    BY <1>1, PathIndex DEF IntendRollback, UnwindPoints
  <2> QED BY <1>1, <2>1, AppendTypes, RecordTypes, StepTypes, LeaveTypes, Points
             DEF IntendRollback, Log, PathPoints, Reports
<1>2. CASE FinishRollback
  BY <1>2, AppendTypes, RecordTypes, StepTypes, LeaveTypes, Points
     DEF FinishRollback, Log, OtherPoints, Reports
<1>3. CASE Restore \/ FinishRestore
  <2>1. at \in Path
    BY <1>3, PathIndex DEF Restore, FinishRestore, PathPoints
  <2> QED BY <1>3, <2>1, RestoreTypes, QuietTypes, LeaveTypes
             DEF Restore, FinishRestore, Refuse, PathPoints, Reports
<1>4. CASE VerifyRestored
  <2>1. at \in Path
    BY <1>4, PathIndex DEF VerifyRestored, PathPoints
  <2> QED BY <1>4, <2>1, QuietTypes, StepTypes, LeaveTypes, Points
             DEF VerifyRestored, PathPoints, Reports
<1>5. CASE CompleteRollback
  <2>1. at \in Path /\ at - 1 \in 0..N
    BY <1>5, PathIndex DEF CompleteRollback, PathPoints
  <2> QED BY <1>5, <2>1, AppendTypes, RecordTypes, StepTypes, LeaveTypes, Points
             DEF CompleteRollback, Log, UnwindPoints, Reports
<1> QED BY <1>1, <1>2, <1>3, <1>4, <1>5

LEMMA CommitTypes == ASSUME TypeOK, CommitSteps PROVE TypeOK'
  BY DecideTypes, ReceiptTypes, MutateTypes, CommitPathTypes, RollbackTypes DEF CommitSteps

-----------------------------------------------------------------------------
(* Cleanup, recovery, and what the engine does not do itself.              *)

LEMMA CleanupTypes == ASSUME TypeOK, Cleanup PROVE TypeOK'
<1> USE DEF TypeOK
<1>1. CASE Clean
  <2>1. CASE \E p \in Path : RemoveStage(p) \/ RemoveBackup(p)
    BY <2>1, RemoveTypes
  <2>2. CASE /\ Quiet
             /\ \E l \in {"keep", "drop_transitional", "remove_journal"} : Step(l, 0)
    BY <2>2, QuietTypes, StepTypes, Points DEF OtherPoints
  <2> QED BY <1>1, <2>1, <2>2 DEF Clean
<1>2. CASE RetainBackup
  <2>1. DiskOK' /\ LogOK'
    BY <1>2 DEF RetainBackup, Call, Gone, DiskOK, LogOK
  <2>2. EnvOK'
    BY <1>2, SteadyTypes, FaultTypes DEF RetainBackup, Call
  <2>3. CallOK'
    BY <1>2, LeaveTypes DEF RetainBackup, Call, CallOK, call, Reports
  <2> QED BY <2>1, <2>2, <2>3
<1>3. CASE AllRetained
  BY <1>3, QuietTypes, StepTypes, Points DEF AllRetained, OtherPoints
<1>4. CASE DropTransitional
  <2>1. DiskOK' /\ LogOK'
    BY <1>4 DEF DropTransitional, Call, DiskOK, LogOK
  <2>2. EnvOK'
    BY <1>4, SteadyTypes, FaultTypes DEF DropTransitional, Call
  <2>3. CallOK'
    BY <1>4, StepTypes, LeaveTypes, Points DEF DropTransitional, Call, OtherPoints, Reports
  <2> QED BY <2>1, <2>2, <2>3
<1>5. CASE RemoveJournal
  <2>1. DiskOK'
    BY <1>5 DEF RemoveJournal, DiskOK, disk, artifacts
  <2>2. <<>> \in Seq(Record)
    OBVIOUS
  <2>3. LogOK'
    BY <1>5, <2>2 DEF RemoveJournal, Call, LogOK
  <2>4. EnvOK'
    BY <1>5, SteadyTypes, FaultTypes DEF RemoveJournal, Call
  <2>5. CallOK'
    BY <1>5, LeaveTypes DEF RemoveJournal, Call, Resolution, Reports
  <2> QED BY <2>1, <2>3, <2>4, <2>5
<1> QED BY <1>1, <1>2, <1>3, <1>4, <1>5 DEF Cleanup

LEMMA OpenTypes == ASSUME TypeOK, Open \/ OpenFails PROVE TypeOK'
<1> USE DEF TypeOK
<1>1. CASE Open
  <2>1. DiskOK' /\ LogOK' /\ EnvOK'
    BY <1>1, SteadyTypes DEF Open, DiskOK, LogOK, disk, artifacts
  <2>2. CASE /\ parsed' = log /\ pc' = "recover" /\ at' = 0
             /\ UNCHANGED <<job, retain, report>>
    <3>1. pc' \in ControlPoints /\ AtFits(pc', at')
      BY <2>2, Points DEF OtherPoints
    <3> QED BY <2>1, <2>2, <3>1 DEF CallOK, LogOK
  <2>3. CASE Step("remove_journal", 0) \/ Leave("corrupt")
    BY <2>1, <2>3, StepTypes, LeaveTypes, Points DEF OtherPoints, Reports
  <2> QED BY <1>1, <2>2, <2>3 DEF Open
<1>2. CASE OpenFails
  BY <1>2, StillTypes, FaultTypes, LeaveTypes DEF OpenFails, Reports
<1> QED BY <1>1, <1>2

LEMMA JudgeTypes ==
  ASSUME TypeOK,
         \/ RecoverFinished \/ RecoverUncommitted \/ RecoverChanged \/ ResumeRestore
         \/ SkipPath \/ RefusePath \/ RecoverVerify \/ ReadReceipt
  PROVE  TypeOK'
<1> USE DEF TypeOK
<1>1. Quiet
  BY DEF RecoverFinished, RecoverUncommitted, RecoverChanged, ResumeRestore, SkipPath,
         RefusePath, RecoverVerify, ReadReceipt, Refuse
<1>2. CASE ResumeRestore \/ SkipPath \/ RecoverVerify
  <2>1. at \in Path /\ at - 1 \in 0..N
    BY <1>2, PathIndex
       DEF ResumeRestore, SkipPath, RecoverVerify, AtPath, PathPoints, UnwindPoints
  <2> QED BY <1>1, <1>2, <2>1, QuietTypes, StepTypes, LeaveTypes, Points
             DEF ResumeRestore, SkipPath, RecoverVerify, PathPoints, UnwindPoints, Reports
<1>3. CASE RecoverFinished \/ RecoverUncommitted \/ RefusePath \/ ReadReceipt
  <2>1. CallOK'
    BY <1>3, StepTypes, LeaveTypes, Points
       DEF RecoverFinished, RecoverUncommitted, RefusePath, ReadReceipt, Refuse,
           OtherPoints, Reports
  <2> QED BY <1>1, <2>1, QuietTypes
<1>4. CASE RecoverChanged
  BY <1>1, <1>4, QuietTypes, StepTypes, Points DEF RecoverChanged, UnwindPoints
<1> QED BY <1>2, <1>3, <1>4

LEMMA AnnounceTypes ==
  ASSUME TypeOK, at \in Path, NEW l \in PathPoints, Announce(l) PROVE TypeOK'
  BY QuietTypes, AppendTypes, RecordTypes, StepTypes, LeaveTypes, Points
     DEF Announce, Log, Reports, TypeOK

LEMMA RecoverTypes == ASSUME TypeOK, Recover PROVE TypeOK'
<1> USE DEF TypeOK
<1>1. CASE RecordAbort \/ RecordRollback
  BY <1>1, AppendTypes, RecordTypes, StepTypes, LeaveTypes, Points
     DEF RecordAbort, RecordRollback, Log, OtherPoints, Reports
<1>2. CASE AttestPath \/ RollbackPath
  <2>1. at \in Path
    BY <1>2, PathIndex DEF AttestPath, RollbackPath, AtPath, UnwindPoints
  <2> QED BY <1>2, <2>1, AnnounceTypes DEF AttestPath, RollbackPath, PathPoints
<1>3. CASE RecoverRestore \/ RecoverUnlink
  <2>1. at \in Path
    BY <1>3, PathIndex DEF RecoverRestore, RecoverUnlink, PathPoints
  <2> QED BY <1>3, <2>1, RestoreTypes, QuietTypes, LeaveTypes
             DEF RecoverRestore, RecoverUnlink, Refuse, PathPoints, Reports
<1>4. CASE RecordPath
  <2>1. at \in Path /\ at - 1 \in 0..N
    BY <1>4, PathIndex DEF RecordPath, PathPoints
  <2> QED BY <1>4, <2>1, AppendTypes, RecordTypes, StepTypes, LeaveTypes, Points
             DEF RecordPath, Log, UnwindPoints, Reports
<1> QED BY <1>1, <1>2, <1>3, <1>4, OpenTypes, JudgeTypes DEF Recover

LEMMA CrashTypes == ASSUME TypeOK, Crash PROVE TypeOK'
  BY StillTypes, LeaveTypes DEF Crash, TypeOK, EnvOK, Reports

LEMMA ForeignTypes == ASSUME TypeOK, NEW p \in Path, Foreign(p) PROVE TypeOK'
<1>1. DiskOK' /\ LogOK'
  BY DEF Foreign, Becomes, artifacts, TypeOK, DiskOK, LogOK
<1>2. CallOK' /\ EnvOK'
  BY DEF Foreign, call, TypeOK, CallOK, EnvOK
<1> QED BY <1>1, <1>2 DEF TypeOK

LEMMA InitTypes == Init => TypeOK
<1> SUFFICES ASSUME Init PROVE TypeOK
  OBVIOUS
<1>1. DiskOK
  BY DEF Init, DiskOK, Before, Kinds
<1>2. <<>> \in Seq(Record)
  OBVIOUS
<1>3. LogOK
  BY <1>2 DEF Init, LogOK
<1>4. EnvOK
  <2>1. /\ crashes = 0 /\ faults = 0 /\ foreign = 0
        /\ MaxCrashes \in Nat /\ MaxFaults \in Nat /\ MaxForeign \in Nat
    BY DEF Init
  <2> QED BY <2>1 DEF EnvOK
<1>5. CallOK
  BY <1>2, IdleTypes, Points DEF Init, CallOK, OtherPoints, Reports
<1> QED BY <1>1, <1>3, <1>4, <1>5 DEF TypeOK

\* Every variable keeps its type and every path index stays a path of the
\* plan: no step of a commit, a rollback or a recovery runs off the plan.
THEOREM TransactionTypeOK == Spec => []TypeOK
<1>1. TypeOK /\ [Next]_vars => TypeOK'
  <2> SUFFICES ASSUME TypeOK, [Next]_vars PROVE TypeOK'
    OBVIOUS
  <2>1. CASE Process
    BY <2>1, PrepareTypes, CommitTypes, CleanupTypes, RecoverTypes DEF Process
  <2>2. CASE UNCHANGED vars
    BY <2>2 DEF vars, disk, artifacts, call, env, TypeOK, DiskOK, LogOK, CallOK, EnvOK
  <2> QED BY <2>1, <2>2, CrashTypes, ForeignTypes DEF Next, Resolved
<1> QED BY <1>1, InitTypes, PTL DEF Spec
=============================================================================
