------------------------ MODULE OperationSafetyProofs ------------------------
(***************************************************************************)
(* What no step of an operation transaction may ever do, for every number  *)
(* of paths, operations and workers, whatever crashes, fails or            *)
(* interferes; what its journal and its backups can be relied on for; that *)
(* it implements AtomicApply; what a recovery can read and explain; and    *)
(* what a transaction leaves behind.                                       *)
(***************************************************************************)
EXTENDS OperationTransactionProofs

USE JournalAssumption, OperationAssumption DEF Path

-----------------------------------------------------------------------------
(* Which steps write to a target.                                          *)

LEMMA PrepareSlots == ASSUME Prepare PROVE UNCHANGED slot
<1>1. ASSUME NEW p \in Path, StageJob(p) PROVE UNCHANGED slot
  BY <1>1
     DEF StageJob, AdmitJob, CreateBackup, WriteBackup, CreateStage, WriteStage,
         SyncArtifacts, UndoJob, CancelJobs, JobCall, JobStep
<1>2. CASE Join \/ Collect
  BY <1>2 DEF Join, Collect, RemoveStage, RemoveBackup, Quiet, Still, disk
<1>3. CASE \/ CreateJournal \/ WriteHeader \/ WriteOperation \/ WritePathIntent
           \/ FailPrepare \/ WritePathStaged \/ WritePrepared
  BY <1>3
     DEF CreateJournal, WriteHeader, WriteOperation, WritePathIntent, FailPrepare,
         WritePathStaged, WritePrepared, Log, disk
<1> QED BY <1>1, <1>2, <1>3 DEF Prepare

LEMMA CommitSlots ==
  ASSUME CommitSteps
  PROVE  UNCHANGED slot \/ LinkStage \/ ReplaceTarget \/ RemoveSource \/ Restore
<1>1. CASE \/ Commit \/ Abort \/ Drop \/ VerifyAll \/ StoreFull \/ Check \/ SyncParent
           \/ Classify \/ VerifyRestored
  BY <1>1
     DEF Commit, Abort, Drop, VerifyAll, StoreFull, Check, SyncParent, Classify,
         VerifyRestored, Refuse, Quiet, Still, disk
<1>2. CASE \/ FinishUnchanged \/ Intend \/ CompletePath \/ FinishCommit \/ IntendRollback
           \/ FinishRollback \/ CompleteRollback
  BY <1>2
     DEF FinishUnchanged, Intend, CompletePath, FinishCommit, IntendRollback, FinishRollback,
         CompleteRollback, Log, disk
<1>3. CASE CreateReceipt \/ WriteReceipt \/ DiscardReceipt \/ SyncReceipt \/ DropReceipt
  BY <1>3 DEF CreateReceipt, WriteReceipt, DiscardReceipt, SyncReceipt, DropReceipt, ReceiptStep
<1>4. CASE UnlinkStage \/ FinishRestore
  BY <1>4
     DEF UnlinkStage, FinishRestore, UnlinkBackup, Unsuited, Refuse, Quiet, Still, disk
<1> QED BY <1>1, <1>2, <1>3, <1>4 DEF CommitSteps

LEMMA CleanupSlots == ASSUME Cleanup PROVE UNCHANGED slot
  BY DEF Cleanup, Clean, RetainBackup, AllRetained, DropTransitional, RemoveJournal,
         RemoveStage, RemoveBackup, Quiet, Still, disk

LEMMA RecoverSlots == ASSUME Recover PROVE UNCHANGED slot \/ RecoverRestore
<1>1. CASE \/ Open \/ OpenFails \/ RecoverFinished \/ RecoverUncommitted \/ RecoverChanged
           \/ ResumeRestore \/ SkipPath \/ RefusePath \/ RecoverVerify \/ ReadReceipt
  BY <1>1
     DEF Open, OpenFails, RecoverFinished, RecoverUncommitted, RecoverChanged, ResumeRestore,
         SkipPath, RefusePath, RecoverVerify, ReadReceipt, Refuse, Quiet, Still, disk
<1>2. CASE RecordAbort \/ AttestPath \/ RollbackPath \/ RecordRollback \/ RecordPath
  BY <1>2
     DEF RecordAbort, AttestPath, RollbackPath, RecordRollback, RecordPath, Announce, Log,
         Quiet, Still, disk
<1>3. CASE RecoverUnlink
  BY <1>3 DEF RecoverUnlink, UnlinkBackup, Refuse, Quiet, Still, disk
<1> QED BY <1>1, <1>2, <1>3 DEF Recover

LEMMA SlotSteps ==
  ASSUME TypeOK, [Next]_vars, Ours
  PROVE  \/ UNCHANGED slot
         \/ LinkStage \/ ReplaceTarget \/ RemoveSource \/ Restore \/ RecoverRestore
<1>1. CASE Process
  BY <1>1, PrepareSlots, CommitSlots, CleanupSlots, RecoverSlots DEF Process
<1>2. CASE Crash
  BY <1>2 DEF Crash, Still, disk
<1>3. ASSUME NEW p \in Path, Foreign(p), TypeOK PROVE FALSE
  BY <1>3 DEF Foreign, Ours, TypeOK, EnvOK
<1>4. CASE Resolved \/ UNCHANGED vars
  BY <1>4 DEF Resolved, vars, disk
<1> QED BY <1>1, <1>2, <1>3, <1>4 DEF Next

-----------------------------------------------------------------------------
(* A file that somebody else put in the place of a target.  The renames    *)
(* over a modified target are the only steps that do not look at what they *)
(* replace, so between the last look and the rename nothing else may be    *)
(* there.                                                                  *)

LookedAt ==
  kind[at] = "modify" =>
    /\ pc \in {"intent", "mutate"} => slot[at] = "old"
    /\ pc = "recover_restore" => slot[at] = "new"

LookPoints == {"intent", "mutate", "recover_restore"}

LEMMA PrepareLooks == ASSUME Prepare PROVE pc' \notin LookPoints
<1>1. ASSUME NEW p \in Path, StageJob(p) PROVE pc' = "staging"
  BY <1>1
     DEF StageJob, AdmitJob, CreateBackup, WriteBackup, CreateStage, WriteStage,
         SyncArtifacts, UndoJob, CancelJobs, JobCall, JobStep
<1>2. CASE Join \/ Collect
  BY <1>2 DEF Join, Collect, RemoveStage, RemoveBackup, Call, call, Step, Leave, LookPoints
<1>3. CASE \/ CreateJournal \/ WriteHeader \/ WriteOperation \/ WritePathIntent
           \/ FailPrepare \/ WritePathStaged \/ WritePrepared
  BY <1>3
     DEF CreateJournal, WriteHeader, WriteOperation, WritePathIntent, FailPrepare,
         WritePathStaged, WritePrepared, Log, Then, Step, Leave, LookPoints
<1> QED BY <1>1, <1>2, <1>3 DEF Prepare, LookPoints

LEMMA CommitLooks ==
  ASSUME CommitSteps PROVE pc' \notin LookPoints \/ Check \/ Intend
<1>1. CASE \/ Commit \/ Abort \/ Drop \/ VerifyAll \/ StoreFull \/ SyncParent
           \/ Classify \/ VerifyRestored
  BY <1>1
     DEF Commit, Abort, Drop, VerifyAll, StoreFull, SyncParent, Classify,
         VerifyRestored, Refuse, Call, Unwind, Step, Leave, LookPoints
<1>2. CASE \/ FinishUnchanged \/ CompletePath \/ FinishCommit \/ IntendRollback
           \/ FinishRollback \/ CompleteRollback
  BY <1>2
     DEF FinishUnchanged, CompletePath, FinishCommit, IntendRollback, FinishRollback,
         CompleteRollback, Log, Unwind, Step, Leave, LookPoints
<1>3. CASE CreateReceipt \/ WriteReceipt \/ DiscardReceipt \/ SyncReceipt \/ DropReceipt
  BY <1>3
     DEF CreateReceipt, WriteReceipt, DiscardReceipt, SyncReceipt, DropReceipt, ReceiptStep,
         Call, Step, Leave, LookPoints
<1>4. CASE LinkStage \/ UnlinkStage \/ ReplaceTarget \/ RemoveSource
  BY <1>4
     DEF LinkStage, UnlinkStage, ReplaceTarget, RemoveSource, MutateStep, Unsuited, Call, Step,
         LookPoints
<1>5. CASE Restore \/ FinishRestore
  BY <1>5
     DEF Restore, FinishRestore, RemoveCreated, RenameBackup, LinkBackup, UnlinkBackup,
         RestoreStep, Refuse, Call, Step, Leave, LookPoints
<1> QED BY <1>1, <1>2, <1>3, <1>4, <1>5 DEF CommitSteps

LEMMA CleanupLooks == ASSUME Cleanup PROVE pc' \notin LookPoints
  BY DEF Cleanup, Clean, RetainBackup, AllRetained, DropTransitional, RemoveJournal,
         RemoveStage, RemoveBackup, Call, call, Step, Leave, LookPoints

LEMMA RecoverLooks == ASSUME Recover PROVE pc' \notin LookPoints \/ RollbackPath
<1>1. CASE \/ Open \/ OpenFails \/ RecoverFinished \/ RecoverUncommitted \/ RecoverChanged
           \/ ResumeRestore \/ SkipPath \/ RefusePath \/ RecoverVerify \/ ReadReceipt
  BY <1>1
     DEF Open, OpenFails, RecoverFinished, RecoverUncommitted, RecoverChanged, ResumeRestore,
         SkipPath, RefusePath, RecoverVerify, ReadReceipt, Refuse, Step, Leave, LookPoints
<1>2. CASE RecordAbort \/ AttestPath \/ RecordRollback \/ RecordPath
  BY <1>2
     DEF RecordAbort, AttestPath, RecordRollback, RecordPath, Announce, Log, Step, Leave,
         LookPoints
<1>3. CASE RecoverRestore \/ RecoverUnlink
  BY <1>3
     DEF RecoverRestore, RecoverUnlink, RemoveCreated, RenameBackup, LinkBackup, UnlinkBackup,
         RestoreStep, Refuse, Call, Step, Leave, LookPoints
<1> QED BY <1>1, <1>2, <1>3 DEF Recover

LEMMA LookedAtHolds == Spec => [](TypeOK /\ LookedAt)
<1>1. Init => LookedAt
  BY DEF Init, LookedAt
<1>2. TypeOK /\ LookedAt /\ [Next]_vars => LookedAt'
  <2> SUFFICES ASSUME TypeOK, LookedAt, [Next]_vars, pc' \in LookPoints PROVE LookedAt'
    BY DEF LookedAt, LookPoints
  <2>1. CASE Check
    <3>1. slot[at] = Before(at) /\ Step("intent", at) /\ Still
      BY <2>1 DEF Check, Unwind, Step, LookPoints
    <3> QED BY <3>1 DEF LookedAt, Before, Step, Still, disk
  <2>2. CASE Intend
    <3>1. pc = "intent" /\ Step("mutate", at) /\ UNCHANGED <<kind, slot>>
      BY <2>2 DEF Intend, Log, Unwind, Step, LookPoints, disk
    <3> QED BY <3>1 DEF LookedAt, Step
  <2>3. CASE RollbackPath
    <3>1. /\ HalfCreated \/ MatchesAfter(at)
          /\ Step("recover_restore", at) /\ UNCHANGED <<kind, slot>>
      BY <2>3
         DEF RollbackPath, Announce, Log, Step, Leave, LookPoints, Quiet, Still, disk
    <3> QED BY <3>1 DEF LookedAt, HalfCreated, MatchesAfter, After, Step
  <2>4. CASE Crash
    BY <2>4 DEF Crash, Leave, LookPoints
  <2>5. ASSUME NEW p \in Path, Foreign(p) PROVE LookedAt'
    <3>1. /\ UNCHANGED <<kind, pc, at>>
          /\ kind[at] = "modify" => p # at
          /\ \E file : slot' = [slot EXCEPT ![p] = file]
      BY <2>5 DEF Foreign, RaceWindow, Becomes, call, LookPoints
    <3> QED BY <3>1 DEF LookedAt, TypeOK, DiskOK
  <2>6. CASE Resolved \/ UNCHANGED vars
    BY <2>6 DEF Resolved, LookedAt, vars, disk, call
  <2>7. CASE Process
    BY <2>1, <2>2, <2>3, <2>7, PrepareLooks, CommitLooks, CleanupLooks, RecoverLooks
       DEF Process
  <2> QED BY <2>4, <2>5, <2>6, <2>7 DEF Next
<1> QED BY <1>1, <1>2, TransactionTypeOK, PTL DEF Spec

\* A file that another program put in the place of a target is never replaced
\* and never deleted, by a commit, a rollback or a recovery of any process.
THEOREM ForeignFilesSurvive == Spec => ForeignPreserved
<1>1. TypeOK /\ LookedAt /\ [Next]_vars =>
        [\A p \in Path : slot[p] = "ext" /\ Ours => slot'[p] = "ext"]_vars
  <2> SUFFICES ASSUME TypeOK, LookedAt, [Next]_vars, Ours, NEW p \in Path, slot[p] = "ext"
               PROVE  slot'[p] = "ext"
    OBVIOUS
  <2>1. CASE LinkStage \/ ReplaceTarget \/ RemoveSource
    <3>1. slot' = slot \/ (slot[at] # "ext" /\ \E file : Becomes(at, file))
      BY <2>1
         DEF LinkStage, ReplaceTarget, RemoveSource, MutateStep, Unsuited, Call, Quiet, Still,
             disk, LookedAt, Before
    <3> QED BY <3>1 DEF Becomes, TypeOK, DiskOK
  <2>2. CASE Restore \/ RecoverRestore
    <3>1. slot' = slot \/ (slot[at] # "ext" /\ \E file : Becomes(at, file))
      BY <2>2
         DEF Restore, RecoverRestore, RemoveCreated, RenameBackup, LinkBackup, RestoreStep,
             Refuse, Call, Quiet, Still, disk, LookedAt
    <3> QED BY <3>1 DEF Becomes, TypeOK, DiskOK
  <2> QED BY <2>1, <2>2, SlotSteps
<1> QED BY <1>1, LookedAtHolds, PTL DEF Spec, ForeignPreserved

-----------------------------------------------------------------------------
(* The journal decides the direction.  Behind a Finished record, and where *)
(* paths are still going forward, the running call can only be at some of  *)
(* its control points.                                                     *)

FinishedPoints ==
  {"clean", "keep", "drop_transitional", "remove_journal", "down", "recover",
   "recover_receipt"}

ForwardPoints ==
  {"ready", "header", "operations", "intents", "staging", "collect", "staged",
   "fail_prepare", "prepare", "prepared", "verify", "unchanged", "receipt",
   "receipt_write", "receipt_discard", "receipt_sync", "check", "intent", "mutate",
   "unlink_stage", "sync", "classify", "committed", "finish"}

Direction ==
  /\ IsFinished(log) => pc \in FinishedPoints
  /\ pc = "recover" => parsed = log /\ journal /\ Replayable(log)
  /\ pc \in ForwardPoints => RollbackIntents(log) = {}

\* A step that appends r comes from a point that goes with the record.
Suits(r) ==
  /\ pc \notin FinishedPoints
  /\ r \in Finished => pc' \in FinishedPoints
  /\ r \in {CommitIntent(p) : p \in Path} => pc = "intent"
  /\ r \in {RollbackIntent(p) : p \in Path} => pc \notin ForwardPoints
  /\ pc' \in ForwardPoints => pc \in ForwardPoints
  /\ pc' # "recover"

Appends == \E r \in Record : (Logged(r) \/ NotLogged(r)) /\ Suits(r)

\* A step that leaves the journal as it is does not turn back to a point of
\* another direction, except where recovery reads the journal.
Keeps ==
  /\ log' = log
  /\ pc' \in ForwardPoints => pc \in ForwardPoints
  /\ pc \in FinishedPoints => pc' \in FinishedPoints \/ ~IsFinished(log)
  /\ pc' = "recover" => parsed' = log /\ journal' /\ Replayable(log)

LEMMA HasAppend ==
  ASSUME NEW j \in Seq(Record), NEW r \in Record, NEW s
  PROVE  Has(Append(j, r), s) <=> Has(j, s) \/ s = r
<1>1. /\ DOMAIN Append(j, r) = DOMAIN j \cup {Len(j) + 1}
      /\ Append(j, r)[Len(j) + 1] = r
      /\ \A k \in DOMAIN j : Append(j, r)[k] = j[k]
  OBVIOUS
<1> QED BY <1>1 DEF Has

LEMMA RecordsDiffer ==
  /\ \A p \in Path : RollbackIntent(p) \notin Finished /\ CommitIntent(p) \notin Finished
  /\ \A p, q \in Path : CommitIntent(p) # RollbackIntent(q)
  /\ \A p, q \in Path : CommitIntent(p) = CommitIntent(q) => p = q
  BY DEF RollbackIntent, CommitIntent, Finished, FinishedCommitted, FinishedAborted,
         FinishedRolledBack

LEMMA AppendGrows ==
  ASSUME LogOK, NEW r \in Record, Logged(r) \/ NotLogged(r)
  PROVE  /\ log' = log \/ \A s : Has(log', s) <=> Has(log, s) \/ s = r
         /\ IsFinished(log') => IsFinished(log) \/ r \in Finished
         /\ r \notin {RollbackIntent(p) : p \in Path}
               => RollbackIntents(log') = RollbackIntents(log)
         /\ r \notin {CommitIntent(p) : p \in Path} => CommitIntents(log') = CommitIntents(log)
<1>1. log' = log \/ log' = Append(log, r)
  BY DEF Logged, NotLogged
<1>2. log' = log \/ \A s : Has(log', s) <=> Has(log, s) \/ s = r
  <2>1. \A s : Has(Append(log, r), s) <=> Has(log, s) \/ s = r
    BY HasAppend DEF LogOK
  <2>2. CASE log' = Append(log, r)
    BY <2>1, <2>2
  <2> QED BY <1>1, <2>2
<1>3. CASE log' = log
  BY <1>3 DEF IsFinished, RollbackIntents, CommitIntents
<1>4. CASE \A s : Has(log', s) <=> Has(log, s) \/ s = r
  <2>1. IsFinished(log') => IsFinished(log) \/ r \in Finished
    BY <1>4 DEF IsFinished
  <2>2. ASSUME r \notin {RollbackIntent(p) : p \in Path}
        PROVE  RollbackIntents(log') = RollbackIntents(log)
    BY <1>4, <2>2 DEF RollbackIntents
  <2>3. ASSUME r \notin {CommitIntent(p) : p \in Path}
        PROVE  CommitIntents(log') = CommitIntents(log)
    BY <1>4, <2>3 DEF CommitIntents
  <2> QED BY <1>4, <2>1, <2>2, <2>3
<1> QED BY <1>2, <1>3, <1>4

\* What a record may be that a step appends at its control point.
\* The records whose order decides nothing about the direction.
Plain ==
  {Header, Prepared} \cup {Operation(o) : o \in 1..Ops} \cup
    UNION {{PathIntent(p), PathStaged(p), Committed(p), RolledBack(p)} : p \in Path}

LEMMA PlainTypes ==
  ASSUME NEW r \in Plain
  PROVE  /\ r \in Record /\ r \notin Finished
         /\ r \notin {CommitIntent(p) : p \in Path}
         /\ r \notin {RollbackIntent(p) : p \in Path}
<1>1. r \in Record
  BY DEF Plain, Record
<1>2. r.type \in {"Header", "Prepared", "Operation", "PathIntent", "PathStaged", "Committed",
                  "RolledBack"}
  BY DEF Plain, Header, Prepared, Operation, PathIntent, PathStaged, Committed, RolledBack
<1>3. r \notin Finished
  BY <1>2 DEF Finished, FinishedCommitted, FinishedAborted, FinishedRolledBack
<1>4. r \notin {CommitIntent(p) : p \in Path} /\ r \notin {RollbackIntent(p) : p \in Path}
  BY <1>2 DEF CommitIntent, RollbackIntent
<1> QED BY <1>1, <1>3, <1>4

LEMMA PlainSuits ==
  ASSUME NEW r \in Plain, Logged(r) \/ NotLogged(r), pc \notin FinishedPoints,
         pc' \in ForwardPoints => pc \in ForwardPoints, pc' # "recover"
  PROVE  Appends
  BY PlainTypes DEF Appends, Suits

LEMMA FinishSuits ==
  ASSUME NEW r \in Finished, Logged(r) \/ NotLogged(r), pc \notin FinishedPoints,
         pc' \in {"clean", "remove_journal", "recover_receipt", "down"}
  PROVE  Appends
<1>1. r \in Record
  BY DEF Record
<1>2. r \notin {CommitIntent(p) : p \in Path} /\ r \notin {RollbackIntent(p) : p \in Path}
  BY RecordsDiffer
<1>3. pc' \in FinishedPoints /\ pc' \notin ForwardPoints /\ pc' # "recover"
  BY DEF FinishedPoints, ForwardPoints
<1> QED BY <1>1, <1>2, <1>3 DEF Appends, Suits

LEMMA PrepareSteers == ASSUME TypeOK, Prepare PROVE Appends \/ Keeps
<1>1. ASSUME NEW p \in Path, StageJob(p) PROVE Keeps
  <2>1. log' = log /\ pc = "staging" /\ pc' = "staging"
    BY <1>1
       DEF StageJob, AdmitJob, CreateBackup, WriteBackup, CreateStage, WriteStage,
           SyncArtifacts, UndoJob, CancelJobs, JobCall, JobStep
  <2> QED BY <2>1 DEF Keeps, FinishedPoints
<1>2. CASE Join \/ Collect \/ CreateJournal
  BY <1>2
     DEF Join, Collect, CreateJournal, RemoveStage, RemoveBackup, Call, call, Step, Leave,
         Quiet, Still, Keeps, ForwardPoints, FinishedPoints
<1>3. CASE WriteHeader \/ WritePrepared
  <2>1. PICK r \in {Header, Prepared} : Logged(r) \/ NotLogged(r)
    BY <1>3 DEF WriteHeader, WritePrepared, Log
  <2>2. /\ pc \notin FinishedPoints /\ pc \in ForwardPoints /\ pc' # "recover"
    BY <1>3
       DEF WriteHeader, WritePrepared, Log, Step, Leave, ForwardPoints, FinishedPoints
  <2> QED BY <2>1, <2>2, PlainSuits DEF Plain
<1>4. CASE WriteOperation
  <2>1. Operation(at) \in Plain
    BY <1>4 DEF WriteOperation, Plain, TypeOK, CallOK, AtFits
  <2>2. /\ Logged(Operation(at)) \/ NotLogged(Operation(at))
        /\ pc \notin FinishedPoints /\ pc \in ForwardPoints /\ pc' # "recover"
    BY <1>4 DEF WriteOperation, Log, Then, Step, ForwardPoints, FinishedPoints
  <2> QED BY <2>1, <2>2, PlainSuits
<1>5. CASE WritePathIntent \/ WritePathStaged
  <2>1. PathIntent(at) \in Plain /\ PathStaged(at) \in Plain
    BY <1>5, PathIndex DEF WritePathIntent, WritePathStaged, Plain, TypeOK, PathPoints
  <2>2. PICK r \in {PathIntent(at), PathStaged(at)} : Logged(r) \/ NotLogged(r)
    BY <1>5 DEF WritePathIntent, WritePathStaged, Log
  <2>3. /\ pc \notin FinishedPoints /\ pc \in ForwardPoints /\ pc' # "recover"
    BY <1>5
       DEF WritePathIntent, WritePathStaged, Log, Then, Step, Leave, ForwardPoints,
           FinishedPoints
  <2> QED BY <2>1, <2>2, <2>3, PlainSuits
<1>6. CASE FailPrepare
  BY <1>6, FinishSuits DEF FailPrepare, Log, Step, Leave, Finished, FinishedPoints
<1> QED BY <1>1, <1>2, <1>3, <1>4, <1>5, <1>6 DEF Prepare

LEMMA CommitSteers == ASSUME TypeOK, CommitSteps PROVE Appends \/ Keeps
<1>1. CASE \/ Commit \/ Abort \/ Drop \/ VerifyAll \/ StoreFull \/ Check \/ SyncParent
           \/ Classify \/ VerifyRestored
  BY <1>1
     DEF Commit, Abort, Drop, VerifyAll, StoreFull, Check, SyncParent, Classify,
         VerifyRestored, Refuse, Call, Unwind, Step, Leave, Quiet, Still, Keeps,
         ForwardPoints, FinishedPoints
<1>2. CASE CreateReceipt \/ WriteReceipt \/ DiscardReceipt \/ SyncReceipt \/ DropReceipt
  BY <1>2
     DEF CreateReceipt, WriteReceipt, DiscardReceipt, SyncReceipt, DropReceipt, ReceiptStep,
         Call, Step, Leave, Keeps, ForwardPoints, FinishedPoints
<1>3. CASE LinkStage \/ UnlinkStage \/ ReplaceTarget \/ RemoveSource
  BY <1>3
     DEF LinkStage, UnlinkStage, ReplaceTarget, RemoveSource, MutateStep, Unsuited, Call, Step,
         Quiet, Still, Keeps, ForwardPoints, FinishedPoints
<1>4. CASE Restore \/ FinishRestore
  BY <1>4
     DEF Restore, FinishRestore, RemoveCreated, RenameBackup, LinkBackup, UnlinkBackup,
         RestoreStep, Refuse, Call, Step, Leave, Quiet, Still, Keeps, ForwardPoints,
         FinishedPoints
<1>5. CASE FinishUnchanged \/ FinishCommit \/ FinishRollback
  <2>1. PICK r \in Finished : Logged(r) \/ NotLogged(r)
    BY <1>5 DEF FinishUnchanged, FinishCommit, FinishRollback, Log, Finished
  <2>2. pc \notin FinishedPoints /\ pc' \in {"clean", "down"}
    BY <1>5
       DEF FinishUnchanged, FinishCommit, FinishRollback, Log, Step, Leave, FinishedPoints
  <2> QED BY <2>1, <2>2, FinishSuits
<1>6. CASE CompletePath \/ CompleteRollback
  <2>1. Committed(at) \in Plain /\ RolledBack(at) \in Plain
    BY <1>6, PathIndex DEF CompletePath, CompleteRollback, Plain, TypeOK, PathPoints
  <2>2. PICK r \in {Committed(at), RolledBack(at)} : Logged(r) \/ NotLogged(r)
    BY <1>6 DEF CompletePath, CompleteRollback, Log
  <2>3. /\ pc \notin FinishedPoints /\ pc' # "recover"
        /\ pc' \in ForwardPoints => pc \in ForwardPoints
    BY <1>6
       DEF CompletePath, CompleteRollback, Log, Unwind, Step, Leave, ForwardPoints,
           FinishedPoints
  <2> QED BY <2>1, <2>2, <2>3, PlainSuits
<1>7. CASE Intend
  <2>1. at \in Path /\ CommitIntent(at) \in Record
    BY <1>7, PathIndex, RecordTypes DEF Intend, TypeOK, PathPoints
  <2>2. Logged(CommitIntent(at)) \/ NotLogged(CommitIntent(at))
    BY <1>7 DEF Intend, Log
  <2>3. /\ pc = "intent" /\ pc \notin FinishedPoints /\ pc \in ForwardPoints
        /\ pc' # "recover"
    BY <1>7 DEF Intend, Log, Unwind, Step, ForwardPoints, FinishedPoints
  <2>4. /\ CommitIntent(at) \notin Finished
        /\ CommitIntent(at) \notin {RollbackIntent(p) : p \in Path}
    BY <2>1, RecordsDiffer
  <2>5. Suits(CommitIntent(at))
    BY <2>3, <2>4 DEF Suits
  <2> QED BY <2>1, <2>2, <2>5 DEF Appends
<1>8. CASE IntendRollback
  <2>1. at \in Path /\ RollbackIntent(at) \in Record
    BY <1>8, PathIndex, RecordTypes DEF IntendRollback, TypeOK, UnwindPoints
  <2>2. Logged(RollbackIntent(at)) \/ NotLogged(RollbackIntent(at))
    BY <1>8 DEF IntendRollback, Log
  <2>3. /\ pc \notin ForwardPoints /\ pc \notin FinishedPoints
        /\ pc' \notin ForwardPoints /\ pc' # "recover"
    BY <1>8 DEF IntendRollback, Log, Step, Leave, ForwardPoints, FinishedPoints
  <2> QED BY <2>1, <2>2, <2>3, RecordsDiffer DEF Appends, Suits
<1> QED BY <1>1, <1>2, <1>3, <1>4, <1>5, <1>6, <1>7, <1>8 DEF CommitSteps

LEMMA CleanupSteers ==
  ASSUME Cleanup PROVE Keeps \/ (log' = <<>> /\ pc' = "down")
<1>1. CASE RemoveJournal
  BY <1>1
     DEF RemoveJournal, Call, Leave, Keeps, ForwardPoints, FinishedPoints
<1>2. CASE Clean \/ RetainBackup \/ AllRetained \/ DropTransitional
  BY <1>2
     DEF Clean, RetainBackup, AllRetained, DropTransitional, RemoveStage, RemoveBackup, Call,
         call, Step, Leave, Quiet, Still, Keeps, ForwardPoints, FinishedPoints
<1> QED BY <1>1, <1>2 DEF Cleanup

LEMMA AnnounceSteers ==
  ASSUME TypeOK, at \in Path, pc = "recover_path",
         NEW l \in {"recover_record", "recover_restore"}, Announce(l)
  PROVE  Appends \/ Keeps
<1>1. pc' \notin ForwardPoints /\ pc' # "recover" /\ pc \notin FinishedPoints
  BY DEF Announce, Log, Step, Leave, ForwardPoints, FinishedPoints
<1>2. CASE log' = log
  BY <1>1, <1>2 DEF Keeps
<1>3. CASE Logged(RollbackIntent(at)) \/ NotLogged(RollbackIntent(at))
  BY <1>1, <1>3, RecordTypes, RecordsDiffer DEF Appends, Suits, ForwardPoints
<1> QED BY <1>2, <1>3 DEF Announce, Log, Quiet, Still

LEMMA RecoverSteers == ASSUME TypeOK, Direction, Recover PROVE Appends \/ Keeps
<1>1. CASE Open
  BY <1>1 DEF Open, Step, Leave, Keeps, ForwardPoints, FinishedPoints
<1>2. CASE RecoverUncommitted \/ RecoverChanged
  BY <1>2
     DEF RecoverUncommitted, RecoverChanged, Step, Leave, Quiet, Still, Keeps, Direction,
         ForwardPoints, FinishedPoints
<1>3. CASE \/ OpenFails \/ RecoverFinished \/ ResumeRestore \/ SkipPath \/ RefusePath
           \/ RecoverVerify \/ ReadReceipt
  BY <1>3
     DEF OpenFails, RecoverFinished, ResumeRestore, SkipPath, RefusePath, RecoverVerify,
         ReadReceipt, AtPath, Refuse, Step, Leave, Quiet, Still, Keeps, ForwardPoints,
         FinishedPoints
<1>4. CASE RecoverRestore \/ RecoverUnlink
  BY <1>4
     DEF RecoverRestore, RecoverUnlink, RemoveCreated, RenameBackup, LinkBackup, UnlinkBackup,
         RestoreStep, Refuse, Call, Step, Leave, Quiet, Still, Keeps, ForwardPoints,
         FinishedPoints
<1>5. CASE RecordAbort \/ RecordRollback
  <2>1. PICK r \in Finished : Logged(r) \/ NotLogged(r)
    BY <1>5 DEF RecordAbort, RecordRollback, Log, Finished
  <2>2. pc \notin FinishedPoints /\ pc' \in {"recover_receipt", "down"}
    BY <1>5 DEF RecordAbort, RecordRollback, Log, Step, Leave, FinishedPoints
  <2> QED BY <2>1, <2>2, FinishSuits
<1>6. CASE RecordPath
  <2>1. RolledBack(at) \in Plain
    BY <1>6, PathIndex DEF RecordPath, Plain, TypeOK, PathPoints
  <2>2. /\ Logged(RolledBack(at)) \/ NotLogged(RolledBack(at))
        /\ pc \notin FinishedPoints /\ pc' \notin ForwardPoints /\ pc' # "recover"
    BY <1>6 DEF RecordPath, Log, Step, Leave, ForwardPoints, FinishedPoints
  <2> QED BY <2>1, <2>2, PlainSuits
<1>7. CASE AttestPath \/ RollbackPath
  <2>1. at \in Path /\ pc = "recover_path"
    BY <1>7, PathIndex DEF AttestPath, RollbackPath, AtPath, TypeOK, UnwindPoints
  <2> QED BY <1>7, <2>1, AnnounceSteers DEF AttestPath, RollbackPath
<1> QED BY <1>1, <1>2, <1>3, <1>4, <1>5, <1>6, <1>7 DEF Recover

LEMMA DirectionHolds == Spec => [](TypeOK /\ Direction)
<1>1. Init => Direction
  BY DEF Init, Direction, IsFinished, RollbackIntents, Has
<1>2. TypeOK /\ Direction /\ [Next]_vars => Direction'
  <2> SUFFICES ASSUME TypeOK, Direction, [Next]_vars PROVE Direction'
    OBVIOUS
  <2>1. CASE Appends
    <3>1. PICK r \in Record : (Logged(r) \/ NotLogged(r)) /\ Suits(r)
      BY <2>1 DEF Appends
    <3>2. IsFinished(log') => r \in Finished
      BY <3>1, AppendGrows DEF TypeOK, Direction, Suits
    <3>3. pc' \in ForwardPoints => RollbackIntents(log') = {}
      BY <3>1, AppendGrows DEF TypeOK, Direction, Suits
    <3> QED BY <3>1, <3>2, <3>3 DEF Direction, Suits
  <2>2. CASE Keeps
    BY <2>2 DEF Keeps, Direction
  <2>3. CASE log' = <<>> /\ pc' = "down"
    BY <2>3 DEF Direction, FinishedPoints, ForwardPoints, IsFinished, Has
  <2>4. CASE Process
    BY <2>1, <2>2, <2>3, <2>4, PrepareSteers, CommitSteers, CleanupSteers, RecoverSteers
       DEF Process
  <2>5. CASE Crash
    BY <2>5 DEF Crash, Leave, Still, Direction, FinishedPoints, ForwardPoints
  <2>6. ASSUME NEW p \in Path, Foreign(p) PROVE Direction'
    BY <2>6 DEF Foreign, call, Direction
  <2>7. CASE Resolved \/ UNCHANGED vars
    BY <2>7 DEF Resolved, Direction, vars, call
  <2> QED BY <2>4, <2>5, <2>6, <2>7 DEF Next
<1> QED BY <1>1, <1>2, TransactionTypeOK, PTL DEF Spec

\* Once the Finished record is durable no process writes to a target again:
\* what the journal says of the paths stays true through every recovery.
THEOREM FinishedStaysFinal == Spec => FinishedIsFinal
<1>1. TypeOK /\ Direction /\ [Next]_vars => [IsFinished(log) /\ Ours => slot' = slot]_vars
  <2> SUFFICES ASSUME TypeOK, Direction, [Next]_vars, IsFinished(log), Ours PROVE slot' = slot
    OBVIOUS
  <2>1. pc \in FinishedPoints
    BY DEF Direction
  <2>2. ~(LinkStage \/ ReplaceTarget \/ RemoveSource \/ Restore \/ RecoverRestore)
    BY <2>1
       DEF FinishedPoints, LinkStage, ReplaceTarget, RemoveSource, Restore, RecoverRestore
  <2> QED BY <2>2, SlotSteps
<1> QED BY <1>1, DirectionHolds, PTL DEF Spec, FinishedIsFinal

\* A rollback that was announced is never abandoned for a commit: no process
\* intends or installs a change behind a durable rollback intent.
THEOREM RollbackStaysRollback == Spec => RollbackNeverForward
<1>1. TypeOK /\ Direction /\ [Next]_vars =>
        [RollbackIntents(log) # {} /\ Ours =>
           /\ CommitIntents(log') \subseteq CommitIntents(log)
           /\ \A p \in Path : slot'[p] # slot[p] => slot'[p] \in {"none", "bak"}]_vars
  <2> SUFFICES ASSUME TypeOK, Direction, [Next]_vars, RollbackIntents(log) # {}, Ours
               PROVE  /\ CommitIntents(log') \subseteq CommitIntents(log)
                      /\ \A p \in Path : slot'[p] # slot[p] => slot'[p] \in {"none", "bak"}
    OBVIOUS
  <2>1. pc \notin ForwardPoints
    BY DEF Direction
  <2>2. CommitIntents(log') \subseteq CommitIntents(log)
    <3>1. CASE Appends
      <4>1. PICK r \in Record : (Logged(r) \/ NotLogged(r)) /\ Suits(r)
        BY <3>1 DEF Appends
      <4>2. r \notin {CommitIntent(p) : p \in Path}
        BY <2>1, <4>1 DEF Suits, ForwardPoints
      <4> QED BY <4>1, <4>2, AppendGrows DEF TypeOK
    <3>2. CASE log' = log
      BY <3>2
    <3>3. CASE log' = <<>>
      BY <3>3 DEF CommitIntents, Has
    <3>4. CASE Process
      BY <3>1, <3>2, <3>3, <3>4, PrepareSteers, CommitSteers, CleanupSteers, RecoverSteers
         DEF Process, Keeps
    <3>5. CASE Crash \/ (\E p \in Path : Foreign(p)) \/ Resolved \/ UNCHANGED vars
      BY <3>2, <3>5 DEF Crash, Still, Foreign, Resolved, vars
    <3> QED BY <3>4, <3>5 DEF Next
  <2>3. ASSUME NEW p \in Path, slot'[p] # slot[p] PROVE slot'[p] \in {"none", "bak"}
    <3>1. Restore \/ RecoverRestore
      BY <2>1, <2>3, SlotSteps DEF LinkStage, ReplaceTarget, RemoveSource, ForwardPoints
    <3>2. slot' = slot \/ \E file \in {"none", "bak"} : Becomes(at, file)
      BY <3>1
         DEF Restore, RecoverRestore, RemoveCreated, RenameBackup, LinkBackup, RestoreStep,
             Refuse, Call, Quiet, Still, disk
    <3> QED BY <2>3, <3>2 DEF Becomes, TypeOK, DiskOK
  <2> QED BY <2>2, <2>3
<1> QED BY <1>1, DirectionHolds, PTL DEF Spec, RollbackNeverForward

-----------------------------------------------------------------------------
(* Write-ahead, and where the old content is.  The changed paths are       *)
(* always the first ones of the plan; the control point says how far they  *)
(* reach, and the journal names each of them.                              *)

ChangedUpTo(i) == \A p \in Path : p <= i => Changed(p)
NoneAbove(i)   == \A p \in Path : i < p => ~Changed(p)
Untouched      == \A p \in Path : ~Changed(p)

Ladder ==
  \A p \in Path :
    /\ Changed(p) => Has(log, CommitIntent(p))
    /\ Changed(p) => \A q \in 1..p-1 : Changed(q)
    /\ slot[p] = "bak" => Has(log, RollbackIntent(p))

\* Points where nothing has been changed yet, or all is found as it was.
StillPoints ==
  {"ready", "header", "operations", "intents", "staging", "collect", "fail_prepare",
   "staged", "prepare", "prepared", "verify", "unchanged", "receipt", "receipt_write",
   "receipt_discard", "receipt_sync", "recover_abort"}

\* Points behind a durable outcome.
ClosingPoints == {"recover_receipt", "clean", "keep", "drop_transitional", "remove_journal"}

\* Points before and behind the change of a path, and before and behind its
\* restoring.
BeforePoints == {"check", "intent", "mutate"}
AfterPoints  == {"unlink_stage", "sync", "committed"}
RestoringPoints ==
  {"classify", "drop_receipt", "rollback", "restore", "recover_path", "recover_restore"}
RestoredPoints ==
  {"unlink_backup", "restored", "rolled_back", "recover_unlink", "recover_verify",
   "recover_record"}

Extent ==
  /\ pc \in StillPoints => Untouched
  /\ pc \in ClosingPoints => Untouched \/ Has(log, FinishedCommitted)
  /\ pc \in BeforePoints => ChangedUpTo(at - 1) /\ NoneAbove(at - 1)
  /\ pc \in AfterPoints => ChangedUpTo(at) /\ NoneAbove(at)
  /\ pc \in RestoringPoints => NoneAbove(at)
  /\ pc \in RestoredPoints => NoneAbove(at - 1)
  /\ pc = "mutate" => Has(log, CommitIntent(at))
  /\ pc \in {"restore", "recover_restore"} => Has(log, RollbackIntent(at))

\* What a recovery decides from is in the journal.
Snapshot == \A r \in Record : Has(parsed, r) => Has(log, r)

\* The backups are complete from the end of the staging to the first restore.
BackedPoints ==
  {"staged", "prepare", "prepared", "verify", "receipt", "receipt_write", "receipt_sync"}
    \cup BeforePoints \cup AfterPoints

Backed ==
  /\ pc \in {"ready", "header", "operations", "intents"} => job = Idle
  /\ pc = "staging" =>
       \A p \in Path : kind[p] # "create" /\ job[p] \in {"stage", "stage_write", "sync", "ok"}
                         => backup[p] = "bak"
  /\ pc \in BackedPoints => \A p \in Path : kind[p] # "create" => backup[p] = "bak"

Survives ==
  ~Has(log, FinishedCommitted) =>
    \A p \in Path : kind[p] # "create" => slot[p] \in {"old", "bak"} \/ backup[p] = "bak"

Regime == Undisturbed /\ (journal \/ pc = "ready")
Good   == Ladder /\ Extent /\ Backed /\ Survives

-----------------------------------------------------------------------------
Grows == \A s : Has(log, s) => Has(log', s)
SameTargets == UNCHANGED <<kind, slot>>

LEMMA LogGrows ==
  ASSUME LogOK, NEW r \in Record, Logged(r) \/ NotLogged(r) PROVE Grows
  BY AppendGrows DEF Grows

LEMMA LoggedHas == ASSUME LogOK, NEW r \in Record, Logged(r) PROVE Has(log', r)
  BY HasAppend DEF Logged, LogOK

LEMMA SameChanged ==
  ASSUME SameTargets PROVE \A p \in Path : Changed(p)' <=> Changed(p)
  BY DEF SameTargets, Changed, Before

LEMMA LadderStays == ASSUME Ladder, SameTargets, Grows PROVE Ladder'
  BY SameChanged DEF Ladder, SameTargets, Grows

LEMMA SurvivesStays ==
  ASSUME Survives, SameTargets, UNCHANGED backup, Grows PROVE Survives'
  BY DEF Survives, SameTargets, Grows

LEMMA UntouchedSurvives ==
  ASSUME TypeOK, Untouched, SameTargets PROVE Untouched' /\ Survives'
<1>1. Untouched'
  BY SameChanged DEF Untouched
<1>2. \A p \in Path : kind[p] # "create" => slot[p] \in {"old", "bak"}
  BY DEF Untouched, Changed, Before
<1> QED BY <1>1, <1>2 DEF Survives, SameTargets

\* A call that is over promises nothing of a control point.
LEMMA DownExtent == ASSUME pc' = "down" PROVE Extent' /\ Backed'
  BY DEF Extent, Backed, StillPoints, ClosingPoints, BeforePoints, AfterPoints,
         RestoringPoints, RestoredPoints, BackedPoints

LEMMA ClosingExtent ==
  ASSUME pc' \in ClosingPoints, Untouched' \/ Has(log', FinishedCommitted)
  PROVE  Extent' /\ Backed'
  BY DEF Extent, Backed, StillPoints, ClosingPoints, BeforePoints, AfterPoints,
         RestoringPoints, RestoredPoints, BackedPoints

LEMMA StillExtent ==
  ASSUME pc' \in StillPoints, Untouched' PROVE Extent'
  BY DEF Extent, StillPoints, ClosingPoints, BeforePoints, AfterPoints,
         RestoringPoints, RestoredPoints

LEMMA RestoringExtent ==
  ASSUME pc' \in RestoringPoints, NoneAbove(at)',
         pc' \in {"restore", "recover_restore"} => Has(log, RollbackIntent(at))'
  PROVE  Extent' /\ Backed'
  BY DEF Extent, Backed, StillPoints, ClosingPoints, BeforePoints, AfterPoints,
         RestoringPoints, RestoredPoints, BackedPoints

LEMMA RestoredExtent ==
  ASSUME pc' \in RestoredPoints, NoneAbove(at - 1)'
  PROVE  Extent' /\ Backed'
  BY DEF Extent, Backed, StillPoints, ClosingPoints, BeforePoints, AfterPoints,
         RestoringPoints, RestoredPoints, BackedPoints

LEMMA AfterExtent ==
  ASSUME pc' \in AfterPoints, ChangedUpTo(at)' /\ NoneAbove(at)'
  PROVE  Extent'
  BY DEF Extent, StillPoints, ClosingPoints, BeforePoints, AfterPoints,
         RestoringPoints, RestoredPoints

LEMMA BeforeExtent ==
  ASSUME pc' \in BeforePoints, ChangedUpTo(at - 1)' /\ NoneAbove(at - 1)',
         pc' = "mutate" => Has(log, CommitIntent(at))'
  PROVE  Extent'
  BY DEF Extent, StillPoints, ClosingPoints, BeforePoints, AfterPoints,
         RestoringPoints, RestoredPoints

LEMMA BackedStays ==
  ASSUME Backed, pc \in BackedPoints, UNCHANGED <<kind, backup>>,
         pc' \in BackedPoints \cup RestoringPoints
                  \cup {"finish", "unchanged", "receipt_discard", "clean"}
  PROVE  Backed'
  BY DEF Backed, BackedPoints, BeforePoints, AfterPoints, RestoringPoints

-----------------------------------------------------------------------------
(* What every step of the process leaves as it is.                         *)

Frame ==
  /\ UNCHANGED <<kind, foreign>>
  /\ \/ journal' = journal \/ pc = "ready"
     \/ RemoveJournal /\ journal' = FALSE /\ pc' = "down"
  /\ pc' # "ready"
  /\ parsed' = parsed \/ parsed' = <<>> \/ (parsed' = log /\ log' = log)

LEMMA PrepareFrame == ASSUME Prepare PROVE Frame
<1> USE DEF Frame, Steady, env, Fault, Logged, NotLogged, Leave, Step
<1>1. ASSUME NEW p \in Path, StageJob(p) PROVE Frame
  BY <1>1
     DEF StageJob, AdmitJob, CreateBackup, WriteBackup, CreateStage, WriteStage,
         SyncArtifacts, UndoJob, CancelJobs, JobCall, JobStep
<1>2. CASE Join \/ Collect
  BY <1>2 DEF Join, Collect, RemoveStage, RemoveBackup, Call, call, Quiet, Still, disk
<1>3. CASE CreateJournal \/ WriteHeader \/ WriteOperation
  BY <1>3 DEF CreateJournal, WriteHeader, WriteOperation, Log, Then, disk
<1>4. CASE WritePathIntent \/ FailPrepare \/ WritePathStaged \/ WritePrepared
  BY <1>4
     DEF WritePathIntent, FailPrepare, WritePathStaged, WritePrepared, Log, Then, disk
<1> QED BY <1>1, <1>2, <1>3, <1>4 DEF Prepare

LEMMA CommitFrame == ASSUME CommitSteps PROVE Frame
<1> USE DEF Frame, Steady, env, Fault, Logged, NotLogged, Leave, Step, Unwind
<1>1. CASE \/ Commit \/ Abort \/ Drop \/ VerifyAll \/ StoreFull \/ Check \/ SyncParent
           \/ Classify \/ VerifyRestored
  BY <1>1
     DEF Commit, Abort, Drop, VerifyAll, StoreFull, Check, SyncParent, Classify,
         VerifyRestored, Refuse, Call, Quiet, Still, disk
<1>2. CASE \/ FinishUnchanged \/ Intend \/ CompletePath \/ FinishCommit \/ IntendRollback
           \/ FinishRollback \/ CompleteRollback
  BY <1>2
     DEF FinishUnchanged, Intend, CompletePath, FinishCommit, IntendRollback, FinishRollback,
         CompleteRollback, Log, disk
<1>3. CASE CreateReceipt \/ WriteReceipt \/ DiscardReceipt \/ SyncReceipt \/ DropReceipt
  BY <1>3
     DEF CreateReceipt, WriteReceipt, DiscardReceipt, SyncReceipt, DropReceipt, ReceiptStep,
         Call
<1>4. CASE LinkStage \/ UnlinkStage \/ ReplaceTarget \/ RemoveSource
  BY <1>4
     DEF LinkStage, UnlinkStage, ReplaceTarget, RemoveSource, MutateStep, Unsuited, Call,
         Quiet, Still
<1>5. CASE Restore \/ FinishRestore
  BY <1>5
     DEF Restore, FinishRestore, RemoveCreated, RenameBackup, LinkBackup, UnlinkBackup,
         RestoreStep, Refuse, Call, Quiet, Still
<1> QED BY <1>1, <1>2, <1>3, <1>4, <1>5 DEF CommitSteps

LEMMA CleanupFrame == ASSUME Cleanup PROVE Frame
<1> USE DEF Frame, Steady, env, Fault, Leave, Step
<1>1. CASE Clean \/ RetainBackup \/ AllRetained \/ DropTransitional
  BY <1>1
     DEF Clean, RetainBackup, AllRetained, DropTransitional, RemoveStage, RemoveBackup, Call,
         call, Quiet, Still
<1>2. CASE RemoveJournal
  <2>1. journal' = journal \/ (journal' = FALSE /\ pc' = "down")
    BY <1>2 DEF RemoveJournal, Call
  <2>2. UNCHANGED <<kind, foreign>> /\ pc' # "ready" /\ parsed' = <<>>
    BY <1>2 DEF RemoveJournal, Call
  <2> QED BY <1>2, <2>1, <2>2
<1> QED BY <1>1, <1>2 DEF Cleanup

LEMMA RecoverFrame == ASSUME Recover PROVE Frame
<1> USE DEF Frame, Steady, env, Fault, Logged, NotLogged, Leave, Step
<1>1. CASE \/ Open \/ OpenFails \/ RecoverFinished \/ RecoverUncommitted \/ RecoverChanged
           \/ ResumeRestore \/ SkipPath \/ RefusePath \/ RecoverVerify \/ ReadReceipt
  BY <1>1
     DEF Open, OpenFails, RecoverFinished, RecoverUncommitted, RecoverChanged, ResumeRestore,
         SkipPath, RefusePath, RecoverVerify, ReadReceipt, Refuse, Quiet, Still, disk
<1>2. CASE RecordAbort \/ AttestPath \/ RollbackPath \/ RecordRollback \/ RecordPath
  BY <1>2
     DEF RecordAbort, AttestPath, RollbackPath, RecordRollback, RecordPath, Announce, Log,
         Quiet, Still, disk
<1>3. CASE RecoverRestore \/ RecoverUnlink
  BY <1>3
     DEF RecoverRestore, RecoverUnlink, RemoveCreated, RenameBackup, LinkBackup, UnlinkBackup,
         RestoreStep, Refuse, Call, Quiet, Still
<1> QED BY <1>1, <1>2, <1>3 DEF Recover

LEMMA ProcessFrame == ASSUME Process PROVE Frame
  BY PrepareFrame, CommitFrame, CleanupFrame, RecoverFrame DEF Process

\* The journal grows until it is removed.
LEMMA ProcessGrows ==
  ASSUME TypeOK, Direction, Process
  PROVE  Grows \/ (journal' = FALSE /\ log' = <<>> /\ parsed' = <<>> /\ pc' = "down")
<1>1. Appends => Grows
  BY LogGrows DEF Appends, TypeOK
<1>2. Keeps => Grows
  BY DEF Keeps, Grows
<1>3. ASSUME Cleanup
      PROVE  log' = log \/ (journal' = FALSE /\ log' = <<>> /\ parsed' = <<>> /\ pc' = "down")
  BY <1>3
     DEF Cleanup, Clean, RetainBackup, AllRetained, DropTransitional, RemoveJournal,
         RemoveStage, RemoveBackup, Call, Leave, Quiet, Still
<1>4. log' = log => Grows
  BY DEF Grows
<1> QED
  BY <1>1, <1>2, <1>3, <1>4, PrepareSteers, CommitSteers, RecoverSteers DEF Process

-----------------------------------------------------------------------------
(* Before the first change.                                                *)

LEMMA PrepareBacked == ASSUME TypeOK, Backed, Prepare PROVE Backed'
<1> USE DEF Step, Leave
<1>1. ASSUME NEW p \in Path, StageJob(p) PROVE Backed'
  <2>1. /\ pc = "staging" /\ pc' = "staging" /\ kind' = kind
        /\ \E t : job' = [job EXCEPT ![p] = t]
        /\ \A q \in Path \ {p} : backup'[q] = backup[q]
    BY <1>1
       DEF StageJob, AdmitJob, CreateBackup, WriteBackup, CreateStage, WriteStage,
           SyncArtifacts, UndoJob, CancelJobs, JobCall, JobStep, Gone, TypeOK, DiskOK
  <2>2. ASSUME kind[p] # "create", job'[p] \in {"stage", "stage_write", "sync", "ok"}
        PROVE  backup'[p] = "bak"
    <3>1. CASE AdmitJob(p)
      BY <2>2, <3>1 DEF AdmitJob, JobStep, TypeOK, CallOK
    <3>2. CASE CreateBackup(p) \/ UndoJob(p) \/ CancelJobs(p)
      BY <2>2, <3>2
         DEF CreateBackup, UndoJob, CancelJobs, JobCall, JobStep, TypeOK, CallOK
    <3>3. CASE WriteBackup(p)
      BY <2>2, <3>3 DEF WriteBackup, JobCall, JobStep, TypeOK, CallOK, DiskOK
    <3>4. CASE CreateStage(p) \/ WriteStage(p) \/ SyncArtifacts(p)
      BY <2>2, <3>4
         DEF CreateStage, WriteStage, SyncArtifacts, JobCall, JobStep, TypeOK, CallOK, Backed
    <3> QED BY <1>1, <3>1, <3>2, <3>3, <3>4 DEF StageJob
  <2>3. \A q \in Path : kind'[q] # "create" /\ job'[q] \in {"stage", "stage_write", "sync", "ok"}
                          => backup'[q] = "bak"
    BY <2>1, <2>2 DEF Backed, TypeOK, CallOK
  <2> QED BY <2>1, <2>3 DEF Backed, BackedPoints, BeforePoints, AfterPoints
<1>2. CASE Join
  BY <1>2
     DEF Join, Quiet, Still, disk, artifacts, Backed, BackedPoints, BeforePoints, AfterPoints
<1>3. CASE Collect
  BY <1>3
     DEF Collect, RemoveStage, RemoveBackup, Call, call, Backed, BackedPoints, BeforePoints,
         AfterPoints
<1>4. CASE CreateJournal \/ WriteHeader \/ WriteOperation
  BY <1>4
     DEF CreateJournal, WriteHeader, WriteOperation, Log, Then, Backed, BackedPoints,
         BeforePoints, AfterPoints
<1>5. CASE WritePathIntent
  BY <1>5
     DEF WritePathIntent, Log, Then, Backed, BackedPoints, BeforePoints, AfterPoints, Idle
<1>6. CASE FailPrepare
  BY <1>6 DEF FailPrepare, Log, Backed, BackedPoints, BeforePoints, AfterPoints
<1>7. CASE WritePathStaged \/ WritePrepared
  BY <1>7
     DEF WritePathStaged, WritePrepared, Log, Then, disk, artifacts, Backed, BackedPoints,
         BeforePoints, AfterPoints
<1> QED BY <1>1, <1>2, <1>3, <1>4, <1>5, <1>6, <1>7 DEF Prepare

LEMMA PreparePoints ==
  ASSUME Prepare
  PROVE  pc \in StillPoints /\ pc' \in StillPoints \cup {"remove_journal", "down"}
<1> USE DEF Step, Leave, StillPoints
<1>1. ASSUME NEW p \in Path, StageJob(p) PROVE pc = "staging" /\ pc' = "staging"
  BY <1>1
     DEF StageJob, AdmitJob, CreateBackup, WriteBackup, CreateStage, WriteStage,
         SyncArtifacts, UndoJob, CancelJobs, JobCall, JobStep
<1>2. CASE Join \/ Collect
  BY <1>2 DEF Join, Collect, RemoveStage, RemoveBackup, Call, call
<1>3. CASE CreateJournal \/ WriteHeader \/ WriteOperation \/ WritePathIntent
  BY <1>3 DEF CreateJournal, WriteHeader, WriteOperation, WritePathIntent, Log, Then
<1>4. CASE FailPrepare \/ WritePathStaged \/ WritePrepared
  BY <1>4 DEF FailPrepare, WritePathStaged, WritePrepared, Log, Then
<1> QED BY <1>1, <1>2, <1>3, <1>4 DEF Prepare

LEMMA PrepareGood ==
  ASSUME TypeOK, Good, Grows, Prepare PROVE Good'
<1>1. SameTargets
  BY PrepareFrame, PrepareSlots DEF Frame, SameTargets
<1>2. Untouched
  BY PreparePoints DEF Good, Extent
<1>3. Untouched' /\ Survives' /\ Ladder'
  BY <1>1, <1>2, UntouchedSurvives, LadderStays DEF Good
<1>4. Extent'
  BY <1>3, PreparePoints, StillExtent, DownExtent, ClosingExtent DEF ClosingPoints
<1> QED BY <1>3, <1>4, PrepareBacked DEF Good

LEMMA DecideGood ==
  ASSUME TypeOK, Good, Grows,
         \/ Commit \/ Abort \/ Drop \/ FinishUnchanged \/ VerifyAll \/ StoreFull
         \/ CreateReceipt \/ WriteReceipt \/ DiscardReceipt \/ SyncReceipt
  PROVE  Good'
<1>1. SameTargets /\ UNCHANGED backup
  BY DEF Commit, Abort, Drop, FinishUnchanged, VerifyAll, StoreFull, CreateReceipt,
         WriteReceipt, DiscardReceipt, SyncReceipt, ReceiptStep, Refuse, Log, Quiet, Still,
         disk, artifacts, SameTargets
<1>2. /\ pc \in StillPoints
      /\ \/ pc' \in StillPoints \cup {"clean", "down"}
         \/ pc' = "check" /\ at' = 1
      /\ pc' \in BackedPoints => pc \in BackedPoints
      /\ pc' \notin {"ready", "header", "operations", "intents", "staging"}
  BY DEF Commit, Abort, Drop, FinishUnchanged, VerifyAll, StoreFull, CreateReceipt,
         WriteReceipt, DiscardReceipt, SyncReceipt, ReceiptStep, Refuse, Log, Call, Step,
         Leave, StillPoints, BackedPoints, BeforePoints, AfterPoints
<1>3. Untouched' /\ Survives' /\ Ladder'
  BY <1>1, <1>2, UntouchedSurvives, LadderStays DEF Good, Extent
<1>4. Backed'
  BY <1>1, <1>2 DEF Backed, Good, SameTargets
<1>5. Extent'
  <2>1. CASE pc' = "check" /\ at' = 1
    <3>1. ChangedUpTo(at - 1)' /\ NoneAbove(at - 1)'
      BY <2>1, <1>3 DEF ChangedUpTo, NoneAbove, Untouched
    <3> QED BY <2>1, <3>1, BeforeExtent DEF BeforePoints
  <2> QED BY <1>2, <1>3, <2>1, StillExtent, DownExtent, ClosingExtent DEF ClosingPoints
<1> QED BY <1>3, <1>4, <1>5 DEF Good

-----------------------------------------------------------------------------
(* Going forward.                                                          *)

LEMMA UnwindExtent ==
  ASSUME NEW k \in 0..N, Unwind(k), \A p \in Path : k < p => ~Changed(p)'
  PROVE  Extent' /\ Backed'
<1>1. pc' \in RestoringPoints \ {"restore", "recover_restore"} /\ at' = k
  BY DEF Unwind, Step, RestoringPoints
<1>2. NoneAbove(at)'
  BY <1>1 DEF NoneAbove
<1> QED BY <1>1, <1>2, RestoringExtent

LEMMA SameExtent ==
  ASSUME SameTargets, NEW i
  PROVE  /\ ChangedUpTo(i) => \A p \in Path : p <= i => Changed(p)'
         /\ NoneAbove(i) => \A p \in Path : i < p => ~Changed(p)'
  BY SameChanged DEF ChangedUpTo, NoneAbove

LEMMA CheckGood == ASSUME TypeOK, Good, Grows, Check PROVE Good'
<1>1. SameTargets /\ UNCHANGED backup
  BY DEF Check, Still, disk, artifacts, SameTargets
<1>2. at \in Path /\ at - 1 \in 0..N
  BY PathIndex DEF Check, PathPoints, TypeOK
<1>3. ChangedUpTo(at - 1) /\ NoneAbove(at - 1)
  BY DEF Check, Good, Extent, BeforePoints
<1>4. CASE Step("intent", at)
  <2>1. ChangedUpTo(at - 1)' /\ NoneAbove(at - 1)'
    BY <1>1, <1>3, <1>4, SameExtent DEF Step, ChangedUpTo, NoneAbove
  <2>2. Extent'
    BY <1>4, <2>1, BeforeExtent DEF Step, BeforePoints
  <2>3. Backed'
    BY <1>1, <1>4, BackedStays DEF Good, Check, Step, SameTargets, BackedPoints, BeforePoints
  <2> QED BY <1>1, <2>2, <2>3, LadderStays, SurvivesStays DEF Good
<1>5. CASE Unwind(at - 1)
  <2>1. \A p \in Path : at - 1 < p => ~Changed(p)'
    BY <1>1, <1>3, SameChanged DEF NoneAbove
  <2> QED BY <1>1, <1>2, <1>5, <2>1, UnwindExtent, LadderStays, SurvivesStays DEF Good
<1> QED BY <1>4, <1>5 DEF Check

LEMMA IntendGood == ASSUME TypeOK, Good, Grows, Intend PROVE Good'
<1>1. SameTargets /\ UNCHANGED backup
  BY DEF Intend, Log, disk, artifacts, SameTargets
<1>2. at \in Path /\ at - 1 \in 0..N /\ CommitIntent(at) \in Record
  BY PathIndex, RecordTypes DEF Intend, PathPoints, TypeOK
<1>3. ChangedUpTo(at - 1) /\ NoneAbove(at - 1)
  BY DEF Intend, Good, Extent, BeforePoints
<1>4. CASE Logged(CommitIntent(at)) /\ Step("mutate", at)
  <2>1. Has(log', CommitIntent(at))
    BY <1>2, <1>4, LoggedHas DEF TypeOK
  <2>2. ChangedUpTo(at - 1)' /\ NoneAbove(at - 1)'
    BY <1>1, <1>3, <1>4, SameChanged DEF Step, ChangedUpTo, NoneAbove
  <2>3. Extent'
    BY <1>4, <2>1, <2>2, BeforeExtent DEF Step, BeforePoints
  <2>4. Backed'
    BY <1>1, <1>4, BackedStays DEF Good, Intend, Step, SameTargets, BackedPoints, BeforePoints
  <2> QED BY <1>1, <2>3, <2>4, LadderStays, SurvivesStays DEF Good
<1>5. CASE Unwind(at - 1)
  <2>1. \A p \in Path : at - 1 < p => ~Changed(p)'
    BY <1>1, <1>3, SameChanged DEF NoneAbove
  <2> QED BY <1>1, <1>2, <1>5, <2>1, UnwindExtent, LadderStays, SurvivesStays DEF Good
<1> QED BY <1>4, <1>5 DEF Intend, Log

\* The target of path at is changed, or it is not.
LEMMA ChangeStep ==
  ASSUME TypeOK, Good, Grows, pc = "mutate", at \in Path,
         NEW file, file # Before(at), file # "bak",
         Becomes(at, file), UNCHANGED <<kind, backup, at>>
  PROVE  /\ Ladder' /\ Survives'
         /\ \A p \in Path : p <= at => Changed(p)'
         /\ \A p \in Path : at < p => ~Changed(p)'
<1>1. ChangedUpTo(at - 1) /\ NoneAbove(at - 1) /\ Has(log, CommitIntent(at))
  BY DEF Good, Extent, BeforePoints
<1>2. /\ Changed(at)'
      /\ \A p \in Path \ {at} : Changed(p)' <=> Changed(p)
      /\ \A p \in Path : slot'[p] = "bak" => slot[p] = "bak"
  BY DEF Becomes, Changed, Before, TypeOK, DiskOK
<1>3. \A p \in Path : p <= at => Changed(p)'
  BY <1>1, <1>2 DEF ChangedUpTo
<1>4. \A p \in Path : at < p => ~Changed(p)'
  BY <1>1, <1>2 DEF NoneAbove
<1>5. Ladder'
  <2> SUFFICES ASSUME NEW p \in Path
               PROVE  /\ Changed(p)' => Has(log, CommitIntent(p))'
                      /\ Changed(p)' => \A q \in 1..p-1 : Changed(q)'
                      /\ slot'[p] = "bak" => Has(log, RollbackIntent(p))'
    BY DEF Ladder
  <2>1. Changed(p)' => Has(log', CommitIntent(p))
    BY <1>1, <1>2 DEF Good, Ladder, Grows
  <2>2. Changed(p)' => \A q \in 1..p-1 : Changed(q)'
    BY <1>3, <1>4
  <2>3. slot'[p] = "bak" => Has(log', RollbackIntent(p))
    BY <1>2 DEF Good, Ladder, Grows
  <2> QED BY <2>1, <2>2, <2>3
<1>6. Survives'
  BY DEF Survives, Good, Backed, BackedPoints, BeforePoints
<1> QED BY <1>3, <1>4, <1>5, <1>6

LEMMA MutateGood ==
  ASSUME TypeOK, Good, Grows, LinkStage \/ ReplaceTarget \/ RemoveSource PROVE Good'
<1>1. pc = "mutate" /\ at \in Path /\ UNCHANGED <<kind, backup>>
  BY PathIndex
     DEF LinkStage, ReplaceTarget, RemoveSource, MutateStep, Unsuited, Quiet, Still, disk,
         artifacts, PathPoints, TypeOK
<1>2. ChangedUpTo(at - 1) /\ NoneAbove(at - 1)
  BY <1>1 DEF Good, Extent, BeforePoints
<1>3. CASE UNCHANGED slot /\ Step("classify", at)
  <2>1. SameTargets
    BY <1>1, <1>3 DEF SameTargets
  <2>2. NoneAbove(at)'
    BY <1>1, <1>2, <1>3, <2>1, SameChanged DEF NoneAbove, Step
  <2> QED BY <1>1, <1>3, <2>1, <2>2, RestoringExtent, LadderStays, SurvivesStays
             DEF Good, Step, RestoringPoints
<1>4. CASE /\ \E file \in {"none", "new"} : file # Before(at) /\ Becomes(at, file)
           /\ \E l \in {"unlink_stage", "sync", "classify"} : Step(l, at)
  <2>1. PICK file \in {"none", "new"} : file # Before(at) /\ Becomes(at, file)
    BY <1>4
  <2>2. /\ Ladder' /\ Survives'
        /\ \A p \in Path : p <= at => Changed(p)'
        /\ \A p \in Path : at < p => ~Changed(p)'
    BY <1>1, <1>4, <2>1, ChangeStep DEF Step
  <2>3. at' = at /\ ChangedUpTo(at)' /\ NoneAbove(at)'
    BY <1>4, <2>2 DEF Step, ChangedUpTo, NoneAbove
  <2>4. Extent'
    BY <1>4, <2>3, AfterExtent, RestoringExtent DEF Step, AfterPoints, RestoringPoints
  <2>5. Backed'
    BY <1>1, <1>4, BackedStays
       DEF Good, Step, BackedPoints, BeforePoints, AfterPoints, RestoringPoints
  <2> QED BY <2>2, <2>4, <2>5 DEF Good
<1>5. CASE LinkStage
  <2>1. Before(at) # "new"
    BY DEF Before
  <2> QED
    BY <1>3, <1>4, <1>5, <2>1 DEF LinkStage, MutateStep, Unsuited, Call, Quiet, Still, disk
<1>6. CASE ReplaceTarget
  <2>1. Before(at) # "new"
    BY DEF Before
  <2> QED BY <1>3, <1>4, <1>6, <2>1 DEF ReplaceTarget, MutateStep, Call
<1>7. CASE RemoveSource
  <2>1. kind[at] = "delete" => Before(at) # "none"
    BY DEF Before
  <2> QED
    BY <1>3, <1>4, <1>7, <2>1 DEF RemoveSource, MutateStep, Unsuited, Call, Quiet, Still, disk
<1> QED BY <1>5, <1>6, <1>7

LEMMA InstallGood ==
  ASSUME TypeOK, Good, Grows, UnlinkStage \/ SyncParent PROVE Good'
<1>1. SameTargets /\ UNCHANGED backup
  BY DEF UnlinkStage, SyncParent, MutateStep, Unsuited, Quiet, Still, disk, artifacts,
         SameTargets
<1>2. pc \in AfterPoints /\ ChangedUpTo(at) /\ NoneAbove(at)
  BY DEF UnlinkStage, SyncParent, Good, Extent, AfterPoints
<1>3. Step("sync", at) \/ Step("committed", at) \/ Step("classify", at)
  BY DEF UnlinkStage, SyncParent, MutateStep, Unsuited, Call
<1>4. ChangedUpTo(at)' /\ NoneAbove(at)'
  BY <1>1, <1>2, <1>3, SameChanged DEF Step, ChangedUpTo, NoneAbove
<1>5. Extent'
  BY <1>3, <1>4, AfterExtent, RestoringExtent DEF Step, AfterPoints, RestoringPoints
<1>6. Backed'
  BY <1>1, <1>2, <1>3, BackedStays
     DEF Good, Step, SameTargets, BackedPoints, AfterPoints, RestoringPoints
<1> QED BY <1>1, <1>5, <1>6, LadderStays, SurvivesStays DEF Good

LEMMA ClassifyGood == ASSUME TypeOK, Good, Grows, Classify PROVE Good'
<1>1. SameTargets /\ UNCHANGED backup
  BY DEF Classify, Quiet, Still, disk, artifacts, SameTargets
<1>2. at \in Path /\ at \in 0..N /\ at - 1 \in 0..N /\ NoneAbove(at)
  BY PathIndex DEF Classify, Good, Extent, RestoringPoints, PathPoints, TypeOK
<1>3. CASE Unwind(at)
  <2>1. \A p \in Path : at < p => ~Changed(p)'
    BY <1>1, <1>2, SameChanged DEF NoneAbove
  <2> QED BY <1>1, <1>2, <1>3, <2>1, UnwindExtent, LadderStays, SurvivesStays DEF Good
<1>4. CASE slot[at] = Before(at) /\ Unwind(at - 1)
  <2>1. \A p \in Path : at - 1 < p => ~Changed(p)'
    BY <1>1, <1>2, <1>4, SameChanged DEF NoneAbove, Changed
  <2> QED BY <1>1, <1>2, <1>4, <2>1, UnwindExtent, LadderStays, SurvivesStays DEF Good
<1>5. CASE Leave("recovery_required")
  BY <1>1, <1>5, DownExtent, LadderStays, SurvivesStays DEF Good, Leave
<1> QED BY <1>3, <1>4, <1>5 DEF Classify

LEMMA CompleteGood ==
  ASSUME TypeOK, Good, Grows, CompletePath PROVE Good'
<1>1. SameTargets /\ UNCHANGED backup
  BY DEF CompletePath, Log, disk, artifacts, SameTargets
<1>2. at \in Path /\ at \in 0..N /\ ChangedUpTo(at) /\ NoneAbove(at)
  BY PathIndex DEF CompletePath, Good, Extent, AfterPoints, PathPoints, TypeOK
<1>3. CASE Step("check", at + 1)
  <2>1. ChangedUpTo(at - 1)' /\ NoneAbove(at - 1)'
    BY <1>1, <1>2, <1>3, SameChanged DEF Step, ChangedUpTo, NoneAbove
  <2>2. Extent'
    BY <1>3, <2>1, BeforeExtent DEF Step, BeforePoints
  <2>3. Backed'
    BY <1>1, <1>3, BackedStays
       DEF Good, CompletePath, Step, SameTargets, BackedPoints, BeforePoints, AfterPoints
  <2> QED BY <1>1, <2>2, <2>3, LadderStays, SurvivesStays DEF Good
<1>4. CASE Step("finish", 0)
  <2>1. Extent' /\ Backed'
    BY <1>4
       DEF Step, Extent, Backed, StillPoints, ClosingPoints, BeforePoints, AfterPoints,
           RestoringPoints, RestoredPoints, BackedPoints
  <2> QED BY <1>1, <2>1, LadderStays, SurvivesStays DEF Good
<1>5. CASE Unwind(at)
  <2>1. \A p \in Path : at < p => ~Changed(p)'
    BY <1>1, <1>2, SameChanged DEF NoneAbove
  <2> QED BY <1>1, <1>2, <1>5, <2>1, UnwindExtent, LadderStays, SurvivesStays DEF Good
<1> QED BY <1>3, <1>4, <1>5 DEF CompletePath, Log

LEMMA FinishGood == ASSUME TypeOK, Good, Grows, FinishCommit PROVE Good'
<1>1. SameTargets /\ UNCHANGED backup
  BY DEF FinishCommit, Log, disk, artifacts, SameTargets
<1>2. Extent' /\ Backed'
  BY LoggedHas, RecordTypes, ClosingExtent, DownExtent
     DEF FinishCommit, Log, Step, Leave, ClosingPoints, TypeOK
<1> QED BY <1>1, <1>2, LadderStays, SurvivesStays DEF Good

-----------------------------------------------------------------------------
(* Going back, in the process that failed or in a later one.               *)

LEMMA RollbackGood ==
  ASSUME TypeOK, Good, Grows,
         \/ DropReceipt \/ IntendRollback \/ FinishRollback \/ VerifyRestored
         \/ CompleteRollback
  PROVE  Good'
<1>1. SameTargets /\ UNCHANGED backup
  BY DEF DropReceipt, IntendRollback, FinishRollback, VerifyRestored, CompleteRollback, Log,
         Quiet, Still, disk, artifacts, SameTargets
<1>2. /\ pc \in {"drop_receipt", "rollback"} => NoneAbove(at)
      /\ pc \in {"restored", "rolled_back"} => NoneAbove(at - 1)
  BY DEF Good, Extent, RestoringPoints, RestoredPoints
<1>3. CASE pc' = "down"
  BY <1>1, <1>3, DownExtent, LadderStays, SurvivesStays DEF Good
<1>4. CASE /\ pc' = "rollback"
           /\ \/ NoneAbove(at) /\ at' = at
              \/ NoneAbove(at - 1) /\ at' = at - 1
  <2>1. NoneAbove(at)'
    BY <1>1, <1>4, SameChanged DEF NoneAbove
  <2> QED BY <1>1, <1>4, <2>1, RestoringExtent, LadderStays, SurvivesStays
             DEF Good, RestoringPoints
<1>5. CASE IntendRollback /\ pc' # "down"
  <2>1. at \in Path /\ Logged(RollbackIntent(at)) /\ Step("restore", at)
    BY <1>5, PathIndex DEF IntendRollback, Log, Leave, UnwindPoints, TypeOK
  <2>2. Has(log', RollbackIntent(at))
    BY <2>1, LoggedHas, RecordTypes DEF TypeOK
  <2>3. NoneAbove(at)'
    BY <1>1, <1>2, <1>5, <2>1, SameChanged DEF IntendRollback, Step, NoneAbove
  <2> QED BY <1>1, <2>1, <2>2, <2>3, RestoringExtent, LadderStays, SurvivesStays
             DEF Good, Step, RestoringPoints
<1>6. CASE FinishRollback /\ pc' # "down"
  <2>1. pc' = "clean" /\ Untouched
    BY <1>2, <1>6 DEF FinishRollback, Log, Step, Leave, NoneAbove, Untouched
  <2>2. Untouched'
    BY <1>1, <2>1, SameChanged DEF Untouched
  <2> QED BY <1>1, <2>1, <2>2, ClosingExtent, LadderStays, SurvivesStays DEF Good, ClosingPoints
<1>7. CASE VerifyRestored /\ pc' # "down"
  <2>1. NoneAbove(at - 1)' /\ pc' = "rolled_back"
    BY <1>1, <1>2, <1>7, SameChanged DEF VerifyRestored, Step, Leave, NoneAbove
  <2> QED BY <1>1, <2>1, RestoredExtent, LadderStays, SurvivesStays DEF Good, RestoredPoints
<1>8. DropReceipt /\ pc' # "down" => pc' = "rollback" /\ NoneAbove(at) /\ at' = at
  BY <1>2 DEF DropReceipt, Call, Step, Leave
<1>9. CompleteRollback /\ pc' # "down" => pc' = "rollback" /\ NoneAbove(at - 1) /\ at' = at - 1
  BY <1>2 DEF CompleteRollback, Log, Step, Leave
<1> QED BY <1>3, <1>4, <1>5, <1>6, <1>7, <1>8, <1>9

\* The target of path at is as it was, and its backup may be spent.
LEMMA RestoreStepGood ==
  ASSUME TypeOK, Good, Grows, at \in Path, NoneAbove(at), Has(log, RollbackIntent(at)),
         NEW file, file = "bak" \/ (file = "none" /\ kind[at] = "create"),
         Becomes(at, file), kind' = kind, backup' = backup \/ Gone(backup, at)
  PROVE  /\ Ladder' /\ Survives'
         /\ \A p \in Path : at - 1 < p => ~Changed(p)'
<1>1. /\ slot'[at] = file
      /\ \A p \in Path \ {at} : slot'[p] = slot[p] /\ backup'[p] = backup[p]
  BY DEF Becomes, Gone, TypeOK, DiskOK
<1>2. \A p \in Path \ {at} : Changed(p)' <=> Changed(p)
  BY <1>1 DEF Changed, Before
<1>3. \A p \in Path : p = at => ~Changed(p)'
  BY <1>1 DEF Changed, Before
<1>4. \A p \in Path : at - 1 < p => ~Changed(p)'
  BY <1>2, <1>3 DEF NoneAbove
<1>5. Ladder'
  <2> SUFFICES ASSUME NEW p \in Path
               PROVE  /\ Changed(p)' => Has(log, CommitIntent(p))'
                      /\ Changed(p)' => \A q \in 1..p-1 : Changed(q)'
                      /\ slot'[p] = "bak" => Has(log, RollbackIntent(p))'
    BY DEF Ladder
  <2>1. Changed(p)' => Changed(p) /\ p < at
    BY <1>2, <1>3, <1>4
  <2>2. Changed(p)' => Has(log', CommitIntent(p))
    BY <2>1 DEF Good, Ladder, Grows
  <2>3. Changed(p)' => \A q \in 1..p-1 : Changed(q)'
    BY <1>2, <2>1 DEF Good, Ladder
  <2>4. slot'[p] = "bak" => Has(log', RollbackIntent(p))
    BY <1>1 DEF Good, Ladder, Grows
  <2> QED BY <2>2, <2>3, <2>4
<1>6. Survives'
  BY <1>1 DEF Survives, Good, Grows
<1> QED BY <1>4, <1>5, <1>6

LEMMA ReturnGood ==
  ASSUME TypeOK, Good, Grows, NEW l \in RestoredPoints, NEW r, at \in Path, NoneAbove(at),
         \/ Has(log, RollbackIntent(at)) /\ RemoveCreated(l, r) /\ kind[at] = "create"
         \/ Has(log, RollbackIntent(at)) /\ (RenameBackup(l) \/ LinkBackup(l))
         \/ NoneAbove(at - 1) /\ UnlinkBackup(l, r)
  PROVE  Good'
<1>1. /\ kind' = kind /\ (backup' = backup \/ Gone(backup, at))
      /\ pc' = "down" \/ (pc' = l /\ at' = at)
  BY DEF RemoveCreated, RenameBackup, LinkBackup, UnlinkBackup, RestoreStep, Refuse, Call, Step,
         Leave, Quiet, Still, disk, artifacts
<1>2. ASSUME Has(log, RollbackIntent(at)), NEW file, Becomes(at, file),
             file = "bak" \/ (file = "none" /\ kind[at] = "create")
      PROVE  Good'
  <2>1. /\ Ladder' /\ Survives'
        /\ \A p \in Path : at - 1 < p => ~Changed(p)'
    BY <1>1, <1>2, RestoreStepGood
  <2>2. CASE pc' = "down"
    BY <2>1, <2>2, DownExtent DEF Good
  <2>3. CASE pc' = l /\ at' = at
    <3>1. NoneAbove(at - 1)'
      BY <2>1, <2>3 DEF NoneAbove
    <3> QED BY <2>1, <2>3, <3>1, RestoredExtent DEF Good
  <2> QED BY <1>1, <2>2, <2>3
<1>3. CASE slot' = slot /\ pc' = "down" /\ backup' = backup
  BY <1>1, <1>3, DownExtent, LadderStays, SurvivesStays DEF Good, SameTargets
<1>4. CASE UnlinkBackup(l, r) /\ NoneAbove(at - 1) /\ slot' = slot /\ slot[at] = "bak"
  <2>1. SameTargets
    BY <1>1, <1>4 DEF SameTargets
  <2>2. Ladder'
    BY <2>1, LadderStays DEF Good
  <2>3. \A p \in Path \ {at} : backup'[p] = backup[p]
    BY <1>1 DEF Gone, TypeOK, DiskOK
  <2>4. Survives'
    BY <1>1, <1>4, <2>3 DEF Survives, Good, Grows
  <2>5. CASE pc' = "down"
    BY <2>2, <2>4, <2>5, DownExtent DEF Good
  <2>6. CASE pc' = l /\ at' = at
    <3>1. NoneAbove(at - 1)'
      BY <1>4, <2>1, <2>6, SameChanged DEF NoneAbove
    <3> QED BY <2>2, <2>4, <2>6, <3>1, RestoredExtent DEF Good
  <2> QED BY <1>1, <2>5, <2>6
<1>5. CASE Has(log, RollbackIntent(at)) /\ RemoveCreated(l, r) /\ kind[at] = "create"
  BY <1>2, <1>3, <1>5
     DEF RemoveCreated, RestoreStep, Refuse, Call, Step, Leave, Quiet, Still, disk, artifacts
<1>6. CASE Has(log, RollbackIntent(at)) /\ RenameBackup(l)
  BY <1>2, <1>3, <1>6 DEF RenameBackup, RestoreStep, Call, Leave
<1>7. CASE Has(log, RollbackIntent(at)) /\ LinkBackup(l)
  BY <1>2, <1>3, <1>7 DEF LinkBackup, RestoreStep, Call, Leave
<1>8. CASE NoneAbove(at - 1) /\ UnlinkBackup(l, r)
  BY <1>3, <1>4, <1>8
     DEF UnlinkBackup, LinkedBackup, Refuse, Leave, Quiet, Still, disk, artifacts
<1> QED BY <1>5, <1>6, <1>7, <1>8

LEMMA RestoreGood ==
  ASSUME TypeOK, Good, Grows,
         Restore \/ FinishRestore \/ RecoverRestore \/ RecoverUnlink
  PROVE  Good'
<1>1. at \in Path
  BY PathIndex DEF Restore, FinishRestore, RecoverRestore, RecoverUnlink, PathPoints, TypeOK
<1>2. CASE FinishRestore \/ RecoverUnlink
  <2>1. NoneAbove(at - 1) /\ NoneAbove(at)
    BY <1>1, <1>2 DEF FinishRestore, RecoverUnlink, Good, Extent, RestoredPoints, NoneAbove
  <2> QED BY <1>1, <1>2, <2>1, ReturnGood DEF FinishRestore, RecoverUnlink, RestoredPoints
<1>3. CASE Restore \/ RecoverRestore
  <2>1. NoneAbove(at) /\ Has(log, RollbackIntent(at))
    BY <1>3 DEF Restore, RecoverRestore, Good, Extent, RestoringPoints
  <2>2. CASE \E r : Refuse(r)
    BY <2>2, DownExtent, LadderStays, SurvivesStays
       DEF Refuse, Leave, Quiet, Still, disk, artifacts, SameTargets, Good
  <2> QED BY <1>1, <1>3, <2>1, <2>2, ReturnGood DEF Restore, RecoverRestore, RestoredPoints
<1> QED BY <1>2, <1>3

-----------------------------------------------------------------------------
(* Closing, and what recovery decides.                                     *)

LEMMA CleanupGood ==
  ASSUME TypeOK, Good, Grows, Cleanup PROVE Good'
<1>1. SameTargets
  BY CleanupSlots, CleanupFrame DEF Frame, SameTargets
<1>2. /\ pc \in ClosingPoints
      /\ pc' \in ClosingPoints \cup {"down"}
  BY DEF Cleanup, Clean, RetainBackup, AllRetained, DropTransitional, RemoveJournal,
         RemoveStage, RemoveBackup, Call, call, Step, Leave, ClosingPoints
<1>3. CASE Untouched
  BY <1>1, <1>2, <1>3, UntouchedSurvives, LadderStays, ClosingExtent, DownExtent DEF Good
<1>4. CASE Has(log, FinishedCommitted)
  <2>1. Has(log', FinishedCommitted)
    BY <1>4 DEF Grows
  <2> QED BY <1>1, <1>2, <2>1, LadderStays, ClosingExtent, DownExtent DEF Good, Survives
<1> QED BY <1>2, <1>3, <1>4 DEF Good, Extent

LEMMA NotChanged ==
  \A p \in Path : MatchesBefore(p) => ~Changed(p)
  BY DEF MatchesBefore, Changed, Before

PathRecords == {"CommitIntent", "Committed", "RollbackIntent", "RolledBack"}

LEMMA OtherTypes ==
  /\ \A k : PreambleAt(k).type \notin PathRecords
  /\ \A k : PreambleAt(k) \notin Finished
  /\ \A r \in Finished : r.type \notin PathRecords
BY DEF PreambleAt, PathRecords, Finished, FinishedCommitted, FinishedAborted,
       FinishedRolledBack, Header, Operation, PathIntent, PathStaged, Prepared

LEMMA PreambleScript ==
  /\ PreambleAt(1) = Header
  /\ \A o \in 1..Ops : PreambleAt(o + 1) = Operation(o)
  /\ \A p \in Path : PreambleAt(Ops + p + 1) = PathIntent(p)
  /\ \A p \in Path : PreambleAt(Ops + N + p + 1) = PathStaged(p)
  /\ PreambleAt(Ops + 2*N + 2) = Prepared
<1>1. PreambleAt(1) = Header
  BY DEF PreambleAt
<1>2. \A o \in 1..Ops : PreambleAt(o + 1) = Operation(o)
  BY DEF PreambleAt
<1>3. \A p \in Path : PreambleAt(Ops + p + 1) = PathIntent(p)
  BY DEF PreambleAt
<1>4. \A p \in Path : PreambleAt(Ops + N + p + 1) = PathStaged(p)
  BY DEF PreambleAt
<1>5. PreambleAt(Ops + 2*N + 2) = Prepared
  BY DEF PreambleAt
<1> QED
  BY <1>1, <1>2, <1>3, <1>4, <1>5

\* Prepared ends the script.
LEMMA PreparedLast ==
  ASSUME NEW k \in 1..PreambleLength, PreambleAt(k) = Prepared PROVE k = PreambleLength
<1> USE DEF Header, Operation, PathIntent, PathStaged, Prepared
<1>1. k # 1
  BY DEF PreambleAt
<1>2. k \notin 2..Ops+1
  BY DEF PreambleAt
<1>3. k \notin Ops+2..Ops+N+1
  BY DEF PreambleAt
<1>4. k \notin Ops+N+2..Ops+2*N+1
  BY DEF PreambleAt
<1> QED BY <1>1, <1>2, <1>3, <1>4, JournalAssumption DEF PreambleLength

\* A change is intended only when every path is named in the journal.
LEMMA PathsFirst ==
  ASSUME NEW j \in Seq(Record), Replayable(j), NEW p \in Path, NEW q \in CommitIntents(j)
  PROVE  Has(j, PathIntent(p))
<1> DEFINE i(k) == SubSeq(j, 1, k - 1)
<1>1. ASSUME NEW k \in DOMAIN j
      PROVE  /\ k \in Nat \ {0} /\ i(k) \in Seq(Record) /\ Len(i(k)) = k - 1
             /\ DOMAIN i(k) = 1..k-1 /\ \A m \in 1..k-1 : m \in DOMAIN j /\ i(k)[m] = j[m]
  OBVIOUS
<1>2. \A k \in DOMAIN j : MayFollow(i(k), j[k])
  BY DEF Replayable
<1> HIDE DEF i
<1>a. Ops \in Nat /\ N \in Nat /\ PreambleLength \in Nat /\ PreambleLength = Ops + N + N + 2
  BY JournalAssumption DEF PreambleLength
<1>3. ASSUME NEW k \in DOMAIN j, j[k] = Prepared PROVE k = PreambleLength
  <2>1. MayPrepare(i(k), Prepared)
    BY <1>2, <1>3
       DEF MayFollow, MayFinish, Prepared, CommitIntent, Committed, RollbackIntent, RolledBack,
           FinishedCommitted, FinishedAborted, FinishedRolledBack
  <2>2. k - 1 < PreambleLength /\ Prepared = PreambleAt((k - 1) + 1) /\ k \in Nat \ {0}
    BY <1>1, <2>1 DEF MayPrepare
  <2>3. k \in 1..PreambleLength /\ (k - 1) + 1 = k
    BY <1>a, <2>2
  <2> QED BY <2>2, <2>3, PreparedLast
<1>4. ASSUME NEW k \in DOMAIN j, NEW x \in Path, j[k] = CommitIntent(x) PROVE k > PreambleLength
  <2>1. MayIntend(i(k), x)
    BY <1>2, <1>4, OtherTypes
       DEF MayFollow, MayPrepare, MayFinish, PathRecords, Finished, CommitIntent, Committed,
           RollbackIntent, RolledBack
  <2>2. PICK m \in 1..k-1 : i(k)[m] = Prepared
    BY <1>1, <2>1 DEF MayIntend, Has
  <2>3. m \in DOMAIN j /\ j[m] = Prepared /\ k \in Nat
    BY <1>1, <2>2
  <2>4. m = PreambleLength
    BY <1>3, <2>3
  <2> QED BY <1>a, <2>3, <2>4
<1>5. ASSUME NEW k \in DOMAIN j, CommitIntents(i(k)) # {} PROVE k > PreambleLength
  <2>1. PICK x \in Path, m \in 1..k-1 : i(k)[m] = CommitIntent(x)
    BY <1>1, <1>5 DEF CommitIntents, Has
  <2>2. m \in DOMAIN j /\ j[m] = CommitIntent(x) /\ k \in Nat /\ m \in Nat
    BY <1>1, <2>1
  <2>3. m > PreambleLength
    BY <1>4, <2>2
  <2> QED BY <1>a, <2>2, <2>3
<1>6. ASSUME NEW k \in DOMAIN j, RollbackIntents(i(k)) # {} PROVE k > PreambleLength
  <2>1. PICK x \in Path, m \in 1..k-1 : i(k)[m] = RollbackIntent(x)
    BY <1>1, <1>6 DEF RollbackIntents, Has
  <2>2. m \in DOMAIN j /\ j[m] = RollbackIntent(x) /\ k \in Nat /\ m \in Nat
    BY <1>1, <2>1
  <2>3. MayRollback(i(m), x)
    BY <1>2, <2>2, OtherTypes
       DEF MayFollow, MayPrepare, MayFinish, PathRecords, Finished, CommitIntent, Committed,
           RollbackIntent, RolledBack
  <2>4. m > PreambleLength
    BY <1>5, <2>2, <2>3 DEF MayRollback
  <2> QED BY <1>a, <2>2, <2>4
<1>7. PICK k \in DOMAIN j : j[k] = CommitIntent(q) /\ k > PreambleLength
  BY <1>4 DEF CommitIntents, Has
<1>8. PICK m \in Nat : m = Ops + p + 1
  BY <1>a DEF Path
<1>9. m \in 1..k-1 /\ m \in DOMAIN j /\ ~(m > PreambleLength) /\ m # PreambleLength
  <2>1. k \in Nat /\ \A x \in 1..k-1 : x \in DOMAIN j
    BY <1>1
  <2>2. p \in Nat /\ p >= 1 /\ p <= N
    BY <1>a DEF Path
  <2>3. m < PreambleLength /\ m >= 1
    BY <1>8, <1>a, <2>2
  <2>4. m \in 1..k-1 /\ ~(m > PreambleLength) /\ m # PreambleLength
    BY <1>7, <1>a, <2>1, <2>3
  <2> QED BY <2>1, <2>4
<1>10. j[m] \notin Finished
  BY <1>1, <1>2, <1>7, <1>9 DEF MayFollow, IsFinished, Has
<1>11. CommitIntents(i(m)) = {} /\ RollbackIntents(i(m)) = {}
  BY <1>5, <1>6, <1>9
<1>12. ~Has(i(m), Prepared)
  <2> SUFFICES ASSUME NEW x \in 1..m-1, i(m)[x] = Prepared PROVE FALSE
    BY <1>1, <1>9 DEF Has
  <2>1. x \in DOMAIN j /\ j[x] = Prepared
    BY <1>1, <1>9
  <2>2. x = PreambleLength
    BY <1>3, <2>1
  <2> QED BY <1>8, <1>9, <1>a, <2>2
<1>13. MayPrepare(i(m), j[m])
  BY <1>2, <1>9, <1>10, <1>11, <1>12
     DEF MayFollow, MayFinish, MayIntend, MayCommit, MayRollback, MayRestore, Finished
<1>14. j[m] = PreambleAt((m - 1) + 1) /\ (m - 1) + 1 = m
  <2>1. Len(i(m)) = m - 1
    BY <1>1, <1>9
  <2> QED BY <1>13, <2>1 DEF MayPrepare
<1> QED BY <1>8, <1>9, <1>14, PreambleScript DEF Has

LEMMA OpenGood == ASSUME TypeOK, Good, Grows, Open \/ OpenFails PROVE Good'
<1>1. SameTargets /\ UNCHANGED backup
  BY DEF Open, OpenFails, Still, disk, artifacts, SameTargets
<1>2. CASE pc' = "down"
  BY <1>1, <1>2, DownExtent, LadderStays, SurvivesStays DEF Good
<1>3. CASE log = <<>> /\ pc' = "remove_journal"
  <2>1. Untouched
    BY <1>3 DEF Good, Ladder, Has, Untouched
  <2>2. Untouched'
    BY <1>1, <2>1, SameChanged DEF Untouched
  <2> QED BY <1>1, <1>3, <2>2, ClosingExtent, LadderStays, SurvivesStays DEF Good, ClosingPoints
<1>4. CASE pc' = "recover"
  <2>1. Extent' /\ Backed'
    BY <1>4 DEF Extent, Backed, StillPoints, ClosingPoints, BeforePoints, AfterPoints,
                RestoringPoints, RestoredPoints, BackedPoints
  <2> QED BY <1>1, <2>1, LadderStays, SurvivesStays DEF Good
<1> QED BY <1>2, <1>3, <1>4 DEF Open, OpenFails, Step, Leave

\* A recovery looks at the paths the journal names; no other has changed.
LEMMA ListedUntouched ==
  ASSUME TypeOK, Direction, Good, pc = "recover", \A p \in Listed : MatchesBefore(p)
  PROVE  Untouched
<1> SUFFICES ASSUME NEW p \in Path, Changed(p) PROVE FALSE
  BY DEF Untouched
<1>1. p \in CommitIntents(parsed) /\ Replayable(parsed) /\ parsed \in Seq(Record)
  BY DEF Direction, Good, Ladder, CommitIntents, TypeOK, LogOK
<1>2. p \in Listed
  BY <1>1, PathsFirst DEF Listed
<1> QED BY <1>2, NotChanged

LEMMA JudgeGood ==
  ASSUME TypeOK, Direction, Good, Grows, Snapshot,
         \/ RecoverFinished \/ RecoverUncommitted \/ RecordAbort \/ RecoverChanged
         \/ RecordRollback \/ RefusePath \/ ReadReceipt
  PROVE  Good'
<1>1. SameTargets /\ UNCHANGED backup
  BY DEF RecoverFinished, RecoverUncommitted, RecordAbort, RecoverChanged, RecordRollback,
         RefusePath, ReadReceipt, Refuse, Log, Quiet, Still, disk, artifacts, SameTargets
<1>2. CASE pc' = "down"
  BY <1>1, <1>2, DownExtent, LadderStays, SurvivesStays DEF Good
<1>3. CASE pc' \in ClosingPoints /\ (Untouched \/ Has(log, FinishedCommitted))
  <2>1. Untouched' \/ Has(log', FinishedCommitted)
    BY <1>1, <1>3, SameChanged DEF Untouched, Grows
  <2> QED BY <1>1, <1>3, <2>1, ClosingExtent, LadderStays, SurvivesStays DEF Good
<1>4. CASE pc' = "recover_abort" /\ Untouched
  <2>1. Untouched'
    BY <1>1, <1>4, SameChanged DEF Untouched
  <2>2. Extent'
    BY <1>4, <2>1, StillExtent DEF StillPoints
  <2>3. Backed'
    BY <1>4 DEF Backed, BackedPoints, BeforePoints, AfterPoints
  <2> QED BY <1>1, <2>2, <2>3, LadderStays, SurvivesStays DEF Good
<1>5. CASE pc' = "recover_path" /\ at' = N
  <2>1. NoneAbove(at)'
    BY <1>5 DEF NoneAbove
  <2> QED BY <1>1, <1>5, <2>1, RestoringExtent, LadderStays, SurvivesStays
             DEF Good, RestoringPoints
<1>6. CASE RecoverFinished
  <2>1. Has(parsed, FinishedCommitted) => Has(log, FinishedCommitted)
    BY RecordTypes DEF Snapshot
  <2>2. (\A p \in Listed : MatchesBefore(p)) => Untouched
    BY <1>6, ListedUntouched DEF RecoverFinished
  <2> QED BY <1>2, <1>3, <1>6, <2>1, <2>2 DEF RecoverFinished, Step, Leave, ClosingPoints
<1>7. CASE RecoverUncommitted
  <2>1. (\A p \in Listed : MatchesBefore(p)) => Untouched
    BY <1>7, ListedUntouched DEF RecoverUncommitted
  <2> QED BY <1>2, <1>4, <1>7, <2>1 DEF RecoverUncommitted, Step, Leave
<1>8. CASE RecordAbort
  <2>1. Untouched
    BY <1>8 DEF RecordAbort, Good, Extent, StillPoints
  <2> QED BY <1>2, <1>3, <1>8, <2>1 DEF RecordAbort, Log, Step, Leave, ClosingPoints
<1>9. CASE RecordRollback
  <2>1. Untouched
    BY <1>9 DEF RecordRollback, Good, Extent, RestoringPoints, NoneAbove, Untouched
  <2> QED BY <1>2, <1>3, <1>9, <2>1 DEF RecordRollback, Log, Step, Leave, ClosingPoints
<1>10. CASE RecoverChanged
  BY <1>5, <1>10 DEF RecoverChanged, Step
<1>11. CASE RefusePath
  BY <1>2, <1>11 DEF RefusePath, Refuse, Leave
<1>12. CASE ReadReceipt
  <2>1. Untouched \/ Has(log, FinishedCommitted)
    BY <1>12 DEF ReadReceipt, Good, Extent, ClosingPoints
  <2> QED BY <1>2, <1>3, <1>12, <2>1 DEF ReadReceipt, Step, Leave, ClosingPoints
<1> QED BY <1>6, <1>7, <1>8, <1>9, <1>10, <1>11, <1>12

LEMMA PathGood ==
  ASSUME TypeOK, Good, Grows, Snapshot,
         \/ ResumeRestore \/ SkipPath \/ AttestPath \/ RollbackPath \/ RecoverVerify
         \/ RecordPath
  PROVE  Good'
<1>1. SameTargets /\ UNCHANGED backup
  BY DEF ResumeRestore, SkipPath, AttestPath, RollbackPath, RecoverVerify, RecordPath,
         Announce, Log, Quiet, Still, disk, artifacts, SameTargets
<1>2. at \in Path
  BY PathIndex
     DEF ResumeRestore, SkipPath, AttestPath, RollbackPath, RecoverVerify, RecordPath, AtPath,
         PathPoints, UnwindPoints, TypeOK
<1>3. CASE pc' = "down"
  BY <1>1, <1>3, DownExtent, LadderStays, SurvivesStays DEF Good
<1>4. CASE pc' \in RestoredPoints /\ at' = at /\ NoneAbove(at - 1)
  <2>1. NoneAbove(at - 1)'
    BY <1>1, <1>4, SameChanged DEF NoneAbove
  <2> QED BY <1>1, <1>4, <2>1, RestoredExtent, LadderStays, SurvivesStays DEF Good
<1>5. CASE pc' = "recover_path" /\ at' = at - 1 /\ NoneAbove(at - 1)
  <2>1. NoneAbove(at)'
    BY <1>1, <1>5, SameChanged DEF NoneAbove
  <2> QED BY <1>1, <1>5, <2>1, RestoringExtent, LadderStays, SurvivesStays
             DEF Good, RestoringPoints
<1>6. pc = "recover_path" => NoneAbove(at)
  BY DEF Good, Extent, RestoringPoints
<1>7. pc = "recover_path" /\ ~Changed(at) => NoneAbove(at - 1)
  BY <1>2, <1>6 DEF NoneAbove
<1>8. CASE ResumeRestore
  <2>1. ~Changed(at)
    BY <1>8 DEF ResumeRestore, HalfRestored, LinkedBackup, Changed
  <2> QED BY <1>4, <1>7, <1>8, <2>1 DEF ResumeRestore, AtPath, Step, RestoredPoints
<1>9. CASE SkipPath
  BY <1>2, <1>5, <1>7, <1>9, NotChanged DEF SkipPath, AtPath, Step
<1>10. CASE AttestPath
  BY <1>2, <1>3, <1>4, <1>7, <1>10, NotChanged
     DEF AttestPath, AtPath, Announce, Log, Step, Leave, RestoredPoints
<1>11. CASE RollbackPath
  <2>1. CASE pc' = "recover_restore" /\ at' = at /\ Has(log', RollbackIntent(at))
    <3>1. NoneAbove(at)'
      BY <1>1, <1>6, <1>11, <2>1, SameChanged DEF RollbackPath, AtPath, NoneAbove
    <3> QED BY <1>1, <2>1, <3>1, RestoringExtent, LadderStays, SurvivesStays
               DEF Good, RestoringPoints
  <2>2. RollbackIntent(at) \in Record
    BY <1>2, RecordTypes
  <2>3. CASE Announced(at) /\ Step("recover_restore", at)
    BY <2>1, <2>2, <2>3 DEF Announced, RollbackIntents, Snapshot, Grows, Step
  <2>4. CASE Logged(RollbackIntent(at)) /\ Step("recover_restore", at)
    BY <2>1, <2>2, <2>4, LoggedHas DEF Step, TypeOK
  <2> QED BY <1>3, <1>11, <2>3, <2>4 DEF RollbackPath, Announce, Log, Leave
<1>12. CASE RecoverVerify \/ RecordPath
  <2>1. NoneAbove(at - 1)
    BY <1>12 DEF RecoverVerify, RecordPath, Good, Extent, RestoredPoints
  <2> QED BY <1>3, <1>4, <1>5, <1>12, <2>1
             DEF RecoverVerify, RecordPath, Log, Step, Leave, RestoredPoints
<1> QED BY <1>8, <1>9, <1>10, <1>11, <1>12

-----------------------------------------------------------------------------
LEMMA ProcessGood ==
  ASSUME TypeOK, Direction, Good, Grows, Snapshot, Process PROVE Good'
<1>1. CASE CommitSteps
  BY <1>1, DecideGood, CheckGood, IntendGood, MutateGood, InstallGood, ClassifyGood,
     CompleteGood, FinishGood, RollbackGood, RestoreGood DEF CommitSteps
<1>2. CASE Recover
  BY <1>2, OpenGood, JudgeGood, PathGood, RestoreGood DEF Recover
<1> QED BY <1>1, <1>2, PrepareGood, CleanupGood DEF Process

LEMMA InitGood == Init => Snapshot /\ Good
<1> SUFFICES ASSUME Init PROVE Snapshot /\ Good
  OBVIOUS
<1>1. Snapshot
  BY DEF Init, Snapshot, Has
<1>2. Untouched /\ \A p \in Path : slot[p] # "bak"
  BY DEF Init, Untouched, Changed, Before
<1>3. Ladder
  BY <1>2 DEF Ladder, Untouched
<1>4. Extent
  BY <1>2 DEF Init, Extent, StillPoints, ClosingPoints, BeforePoints, AfterPoints,
              RestoringPoints, RestoredPoints
<1>5. Backed
  BY DEF Init, Backed, BackedPoints, BeforePoints, AfterPoints
<1>6. Survives
  BY DEF Init, Survives, Before
<1> QED BY <1>1, <1>3, <1>4, <1>5, <1>6 DEF Good

LEMMA GoodHolds == Spec => [](TypeOK /\ Snapshot /\ (Regime => Good))
<1>1. TypeOK /\ Direction /\ Snapshot /\ (Regime => Good) /\ [Next]_vars
        => Snapshot' /\ (Regime => Good)'
  <2> SUFFICES ASSUME TypeOK, Direction, Snapshot, Regime => Good, [Next]_vars
               PROVE  Snapshot' /\ (Regime => Good)'
    OBVIOUS
  <2>1. CASE Process
    <3>1. CASE journal' = FALSE /\ log' = <<>> /\ parsed' = <<>> /\ pc' = "down"
      BY <3>1 DEF Regime, Snapshot, Has
    <3>2. CASE Grows
      <4>1. Snapshot'
        <5>1. parsed' = parsed \/ parsed' = <<>> \/ (parsed' = log /\ log' = log)
          BY <2>1, ProcessFrame DEF Frame
        <5>2. parsed' = <<>> => Snapshot'
          BY DEF Snapshot, Has
        <5> QED BY <3>2, <5>1, <5>2 DEF Snapshot, Grows
      <4>2. Regime' => Regime
        BY <2>1, ProcessFrame DEF Frame, Regime, Undisturbed
      <4> QED BY <2>1, <3>2, <4>1, <4>2, ProcessGood
    <3> QED BY <2>1, <3>1, <3>2, ProcessGrows
  <2>2. CASE Crash
    <3>1. /\ SameTargets /\ UNCHANGED <<backup, log, journal, foreign>>
          /\ parsed' = <<>> /\ pc' = "down"
      BY <2>2 DEF Crash, Leave, Still, disk, artifacts, SameTargets
    <3>2. Grows
      BY <3>1 DEF Grows
    <3>3. Snapshot'
      BY <3>1 DEF Snapshot, Has
    <3>4. Regime' => Regime
      BY <3>1 DEF Regime, Undisturbed
    <3> QED BY <3>1, <3>2, <3>3, <3>4, DownExtent, LadderStays, SurvivesStays DEF Good
  <2>3. ASSUME NEW p \in Path, Foreign(p) PROVE Snapshot' /\ (Regime => Good)'
    <3>1. foreign' # 0 /\ UNCHANGED <<log, parsed>>
      BY <2>3 DEF Foreign, call, TypeOK, EnvOK
    <3> QED BY <3>1 DEF Snapshot, Regime, Undisturbed
  <2>4. CASE UNCHANGED vars
    <3>1. /\ SameTargets /\ Grows
          /\ UNCHANGED <<backup, log, journal, foreign, parsed, pc, at, job>>
      BY <2>4 DEF vars, disk, artifacts, call, env, SameTargets, Grows
    <3>2. Snapshot' /\ (Regime' => Regime)
      BY <3>1 DEF Snapshot, Regime, Undisturbed
    <3>3. Good => Extent' /\ Backed'
      BY <2>4 DEF vars, disk, artifacts, call, Good, Extent, Backed, ChangedUpTo, NoneAbove,
                  Untouched, Changed, Before
    <3> QED BY <3>1, <3>2, <3>3, LadderStays, SurvivesStays DEF Good
  <2> QED BY <2>1, <2>2, <2>3, <2>4 DEF Next, Resolved
<1>2. Init => Snapshot /\ (Regime => Good)
  BY InitGood
<1> QED BY <1>1, <1>2, DirectionHolds, PTL DEF Spec

\* No target differs from what it was without the durable intent that says so,
\* and none is restored without its own; changed paths leave no gap.
THEOREM IntentsComeFirst == Spec => []WriteAhead
<1>1. TypeOK /\ Snapshot /\ (Regime => Good) => WriteAhead
  BY DEF WriteAhead, Regime, Good, Ladder
<1> QED BY <1>1, GoodHolds, PTL

\* Until a commit is durably finished every path that had a content still has
\* it at its target or in a complete backup.
THEOREM OldContentSurvivesCommit == Spec => []BeforeSurvives
<1>1. TypeOK /\ Snapshot /\ (Regime => Good) => BeforeSurvives
  BY DEF BeforeSurvives, Regime, Good, Survives
<1> QED BY <1>1, GoodHolds, PTL

-----------------------------------------------------------------------------
(* All or restored.  The record Finished(COMMITTED) is written where every *)
(* path is changed and nothing writes to a target behind it; everywhere    *)
(* else the journal is removed only where no path is changed.              *)

\* The engine puts nothing else at a target.
Shape ==
  \A p \in Path :
    /\ slot[p] \in {Before(p), After(p), "bak"}
    /\ kind[p] = "create" => slot[p] # "bak"

Decided ==
  /\ pc = "finish" => \A p \in Path : Changed(p)
  /\ Has(log, FinishedCommitted) => \A p \in Path : slot[p] = After(p)
  /\ pc = "keep" => Has(log, FinishedCommitted) /\ \A p \in Path : stage[p] = "none"
  /\ pc \in {"drop_transitional", "remove_journal"} => \A p \in Path : Readable(p)

\* A call is under way only behind its journal, and says how it ended only
\* when the journal is gone.
Running ==
  /\ pc \in {"ready", "down"} \/ journal
  /\ pc = "ready" => log = <<>>
  /\ report \in {"committed", "unchanged"} => Over

Final == Shape /\ Decided

LEMMA ShapeStep ==
  ASSUME TypeOK, Shape, kind' = kind, at \in Path, NEW file, Becomes(at, file),
         file \in {Before(at), After(at)} \/ (file = "bak" /\ kind[at] # "create")
  PROVE  Shape'
<1>1. slot'[at] = file /\ \A p \in Path \ {at} : slot'[p] = slot[p]
  BY DEF Becomes, TypeOK, DiskOK
<1>2. \A p \in Path : Before(p)' = Before(p) /\ After(p)' = After(p)
  BY DEF Before, After
<1> QED BY <1>1, <1>2 DEF Shape, Before, After

LEMMA ShapeStays == ASSUME Shape, SameTargets PROVE Shape'
  BY DEF Shape, SameTargets, Before, After

LEMMA ProcessShape == ASSUME TypeOK, Shape, Process PROVE Shape'
<1>1. kind' = kind
  BY ProcessFrame DEF Frame
<1>2. CASE slot' = slot
  BY <1>1, <1>2, ShapeStays DEF SameTargets
<1>3. CASE LinkStage \/ ReplaceTarget \/ RemoveSource
  <2>1. at \in Path
    BY <1>3, PathIndex DEF LinkStage, ReplaceTarget, RemoveSource, PathPoints, TypeOK
  <2>2. slot' = slot \/ Becomes(at, After(at))
    BY <1>3 DEF LinkStage, ReplaceTarget, RemoveSource, MutateStep, Unsuited, Call, Quiet,
                Still, disk, After
  <2> QED BY <1>1, <1>2, <2>1, <2>2, ShapeStep
<1>4. CASE Restore \/ RecoverRestore
  <2>1. at \in Path
    BY <1>4, PathIndex DEF Restore, RecoverRestore, PathPoints, TypeOK
  <2>2. \/ slot' = slot
        \/ kind[at] = "create" /\ Becomes(at, "none")
        \/ kind[at] # "create" /\ Becomes(at, "bak")
    BY <1>4 DEF Restore, RecoverRestore, RemoveCreated, RenameBackup, LinkBackup, RestoreStep,
                Refuse, Call, Quiet, Still, disk
  <2>3. kind[at] = "create" => Before(at) = "none"
    BY DEF Before
  <2> QED BY <1>1, <1>2, <2>1, <2>2, <2>3, ShapeStep
<1> QED BY <1>2, <1>3, <1>4, PrepareSlots, CommitSlots, CleanupSlots, RecoverSlots DEF Process

-----------------------------------------------------------------------------
(* Only one step decides for the commit.                                   *)

DecidesNothing == Has(log', FinishedCommitted) => Has(log, FinishedCommitted)

LEMMA OtherRecord ==
  ASSUME TypeOK, NEW r \in Record, r # FinishedCommitted, Logged(r) \/ NotLogged(r)
  PROVE  DecidesNothing
  BY AppendGrows DEF DecidesNothing, TypeOK

LEMMA OtherRecords ==
  /\ \A r \in Plain : r # FinishedCommitted
  /\ \A p \in Path : CommitIntent(p) # FinishedCommitted /\ RollbackIntent(p) # FinishedCommitted
  /\ FinishedAborted # FinishedCommitted /\ FinishedRolledBack # FinishedCommitted
  BY PlainTypes, RecordsDiffer
     DEF Finished, FinishedCommitted, FinishedAborted, FinishedRolledBack

LEMMA OnlyFinishCommits ==
  ASSUME TypeOK, Process, ~FinishCommit
  PROVE  DecidesNothing
<1>1. log' = log => DecidesNothing
  BY DEF DecidesNothing
<1>2. log' = <<>> => DecidesNothing
  BY DEF DecidesNothing, Has
<1>4. CASE Prepare
  <2>1. ASSUME NEW p \in Path, StageJob(p) PROVE log' = log
    BY <2>1
       DEF StageJob, AdmitJob, CreateBackup, WriteBackup, CreateStage, WriteStage,
           SyncArtifacts, UndoJob, CancelJobs, JobCall, JobStep
  <2>2. CASE Join \/ Collect \/ CreateJournal
    BY <1>1, <2>2 DEF Join, Collect, CreateJournal, RemoveStage, RemoveBackup, Quiet, Still
  <2>3. CASE WriteHeader \/ WritePrepared
    BY OtherRecord, <2>3, RecordTypes
       DEF WriteHeader, WritePrepared, Log, Header, Prepared, FinishedCommitted
  <2>4. CASE WriteOperation
    BY OtherRecord, <2>4, RecordTypes
       DEF WriteOperation, Log, TypeOK, CallOK, AtFits, Operation, FinishedCommitted
  <2>5. CASE WritePathIntent \/ WritePathStaged
    <3>1. at \in Path
      BY <2>5, PathIndex DEF WritePathIntent, WritePathStaged, PathPoints, TypeOK
    <3> QED BY OtherRecord, <2>5, <3>1, RecordTypes
               DEF WritePathIntent, WritePathStaged, Log, PathIntent, PathStaged,
                   FinishedCommitted
  <2>6. CASE FailPrepare
    BY OtherRecord, <2>6, RecordTypes, OtherRecords DEF FailPrepare, Log
  <2> QED BY <1>1, <1>4, <2>1, <2>2, <2>3, <2>4, <2>5, <2>6 DEF Prepare
<1>5. CASE CommitSteps
  <2>1. CASE \/ Commit \/ Abort \/ Drop \/ VerifyAll \/ StoreFull \/ Check \/ SyncParent
             \/ Classify \/ VerifyRestored \/ CreateReceipt \/ WriteReceipt
             \/ DiscardReceipt \/ SyncReceipt \/ DropReceipt
    BY <1>1, <2>1
       DEF Commit, Abort, Drop, VerifyAll, StoreFull, Check, SyncParent, Classify,
           VerifyRestored, CreateReceipt, WriteReceipt, DiscardReceipt, SyncReceipt,
           DropReceipt, ReceiptStep, Refuse, Quiet, Still
  <2>2. CASE \/ LinkStage \/ UnlinkStage \/ ReplaceTarget \/ RemoveSource \/ Restore
             \/ FinishRestore
    BY <1>1, <2>2
       DEF LinkStage, UnlinkStage, ReplaceTarget, RemoveSource, Restore, FinishRestore,
           MutateStep, Unsuited, RemoveCreated, RenameBackup, LinkBackup, UnlinkBackup,
           RestoreStep, Refuse, Quiet, Still
  <2>3. CASE FinishUnchanged \/ FinishRollback
    BY OtherRecord, <2>3, RecordTypes, OtherRecords DEF FinishUnchanged, FinishRollback, Log
  <2>4. CASE Intend \/ CompletePath \/ IntendRollback \/ CompleteRollback
    <3>1. at \in Path
      BY <2>4, PathIndex
         DEF Intend, CompletePath, IntendRollback, CompleteRollback, PathPoints,
             UnwindPoints, TypeOK
    <3>2. PICK r \in {CommitIntent(at), Committed(at), RollbackIntent(at), RolledBack(at)} :
            Logged(r) \/ NotLogged(r)
      BY <2>4 DEF Intend, CompletePath, IntendRollback, CompleteRollback, Log
    <3> QED BY OtherRecord, <3>1, <3>2, RecordTypes
               DEF CommitIntent, Committed, RollbackIntent, RolledBack, FinishedCommitted
  <2> QED BY <1>5, <2>1, <2>2, <2>3, <2>4 DEF CommitSteps
<1>6. CASE Cleanup
  BY <1>1, <1>2, <1>6, CleanupSteers DEF Keeps
<1>7. CASE Recover
  <2>1. CASE \/ Open \/ OpenFails \/ RecoverFinished \/ RecoverUncommitted \/ RecoverChanged
             \/ ResumeRestore \/ SkipPath \/ RefusePath \/ RecoverVerify \/ ReadReceipt
    BY <1>1, <2>1
       DEF Open, OpenFails, RecoverFinished, RecoverUncommitted, RecoverChanged,
           ResumeRestore, SkipPath, RefusePath, RecoverVerify, ReadReceipt, Refuse, Quiet,
           Still
  <2>2. CASE RecoverRestore \/ RecoverUnlink
    BY <1>1, <2>2
       DEF RecoverRestore, RecoverUnlink, RemoveCreated, RenameBackup, LinkBackup,
           UnlinkBackup, RestoreStep, Refuse, Quiet, Still
  <2>3. CASE RecordAbort \/ RecordRollback
    BY OtherRecord, <2>3, RecordTypes, OtherRecords DEF RecordAbort, RecordRollback, Log
  <2>4. CASE AttestPath \/ RollbackPath \/ RecordPath
    <3>1. at \in Path
      BY <2>4, PathIndex
         DEF AttestPath, RollbackPath, RecordPath, AtPath, PathPoints, UnwindPoints, TypeOK
    <3>2. \/ log' = log
          \/ \E r \in {RollbackIntent(at), RolledBack(at)} : Logged(r) \/ NotLogged(r)
      BY <2>4 DEF AttestPath, RollbackPath, RecordPath, Announce, Log, Quiet, Still
    <3> QED BY <1>1, OtherRecord, <3>1, <3>2, RecordTypes
               DEF RollbackIntent, RolledBack, FinishedCommitted
  <2> QED BY <1>7, <2>1, <2>2, <2>3, <2>4 DEF Recover
<1> QED BY <1>4, <1>5, <1>6, <1>7 DEF Process

-----------------------------------------------------------------------------
(* A call that is under way has its journal and has not answered.          *)

Answers ==
  /\ pc # "down" \/ journal
  /\ pc = "ready" => journal'
  /\ \/ report' = report \/ report' \in {"recovery_required", "refused", "corrupt"}
     \/ RemoveJournal /\ journal' = FALSE /\ pc' = "down"

LEMMA PrepareAnswers == ASSUME Prepare PROVE Answers
<1> USE DEF Answers, Step, Leave
<1>1. ASSUME NEW p \in Path, StageJob(p) PROVE Answers
  BY <1>1
     DEF StageJob, AdmitJob, CreateBackup, WriteBackup, CreateStage, WriteStage,
         SyncArtifacts, UndoJob, CancelJobs, JobCall, JobStep
<1>2. CASE Join \/ Collect
  BY <1>2 DEF Join, Collect, RemoveStage, RemoveBackup, Call, call
<1>3. CASE CreateJournal \/ WriteHeader \/ WriteOperation \/ WritePathIntent
  BY <1>3 DEF CreateJournal, WriteHeader, WriteOperation, WritePathIntent, Log, Then
<1>4. CASE FailPrepare \/ WritePathStaged \/ WritePrepared
  BY <1>4 DEF FailPrepare, WritePathStaged, WritePrepared, Log, Then
<1> QED BY <1>1, <1>2, <1>3, <1>4 DEF Prepare

LEMMA CommitAnswers == ASSUME CommitSteps PROVE Answers
<1> USE DEF Answers, Step, Leave, Unwind
<1>1. CASE \/ Commit \/ Abort \/ Drop \/ VerifyAll \/ StoreFull \/ Check \/ SyncParent
           \/ Classify \/ VerifyRestored
  BY <1>1
     DEF Commit, Abort, Drop, VerifyAll, StoreFull, Check, SyncParent, Classify,
         VerifyRestored, Refuse, Call
<1>2. CASE \/ FinishUnchanged \/ Intend \/ CompletePath \/ FinishCommit \/ IntendRollback
           \/ FinishRollback \/ CompleteRollback
  BY <1>2
     DEF FinishUnchanged, Intend, CompletePath, FinishCommit, IntendRollback, FinishRollback,
         CompleteRollback, Log
<1>3. CASE CreateReceipt \/ WriteReceipt \/ DiscardReceipt \/ SyncReceipt \/ DropReceipt
  BY <1>3
     DEF CreateReceipt, WriteReceipt, DiscardReceipt, SyncReceipt, DropReceipt, ReceiptStep,
         Call
<1>4. CASE LinkStage \/ UnlinkStage \/ ReplaceTarget \/ RemoveSource
  BY <1>4
     DEF LinkStage, UnlinkStage, ReplaceTarget, RemoveSource, MutateStep, Unsuited, Call
<1>5. CASE Restore \/ FinishRestore
  BY <1>5
     DEF Restore, FinishRestore, RemoveCreated, RenameBackup, LinkBackup, UnlinkBackup,
         RestoreStep, Refuse, Call
<1> QED BY <1>1, <1>2, <1>3, <1>4, <1>5 DEF CommitSteps

LEMMA CleanupAnswers == ASSUME TypeOK, Cleanup PROVE Answers
<1> USE DEF Answers, Step, Leave
<1>1. CASE Clean \/ RetainBackup \/ AllRetained \/ DropTransitional
  BY <1>1
     DEF Clean, RetainBackup, AllRetained, DropTransitional, RemoveStage, RemoveBackup, Call,
         call
<1>2. CASE RemoveJournal
  BY <1>2 DEF RemoveJournal, Call
<1> QED BY <1>1, <1>2 DEF Cleanup

LEMMA RecoverAnswers == ASSUME Recover PROVE Answers
<1> USE DEF Answers, Step, Leave
<1>1. CASE \/ Open \/ OpenFails \/ RecoverFinished \/ RecoverUncommitted \/ RecoverChanged
           \/ ResumeRestore \/ SkipPath \/ RefusePath \/ RecoverVerify \/ ReadReceipt
  BY <1>1
     DEF Open, OpenFails, RecoverFinished, RecoverUncommitted, RecoverChanged, ResumeRestore,
         SkipPath, RefusePath, RecoverVerify, ReadReceipt, AtPath, Refuse
<1>2. CASE RecordAbort \/ AttestPath \/ RollbackPath \/ RecordRollback \/ RecordPath
  BY <1>2
     DEF RecordAbort, AttestPath, RollbackPath, RecordRollback, RecordPath, AtPath, Announce, Log
<1>3. CASE RecoverRestore \/ RecoverUnlink
  BY <1>3
     DEF RecoverRestore, RecoverUnlink, RemoveCreated, RenameBackup, LinkBackup, UnlinkBackup,
         RestoreStep, Refuse, Call
<1> QED BY <1>1, <1>2, <1>3 DEF Recover

LEMMA ProcessAnswers == ASSUME TypeOK, Process PROVE Answers
  BY PrepareAnswers, CommitAnswers, CleanupAnswers, RecoverAnswers DEF Process

LEMMA ProcessRuns == ASSUME TypeOK, Running, Process PROVE Running' /\ ~Over
<1>1. Answers /\ Frame
  BY ProcessAnswers, ProcessFrame
<1>2. ~Over
  BY <1>1 DEF Answers, Over
<1>3. pc' # "ready" /\ (pc' = "down" \/ journal')
  <2>1. CASE pc = "ready"
    BY <1>1, <2>1 DEF Answers, Frame
  <2>2. CASE pc # "ready"
    BY <1>1, <2>2 DEF Answers, Frame, Running
  <2> QED BY <2>1, <2>2
<1>4. report' \in {"committed", "unchanged"} => Over'
  BY <1>1, <1>2 DEF Answers, Running, Over
<1> QED BY <1>2, <1>3, <1>4 DEF Running

-----------------------------------------------------------------------------
(* Where the outcome is decided.                                           *)

LEMMA DecidedElsewhere ==
  ASSUME Decided, SameTargets, DecidesNothing,
         pc' \notin {"finish", "keep", "drop_transitional", "remove_journal"}
  PROVE  Decided'
  BY DEF Decided, SameTargets, DecidesNothing, After

LEMMA NoBackupBefore ==
  ASSUME TypeOK, Direction, Good, Final, pc \in ForwardPoints, Untouched
  PROVE  \A p \in Path : slot[p] = Before(p) /\ Readable(p)
<1>1. \A p \in Path : slot[p] # "bak"
  BY DEF Good, Ladder, Direction, RollbackIntents
<1>2. \A p \in Path : slot[p] = Before(p)
  BY <1>1 DEF Untouched, Changed
<1> QED BY <1>1, <1>2 DEF Readable, LinkedStage, LinkedBackup, Before

LEMMA ReadableKept ==
  ASSUME SameTargets, NEW p \in Path, Readable(p),
         stage' = stage \/ stage'[p] # "new", backup' = backup \/ backup'[p] # "bak"
  PROVE  Readable(p)'
  BY DEF SameTargets, Readable, LinkedStage, LinkedBackup

LEMMA CleanupDecides ==
  ASSUME TypeOK, Final, Cleanup, Grows PROVE Decided'
<1>1. SameTargets /\ DecidesNothing
  BY CleanupSlots, CleanupFrame, OnlyFinishCommits
     DEF Frame, SameTargets, Process, Cleanup, FinishCommit, Clean, RetainBackup, AllRetained,
         DropTransitional, RemoveJournal
<1>2. Has(log, FinishedCommitted) => \A p \in Path : slot'[p] # "bak"
  BY <1>1 DEF Final, Decided, After, SameTargets
<1>3. CASE pc' \notin {"finish", "keep", "drop_transitional", "remove_journal"}
  BY <1>1, <1>3, DecidedElsewhere DEF Final
<1>4. CASE Clean /\ pc' \in {"keep", "drop_transitional", "remove_journal"}
  <2>1. /\ \A p \in Path : ~Removable(p)
        /\ Quiet
        /\ pc' = "keep" <=> Keeping
    BY <1>4 DEF Clean, RemoveStage, RemoveBackup, Call, call, Step, Leave
  <2>2. \A p \in Path : stage[p] = "none" /\ (~Keeping => backup[p] = "none")
    BY <2>1 DEF Removable
  <2>3. \A p \in Path : Readable(p)'
    BY <1>2, <2>1, <2>2
       DEF Readable, LinkedStage, LinkedBackup, Quiet, Still, disk, artifacts, Keeping
  <2>4. pc' = "keep" => Has(log', FinishedCommitted) /\ \A p \in Path : stage'[p] = "none"
    BY <2>1, <2>2 DEF Keeping, Quiet, Still, disk, artifacts
  <2> QED BY <1>1, <1>4, <2>3, <2>4 DEF Decided, Final, DecidesNothing, SameTargets, After
<1>5. CASE RetainBackup /\ pc' = "keep"
  <2>1. pc = "keep" /\ UNCHANGED <<stage, log>>
    BY <1>5 DEF RetainBackup
  <2> QED BY <1>1, <1>5, <2>1 DEF Decided, Final, SameTargets, After
<1>6. CASE AllRetained /\ pc' = "remove_journal"
  <2>1. UNCHANGED <<stage, backup, log>> /\ pc = "keep"
    BY <1>6 DEF AllRetained, Quiet, Still, disk, artifacts
  <2>2. \A p \in Path : Readable(p)'
    BY <1>1, <1>2, <2>1 DEF Final, Decided, Readable, LinkedStage, LinkedBackup
  <2> QED BY <1>1, <1>6, <2>1, <2>2 DEF Decided, Final, SameTargets, After
<1>7. CASE DropTransitional /\ pc' = "remove_journal"
  <2>1. UNCHANGED <<stage, backup, log>> /\ pc = "drop_transitional"
    BY <1>7 DEF DropTransitional
  <2>2. \A p \in Path : Readable(p)'
    BY <1>1, <2>1, ReadableKept DEF Final, Decided
  <2> QED BY <1>1, <1>7, <2>1, <2>2 DEF Decided, Final, SameTargets, After
<1>8. Clean => pc' \in {"clean", "keep", "drop_transitional", "remove_journal", "down"}
  BY DEF Clean, RemoveStage, RemoveBackup, Call, call, Step, Leave
<1>9. RetainBackup => pc' \in {"keep", "down"}
  BY DEF RetainBackup, Call, call, Leave
<1>10. AllRetained => pc' = "remove_journal"
  BY DEF AllRetained, Step
<1>11. DropTransitional => pc' \in {"remove_journal", "down"}
  BY DEF DropTransitional, Call, Step, Leave
<1>12. RemoveJournal => pc' = "down"
  BY DEF RemoveJournal, Call, Leave
<1> QED BY <1>3, <1>4, <1>5, <1>6, <1>7, <1>8, <1>9, <1>10, <1>11, <1>12 DEF Cleanup

LEMMA FinishDecides ==
  ASSUME TypeOK, Final, FinishCommit PROVE Decided'
<1>1. SameTargets /\ pc' \in {"clean", "down"}
  BY DEF FinishCommit, Log, Step, Leave, disk, SameTargets
<1>2. \A p \in Path : slot[p] = After(p)
  BY DEF FinishCommit, Final, Decided, Shape, Changed
<1> QED BY <1>1, <1>2 DEF Decided, SameTargets, After

OutcomePoints == {"finish", "keep", "drop_transitional", "remove_journal"}

LEMMA PrepareDecides ==
  ASSUME TypeOK, Direction, Good, Final, Prepare PROVE Decided'
<1>1. SameTargets /\ DecidesNothing
  BY PrepareFrame, PrepareSlots, OnlyFinishCommits, PreparePoints
     DEF Frame, SameTargets, Process, FinishCommit, StillPoints
<1>2. CASE pc' \notin OutcomePoints
  BY <1>1, <1>2, DecidedElsewhere DEF Final, OutcomePoints
<1>3. CASE FailPrepare /\ pc' = "remove_journal"
  <2>1. \A p \in Path : Readable(p)
    BY <1>3, NoBackupBefore DEF FailPrepare, Good, Extent, StillPoints, ForwardPoints
  <2>2. UNCHANGED <<stage, backup>>
    BY <1>3 DEF FailPrepare, Log, disk, artifacts
  <2>3. \A p \in Path : Readable(p)'
    BY <1>1, <2>1, <2>2, ReadableKept
  <2> QED BY <1>1, <1>3, <2>3 DEF Decided, Final, DecidesNothing, SameTargets, After
<1>4. pc' \in OutcomePoints => FailPrepare /\ pc' = "remove_journal"
  <2>1. ASSUME NEW p \in Path, StageJob(p) PROVE pc' = "staging"
    BY <2>1
       DEF StageJob, AdmitJob, CreateBackup, WriteBackup, CreateStage, WriteStage,
           SyncArtifacts, UndoJob, CancelJobs, JobCall, JobStep
  <2>2. CASE Join \/ Collect
    BY <2>2 DEF Join, Collect, RemoveStage, RemoveBackup, Call, call, Step, Leave, OutcomePoints
  <2>3. CASE CreateJournal \/ WriteHeader \/ WriteOperation \/ WritePathIntent
    BY <2>3
       DEF CreateJournal, WriteHeader, WriteOperation, WritePathIntent, Log, Then, Step, Leave,
           OutcomePoints
  <2>4. CASE FailPrepare \/ WritePathStaged \/ WritePrepared
    BY <2>4
       DEF FailPrepare, WritePathStaged, WritePrepared, Log, Then, Step, Leave, OutcomePoints
  <2> QED BY <2>1, <2>2, <2>3, <2>4 DEF Prepare, OutcomePoints
<1> QED BY <1>2, <1>3, <1>4

LEMMA CommitDecides ==
  ASSUME TypeOK, Direction, Good, Final, CommitSteps PROVE Decided'
<1>1. CASE FinishCommit
  BY <1>1, FinishDecides
<1>2. CASE CompletePath /\ pc' = "finish"
  <2>1. \A p \in Path : Changed(p)
    <3>1. at = N /\ ChangedUpTo(at)
      BY <1>2, PathIndex
         DEF CompletePath, Log, Step, Unwind, PathPoints, TypeOK, Good, Extent, AfterPoints
    <3> QED BY <3>1 DEF ChangedUpTo
  <2>2. SameTargets /\ DecidesNothing
    BY <1>2, OnlyFinishCommits
       DEF CompletePath, Log, disk, SameTargets, Process, CommitSteps, FinishCommit
  <2>3. \A p \in Path : Changed(p)'
    BY <2>1, <2>2, SameChanged
  <2> QED BY <1>2, <2>2, <2>3 DEF Decided, Final, DecidesNothing, SameTargets, After
<1>3. CASE ~FinishCommit /\ pc' \notin OutcomePoints
  <2>1. DecidesNothing /\ kind' = kind
    BY <1>3, OnlyFinishCommits, CommitFrame DEF Process, Frame
  <2>2. CASE slot' = slot
    BY <1>3, <2>1, <2>2, DecidedElsewhere DEF Final, OutcomePoints, SameTargets
  <2>3. CASE LinkStage \/ ReplaceTarget \/ RemoveSource \/ Restore
    <3>1. ~Has(log, FinishedCommitted)
      BY <2>3 DEF LinkStage, ReplaceTarget, RemoveSource, Restore, Direction, IsFinished,
                  Finished, FinishedPoints
    <3> QED BY <1>3, <2>1, <3>1 DEF Decided, DecidesNothing, OutcomePoints
  <2> QED BY <2>2, <2>3, CommitSlots
<1>4. pc' \in OutcomePoints => (CompletePath /\ pc' = "finish")
  <2>1. CASE \/ Commit \/ Abort \/ Drop \/ VerifyAll \/ StoreFull \/ Check \/ SyncParent
             \/ Classify \/ VerifyRestored
    BY <2>1
       DEF Commit, Abort, Drop, VerifyAll, StoreFull, Check, SyncParent, Classify,
           VerifyRestored, Refuse, Call, Unwind, Step, Leave, OutcomePoints
  <2>2. CASE \/ FinishUnchanged \/ Intend \/ CompletePath \/ FinishCommit \/ IntendRollback
             \/ FinishRollback \/ CompleteRollback
    BY <2>2
       DEF FinishUnchanged, Intend, CompletePath, FinishCommit, IntendRollback,
           FinishRollback, CompleteRollback, Log, Unwind, Step, Leave, OutcomePoints
  <2>3. CASE CreateReceipt \/ WriteReceipt \/ DiscardReceipt \/ SyncReceipt \/ DropReceipt
    BY <2>3
       DEF CreateReceipt, WriteReceipt, DiscardReceipt, SyncReceipt, DropReceipt, ReceiptStep,
           Call, Step, Leave, OutcomePoints
  <2>4. CASE LinkStage \/ UnlinkStage \/ ReplaceTarget \/ RemoveSource
    BY <2>4
       DEF LinkStage, UnlinkStage, ReplaceTarget, RemoveSource, MutateStep, Unsuited, Call,
           Step, OutcomePoints
  <2>5. CASE Restore \/ FinishRestore
    BY <2>5
       DEF Restore, FinishRestore, RemoveCreated, RenameBackup, LinkBackup, UnlinkBackup,
           RestoreStep, Refuse, Call, Step, Leave, OutcomePoints
  <2> QED BY <2>1, <2>2, <2>3, <2>4, <2>5 DEF CommitSteps
<1> QED BY <1>1, <1>2, <1>3, <1>4

LEMMA RecoverDecides ==
  ASSUME TypeOK, Direction, Good, Final, Recover PROVE Decided'
<1>1. DecidesNothing /\ kind' = kind
  <2>1. ~FinishCommit
    <3>1. pc # "finish"
      <4>1. CASE \/ Open \/ OpenFails \/ RecoverFinished \/ RecoverUncommitted
                 \/ RecoverChanged \/ ResumeRestore \/ SkipPath \/ RefusePath
                 \/ RecoverVerify \/ ReadReceipt
        BY <4>1
           DEF Open, OpenFails, RecoverFinished, RecoverUncommitted, RecoverChanged,
               ResumeRestore, SkipPath, RefusePath, RecoverVerify, ReadReceipt, AtPath
      <4>2. CASE \/ RecordAbort \/ AttestPath \/ RollbackPath \/ RecordRollback
                 \/ RecordPath \/ RecoverRestore \/ RecoverUnlink
        BY <4>2
           DEF RecordAbort, AttestPath, RollbackPath, RecordRollback, RecordPath,
               RecoverRestore, RecoverUnlink, AtPath
      <4> QED BY <4>1, <4>2 DEF Recover
    <3> QED BY <3>1 DEF FinishCommit
  <2> QED BY <2>1, OnlyFinishCommits, RecoverFrame DEF Process, Frame
<1>2. CASE Open /\ pc' = "remove_journal"
  <2>1. log = <<>> /\ UNCHANGED <<kind, slot, stage, backup, log>>
    BY <1>2 DEF Open, Step, Leave, disk, artifacts
  <2>2. \A p \in Path : ~Changed(p) /\ slot[p] # "bak"
    BY <2>1 DEF Good, Ladder, Has
  <2>3. \A p \in Path : Readable(p)
    BY <2>2 DEF Changed, Readable, LinkedStage, LinkedBackup, Before
  <2>4. \A p \in Path : Readable(p)'
    BY <2>1, <2>3, ReadableKept DEF SameTargets
  <2> QED BY <1>2, <2>1, <2>4 DEF Decided, Final, After, Has
<1>3. CASE RecoverRestore
  <2>1. ~Has(log, FinishedCommitted)
    BY <1>3 DEF RecoverRestore, Direction, IsFinished, Finished, FinishedPoints
  <2>2. pc' \notin OutcomePoints
    BY <1>3
       DEF RecoverRestore, RemoveCreated, RenameBackup, LinkBackup, RestoreStep, Refuse, Call,
           Step, Leave, OutcomePoints
  <2> QED BY <1>1, <2>1, <2>2 DEF Decided, DecidesNothing, OutcomePoints
<1>4. CASE ~RecoverRestore /\ pc' \notin OutcomePoints
  BY <1>1, <1>4, RecoverSlots, DecidedElsewhere DEF Final, OutcomePoints, SameTargets
<1>5. pc' \in OutcomePoints => (Open /\ pc' = "remove_journal") \/ RecoverRestore
  <2>1. CASE \/ Open \/ OpenFails \/ RecoverFinished \/ RecoverUncommitted \/ RecoverChanged
             \/ ResumeRestore \/ SkipPath \/ RefusePath \/ RecoverVerify \/ ReadReceipt
    BY <2>1
       DEF Open, OpenFails, RecoverFinished, RecoverUncommitted, RecoverChanged, ResumeRestore,
           SkipPath, RefusePath, RecoverVerify, ReadReceipt, Refuse, Step, Leave, OutcomePoints
  <2>2. CASE RecordAbort \/ AttestPath \/ RollbackPath \/ RecordRollback \/ RecordPath
    BY <2>2
       DEF RecordAbort, AttestPath, RollbackPath, RecordRollback, RecordPath, Announce, Log,
           Step, Leave, OutcomePoints
  <2>3. CASE RecoverUnlink
    BY <2>3
       DEF RecoverUnlink, UnlinkBackup, RestoreStep, Refuse, Call, Step, Leave, OutcomePoints
  <2> QED BY <2>1, <2>2, <2>3 DEF Recover
<1> QED BY <1>2, <1>3, <1>4, <1>5

LEMMA ProcessFinal ==
  ASSUME TypeOK, Direction, Good, Final, Grows, Process PROVE Final'
  BY ProcessShape, PrepareDecides, CommitDecides, CleanupDecides, RecoverDecides
     DEF Final, Process

LEMMA FinalHolds ==
  Spec => [](TypeOK /\ Direction /\ Running /\ (Regime => Good /\ Final))
<1>1. /\ TypeOK /\ Direction /\ Snapshot /\ (Regime => Good)
      /\ Running /\ (Regime => Final) /\ [Next]_vars
      => Running' /\ (Regime => Final)'
  <2> SUFFICES ASSUME TypeOK, Direction, Snapshot, Regime => Good, Running, Regime => Final,
                      [Next]_vars
               PROVE  Running' /\ (Regime => Final)'
    OBVIOUS
  <2>1. CASE Process
    <3>1. Running'
      BY <2>1, ProcessRuns
    <3>2. ASSUME Regime' PROVE Final'
      <4>1. Regime
        BY <2>1, <3>2, ProcessFrame DEF Frame, Regime, Undisturbed
      <4>2. CASE journal' = FALSE /\ pc' = "down"
        BY <3>2, <4>2 DEF Regime
      <4>3. CASE Grows
        BY <2>1, <4>1, <4>3, ProcessFinal
      <4> QED BY <2>1, <4>2, <4>3, ProcessGrows
    <3> QED BY <3>1, <3>2
  <2>2. CASE Crash
    <3>1. /\ SameTargets /\ UNCHANGED <<log, journal, foreign>> /\ pc' = "down"
          /\ report' = "none"
      BY <2>2 DEF Crash, Leave, Still, disk, SameTargets
    <3>2. Running'
      BY <3>1 DEF Running
    <3>3. Regime' => Regime
      BY <3>1 DEF Regime, Undisturbed
    <3>4. DecidesNothing
      BY <3>1 DEF DecidesNothing
    <3>5. Final => Final'
      BY <3>1, <3>4, ShapeStays, DecidedElsewhere DEF Final
    <3> QED BY <3>2, <3>3, <3>5
  <2>3. ASSUME NEW p \in Path, Foreign(p) PROVE Running' /\ (Regime => Final)'
    <3>1. foreign' # 0 /\ UNCHANGED <<log, journal, pc, report>>
      BY <2>3 DEF Foreign, call, TypeOK, EnvOK
    <3>2. Running'
      BY <3>1 DEF Running, Over
    <3> QED BY <3>1, <3>2 DEF Regime, Undisturbed
  <2>4. CASE UNCHANGED vars
    <3>1. UNCHANGED <<kind, slot, stage, backup, log, journal, foreign, pc, report>>
      BY <2>4 DEF vars, disk, artifacts, call, env
    <3>2. Running' /\ (Regime' => Regime)
      BY <3>1 DEF Running, Over, Regime, Undisturbed
    <3>3. Final => Final'
      BY <3>1 DEF Final, Shape, Decided, Before, After, Changed, Readable, LinkedStage,
                  LinkedBackup
    <3> QED BY <3>2, <3>3
  <2> QED BY <2>1, <2>2, <2>3, <2>4 DEF Next, Resolved
<1>2. Init => Running /\ (Regime => Final)
  <2> SUFFICES ASSUME Init PROVE Running /\ Final
    OBVIOUS
  <2>1. Running
    BY DEF Init, Running
  <2>2. Shape
    BY DEF Init, Shape, Before
  <2>3. Decided
    BY DEF Init, Decided, Has
  <2> QED BY <2>1, <2>2, <2>3 DEF Final
<1> QED BY <1>1, <1>2, GoodHolds, DirectionHolds, PTL DEF Spec

-----------------------------------------------------------------------------
(* The refinement.  As long as the transaction is open the record of its   *)
(* end decides; when its journal is removed, what is found at the paths is *)
(* what was decided.                                                       *)

OInv == TypeOK /\ Direction /\ Running /\ (Regime => Good /\ Final)

LEMMA NothingFinished == ~Has(<<>>, FinishedCommitted)
  BY DEF Has

LEMMA OpenDecision ==
  OInv /\ ~Over /\ foreign = 0 =>
    /\ Good /\ Final
    /\ Tree = IF Has(log, FinishedCommitted) THEN "after" ELSE "before"
    /\ report \notin {"committed", "unchanged"}
<1> SUFFICES ASSUME OInv, ~Over, foreign = 0
             PROVE  /\ Good /\ Final
                    /\ Tree = IF Has(log, FinishedCommitted) THEN "after" ELSE "before"
                    /\ report \notin {"committed", "unchanged"}
  OBVIOUS
<1>1. journal \/ pc = "ready"
  BY DEF OInv, Running, Over
<1>2. Good /\ Final
  BY <1>1 DEF OInv, Regime, Undisturbed
<1>3. ~journal => ~MatchesAfter(1) /\ 1 \in Path
  <2>1. ASSUME ~journal PROVE slot[1] \in {Before(1), "bak"} /\ 1 \in Path /\ kind[1] \in Kinds
    BY <1>1, <1>2, <2>1
       DEF Good, Extent, Untouched, Changed, StillPoints, OInv, TypeOK, DiskOK
  <2> QED BY <2>1 DEF MatchesAfter, Before, After, Kinds
<1>4. Tree = IF Has(log, FinishedCommitted) THEN "after" ELSE "before"
  BY <1>3 DEF Tree
<1> QED BY <1>2, <1>4 DEF OInv, Running

LEMMA StaysOpen ==
  ASSUME OInv, OInv', foreign = 0, foreign' = 0, ~Over, ~Over', Grows
  PROVE  Atomic!Decide \/ UNCHANGED Atomic!vars
<1>1. /\ Tree' = IF Has(log', FinishedCommitted) THEN "after" ELSE "before"
      /\ report' \notin {"committed", "unchanged"}
  <2>1. (OInv /\ ~Over /\ foreign = 0 =>
           /\ Good /\ Final
           /\ Tree = IF Has(log, FinishedCommitted) THEN "after" ELSE "before"
           /\ report \notin {"committed", "unchanged"})'
    BY OpenDecision, PTL
  <2> QED BY <2>1
<1>2. /\ Tree = IF Has(log, FinishedCommitted) THEN "after" ELSE "before"
      /\ report \notin {"committed", "unchanged"}
  BY OpenDecision
<1>3. Has(log, FinishedCommitted) => Has(log', FinishedCommitted)
  BY DEF Grows
<1>4. Undisturbed /\ Undisturbed'
  BY DEF Undisturbed
<1> QED BY <1>1, <1>2, <1>3, <1>4 DEF Atomic!Decide, Atomic!vars

\* What is found is what was decided.
LEMMA ClosesAs ==
  ASSUME OInv, foreign = 0, foreign' = 0, ~Over, Over', UNCHANGED <<kind, slot, stage, backup>>,
         log' = <<>>, NEW x \in {"before", "after"}, Tree = x,
         x = "after" => \A p \in Path : MatchesAfter(p),
         x = "before" => \A p \in Path : MatchesBefore(p) /\ ~MatchesAfter(p),
         report' = "committed" => x = "after",
         report' = "unchanged" => x = "before"
  PROVE  Atomic!Close
<1>1. 1 \in Path
  OBVIOUS
<1>2. \A p \in Path : /\ MatchesAfter(p)' <=> MatchesAfter(p)
                      /\ MatchesBefore(p)' <=> MatchesBefore(p)
  BY DEF MatchesAfter, MatchesBefore, Readable, LinkedStage, LinkedBackup, After
<1>3. Tree' = x
  BY <1>1, <1>2, NothingFinished DEF Tree, Over
<1>4. ASSUME NEW p \in Path PROVE Found(p)' = x
  <2>1. CASE x = "after"
    <3>1. MatchesAfter(p)'
      BY <1>2, <2>1
    <3>2. ~MatchesBefore(p)'
      BY <1>2, <2>1 DEF MatchesAfter, MatchesBefore, Before, After, OInv, TypeOK, DiskOK, Kinds
    <3> QED BY <2>1, <3>1, <3>2 DEF Found
  <2>2. CASE x = "before"
    <3>1. ~MatchesAfter(p)' /\ MatchesBefore(p)'
      BY <1>2, <2>2
    <3> QED BY <2>2, <3>1 DEF Found
  <2> QED BY <2>1, <2>2
<1>5. Undisturbed /\ Undisturbed'
  BY DEF Undisturbed
<1> QED BY <1>3, <1>4, <1>5 DEF Atomic!Close, Atomic!Verdict

LEMMA JournalRemoved ==
  ASSUME OInv, foreign = 0, foreign' = 0, ~Over, RemoveJournal, Over' PROVE Atomic!Close
<1>1. /\ pc = "remove_journal" /\ log' = <<>>
      /\ UNCHANGED <<kind, slot, stage, backup>>
      /\ report' \in {"recovery_required",
                      IF Has(log, FinishedCommitted) THEN "committed" ELSE "unchanged"}
  <2>1. pc = "remove_journal" /\ journal /\ ~journal'
    BY DEF RemoveJournal, OInv, Running, Over
  <2> QED BY <2>1 DEF RemoveJournal, Call, Leave, Resolution, disk, artifacts
<1>2. /\ Good /\ Final
      /\ Tree = IF Has(log, FinishedCommitted) THEN "after" ELSE "before"
  BY OpenDecision
<1>3. \A p \in Path : Readable(p)
  BY <1>1, <1>2 DEF Final, Decided
<1>4. CASE Has(log, FinishedCommitted)
  <2>1. \A p \in Path : MatchesAfter(p)
    BY <1>2, <1>3, <1>4 DEF Final, Decided, MatchesAfter
  <2> QED BY <1>1, <1>2, <1>4, <2>1, ClosesAs
<1>5. CASE ~Has(log, FinishedCommitted)
  <2>1. Untouched
    BY <1>1, <1>2, <1>5 DEF Good, Extent, ClosingPoints
  <2>2. \A p \in Path : /\ kind[p] \in Kinds
                        /\ slot[p] \in {Before(p), "bak"}
                        /\ kind[p] = "create" => slot[p] # "bak"
    BY <1>2, <2>1 DEF Untouched, Changed, Final, Shape, OInv, TypeOK, DiskOK
  <2>3. \A p \in Path : MatchesBefore(p) /\ ~MatchesAfter(p)
    BY <1>3, <2>2 DEF MatchesBefore, MatchesAfter, Before, After, Kinds
  <2> QED BY <1>1, <1>2, <1>5, <2>3, ClosesAs
<1> QED BY <1>4, <1>5

LEMMA ImplementsStep ==
  ASSUME OInv, OInv', [Next]_vars PROVE [Atomic!Next]_(Atomic!vars)
<1>1. CASE foreign' # 0
  <2>1. (~Undisturbed)' = TRUE
    BY <1>1 DEF Undisturbed
  <2> QED BY <2>1 DEF Atomic!Next, Atomic!Disturb
<1>2. CASE UNCHANGED vars
  <2>1. UNCHANGED <<kind, slot, stage, backup, journal, log, pc, report, foreign>>
    BY <1>2 DEF vars, disk, artifacts, call, env
  <2> QED BY <2>1 DEF Atomic!vars, Tree, Over, Found, MatchesAfter, MatchesBefore, Readable,
                      LinkedStage, LinkedBackup, After, Undisturbed
<1>3. CASE Process /\ foreign' = 0
  <2>1. ~Over /\ foreign = 0
    BY <1>3, ProcessRuns, ProcessFrame DEF OInv, Frame
  <2>2. CASE Over'
    <3>1. RemoveJournal
      <4>1. pc # "ready"
        BY <1>3, <2>2, ProcessAnswers DEF OInv, Answers, Over
      <4>2. journal
        BY <2>1, <4>1 DEF OInv, Running, Over
      <4> QED BY <1>3, <2>2, <4>1, <4>2, ProcessFrame DEF Frame, Over
    <3> QED BY <1>3, <2>1, <2>2, <3>1, JournalRemoved DEF Atomic!Next
  <2>3. CASE ~Over'
    <3>1. Grows
      BY <1>3, <2>3, ProcessGrows DEF OInv, Over
    <3> QED BY <1>3, <2>1, <2>3, <3>1, StaysOpen DEF Atomic!Next
  <2> QED BY <2>2, <2>3
<1>4. CASE Crash /\ foreign' = 0
  <2>1. foreign = 0 /\ ~Over /\ ~Over' /\ Grows
    BY <1>4 DEF Crash, Over, Still, Grows
  <2> QED BY <1>4, <2>1, StaysOpen DEF Atomic!Next
<1>5. ASSUME NEW p \in Path, Foreign(p) PROVE foreign' # 0
  BY <1>5 DEF Foreign, OInv, TypeOK, EnvOK
<1> QED BY <1>1, <1>2, <1>3, <1>4, <1>5 DEF Next, Resolved

\* All or restored: whatever fails, dies or is recovered however often, the one
\* record Finished(COMMITTED) decides what every path is found to hold once the
\* journal is removed, and an answer that says how it ended says the truth.
THEOREM CommitIsAtomic == Spec => ImplementsAtomicApply
<1>1. Init => Atomic!Init
  <2> SUFFICES ASSUME Init PROVE Atomic!Init
    OBVIOUS
  <2>1. /\ ~Over /\ foreign = 0 /\ log = <<>> /\ report = "none"
        /\ 1 \in Path /\ kind[1] \in Kinds /\ slot[1] = Before(1)
    BY DEF Init, Over
  <2>2. Tree = "before"
    BY <2>1, NothingFinished DEF Tree, MatchesAfter, Before, After, Kinds
  <2> QED BY <2>1, <2>2 DEF Atomic!Init, Undisturbed
<1>2. OInv /\ OInv' /\ [Next]_vars => [Atomic!Next]_(Atomic!vars)
  BY ImplementsStep
<1> QED
  BY <1>1, <1>2, FinalHolds, PTL DEF Spec, OInv, Atomic!Spec, ImplementsAtomicApply

-----------------------------------------------------------------------------
(* What the strict parser reads.  Two journals and no others are refused:  *)
(* one that finishes a rollback of no path, and one that rolls a path back *)
(* behind a lower one.  The invariant says of every other journal that it  *)
(* is replayable and where the running call stands in it.                  *)

BareRollback(j) == Has(j, FinishedRolledBack) /\ CommitIntents(j) = {}

UpwardRollback(j) ==
  \E p, q \in Path :
    q < p /\ \E k, l \in DOMAIN j :
               k < l /\ j[k] = RollbackIntent(q) /\ j[l] = RollbackIntent(p)

Flawed(j) == BareRollback(j) \/ UpwardRollback(j)

\* How the path records of a journal rest on each other.
Ranked(j) ==
  /\ CommittedPaths(j) \subseteq CommitIntents(j)
  /\ RollbackIntents(j) \subseteq CommitIntents(j)
  /\ RolledBackPaths(j) \subseteq RollbackIntents(j)
  /\ CommitIntents(j) # {} => Has(j, Prepared)

\* No path of a replayable journal is announced before a higher one is back.
Stairs(j) == \A p, q \in RollbackIntents(j) : q < p => p \in RolledBackPaths(j)

LEMMA ReplayedFurther ==
  ASSUME NEW j \in Seq(Record), NEW r \in Record
  PROVE  Replayable(Append(j, r)) <=> Replayable(j) /\ MayFollow(j, r)
<1> DEFINE jj == Append(j, r)
<1>1. /\ Len(j) \in Nat /\ DOMAIN j = 1..Len(j) /\ DOMAIN jj = 1..Len(j)+1
      /\ jj[Len(j)+1] = r /\ \A k \in 1..Len(j) : jj[k] = j[k]
  OBVIOUS
<1>2. \A k \in 1..Len(j) : SubSeq(jj, 1, k - 1) = SubSeq(j, 1, k - 1)
  OBVIOUS
<1>3. SubSeq(jj, 1, (Len(j) + 1) - 1) = j
  OBVIOUS
<1> HIDE DEF jj
<1>4. Replayable(jj) <=>
        /\ \A k \in 1..Len(j) : MayFollow(SubSeq(jj, 1, k - 1), jj[k])
        /\ MayFollow(SubSeq(jj, 1, (Len(j) + 1) - 1), jj[Len(j) + 1])
  <2>1. DOMAIN jj = (1..Len(j)) \cup {Len(j) + 1}
    BY <1>1
  <2> QED
    BY <2>1 DEF Replayable
<1>5. Replayable(jj) <=>
        /\ \A k \in 1..Len(j) : MayFollow(SubSeq(j, 1, k - 1), j[k])
        /\ MayFollow(j, r)
  BY <1>1, <1>2, <1>3, <1>4
<1> QED
  BY <1>1, <1>5 DEF Replayable, jj

\* The records of the paths, and what one more of them adds.
LEMMA SetsFurther ==
  ASSUME NEW j \in Seq(Record), NEW r \in Record
  PROVE  /\ CommitIntents(Append(j, r)) =
              CommitIntents(j) \cup {p \in Path : r = CommitIntent(p)}
         /\ CommittedPaths(Append(j, r)) =
              CommittedPaths(j) \cup {p \in Path : r = Committed(p)}
         /\ RollbackIntents(Append(j, r)) =
              RollbackIntents(j) \cup {p \in Path : r = RollbackIntent(p)}
         /\ RolledBackPaths(Append(j, r)) =
              RolledBackPaths(j) \cup {p \in Path : r = RolledBack(p)}
<1>1. \A s : Has(Append(j, r), s) <=> Has(j, s) \/ s = r
  BY HasAppend
<1> QED
  BY <1>1 DEF CommitIntents, CommittedPaths, RollbackIntents, RolledBackPaths

\* Every record kind adds to its own set alone.
LEMMA OneSetFurther ==
  ASSUME NEW j \in Seq(Record), NEW r \in Record
  PROVE  /\ \A p \in Path : r = CommitIntent(p) =>
              /\ CommitIntents(Append(j, r)) = CommitIntents(j) \cup {p}
              /\ CommittedPaths(Append(j, r)) = CommittedPaths(j)
              /\ RollbackIntents(Append(j, r)) = RollbackIntents(j)
              /\ RolledBackPaths(Append(j, r)) = RolledBackPaths(j)
         /\ \A p \in Path : r = Committed(p) =>
              /\ CommitIntents(Append(j, r)) = CommitIntents(j)
              /\ CommittedPaths(Append(j, r)) = CommittedPaths(j) \cup {p}
              /\ RollbackIntents(Append(j, r)) = RollbackIntents(j)
              /\ RolledBackPaths(Append(j, r)) = RolledBackPaths(j)
         /\ \A p \in Path : r = RollbackIntent(p) =>
              /\ CommitIntents(Append(j, r)) = CommitIntents(j)
              /\ CommittedPaths(Append(j, r)) = CommittedPaths(j)
              /\ RollbackIntents(Append(j, r)) = RollbackIntents(j) \cup {p}
              /\ RolledBackPaths(Append(j, r)) = RolledBackPaths(j)
         /\ \A p \in Path : r = RolledBack(p) =>
              /\ CommitIntents(Append(j, r)) = CommitIntents(j)
              /\ CommittedPaths(Append(j, r)) = CommittedPaths(j)
              /\ RollbackIntents(Append(j, r)) = RollbackIntents(j)
              /\ RolledBackPaths(Append(j, r)) = RolledBackPaths(j) \cup {p}
         /\ r.type \notin PathRecords =>
              /\ CommitIntents(Append(j, r)) = CommitIntents(j)
              /\ CommittedPaths(Append(j, r)) = CommittedPaths(j)
              /\ RollbackIntents(Append(j, r)) = RollbackIntents(j)
              /\ RolledBackPaths(Append(j, r)) = RolledBackPaths(j)
<1> DEFINE C == {p \in Path : r = CommitIntent(p)}
           D == {p \in Path : r = Committed(p)}
           B == {p \in Path : r = RollbackIntent(p)}
           E == {p \in Path : r = RolledBack(p)}
<1>1. /\ \A p \in Path : r = CommitIntent(p) => C = {p} /\ D = {} /\ B = {} /\ E = {}
      /\ \A p \in Path : r = Committed(p) => C = {} /\ D = {p} /\ B = {} /\ E = {}
      /\ \A p \in Path : r = RollbackIntent(p) => C = {} /\ D = {} /\ B = {p} /\ E = {}
      /\ \A p \in Path : r = RolledBack(p) => C = {} /\ D = {} /\ B = {} /\ E = {p}
      /\ r.type \notin PathRecords => C = {} /\ D = {} /\ B = {} /\ E = {}
  BY DEF CommitIntent, Committed, RollbackIntent, RolledBack, PathRecords
<1> HIDE DEF C, D, B, E
<1>2. /\ CommitIntents(Append(j, r)) = CommitIntents(j) \cup C
      /\ CommittedPaths(Append(j, r)) = CommittedPaths(j) \cup D
      /\ RollbackIntents(Append(j, r)) = RollbackIntents(j) \cup B
      /\ RolledBackPaths(Append(j, r)) = RolledBackPaths(j) \cup E
  BY SetsFurther DEF C, D, B, E
<1> QED
  BY <1>1, <1>2

LEMMA RankedFurther ==
  ASSUME NEW j \in Seq(Record), NEW r \in Record, Ranked(j), MayFollow(j, r)
  PROVE  Ranked(Append(j, r))
<1>1. Has(j, Prepared) => Has(Append(j, r), Prepared)
  BY HasAppend
<1>2. CASE MayPrepare(j, r) \/ MayFinish(j, r)
  <2>1. r.type \notin PathRecords
    BY <1>2, OtherTypes DEF MayPrepare, MayFinish, Finished
  <2> QED
    BY <1>1, <2>1, OneSetFurther DEF Ranked
<1>3. CASE \E p \in Path : r = CommitIntent(p) /\ MayIntend(j, p)
  BY <1>1, <1>3, OneSetFurther DEF Ranked, MayIntend
<1>4. CASE \E p \in Path : r = Committed(p) /\ MayCommit(j, p)
  BY <1>1, <1>4, OneSetFurther DEF Ranked, MayCommit
<1>5. CASE \E p \in Path : r = RollbackIntent(p) /\ MayRollback(j, p)
  BY <1>1, <1>5, OneSetFurther DEF Ranked, MayRollback
<1>6. CASE \E p \in Path : r = RolledBack(p) /\ MayRestore(j, p)
  BY <1>1, <1>6, OneSetFurther DEF Ranked, MayRestore
<1> QED
  BY <1>2, <1>3, <1>4, <1>5, <1>6 DEF MayFollow

LEMMA StairsFurther ==
  ASSUME NEW j \in Seq(Record), NEW r \in Record, Stairs(j), MayFollow(j, r)
  PROVE  Stairs(Append(j, r))
<1>1. CASE MayPrepare(j, r) \/ MayFinish(j, r)
  <2>1. r.type \notin PathRecords
    BY <1>1, OtherTypes DEF MayPrepare, MayFinish, Finished
  <2> QED
    BY <2>1, OneSetFurther DEF Stairs
<1>2. CASE \E p \in Path : r = CommitIntent(p) \/ r = Committed(p)
  BY <1>2, OneSetFurther DEF Stairs
<1>3. CASE \E p \in Path : r = RollbackIntent(p) /\ MayRollback(j, p)
  <2>1. PICK p \in Path : r = RollbackIntent(p) /\ MayRollback(j, p)
    BY <1>3
  <2>2. /\ RollbackIntents(Append(j, r)) = RollbackIntents(j) \cup {p}
        /\ RolledBackPaths(Append(j, r)) = RolledBackPaths(j)
    BY <2>1, OneSetFurther
  <2>3. RollbackIntents(j) \subseteq Path
    BY DEF RollbackIntents
  <2> QED
    BY <2>1, <2>2, <2>3 DEF Stairs, MayRollback
<1>4. CASE \E p \in Path : r = RolledBack(p)
  <2>1. /\ RollbackIntents(Append(j, r)) = RollbackIntents(j)
        /\ RolledBackPaths(j) \subseteq RolledBackPaths(Append(j, r))
    BY <1>4, OneSetFurther
  <2> QED BY <2>1 DEF Stairs
<1> QED
  BY <1>1, <1>2, <1>3, <1>4 DEF MayFollow

\* A path announced behind a lower one stays so.
LEMMA UpwardFurther ==
  ASSUME NEW j \in Seq(Record), NEW r \in Record
  PROVE  /\ UpwardRollback(j) => UpwardRollback(Append(j, r))
         /\ \A p \in Path : r = RollbackIntent(p) /\ (\E q \in RollbackIntents(j) : q < p)
              => UpwardRollback(Append(j, r))
<1> DEFINE jj == Append(j, r)
<1>1. /\ Len(j) \in Nat /\ DOMAIN j = 1..Len(j) /\ DOMAIN jj = 1..Len(j)+1
      /\ jj[Len(j)+1] = r /\ \A k \in 1..Len(j) : jj[k] = j[k]
  OBVIOUS
<1> HIDE DEF jj
<1>2. UpwardRollback(j) => UpwardRollback(jj)
  BY <1>1 DEF UpwardRollback
<1>3. ASSUME NEW p \in Path, r = RollbackIntent(p), NEW q \in RollbackIntents(j), q < p
      PROVE  UpwardRollback(jj)
  <2>1. q \in Path
    BY DEF RollbackIntents
  <2>2. PICK k \in 1..Len(j) : j[k] = RollbackIntent(q)
    BY <1>1 DEF RollbackIntents, Has
  <2>3. /\ k \in DOMAIN jj /\ Len(j) + 1 \in DOMAIN jj /\ k < Len(j) + 1
        /\ jj[k] = RollbackIntent(q) /\ jj[Len(j) + 1] = RollbackIntent(p)
    BY <1>1, <1>3, <2>2
  <2> QED
    BY <1>3, <2>1, <2>3 DEF UpwardRollback
<1> QED
  BY <1>2, <1>3 DEF jj

LEMMA FlawedIsRefused ==
  ASSUME NEW j \in Seq(Record), Flawed(j) PROVE ~Replayable(j)
<1> SUFFICES ASSUME Replayable(j) PROVE FALSE
  OBVIOUS
<1>1. /\ Len(j) \in Nat /\ DOMAIN j = 1..Len(j)
      /\ \A l \in 1..Len(j) : LET i == SubSeq(j, 1, l - 1)
                              IN i \in Seq(Record) /\ DOMAIN i = 1..l-1
                                 /\ \A k \in 1..l-1 : i[k] = j[k]
  OBVIOUS
<1>2. ASSUME BareRollback(j) PROVE FALSE
  <2>1. PICK l \in 1..Len(j) : j[l] = FinishedRolledBack
    BY <1>1, <1>2 DEF BareRollback, Has
  <2> DEFINE i == SubSeq(j, 1, l - 1)
  <2>2. MayFollow(i, FinishedRolledBack)
    BY <1>1, <2>1 DEF Replayable
  <2>3. DOMAIN i = 1..l-1 /\ \A k \in 1..l-1 : i[k] = j[k]
    BY <1>1
  <2> HIDE DEF i
  <2>4. CommitIntents(i) # {}
    <3>1. ~MayPrepare(i, FinishedRolledBack)
      BY OtherTypes DEF MayPrepare, Finished
    <3>2. \A p \in Path : FinishedRolledBack \notin
            {CommitIntent(p), Committed(p), RollbackIntent(p), RolledBack(p)}
      BY DEF FinishedRolledBack, CommitIntent, Committed, RollbackIntent, RolledBack
    <3>3. FinishedRolledBack # FinishedCommitted /\ FinishedRolledBack # FinishedAborted
      BY DEF FinishedRolledBack, FinishedCommitted, FinishedAborted
    <3> QED
      BY <2>2, <3>1, <3>2, <3>3 DEF MayFollow, MayFinish
  <2>5. \A p \in Path : Has(i, CommitIntent(p)) => Has(j, CommitIntent(p))
    BY <1>1, <2>3 DEF Has
  <2> QED
    BY <1>2, <2>4, <2>5 DEF BareRollback, CommitIntents
<1>3. ASSUME UpwardRollback(j) PROVE FALSE
  <2>1. PICK p, q \in Path, k, l \in 1..Len(j) :
          q < p /\ k < l /\ j[k] = RollbackIntent(q) /\ j[l] = RollbackIntent(p)
    BY <1>1, <1>3 DEF UpwardRollback
  <2> DEFINE i == SubSeq(j, 1, l - 1)
  <2>2. MayFollow(i, RollbackIntent(p))
    BY <1>1, <2>1 DEF Replayable
  <2>3. DOMAIN i = 1..l-1 /\ \A m \in 1..l-1 : i[m] = j[m]
    BY <1>1
  <2> HIDE DEF i
  <2>4. MayRollback(i, p)
    <3>1. ~MayPrepare(i, RollbackIntent(p)) /\ ~MayFinish(i, RollbackIntent(p))
      BY OtherTypes DEF MayPrepare, MayFinish, Finished, RollbackIntent, PathRecords
    <3>2. \A x \in Path :
            /\ RollbackIntent(p) \notin {CommitIntent(x), Committed(x), RolledBack(x)}
            /\ RollbackIntent(p) = RollbackIntent(x) => x = p
      BY DEF CommitIntent, Committed, RollbackIntent, RolledBack
    <3> QED
      BY <2>2, <3>1, <3>2 DEF MayFollow
  <2>5. q \in RollbackIntents(i)
    BY <2>1, <2>3 DEF RollbackIntents, Has
  <2> QED
    BY <2>1, <2>4, <2>5 DEF MayRollback
<1> QED
  BY <1>2, <1>3 DEF Flawed

\* Where the writer stands: in the script of the preparation,
ScriptPoints == {"ready", "header", "operations", "intents", "staging", "staged", "prepare"}

Scripted ==
  /\ pc \in {"ready", "header"} => log = <<>>
  /\ pc = "operations" => Len(log) = at
  /\ pc = "intents" => Len(log) = Ops + at
  /\ pc = "staging" => Len(log) = 1 + Ops + N
  /\ pc = "staged" => Len(log) = Ops + N + at
  /\ pc = "prepare" => Len(log) = Ops + 2*N + 1

\* before the first commit intent,
PreparedPoints ==
  {"prepared", "verify", "receipt", "receipt_write", "receipt_discard", "receipt_sync"}
AbortPoints == {"collect", "fail_prepare", "unchanged", "recover_abort"}

Opening ==
  /\ pc \in ScriptPoints \cup PreparedPoints \cup AbortPoints => CommitIntents(log) = {}
  /\ pc \in PreparedPoints => Has(log, Prepared)
  /\ pc \in AbortPoints \cup {"recover"} => log # <<>>

\* among the commits,
ChangePoints == {"mutate", "unlink_stage", "sync", "classify", "committed"}

Walking ==
  /\ pc \in {"check", "intent"} =>
       /\ Has(log, Prepared)
       /\ CommitIntents(log) = 1..at-1 /\ CommittedPaths(log) = 1..at-1
  /\ pc \in ChangePoints => CommitIntents(log) = 1..at /\ CommittedPaths(log) = 1..at-1
  /\ pc = "finish" => CommitIntents(log) = Path /\ CommittedPaths(log) = Path

\* on the way back down,
BackPoints == {"restore", "unlink_backup", "restored", "rolled_back"}

Unwinding ==
  /\ pc \in {"drop_receipt", "rollback"} =>
       /\ 1..at \subseteq CommitIntents(log)
       /\ \A q \in RollbackIntents(log) : at < q /\ q \in RolledBackPaths(log)
  /\ pc \in BackPoints =>
       /\ 1..at \subseteq CommitIntents(log)
       /\ at \in RollbackIntents(log) \ RolledBackPaths(log)
       /\ \A q \in RollbackIntents(log) : at <= q /\ (q # at => q \in RolledBackPaths(log))

\* or in the rollback of a recovery.
RecoverPoints ==
  {"recover_path", "recover_restore", "recover_unlink", "recover_verify", "recover_record"}

Resuming ==
  /\ pc \in RecoverPoints =>
       /\ CommitIntents(log) = CommitIntents(parsed) /\ CommitIntents(parsed) # {}
       /\ \A q \in CommitIntents(log) : at < q => q \in RolledBackPaths(log)
       /\ \A q \in RollbackIntents(log) :
            q <= at /\ (q = at => pc = "recover_path") => q \in RollbackIntents(parsed)
       /\ \A q \in RolledBackPaths(log) : q <= at => q \in RolledBackPaths(parsed)
  /\ pc \in RecoverPoints \ {"recover_path"} =>
       at \in RollbackIntents(log) \ RolledBackPaths(log)

Legible == Replayable(log) /\ Stairs(log)
Placed  == Scripted /\ Opening /\ Walking /\ Unwinding /\ Resuming

-----------------------------------------------------------------------------
\* A step of the writer keeps the records in order, and readable if they were.
Reads == Ranked(log') /\ (Legible => Legible')

LEMMA SameReads == ASSUME Ranked(log), log' = log PROVE Reads
BY DEF Reads, Legible

LEMMA LegibleFurther ==
  ASSUME LogOK, Ranked(log), NEW r \in Record, log' \in {log, Append(log, r)},
         MayFollow(log, r)
  PROVE  Reads
<1>1. CASE log' = log
  BY <1>1, SameReads
<1>2. CASE log' = Append(log, r)
  BY <1>2, ReplayedFurther, RankedFurther, StairsFurther DEF Reads, Legible, LogOK
<1> QED
  BY <1>1, <1>2

\* At the points of FinishedPoints the writer is behind every question.
LEMMA FinishedPlaced ==
  ASSUME pc' \in FinishedPoints, pc' = "recover" => log' # <<>> PROVE Placed'
BY DEF Placed, Scripted, Opening, Walking, Unwinding, Resuming, FinishedPoints, ScriptPoints,
       PreparedPoints, AbortPoints, ChangePoints, BackPoints, RecoverPoints

\* The next record of the script.
LEMMA ScriptFurther ==
  ASSUME TypeOK, Direction, Ranked(log), pc \in ScriptPoints, CommitIntents(log) = {},
         Len(log) < PreambleLength, NEW r \in Record, r = PreambleAt(Len(log) + 1),
         Logged(r) \/ NotLogged(r)
  PROVE  /\ Reads /\ CommitIntents(log') = {}
         /\ Logged(r) => Len(log') = Len(log) + 1
         /\ log = <<>> \/ log' # <<>>
<1>1. log \in Seq(Record) /\ log' \in {log, Append(log, r)}
  BY DEF Logged, NotLogged, TypeOK, LogOK
<1>2. MayFollow(log, r)
  BY DEF MayFollow, MayPrepare, Direction, ScriptPoints, FinishedPoints
<1>3. r.type \notin PathRecords
  BY OtherTypes
<1>4. Reads
  BY <1>1, <1>2, LegibleFurther DEF TypeOK
<1>5. CommitIntents(log') = {}
  <2>1. CommitIntents(Append(log, r)) = {}
    BY <1>1, <1>3, OneSetFurther
  <2> QED
    BY <1>1, <2>1
<1>6. Len(Append(log, r)) = Len(log) + 1 /\ Append(log, r) # <<>>
  <2>1. Append(log, r) \in Seq(Record)
    BY <1>1
  <2> QED
    BY <1>1, <2>1
<1>7. Logged(r) => Len(log') = Len(log) + 1
  BY <1>6 DEF Logged
<1>8. log = <<>> \/ log' # <<>>
  <2>1. CASE log' = log
    BY <2>1
  <2>2. CASE log' = Append(log, r)
    BY <1>6, <2>2
  <2> QED
    BY <1>1, <2>1, <2>2
<1> QED
  BY <1>4, <1>5, <1>7, <1>8

LEMMA PrepareRecords ==
  ASSUME TypeOK, Direction, Ranked(log), Placed,
         \/ WriteHeader \/ WriteOperation \/ WritePathIntent \/ FailPrepare
         \/ WritePathStaged \/ WritePrepared
  PROVE  Reads /\ Placed'
<1>0. Len(log) \in Nat /\ (log = <<>> <=> Len(log) = 0)
  BY DEF TypeOK, LogOK
<1>1. CASE WriteHeader
  <2>1. /\ pc = "header" /\ log = <<>> /\ CommitIntents(log) = {}
        /\ Logged(Header) \/ NotLogged(Header)
        /\ \/ pc' = "down"
           \/ Logged(Header) /\ pc' = "operations" /\ at' = 1
    BY <1>1 DEF WriteHeader, Log, Step, Leave, Placed, Scripted, Opening, ScriptPoints
  <2>2. Header \in Record /\ Header = PreambleAt(Len(log) + 1) /\ Len(log) < PreambleLength
    <3>1. Len(log) + 1 = 1 /\ Len(log) < PreambleLength
      BY <1>0, <2>1 DEF PreambleLength
    <3> QED
      BY <3>1, PreambleScript DEF Record
  <2>3. /\ Reads /\ CommitIntents(log') = {}
        /\ Logged(Header) => Len(log') = Len(log) + 1
    BY <2>1, <2>2, ScriptFurther DEF ScriptPoints
  <2>4. CASE pc' = "down"
    BY <2>3, <2>4, FinishedPlaced DEF FinishedPoints
  <2>5. CASE pc' = "operations" /\ at' = 1 /\ Len(log') = 1
    BY <2>3, <2>5
       DEF Placed, Scripted, Opening, Walking, Unwinding, Resuming,
           ScriptPoints, PreparedPoints, AbortPoints, ChangePoints, BackPoints, RecoverPoints
  <2> QED
    BY <1>0, <2>1, <2>3, <2>4, <2>5
<1>2. CASE WriteOperation
  <2>1. /\ pc = "operations" /\ Len(log) = at /\ CommitIntents(log) = {} /\ at \in 1..Ops
        /\ Logged(Operation(at)) \/ NotLogged(Operation(at))
        /\ \/ pc' = "fail_prepare"
           \/ /\ Logged(Operation(at))
              /\ \/ pc' = "operations" /\ at' = at + 1
                 \/ pc' = "intents" /\ at' = 1 /\ at = Ops
    BY <1>2
       DEF WriteOperation, Log, Then, Step, Placed, Scripted, Opening, ScriptPoints, TypeOK,
           CallOK, AtFits
  <2>2. /\ Operation(at) \in Record /\ Operation(at) = PreambleAt(Len(log) + 1)
        /\ Len(log) < PreambleLength
    BY <2>1, PreambleScript DEF Record, PreambleLength
  <2>3. /\ Reads /\ CommitIntents(log') = {} /\ log' # <<>>
        /\ Logged(Operation(at)) => Len(log') = Len(log) + 1
    BY <1>0, <2>1, <2>2, ScriptFurther DEF ScriptPoints
  <2> QED
    BY <1>0, <2>1, <2>3
       DEF Placed, Scripted, Opening, Walking, Unwinding, Resuming,
           ScriptPoints, PreparedPoints, AbortPoints, ChangePoints, BackPoints, RecoverPoints
<1>3. CASE WritePathIntent
  <2>1. /\ pc = "intents" /\ Len(log) = Ops + at /\ CommitIntents(log) = {} /\ at \in Path
        /\ Logged(PathIntent(at)) \/ NotLogged(PathIntent(at))
        /\ \/ pc' = "fail_prepare"
           \/ /\ Logged(PathIntent(at))
              /\ \/ pc' = "intents" /\ at' = at + 1
                 \/ pc' = "staging" /\ at = N
    BY <1>3, PathIndex
       DEF WritePathIntent, Log, Then, Step, Placed, Scripted, Opening, ScriptPoints, TypeOK,
           PathPoints
  <2>2. /\ PathIntent(at) \in Record /\ PathIntent(at) = PreambleAt(Len(log) + 1)
        /\ Len(log) < PreambleLength
    BY <2>1, PreambleScript DEF Record, PreambleLength
  <2>3. /\ Reads /\ CommitIntents(log') = {} /\ log' # <<>>
        /\ Logged(PathIntent(at)) => Len(log') = Len(log) + 1
    BY <1>0, <2>1, <2>2, ScriptFurther DEF ScriptPoints
  <2> QED
    BY <1>0, <2>1, <2>3
       DEF Placed, Scripted, Opening, Walking, Unwinding, Resuming,
           ScriptPoints, PreparedPoints, AbortPoints, ChangePoints, BackPoints, RecoverPoints
<1>4. CASE WritePathStaged
  <2>1. /\ pc = "staged" /\ Len(log) = Ops + N + at /\ CommitIntents(log) = {} /\ at \in Path
        /\ Logged(PathStaged(at)) \/ NotLogged(PathStaged(at))
        /\ \/ pc' = "down"
           \/ /\ Logged(PathStaged(at))
              /\ \/ pc' = "staged" /\ at' = at + 1
                 \/ pc' = "prepare" /\ at = N
    BY <1>4, PathIndex
       DEF WritePathStaged, Log, Then, Step, Leave, Placed, Scripted, Opening, ScriptPoints,
           TypeOK, PathPoints
  <2>2. /\ PathStaged(at) \in Record /\ PathStaged(at) = PreambleAt(Len(log) + 1)
        /\ Len(log) < PreambleLength
    BY <2>1, PreambleScript DEF Record, PreambleLength
  <2>3. /\ Reads /\ CommitIntents(log') = {}
        /\ Logged(PathStaged(at)) => Len(log') = Len(log) + 1
    BY <1>0, <2>1, <2>2, ScriptFurther DEF ScriptPoints
  <2> QED
    BY <1>0, <2>1, <2>3, FinishedPlaced
       DEF Placed, Scripted, Opening, Walking, Unwinding, Resuming, FinishedPoints,
           ScriptPoints, PreparedPoints, AbortPoints, ChangePoints, BackPoints, RecoverPoints
<1>5. CASE WritePrepared
  <2>1. /\ pc = "prepare" /\ Len(log) = Ops + 2*N + 1 /\ CommitIntents(log) = {}
        /\ Logged(Prepared) \/ NotLogged(Prepared)
        /\ pc' = "down" \/ (Logged(Prepared) /\ pc' = "prepared")
    BY <1>5
       DEF WritePrepared, Log, Step, Leave, Placed, Scripted, Opening, ScriptPoints
  <2>2. /\ Prepared \in Record /\ Prepared = PreambleAt(Len(log) + 1)
        /\ Len(log) < PreambleLength
    BY <2>1, PreambleScript DEF Record, PreambleLength
  <2>3. /\ Reads /\ CommitIntents(log') = {}
        /\ Logged(Prepared) => Has(log', Prepared)
    BY <1>0, <2>1, <2>2, ScriptFurther, LoggedHas DEF ScriptPoints, TypeOK
  <2> QED
    BY <2>1, <2>3, FinishedPlaced
       DEF Placed, Scripted, Opening, Walking, Unwinding, Resuming, FinishedPoints,
           ScriptPoints, PreparedPoints, AbortPoints, ChangePoints, BackPoints, RecoverPoints
<1>6. CASE FailPrepare
  <2>1. /\ pc = "fail_prepare" /\ log # <<>> /\ CommitIntents(log) = {}
        /\ log' \in {log, Append(log, FinishedAborted)}
        /\ pc' \in {"remove_journal", "down"}
    BY <1>6
       DEF FailPrepare, Log, Logged, NotLogged, Step, Leave, Placed, Opening, AbortPoints
  <2>2. FinishedAborted \in Record /\ MayFollow(log, FinishedAborted)
    BY <2>1 DEF Record, Finished, MayFollow, MayFinish, Direction, FinishedPoints
  <2> QED
    BY <2>1, <2>2, LegibleFurther, FinishedPlaced DEF TypeOK, FinishedPoints
<1> QED
  BY <1>1, <1>2, <1>3, <1>4, <1>5, <1>6

LEMMA PrepareLegible ==
  ASSUME TypeOK, Direction, Ranked(log), Placed, Prepare PROVE Reads /\ Placed'
<1>1. ASSUME NEW p \in Path, StageJob(p) PROVE Reads /\ Placed'
  <2>1. UNCHANGED <<log, pc, at, parsed>>
    BY <1>1
       DEF StageJob, AdmitJob, CreateBackup, WriteBackup, CreateStage, WriteStage,
           SyncArtifacts, UndoJob, CancelJobs, JobCall, JobStep
  <2> QED
    BY <2>1, SameReads DEF Placed, Scripted, Opening, Walking, Unwinding, Resuming
<1>2. CASE Join \/ Collect \/ CreateJournal
  <2>1. /\ log' = log
        /\ \/ pc' = "down"
           \/ pc = "ready" /\ pc' = "header"
           \/ pc \in {"staging", "collect"} /\ pc' \in {"collect", "fail_prepare"}
           \/ pc = "staging" /\ pc' = "staged" /\ at' = 1
    BY <1>2
       DEF Join, Collect, CreateJournal, RemoveStage, RemoveBackup, Call, call, Step, Leave,
           Quiet, Still
  <2>2. pc = "staging" => Len(log) = 1 + Ops + N /\ log # <<>>
    BY DEF Placed, Scripted
  <2> QED
    BY <2>1, <2>2, SameReads, FinishedPlaced
       DEF Placed, Scripted, Opening, Walking, Unwinding, Resuming, FinishedPoints,
           ScriptPoints, PreparedPoints, AbortPoints, ChangePoints, BackPoints, RecoverPoints
<1> QED
  BY <1>1, <1>2, PrepareRecords DEF Prepare

\* The journal is left alone between two points at which it promises nothing
\* more than before.
LEMMA CommitQuietLegible ==
  ASSUME TypeOK, Direction, Ranked(log), Placed,
         \/ Commit \/ Abort \/ Drop \/ VerifyAll
         \/ StoreFull \/ CreateReceipt \/ WriteReceipt \/ DiscardReceipt \/ SyncReceipt
         \/ Check \/ LinkStage \/ UnlinkStage \/ ReplaceTarget \/ RemoveSource \/ SyncParent
         \/ Classify \/ DropReceipt \/ Restore \/ FinishRestore \/ VerifyRestored
  PROVE  Reads /\ Placed'
<1>1. CASE Commit \/ Abort \/ Drop \/ VerifyAll
  <2>1. /\ log' = log /\ pc \in PreparedPoints
        /\ \/ pc' = "down"
           \/ pc' \in PreparedPoints \cup {"unchanged"}
           \/ pc' = "check" /\ at' = 1
    BY <1>1
       DEF Commit, Abort, Drop, VerifyAll, Refuse, Step, Leave, Quiet, Still, PreparedPoints
  <2>2. Has(log, Prepared) /\ CommitIntents(log) = {} /\ CommittedPaths(log) = {} /\ log # <<>>
    BY <2>1 DEF Placed, Opening, Ranked, Has
  <2> QED
    BY <2>1, <2>2, SameReads, FinishedPlaced
       DEF Placed, Scripted, Opening, Walking, Unwinding, Resuming, FinishedPoints,
           ScriptPoints, PreparedPoints, AbortPoints, ChangePoints, BackPoints, RecoverPoints
<1>2. CASE StoreFull \/ CreateReceipt \/ WriteReceipt \/ DiscardReceipt \/ SyncReceipt
  <2>1. /\ log' = log /\ pc \in PreparedPoints
        /\ \/ pc' \in PreparedPoints \cup {"unchanged"}
           \/ pc' = "check" /\ at' = 1
    BY <1>2
       DEF StoreFull, CreateReceipt, WriteReceipt, DiscardReceipt, SyncReceipt, ReceiptStep,
           Call, Step, Quiet, Still, PreparedPoints
  <2>2. Has(log, Prepared) /\ CommitIntents(log) = {} /\ CommittedPaths(log) = {} /\ log # <<>>
    BY <2>1 DEF Placed, Opening, Ranked, Has
  <2> QED
    BY <2>1, <2>2, SameReads
       DEF Placed, Scripted, Opening, Walking, Unwinding, Resuming,
           ScriptPoints, PreparedPoints, AbortPoints, ChangePoints, BackPoints, RecoverPoints
<1>3. CASE Check
  <2>1. /\ log' = log /\ pc = "check" /\ at \in Path
        /\ \/ pc' = "intent" /\ at' = at
           \/ pc' \in {"drop_receipt", "rollback"} /\ at' = at - 1
    BY <1>3, PathIndex DEF Check, Unwind, Step, Still, TypeOK, PathPoints
  <2>2. /\ Has(log, Prepared) /\ RollbackIntents(log) = {}
        /\ CommitIntents(log) = 1..at-1 /\ CommittedPaths(log) = 1..at-1
    BY <2>1 DEF Placed, Walking, Direction, ForwardPoints
  <2> QED
    BY <2>1, <2>2, SameReads
       DEF Placed, Scripted, Opening, Walking, Unwinding, Resuming,
           ScriptPoints, PreparedPoints, AbortPoints, ChangePoints, BackPoints, RecoverPoints
<1>4. CASE LinkStage \/ UnlinkStage \/ ReplaceTarget \/ RemoveSource \/ SyncParent
  <2>1. log' = log /\ pc \in ChangePoints /\ pc' \in ChangePoints /\ at' = at
    BY <1>4
       DEF LinkStage, UnlinkStage, ReplaceTarget, RemoveSource, SyncParent, MutateStep,
           Unsuited, Call, Step, Quiet, Still, ChangePoints
  <2> QED
    BY <2>1, SameReads
       DEF Placed, Scripted, Opening, Walking, Unwinding, Resuming,
           ScriptPoints, PreparedPoints, AbortPoints, ChangePoints, BackPoints, RecoverPoints
<1>5. CASE Classify
  <2>1. /\ log' = log /\ pc = "classify" /\ at \in Path
        /\ \/ pc' = "down"
           \/ pc' \in {"drop_receipt", "rollback"} /\ at' \in {at, at - 1}
    BY <1>5, PathIndex DEF Classify, Unwind, Step, Leave, Quiet, Still, TypeOK, PathPoints
  <2>2. RollbackIntents(log) = {} /\ CommitIntents(log) = 1..at
    BY <2>1 DEF Placed, Walking, ChangePoints, Direction, ForwardPoints
  <2> QED
    BY <2>1, <2>2, SameReads, FinishedPlaced
       DEF Placed, Scripted, Opening, Walking, Unwinding, Resuming, FinishedPoints,
           ScriptPoints, PreparedPoints, AbortPoints, ChangePoints, BackPoints, RecoverPoints
<1>6. CASE DropReceipt
  <2>1. /\ log' = log /\ pc = "drop_receipt"
        /\ pc' = "down" \/ (pc' = "rollback" /\ at' = at)
    BY <1>6 DEF DropReceipt, Call, Step, Leave
  <2> QED
    BY <2>1, SameReads, FinishedPlaced
       DEF Placed, Scripted, Opening, Walking, Unwinding, Resuming, FinishedPoints,
           ScriptPoints, PreparedPoints, AbortPoints, ChangePoints, BackPoints, RecoverPoints
<1>7. CASE Restore \/ FinishRestore \/ VerifyRestored
  <2>1. /\ log' = log /\ pc \in BackPoints
        /\ pc' = "down" \/ (pc' \in BackPoints /\ at' = at)
    BY <1>7
       DEF Restore, FinishRestore, VerifyRestored, RemoveCreated, RenameBackup, LinkBackup,
           UnlinkBackup, RestoreStep, Refuse, Call, Step, Leave, Quiet, Still, BackPoints
  <2> QED
    BY <2>1, SameReads, FinishedPlaced
       DEF Placed, Scripted, Opening, Walking, Unwinding, Resuming, FinishedPoints,
           ScriptPoints, PreparedPoints, AbortPoints, ChangePoints, BackPoints, RecoverPoints
<1> QED
  BY <1>1, <1>2, <1>3, <1>4, <1>5, <1>6, <1>7

LEMMA UnwindingPlaced ==
  ASSUME pc' \in {"drop_receipt", "rollback"} \cup BackPoints, Unwinding' PROVE Placed'
BY DEF Placed, Scripted, Opening, Walking, Resuming,
       ScriptPoints, PreparedPoints, AbortPoints, ChangePoints, BackPoints, RecoverPoints

\* What one more record of a path changes, seen from the step that writes it.
LEMMA Writes ==
  ASSUME LogOK, NEW r \in Record, Logged(r) \/ NotLogged(r)
  PROVE  /\ log' \in {log, Append(log, r)}
         /\ Logged(r) => log' = Append(log, r)
         /\ Has(log, Prepared) => Has(log', Prepared)
<1>1. log' \in {log, Append(log, r)}
  BY DEF Logged, NotLogged
<1>2. Has(log, Prepared) => Has(log', Prepared)
  BY LogGrows DEF Grows
<1> QED
  BY <1>1, <1>2 DEF Logged

LEMMA CommitRecords ==
  ASSUME TypeOK, Direction, Ranked(log), Placed, Intend \/ CompletePath \/ FinishCommit
  PROVE  Reads /\ Placed'
<1>0. LogOK /\ log \in Seq(Record)
  BY DEF TypeOK, LogOK
<1>1. CASE Intend
  <2> DEFINE r == CommitIntent(at)
  <2>1. /\ pc = "intent" /\ at \in Path /\ r \in Record
        /\ Logged(r) \/ NotLogged(r)
        /\ \/ Logged(r) /\ pc' = "mutate" /\ at' = at
           \/ pc' \in {"drop_receipt", "rollback"} /\ at' = at - 1
    BY <1>1, PathIndex, RecordTypes DEF Intend, Log, Unwind, Step, TypeOK, PathPoints
  <2>2. /\ Has(log, Prepared) /\ RollbackIntents(log) = {} /\ ~IsFinished(log)
        /\ CommitIntents(log) = 1..at-1 /\ CommittedPaths(log) = 1..at-1
    BY <2>1 DEF Placed, Walking, Direction, ForwardPoints, FinishedPoints
  <2>3. MayFollow(log, r)
    BY <2>1, <2>2 DEF MayFollow, MayIntend
  <2>4. /\ log' \in {log, Append(log, r)}
        /\ Logged(r) => log' = Append(log, r)
    BY <1>0, <2>1, Writes
  <2>5. /\ CommitIntents(Append(log, r)) = 1..at
        /\ CommittedPaths(Append(log, r)) = 1..at-1 /\ RollbackIntents(Append(log, r)) = {}
    <3>1. /\ CommitIntents(Append(log, r)) = (1..at-1) \cup {at}
          /\ CommittedPaths(Append(log, r)) = 1..at-1 /\ RollbackIntents(Append(log, r)) = {}
      BY <1>0, <2>1, <2>2, OneSetFurther
    <3> QED
      BY <2>1, <3>1
  <2>6. Reads
    BY <1>0, <2>1, <2>3, <2>4, LegibleFurther
  <2> HIDE DEF r
  <2>7. CASE log' = Append(log, r) /\ pc' = "mutate" /\ at' = at
    <3>1. CommitIntents(log') = 1..at /\ CommittedPaths(log') = 1..at-1
      BY <2>5, <2>7
    <3>2. pc' = "mutate" /\ at' = at
      BY <2>7
    <3> QED
      BY <2>6, <3>1, <3>2
         DEF Placed, Scripted, Opening, Walking, Unwinding, Resuming,
           ScriptPoints, PreparedPoints, AbortPoints, ChangePoints, BackPoints, RecoverPoints
  <2>8. CASE pc' \in {"drop_receipt", "rollback"} /\ at' = at - 1
    <3>1. CommitIntents(log') \in {1..at-1, 1..at} /\ RollbackIntents(log') = {}
      BY <2>2, <2>4, <2>5
    <3>3. 1..at-1 \subseteq CommitIntents(log')
      BY <2>1, <3>1
    <3>2. Unwinding'
      BY <2>8, <3>1, <3>3 DEF Unwinding, BackPoints
    <3> QED
      BY <2>6, <2>8, <3>2, UnwindingPlaced
  <2> QED
    BY <2>1, <2>4, <2>7, <2>8
<1>2. CASE CompletePath
  <2> DEFINE r == Committed(at)
  <2>1. /\ pc = "committed" /\ at \in Path /\ r \in Record
        /\ Logged(r) \/ NotLogged(r)
        /\ \/ Logged(r) /\ at < N /\ pc' = "check" /\ at' = at + 1
           \/ Logged(r) /\ at = N /\ pc' = "finish"
           \/ pc' \in {"drop_receipt", "rollback"} /\ at' = at
    BY <1>2, PathIndex, RecordTypes DEF CompletePath, Log, Unwind, Step, TypeOK, PathPoints
  <2>2. /\ Has(log, Prepared) /\ RollbackIntents(log) = {} /\ ~IsFinished(log)
        /\ CommitIntents(log) = 1..at /\ CommittedPaths(log) = 1..at-1
    BY <2>1
       DEF Placed, Walking, ChangePoints, Direction, ForwardPoints, FinishedPoints, Legible,
           Ranked
  <2>3. MayFollow(log, r)
    BY <2>1, <2>2 DEF MayFollow, MayCommit
  <2>4. /\ log' \in {log, Append(log, r)}
        /\ Logged(r) => log' = Append(log, r)
        /\ Has(log', Prepared)
    BY <1>0, <2>1, <2>2, Writes
  <2>5. /\ CommitIntents(Append(log, r)) = 1..at
        /\ CommittedPaths(Append(log, r)) = 1..at /\ RollbackIntents(Append(log, r)) = {}
    <3>1. /\ CommittedPaths(Append(log, r)) = (1..at-1) \cup {at}
          /\ CommitIntents(Append(log, r)) = 1..at /\ RollbackIntents(Append(log, r)) = {}
      BY <1>0, <2>1, <2>2, OneSetFurther
    <3> QED
      BY <2>1, <3>1
  <2>6. Reads
    BY <1>0, <2>1, <2>3, <2>4, LegibleFurther
  <2> HIDE DEF r
  <2>7. CASE /\ log' = Append(log, r)
             /\ (pc' = "check" /\ at' = at + 1) \/ (pc' = "finish" /\ at = N)
    <3>1. CommitIntents(log') = 1..at /\ CommittedPaths(log') = 1..at
      BY <2>5, <2>7
    <3> QED
      BY <2>1, <2>4, <2>6, <2>7, <3>1
         DEF Placed, Scripted, Opening, Walking, Unwinding, Resuming,
           ScriptPoints, PreparedPoints, AbortPoints, ChangePoints, BackPoints, RecoverPoints
  <2>8. CASE pc' \in {"drop_receipt", "rollback"} /\ at' = at
    <3>1. 1..at \subseteq CommitIntents(log') /\ RollbackIntents(log') = {}
      BY <2>1, <2>2, <2>4, <2>5
    <3> QED
      BY <2>6, <2>8, <3>1
         DEF Placed, Scripted, Opening, Walking, Unwinding, Resuming,
           ScriptPoints, PreparedPoints, AbortPoints, ChangePoints, BackPoints, RecoverPoints
  <2> QED
    BY <2>1, <2>4, <2>7, <2>8
<1>3. CASE FinishCommit
  <2>1. /\ pc = "finish"
        /\ Logged(FinishedCommitted) \/ NotLogged(FinishedCommitted)
        /\ pc' \in {"clean", "down"} /\ FinishedCommitted \in Record
    BY <1>3 DEF FinishCommit, Log, Step, Leave, Record, Finished
  <2>2. /\ Has(log, Prepared) /\ ~IsFinished(log)
        /\ CommitIntents(log) = Path /\ CommittedPaths(log) = Path
    BY <2>1 DEF Placed, Walking, Direction, FinishedPoints, Ranked
  <2>3. MayFollow(log, FinishedCommitted)
    BY <2>1, <2>2 DEF MayFollow, MayFinish
  <2> QED
    BY <1>0, <2>1, <2>3, Writes, LegibleFurther, FinishedPlaced DEF FinishedPoints
<1> QED
  BY <1>1, <1>2, <1>3

\* Two records may break a journal that was readable.
ReadsUnless(flaw) == Ranked(log') /\ (Legible => Legible' \/ flaw)

\* A rollback of no path is the first way to a journal that is refused.
LEMMA RollbackRecords ==
  ASSUME TypeOK, Direction, Ranked(log), Placed,
         FinishUnchanged \/ IntendRollback \/ FinishRollback \/ CompleteRollback
  PROVE  ReadsUnless(BareRollback(log')) /\ Placed'
<1>0. /\ LogOK /\ log \in Seq(Record)
      /\ Reads => ReadsUnless(BareRollback(log'))
  BY DEF TypeOK, LogOK, Reads, ReadsUnless
<1>1. CASE FinishUnchanged
  <2>1. /\ pc = "unchanged"
        /\ Logged(FinishedAborted) \/ NotLogged(FinishedAborted)
        /\ pc' \in {"clean", "down"} /\ FinishedAborted \in Record
    BY <1>1 DEF FinishUnchanged, Log, Step, Leave, Record, Finished
  <2>2. MayFollow(log, FinishedAborted)
    BY <2>1
       DEF MayFollow, MayFinish, Placed, Opening, AbortPoints, Direction, FinishedPoints
  <2> QED
    BY <1>0, <2>1, <2>2, Writes, LegibleFurther, FinishedPlaced DEF FinishedPoints
<1>2. CASE IntendRollback
  <2> DEFINE r == RollbackIntent(at)
  <2>1. /\ pc = "rollback" /\ at \in Path /\ r \in Record
        /\ Logged(r) \/ NotLogged(r)
        /\ \/ Logged(r) /\ pc' = "restore" /\ at' = at
           \/ pc' = "down"
    BY <1>2, PathIndex, RecordTypes
       DEF IntendRollback, Log, Step, Leave, TypeOK, UnwindPoints
  <2>2. /\ 1..at \subseteq CommitIntents(log) /\ ~IsFinished(log)
        /\ \A q \in RollbackIntents(log) : at < q /\ q \in RolledBackPaths(log)
    BY <2>1 DEF Placed, Unwinding, Direction, FinishedPoints
  <2>3. at \in CommitIntents(log) /\ RollbackIntents(log) = RolledBackPaths(log)
    BY <2>1, <2>2 DEF Ranked
  <2>4. MayFollow(log, r)
    BY <2>1, <2>2, <2>3 DEF MayFollow, MayRollback
  <2>5. /\ log' \in {log, Append(log, r)}
        /\ Logged(r) => log' = Append(log, r)
    BY <1>0, <2>1, Writes
  <2>6. /\ CommitIntents(Append(log, r)) = CommitIntents(log)
        /\ RollbackIntents(Append(log, r)) = RollbackIntents(log) \cup {at}
        /\ RolledBackPaths(Append(log, r)) = RolledBackPaths(log)
    BY <1>0, <2>1, OneSetFurther
  <2>7. Reads
    BY <1>0, <2>1, <2>4, <2>5, LegibleFurther
  <2> HIDE DEF r
  <2>8. CASE pc' = "down"
    BY <1>0, <2>7, <2>8, FinishedPlaced DEF FinishedPoints
  <2>9. CASE log' = Append(log, r) /\ pc' = "restore" /\ at' = at
    <3>1. /\ at \in RollbackIntents(log') \ RolledBackPaths(log')
          /\ \A q \in RollbackIntents(log') :
               at <= q /\ (q # at => q \in RolledBackPaths(log'))
      <4>1. /\ RollbackIntents(log') = RollbackIntents(log) \cup {at}
            /\ RolledBackPaths(log') = RolledBackPaths(log)
        BY <2>6, <2>9
      <4>2. at \in Nat /\ \A q \in RollbackIntents(log) : q \in Nat
        BY <2>1 DEF RollbackIntents
      <4> QED
        BY <2>2, <2>3, <4>1, <4>2
    <3>2. 1..at \subseteq CommitIntents(log')
      <4>1. CommitIntents(log') = CommitIntents(log)
        BY <2>6, <2>9
      <4> QED
        BY <2>2, <4>1
    <3>3. pc' = "restore" /\ at' = at
      BY <2>9
    <3>4. Unwinding'
      BY <3>1, <3>2, <3>3 DEF Unwinding, BackPoints
    <3> QED
      BY <1>0, <2>7, <3>3, <3>4, UnwindingPlaced DEF BackPoints
  <2> QED
    BY <2>1, <2>5, <2>8, <2>9
<1>3. CASE FinishRollback
  <2> DEFINE r == FinishedRolledBack
  <2>1. /\ pc = "rollback"
        /\ Logged(r) \/ NotLogged(r)
        /\ pc' \in {"clean", "down"} /\ r \in Record
    BY <1>3 DEF FinishRollback, Log, Step, Leave, Record, Finished
  <2>2. log' \in {log, Append(log, r)}
    BY <1>0, <2>1, Writes
  <2>3. CommitIntents(log) # {} => MayFollow(log, r)
    BY <2>1 DEF MayFollow, MayFinish, Ranked, Direction, FinishedPoints
  <2>4. ASSUME CommitIntents(log) # {} \/ log' = log
        PROVE  ReadsUnless(BareRollback(log'))
    <3>1. Reads
      <4>1. CASE log' = log
        BY <4>1, SameReads
      <4>2. CASE CommitIntents(log) # {}
        BY <1>0, <2>1, <2>2, <2>3, <4>2, LegibleFurther
      <4> QED
        BY <2>4, <4>1, <4>2
    <3> QED
      BY <1>0, <3>1
  <2>5. ASSUME CommitIntents(log) = {}, log' = Append(log, r)
        PROVE  ReadsUnless(BareRollback(log'))
    <3>1. Has(log', r)
      BY <1>0, <2>1, <2>5, HasAppend
    <3>2. r.type \notin PathRecords
      BY OtherTypes DEF Finished
    <3>3. /\ CommitIntents(Append(log, r)) = CommitIntents(log)
          /\ CommittedPaths(Append(log, r)) = CommittedPaths(log)
          /\ RollbackIntents(Append(log, r)) = RollbackIntents(log)
          /\ RolledBackPaths(Append(log, r)) = RolledBackPaths(log)
      BY <1>0, <2>1, <3>2, OneSetFurther
    <3>4. CommitIntents(log') = {} /\ Ranked(log')
      BY <2>5, <3>3 DEF Ranked
    <3>5. BareRollback(log')
      BY <3>1, <3>4 DEF BareRollback
    <3> QED
      BY <3>4, <3>5 DEF ReadsUnless
  <2>6. ReadsUnless(BareRollback(log'))
    BY <2>2, <2>4, <2>5
  <2> QED
    BY <2>1, <2>6, FinishedPlaced DEF FinishedPoints
<1>4. CASE CompleteRollback
  <2> DEFINE r == RolledBack(at)
  <2>1. /\ pc = "rolled_back" /\ at \in Path /\ r \in Record
        /\ Logged(r) \/ NotLogged(r)
        /\ \/ Logged(r) /\ pc' = "rollback" /\ at' = at - 1
           \/ pc' = "down"
    BY <1>4, PathIndex, RecordTypes
       DEF CompleteRollback, Log, Step, Leave, TypeOK, PathPoints
  <2>2. /\ 1..at \subseteq CommitIntents(log) /\ ~IsFinished(log)
        /\ at \in RollbackIntents(log) \ RolledBackPaths(log)
        /\ \A q \in RollbackIntents(log) : at <= q /\ (q # at => q \in RolledBackPaths(log))
    BY <2>1 DEF Placed, Unwinding, BackPoints, Direction, FinishedPoints
  <2>3. MayFollow(log, r)
    BY <2>1, <2>2 DEF MayFollow, MayRestore
  <2>4. /\ log' \in {log, Append(log, r)}
        /\ Logged(r) => log' = Append(log, r)
    BY <1>0, <2>1, Writes
  <2>5. /\ CommitIntents(Append(log, r)) = CommitIntents(log)
        /\ RollbackIntents(Append(log, r)) = RollbackIntents(log)
        /\ RolledBackPaths(Append(log, r)) = RolledBackPaths(log) \cup {at}
    BY <1>0, <2>1, OneSetFurther
  <2>6. Reads
    BY <1>0, <2>1, <2>3, <2>4, LegibleFurther
  <2> HIDE DEF r
  <2>7. CASE pc' = "down"
    BY <1>0, <2>6, <2>7, FinishedPlaced DEF FinishedPoints
  <2>8. CASE log' = Append(log, r) /\ pc' = "rollback" /\ at' = at - 1
    <3>1. \A q \in RollbackIntents(log') : at - 1 < q /\ q \in RolledBackPaths(log')
      <4>1. /\ RollbackIntents(log') = RollbackIntents(log)
            /\ RolledBackPaths(log') = RolledBackPaths(log) \cup {at}
        BY <2>5, <2>8
      <4>2. \A q \in RollbackIntents(log) : at - 1 < q
        BY <2>1, <2>2 DEF RollbackIntents
      <4>3. \A q \in RollbackIntents(log) : q \in RolledBackPaths(log) \cup {at}
        BY <2>2
      <4> QED
        BY <4>1, <4>2, <4>3
    <3>2. 1..at-1 \subseteq CommitIntents(log')
      BY <2>1, <2>2, <2>5, <2>8
    <3> QED
      BY <1>0, <2>1, <2>6, <2>8, <3>1, <3>2
         DEF Placed, Scripted, Opening, Walking, Unwinding, Resuming,
           ScriptPoints, PreparedPoints, AbortPoints, ChangePoints, BackPoints, RecoverPoints
  <2> QED
    BY <2>1, <2>4, <2>7, <2>8
<1> QED
  BY <1>1, <1>2, <1>3, <1>4

LEMMA CleanupLegible ==
  ASSUME Ranked(log), Cleanup PROVE (Reads \/ log' = <<>>) /\ Placed'
<1>1. CASE RemoveJournal
  <2>1. (log' = log \/ log' = <<>>) /\ pc' = "down"
    BY <1>1 DEF RemoveJournal, Call, Leave
  <2> QED
    BY <2>1, SameReads, FinishedPlaced DEF FinishedPoints
<1>2. CASE Clean \/ RetainBackup \/ AllRetained \/ DropTransitional
  <2>1. log' = log /\ pc' \in FinishedPoints \ {"recover"}
    BY <1>2
       DEF Clean, RetainBackup, AllRetained, DropTransitional, RemoveStage, RemoveBackup, Call,
           call, Step, Leave, Quiet, Still, FinishedPoints
  <2> QED
    BY <2>1, SameReads, FinishedPlaced
<1> QED
  BY <1>1, <1>2 DEF Cleanup

\* The empty journal.
LEMMA EmptyReads == ASSUME log' = <<>> PROVE Ranked(log') /\ Legible'
BY DEF Legible, Replayable, Stairs, Ranked, Has, CommitIntents, CommittedPaths,
       RollbackIntents, RolledBackPaths

LEMMA SnapshotSets ==
  ASSUME Snapshot
  PROVE  /\ CommitIntents(parsed) \subseteq CommitIntents(log)
         /\ RollbackIntents(parsed) \subseteq RollbackIntents(log)
         /\ RolledBackPaths(parsed) \subseteq RolledBackPaths(log)
BY RecordTypes DEF Snapshot, CommitIntents, RollbackIntents, RolledBackPaths

LEMMA ResumingPlaced ==
  ASSUME pc' \in RecoverPoints, Resuming' PROVE Placed'
BY DEF Placed, Scripted, Opening, Walking, Unwinding,
       ScriptPoints, PreparedPoints, AbortPoints, ChangePoints, BackPoints, RecoverPoints

LEMMA RecoverStartsLegible ==
  ASSUME TypeOK, Direction, Ranked(log), Placed,
         \/ Open \/ OpenFails \/ RecoverFinished \/ RecoverUncommitted \/ RecoverChanged
         \/ RecordAbort \/ ReadReceipt \/ RefusePath
  PROVE  Reads /\ Placed'
<1>1. CASE Open \/ OpenFails \/ RecoverFinished \/ ReadReceipt \/ RefusePath
  <2>1. log' = log /\ pc' \in FinishedPoints /\ (pc' = "recover" => log # <<>>)
    BY <1>1
       DEF Open, OpenFails, RecoverFinished, ReadReceipt, RefusePath, Refuse, Step, Leave,
           Quiet, Still, FinishedPoints
  <2> QED
    BY <2>1, SameReads, FinishedPlaced
<1>2. CASE RecoverUncommitted
  <2>1. /\ log' = log /\ pc' \in {"recover_abort", "down"} /\ pc = "recover"
        /\ ~Has(parsed, Prepared) \/ CommitIntents(parsed) = {}
    BY <1>2 DEF RecoverUncommitted, Uncommitted, Step, Leave, Quiet, Still
  <2>2. log # <<>> /\ CommitIntents(log) = {}
    BY <2>1 DEF Placed, Opening, Direction, Ranked
  <2> QED
    BY <2>1, <2>2, SameReads, FinishedPlaced
       DEF Placed, Scripted, Opening, Walking, Unwinding, Resuming, FinishedPoints,
           ScriptPoints, PreparedPoints, AbortPoints, ChangePoints, BackPoints, RecoverPoints
<1>3. CASE RecoverChanged
  <2>1. /\ log' = log /\ pc' = "recover_path" /\ at' = N /\ parsed' = parsed /\ parsed = log
        /\ CommitIntents(parsed) # {}
    BY <1>3 DEF RecoverChanged, Uncommitted, Step, Quiet, Still, Direction
  <2>2. \A q \in CommitIntents(log) : ~(N < q)
    BY DEF CommitIntents
  <2>3. Resuming'
    BY <2>1, <2>2 DEF Resuming, RecoverPoints
  <2> QED
    BY <2>1, <2>3, SameReads, ResumingPlaced DEF RecoverPoints
<1>4. CASE RecordAbort
  <2>1. /\ pc = "recover_abort" /\ pc' \in {"recover_receipt", "down"}
        /\ FinishedAborted \in Record
        /\ Logged(FinishedAborted) \/ NotLogged(FinishedAborted)
    BY <1>4 DEF RecordAbort, Log, Step, Leave, Record, Finished
  <2>2. MayFollow(log, FinishedAborted)
    BY <2>1
       DEF MayFollow, MayFinish, Placed, Opening, AbortPoints, Direction, FinishedPoints
  <2> QED
    BY <2>1, <2>2, Writes, LegibleFurther, FinishedPlaced DEF FinishedPoints, TypeOK
<1> QED
  BY <1>1, <1>2, <1>3, <1>4

LEMMA RecoverQuietLegible ==
  ASSUME TypeOK, Snapshot, Ranked(log), Placed,
         ResumeRestore \/ SkipPath \/ RecoverRestore \/ RecoverUnlink \/ RecoverVerify
  PROVE  Reads /\ Placed'
<1>1. CASE ResumeRestore
  <2>1. /\ log' = log /\ pc = "recover_path" /\ pc' = "recover_unlink" /\ at' = at
        /\ parsed' = parsed /\ at \in Path
        /\ at \in RollbackIntents(parsed) /\ at \notin RolledBackPaths(parsed)
    BY <1>1, PathIndex
       DEF ResumeRestore, AtPath, Announced, Restored, Step, Quiet, Still, TypeOK, UnwindPoints
  <2>2. at \in RollbackIntents(log) \ RolledBackPaths(log)
    BY <2>1, SnapshotSets DEF Placed, Resuming, RecoverPoints
  <2>3. Resuming'
    BY <2>1, <2>2 DEF Placed, Resuming, RecoverPoints
  <2> QED
    BY <2>1, <2>3, SameReads, ResumingPlaced DEF RecoverPoints
<1>2. CASE SkipPath
  <2>1. /\ log' = log /\ pc = "recover_path" /\ pc' = "recover_path" /\ at' = at - 1
        /\ parsed' = parsed /\ at \in Path
        /\ at \in RolledBackPaths(parsed) \/ at \notin CommitIntents(parsed)
    BY <1>2, PathIndex
       DEF SkipPath, AtPath, Intended, Restored, Step, Quiet, Still, TypeOK, UnwindPoints
  <2>2. at \in CommitIntents(log) => at \in RolledBackPaths(log)
    BY <2>1, SnapshotSets DEF Placed, Resuming, RecoverPoints
  <2>3. \A q \in Path : (at - 1 < q => q = at \/ at < q) /\ (q <= at - 1 => q <= at)
    BY <2>1
  <2>4. /\ CommitIntents(log) \subseteq Path /\ RollbackIntents(log) \subseteq Path
        /\ RolledBackPaths(log) \subseteq Path
    BY DEF CommitIntents, RollbackIntents, RolledBackPaths
  <2>5. Resuming'
    BY <2>1, <2>2, <2>3, <2>4 DEF Placed, Resuming, RecoverPoints
  <2> QED
    BY <2>1, <2>5, SameReads, ResumingPlaced DEF RecoverPoints
<1>3. CASE RecoverRestore \/ RecoverUnlink \/ RecoverVerify
  <2>1. /\ log' = log /\ pc \in RecoverPoints \ {"recover_path"}
        /\ \/ pc' = "down"
           \/ /\ pc' \in RecoverPoints \ {"recover_path"}
              /\ at' = at /\ parsed' = parsed
    BY <1>3
       DEF RecoverRestore, RecoverUnlink, RecoverVerify, RemoveCreated, RenameBackup,
           LinkBackup, UnlinkBackup, RestoreStep, Refuse, Call, Step, Leave, Quiet, Still,
           RecoverPoints
  <2>2. CASE pc' = "down"
    BY <2>1, <2>2, SameReads, FinishedPlaced DEF FinishedPoints
  <2>3. CASE /\ pc' \in RecoverPoints \ {"recover_path"}
             /\ at' = at /\ parsed' = parsed
    <3>1. Resuming'
      BY <2>1, <2>3 DEF Placed, Resuming, RecoverPoints
    <3> QED
      BY <2>1, <2>3, <3>1, SameReads, ResumingPlaced
  <2> QED
    BY <2>1, <2>2, <2>3
<1> QED
  BY <1>1, <1>2, <1>3

LEMMA RollbackRanks ==
  ASSUME LogOK, Ranked(log), NEW r \in Record, log' \in {log, Append(log, r)},
         NEW p \in CommitIntents(log),
         r = RollbackIntent(p) \/ (r = RolledBack(p) /\ p \in RollbackIntents(log))
  PROVE  Ranked(log')
<1>1. p \in Path
  BY DEF CommitIntents
<1>2. Has(log, Prepared) => Has(Append(log, r), Prepared)
  BY HasAppend DEF LogOK
<1>3. Ranked(Append(log, r))
  BY <1>1, <1>2, OneSetFurther DEF Ranked, LogOK
<1> QED
  BY <1>3

LEMMA RecoverRecords ==
  ASSUME TypeOK, Direction, Snapshot, Ranked(log), Placed, RecordPath \/ RecordRollback
  PROVE  Reads /\ Placed'
<1>0. LogOK /\ log \in Seq(Record)
  BY DEF TypeOK, LogOK
<1>1. CASE RecordPath
  <2> DEFINE r == RolledBack(at)
  <2>1. /\ pc = "recover_record" /\ at \in Path /\ r \in Record
        /\ Logged(r) \/ NotLogged(r)
        /\ \/ Logged(r) /\ pc' = "recover_path" /\ at' = at - 1 /\ parsed' = parsed
           \/ pc' = "down"
    BY <1>1, PathIndex, RecordTypes DEF RecordPath, Log, Step, Leave, TypeOK, PathPoints
  <2>2. /\ ~IsFinished(log)
        /\ at \in RollbackIntents(log) \ RolledBackPaths(log)
        /\ CommitIntents(log) = CommitIntents(parsed) /\ CommitIntents(parsed) # {}
        /\ \A q \in CommitIntents(log) : at < q => q \in RolledBackPaths(log)
        /\ \A q \in RollbackIntents(log) : q < at => q \in RollbackIntents(parsed)
        /\ \A q \in RolledBackPaths(log) : q <= at => q \in RolledBackPaths(parsed)
    <3>1. \A q \in RollbackIntents(log) : q < at => q <= at /\ q # at
      BY <2>1 DEF RollbackIntents
    <3> QED
      BY <2>1, <3>1 DEF Placed, Resuming, RecoverPoints, Direction, FinishedPoints
  <2>3. Stairs(log) => \A q \in RollbackIntents(log) : at <= q
    <3>1. Stairs(log) => \A q \in RollbackIntents(log) : ~(q < at)
      BY <2>2 DEF Stairs
    <3> QED
      BY <2>1, <3>1 DEF RollbackIntents
  <2>4. Stairs(log) => MayFollow(log, r)
    BY <2>1, <2>2, <2>3 DEF MayFollow, MayRestore
  <2>5. /\ log' \in {log, Append(log, r)}
        /\ Logged(r) => log' = Append(log, r)
    BY <1>0, <2>1, Writes
  <2>6. Reads
    <3>1. at \in CommitIntents(log)
      BY <2>2 DEF Ranked
    <3>2. Ranked(log')
      BY <1>0, <2>1, <2>2, <2>5, <3>1, RollbackRanks
    <3> QED
      BY <1>0, <2>1, <2>4, <2>5, <3>2, LegibleFurther DEF Reads, Legible
  <2>7. /\ CommitIntents(Append(log, r)) = CommitIntents(log)
        /\ RollbackIntents(Append(log, r)) = RollbackIntents(log)
        /\ RolledBackPaths(Append(log, r)) = RolledBackPaths(log) \cup {at}
    BY <1>0, <2>1, OneSetFurther
  <2> HIDE DEF r
  <2>8. CASE pc' = "down"
    BY <2>6, <2>8, FinishedPlaced DEF FinishedPoints
  <2>9. CASE log' = Append(log, r) /\ pc' = "recover_path" /\ at' = at - 1 /\ parsed' = parsed
    <3>1. /\ CommitIntents(log') = CommitIntents(log)
          /\ RollbackIntents(log') = RollbackIntents(log)
          /\ RolledBackPaths(log') = RolledBackPaths(log) \cup {at}
      BY <2>7, <2>9
    <3>2. \A q \in Path : (at - 1 < q => q = at \/ at < q) /\ (q <= at - 1 => q < at)
      BY <2>1
    <3>3. /\ CommitIntents(log) \subseteq Path /\ RollbackIntents(log) \subseteq Path
          /\ RolledBackPaths(log) \subseteq Path /\ at \in Path
      BY <2>1 DEF CommitIntents, RollbackIntents, RolledBackPaths
    <3>4. /\ \A q \in CommitIntents(log') : at - 1 < q => q \in RolledBackPaths(log')
          /\ \A q \in RollbackIntents(log') : q <= at - 1 => q \in RollbackIntents(parsed)
      BY <2>2, <3>1, <3>2, <3>3
    <3>5. \A q \in RolledBackPaths(log') : q <= at - 1 => q \in RolledBackPaths(parsed)
      BY <2>2, <3>1, <3>2, <3>3
    <3>6. /\ pc' = "recover_path" /\ at' = at - 1 /\ parsed' = parsed
          /\ CommitIntents(log') = CommitIntents(parsed) /\ CommitIntents(parsed) # {}
      BY <2>2, <2>9, <3>1
    <3>7. Resuming'
      BY <3>4, <3>5, <3>6 DEF Resuming, RecoverPoints
    <3> QED
      BY <2>6, <3>6, <3>7, ResumingPlaced DEF RecoverPoints
  <2> QED
    BY <2>1, <2>5, <2>8, <2>9
<1>2. CASE RecordRollback
  <2>1. /\ pc = "recover_path" /\ FinishedRolledBack \in Record
        /\ Logged(FinishedRolledBack) \/ NotLogged(FinishedRolledBack)
        /\ pc' \in {"recover_receipt", "down"}
    BY <1>2 DEF RecordRollback, Log, Step, Leave, Record, Finished
  <2>2. MayFollow(log, FinishedRolledBack)
    BY <2>1
       DEF MayFollow, MayFinish, Placed, Resuming, RecoverPoints, Ranked, Direction,
           FinishedPoints
  <2> QED
    BY <1>0, <2>1, <2>2, Writes, LegibleFurther, FinishedPlaced DEF FinishedPoints
<1> QED
  BY <1>1, <1>2

\* An intent behind that of a lower path is the second way to a journal that
\* is refused.
LEMMA AnnounceLegible ==
  ASSUME TypeOK, Direction, Snapshot, Ranked(log), Placed, pc = "recover_path", at \in Path,
         Intended(at), ~Restored(at),
         NEW l \in {"recover_record", "recover_restore"}, Announce(l)
  PROVE  ReadsUnless(UpwardRollback(log')) /\ Placed'
<1>0. LogOK /\ log \in Seq(Record)
  BY DEF TypeOK, LogOK
<1>1. /\ CommitIntents(log) = CommitIntents(parsed) /\ CommitIntents(parsed) # {}
      /\ \A q \in CommitIntents(log) : at < q => q \in RolledBackPaths(log)
      /\ \A q \in RollbackIntents(log) : q <= at => q \in RollbackIntents(parsed)
      /\ \A q \in RolledBackPaths(log) : q <= at => q \in RolledBackPaths(parsed)
  BY DEF Placed, Resuming, RecoverPoints
<1>2. at \in CommitIntents(log) /\ at \notin RolledBackPaths(log)
  BY <1>1 DEF Intended, Restored
<1>3. CASE Announced(at)
  <2>1. /\ log' = log /\ at' = at /\ parsed' = parsed /\ at \in RollbackIntents(log)
        /\ pc' \in RecoverPoints \ {"recover_path"}
    BY <1>3, SnapshotSets DEF Announce, Announced, Step, Quiet, Still, RecoverPoints
  <2>2. Resuming'
    BY <1>1, <1>2, <2>1 DEF Resuming
  <2> QED
    BY <2>1, <2>2, SameReads, ResumingPlaced DEF Reads, ReadsUnless
<1>4. CASE ~Announced(at)
  <2> DEFINE r == RollbackIntent(at)
  <2>1. /\ r \in Record
        /\ Logged(r) \/ NotLogged(r)
        /\ \/ Logged(r) /\ pc' = l /\ at' = at /\ parsed' = parsed
           \/ pc' = "down"
    BY <1>4, RecordTypes DEF Announce, Log, Step, Leave
  <2>2. /\ log' \in {log, Append(log, r)}
        /\ Logged(r) => log' = Append(log, r)
    BY <1>0, <2>1, Writes
  <2>3. at \notin RollbackIntents(log)
    BY <1>1, <1>4 DEF Announced
  <2>4. ReadsUnless(UpwardRollback(log'))
    <3>1. Ranked(log')
      BY <1>0, <1>2, <2>1, <2>2, RollbackRanks
    <3>2. CASE \E q \in RollbackIntents(log) : q < at
      <4>1. UpwardRollback(Append(log, r))
        BY <1>0, <2>1, <3>2, UpwardFurther
      <4>2. CASE log' = log
        BY <4>2, SameReads DEF Reads, ReadsUnless
      <4> QED
        BY <2>2, <3>1, <4>1, <4>2 DEF ReadsUnless
    <3>3. CASE \A q \in RollbackIntents(log) : ~(q < at)
      <4>1. \A q \in RollbackIntents(log) : at < q
        BY <2>3, <3>3 DEF RollbackIntents
      <4>2. RollbackIntents(log) = RolledBackPaths(log)
        BY <1>1, <4>1 DEF Ranked
      <4>3. ~IsFinished(log)
        BY DEF Direction, FinishedPoints
      <4>4. MayFollow(log, r)
        BY <1>2, <4>1, <4>2, <4>3 DEF MayFollow, MayRollback
      <4> QED
        BY <1>0, <2>1, <2>2, <4>4, LegibleFurther DEF Reads, ReadsUnless
    <3> QED
      BY <3>2, <3>3
  <2>5. /\ CommitIntents(Append(log, r)) = CommitIntents(log)
        /\ RollbackIntents(Append(log, r)) = RollbackIntents(log) \cup {at}
        /\ RolledBackPaths(Append(log, r)) = RolledBackPaths(log)
    BY <1>0, <2>1, OneSetFurther
  <2> HIDE DEF r
  <2>6. CASE pc' = "down"
    BY <2>4, <2>6, FinishedPlaced DEF FinishedPoints
  <2>7. CASE log' = Append(log, r) /\ pc' = l /\ at' = at /\ parsed' = parsed
    <3>1. /\ CommitIntents(log') = CommitIntents(log)
          /\ RollbackIntents(log') = RollbackIntents(log) \cup {at}
          /\ RolledBackPaths(log') = RolledBackPaths(log)
      BY <2>5, <2>7
    <3>2. /\ pc' \in RecoverPoints \ {"recover_path"} /\ at' = at /\ parsed' = parsed
      BY <2>7 DEF RecoverPoints
    <3>3. Resuming'
      BY <1>1, <1>2, <3>1, <3>2 DEF Resuming
    <3> QED
      BY <2>4, <3>2, <3>3, ResumingPlaced
  <2> QED
    BY <2>1, <2>2, <2>6, <2>7
<1> QED
  BY <1>3, <1>4

LEMMA RecoverLegible ==
  ASSUME TypeOK, Direction, Snapshot, Ranked(log), Placed, Recover
  PROVE  ReadsUnless(UpwardRollback(log')) /\ Placed'
<1>1. CASE AttestPath \/ RollbackPath
  <2>1. /\ pc = "recover_path" /\ at \in Path /\ Intended(at) /\ ~Restored(at)
        /\ Announce("recover_record") \/ Announce("recover_restore")
    BY <1>1, PathIndex DEF AttestPath, RollbackPath, AtPath, TypeOK, UnwindPoints
  <2> QED
    BY <2>1, AnnounceLegible
<1> QED
  BY <1>1, RecoverStartsLegible, RecoverQuietLegible, RecoverRecords
     DEF Recover, Reads, ReadsUnless

Kept == Ranked(log) /\ Placed /\ (Flawed(log) \/ Legible)

LEMMA FlawedStays ==
  ASSUME TypeOK, Direction, Flawed(log), Process PROVE Flawed(log') \/ log' = <<>>
<1>1. CASE Appends
  <2>1. PICK r \in Record : (Logged(r) \/ NotLogged(r)) /\ Suits(r)
    BY <1>1 DEF Appends
  <2>2. log' \in {log, Append(log, r)} /\ log \in Seq(Record)
    BY <2>1 DEF Logged, NotLogged, TypeOK, LogOK
  <2>3. UpwardRollback(log)
    BY <2>1
       DEF Flawed, BareRollback, Direction, Suits, IsFinished, Finished
  <2> QED
    BY <2>2, <2>3, UpwardFurther DEF Flawed
<1>2. CASE Keeps
  BY <1>2 DEF Keeps
<1>3. CASE log' = <<>> /\ pc' = "down"
  BY <1>3
<1> QED
  BY <1>1, <1>2, <1>3, PrepareSteers, CommitSteers, CleanupSteers, RecoverSteers DEF Process

LEMMA KeptHolds == Spec => [](TypeOK /\ Direction /\ Snapshot /\ Kept)
<1>1. Init => Kept
  BY DEF Init, Kept, Legible, Placed, Replayable, Stairs, Ranked, Has, CommitIntents,
         CommittedPaths, RollbackIntents, RolledBackPaths, Scripted, Opening, Walking,
         Unwinding, Resuming, ScriptPoints, PreparedPoints, AbortPoints, ChangePoints,
         BackPoints, RecoverPoints
<1>2. TypeOK /\ Direction /\ Snapshot /\ Kept /\ [Next]_vars => Kept'
  <2> SUFFICES ASSUME TypeOK, Direction, Snapshot, Kept, [Next]_vars PROVE Kept'
    OBVIOUS
  <2>0. Ranked(log) /\ Placed
    BY DEF Kept
  <2>1. CASE Process
    <3>1. Ranked(log') /\ Placed' /\ (Legible => Legible' \/ Flawed(log'))
      <4>1. CASE Prepare
        BY <2>0, <4>1, PrepareLegible DEF Reads
      <4>2. CASE CommitSteps
        BY <2>0, <4>2, CommitQuietLegible, CommitRecords, RollbackRecords
           DEF CommitSteps, Reads, ReadsUnless, Flawed
      <4>3. CASE Cleanup
        BY <2>0, <4>3, EmptyReads, CleanupLegible DEF Reads
      <4>4. CASE Recover
        BY <2>0, <4>4, RecoverLegible DEF ReadsUnless, Flawed
      <4> QED
        BY <2>1, <4>1, <4>2, <4>3, <4>4 DEF Process
    <3>2. Flawed(log) => Flawed(log') \/ Legible'
      BY <2>1, FlawedStays, EmptyReads
    <3> QED
      BY <3>1, <3>2 DEF Kept
  <2>2. CASE Crash
    BY <2>2, FinishedPlaced DEF Crash, Leave, Still, FinishedPoints, Kept, Legible
  <2>3. CASE (\E p \in Path : Foreign(p)) \/ Resolved \/ UNCHANGED vars
    <3>1. UNCHANGED <<log, pc, at, parsed>>
      BY <2>3 DEF Foreign, Resolved, vars, call
    <3> QED
      BY <3>1
         DEF Kept, Legible, Placed, Scripted, Opening, Walking, Unwinding, Resuming
  <2> QED
    BY <2>1, <2>2, <2>3 DEF Next
<1> QED
  BY <1>1, <1>2, DirectionHolds, GoodHolds, PTL DEF Spec

\* What the strict parser of the next process refuses: of all the journals a
\* transaction can leave, whatever fails, dies or interferes, it is exactly
\* those that finish a rollback of no path or roll one back behind a lower one.
THEOREM TwoFlawsAndNoOther == Spec => [](JournalReplayable <=> ~Flawed(log))
<1>1. TypeOK /\ Kept => (JournalReplayable <=> ~Flawed(log))
  BY FlawedIsRefused DEF Kept, Legible, JournalReplayable, TypeOK, LogOK
<1> QED
  BY <1>1, KeptHolds, TransactionTypeOK, PTL

-----------------------------------------------------------------------------
(* When neither flaw can be written: nobody else touches a target, and of  *)
(* the system calls neither the check of the first path nor the change of  *)
(* a later one fails.                                                      *)

HandledFaults ==
  /\ <<"check", 1>> \notin Faulty
  /\ \A p \in 2..N : <<"mutate", p>> \notin Faulty

\* Every intended path above an announced one has been put back.
NoSkip ==
  \A q \in RollbackIntents(log), p \in CommitIntents(log) :
    q < p => p \in RolledBackPaths(log)

\* A running rollback has left no intended path out, or cannot write any more;
Straight ==
  pc \in {"drop_receipt", "rollback"} \cup BackPoints /\ at > 0 =>
    poisoned \/ \A p \in CommitIntents(log) : at < p => p \in RolledBackPaths(log)

\* it has something to finish, or cannot say that it is finished;
Grounded ==
  pc \in {"drop_receipt", "rollback"} /\ at = 0 =>
    CommitIntents(log) # {} \/ ~Accepted(FinishedRolledBack)

\* and it starts behind a failed change only where the first path failed.
Classified == pc = "classify" /\ at # 1 => Changed(at)

Sound   == Ranked(log) /\ Legible /\ Placed
Upright == Sound /\ NoSkip /\ Straight /\ Grounded /\ Classified

TurnPoints == {"drop_receipt", "rollback", "classify"} \cup BackPoints

LEMMA NoTurn == ASSUME pc' \notin TurnPoints PROVE Straight' /\ Grounded' /\ Classified'
BY DEF Straight, Grounded, Classified, TurnPoints

LEMMA PrepareTurns == ASSUME Prepare PROVE pc' \notin TurnPoints
<1>1. ASSUME NEW p \in Path, StageJob(p) PROVE pc' = "staging"
  BY <1>1
     DEF StageJob, AdmitJob, CreateBackup, WriteBackup, CreateStage, WriteStage,
         SyncArtifacts, UndoJob, CancelJobs, JobCall, JobStep
<1>2. CASE Join \/ Collect
  BY <1>2
     DEF Join, Collect, RemoveStage, RemoveBackup, Call, call, Step, Leave, TurnPoints,
         BackPoints
<1>3. CASE \/ CreateJournal \/ WriteHeader \/ WriteOperation \/ WritePathIntent
           \/ FailPrepare \/ WritePathStaged \/ WritePrepared
  BY <1>3
     DEF CreateJournal, WriteHeader, WriteOperation, WritePathIntent, FailPrepare,
         WritePathStaged, WritePrepared, Log, Then, Step, Leave, TurnPoints, BackPoints
<1> QED
  BY <1>1, <1>2, <1>3 DEF Prepare, TurnPoints, BackPoints

LEMMA CleanupTurns == ASSUME Cleanup PROVE pc' \notin TurnPoints
BY DEF Cleanup, Clean, RetainBackup, AllRetained, DropTransitional, RemoveJournal,
       RemoveStage, RemoveBackup, Call, call, Step, Leave, TurnPoints, BackPoints

LEMMA RecoverTurns == ASSUME Recover PROVE pc' \notin TurnPoints
<1>1. CASE \/ Open \/ OpenFails \/ RecoverFinished \/ RecoverUncommitted \/ RecoverChanged
           \/ ResumeRestore \/ SkipPath \/ RefusePath \/ RecoverVerify \/ ReadReceipt
  BY <1>1
     DEF Open, OpenFails, RecoverFinished, RecoverUncommitted, RecoverChanged, ResumeRestore,
         SkipPath, RefusePath, RecoverVerify, ReadReceipt, Refuse, Step, Leave, TurnPoints,
         BackPoints
<1>2. CASE RecordAbort \/ AttestPath \/ RollbackPath \/ RecordRollback \/ RecordPath
  BY <1>2
     DEF RecordAbort, AttestPath, RollbackPath, RecordRollback, RecordPath, Announce, Log,
         Step, Leave, TurnPoints, BackPoints
<1>3. CASE RecoverRestore \/ RecoverUnlink
  BY <1>3
     DEF RecoverRestore, RecoverUnlink, RemoveCreated, RenameBackup, LinkBackup, UnlinkBackup,
         RestoreStep, Refuse, Call, Step, Leave, TurnPoints, BackPoints
<1> QED
  BY <1>1, <1>2, <1>3 DEF Recover

-----------------------------------------------------------------------------
(* No intended path is left out.                                           *)

LEMMA SkipsNone ==
  ASSUME LogOK, NoSkip, NEW r \in Record, Logged(r) \/ NotLogged(r),
         \A p \in Path : r = CommitIntent(p) => RollbackIntents(log) = {},
         \A q \in Path : r = RollbackIntent(q) =>
           log' = log \/ \A p \in CommitIntents(log) : q < p => p \in RolledBackPaths(log)
  PROVE  NoSkip'
<1>1. log' \in {log, Append(log, r)} /\ log \in Seq(Record)
  BY DEF Logged, NotLogged, LogOK
<1>2. CASE log' = log
  BY <1>2 DEF NoSkip
<1>3. CASE log' = Append(log, r) /\ log' # log
  <2>1. /\ CommitIntents(log') = CommitIntents(log) \cup {p \in Path : r = CommitIntent(p)}
        /\ RollbackIntents(log') =
             RollbackIntents(log) \cup {p \in Path : r = RollbackIntent(p)}
        /\ RolledBackPaths(log) \subseteq RolledBackPaths(log')
    BY <1>1, <1>3, SetsFurther
  <2>2. CASE \E p \in Path : r = CommitIntent(p)
    <3>1. RollbackIntents(log') = {}
      BY <2>1, <2>2 DEF CommitIntent, RollbackIntent
    <3> QED
      BY <3>1 DEF NoSkip
  <2>3. CASE \E q \in Path : r = RollbackIntent(q)
    <3>1. PICK q \in Path : r = RollbackIntent(q)
      BY <2>3
    <3>2. CommitIntents(log') = CommitIntents(log)
      BY <2>1, <3>1 DEF CommitIntent, RollbackIntent
    <3>3. RollbackIntents(log') = RollbackIntents(log) \cup {q}
      BY <2>1, <3>1 DEF RollbackIntent
    <3> QED
      BY <1>3, <2>1, <3>1, <3>2, <3>3 DEF NoSkip
  <2>4. CASE \A p \in Path : r # CommitIntent(p) /\ r # RollbackIntent(p)
    BY <2>1, <2>4 DEF NoSkip
  <2> QED
    BY <2>2, <2>3, <2>4
<1> QED
  BY <1>1, <1>2, <1>3

LEMMA UpwardOnly ==
  ASSUME NEW j \in Seq(Record), NEW r \in Record, ~UpwardRollback(j),
         UpwardRollback(Append(j, r))
  PROVE  \E p, q \in Path : q < p /\ r = RollbackIntent(p) /\ q \in RollbackIntents(j)
<1> DEFINE jj == Append(j, r)
<1>1. /\ Len(j) \in Nat /\ DOMAIN j = 1..Len(j) /\ DOMAIN jj = 1..Len(j)+1
      /\ jj[Len(j)+1] = r /\ \A k \in 1..Len(j) : jj[k] = j[k]
  OBVIOUS
<1>2. PICK p \in Path, q \in Path, k \in DOMAIN jj, l \in DOMAIN jj :
        q < p /\ k < l /\ jj[k] = RollbackIntent(q) /\ jj[l] = RollbackIntent(p)
  BY DEF UpwardRollback
<1> HIDE DEF jj
<1>3. k \in DOMAIN j /\ j[k] = RollbackIntent(q)
  BY <1>1, <1>2
<1>4. CASE l = Len(j) + 1
  BY <1>1, <1>2, <1>3, <1>4 DEF RollbackIntents, Has
<1>5. CASE l \in DOMAIN j
  BY <1>1, <1>2, <1>3, <1>5 DEF UpwardRollback
<1> QED
  BY <1>1, <1>2, <1>4, <1>5

Ordinary ==
  log' = log \/ log' = <<>> \/ \E r \in Plain \cup Finished : Logged(r) \/ NotLogged(r)

LEMMA PrepareOrdinary == ASSUME TypeOK, Prepare PROVE Ordinary
<1>1. ASSUME NEW p \in Path, StageJob(p) PROVE log' = log
  BY <1>1
     DEF StageJob, AdmitJob, CreateBackup, WriteBackup, CreateStage, WriteStage,
         SyncArtifacts, UndoJob, CancelJobs, JobCall, JobStep
<1>2. CASE Join \/ Collect \/ CreateJournal
  BY <1>2
     DEF Join, Collect, CreateJournal, RemoveStage, RemoveBackup, Quiet, Still, Ordinary
<1>3. CASE WriteHeader \/ WritePrepared \/ FailPrepare
  BY <1>3
     DEF WriteHeader, WritePrepared, FailPrepare, Log, Plain, Finished, Ordinary
<1>4. CASE WriteOperation
  BY <1>4 DEF WriteOperation, Log, Plain, TypeOK, CallOK, AtFits, Ordinary
<1>5. CASE WritePathIntent \/ WritePathStaged
  <2>1. PathIntent(at) \in Plain /\ PathStaged(at) \in Plain
    BY <1>5, PathIndex DEF WritePathIntent, WritePathStaged, Plain, TypeOK, PathPoints
  <2> QED
    BY <1>5, <2>1 DEF WritePathIntent, WritePathStaged, Log, Ordinary
<1> QED
  BY <1>1, <1>2, <1>3, <1>4, <1>5 DEF Prepare, Ordinary

LEMMA CommitOrdinary ==
  ASSUME TypeOK, CommitSteps, ~Intend, ~IntendRollback PROVE Ordinary
<1>1. CASE \/ Commit \/ Abort \/ Drop \/ VerifyAll \/ StoreFull \/ Check \/ SyncParent
           \/ Classify \/ VerifyRestored
  BY <1>1
     DEF Commit, Abort, Drop, VerifyAll, StoreFull, Check, SyncParent, Classify,
         VerifyRestored, Refuse, Quiet, Still, Ordinary
<1>2. CASE CreateReceipt \/ WriteReceipt \/ DiscardReceipt \/ SyncReceipt \/ DropReceipt
  BY <1>2
     DEF CreateReceipt, WriteReceipt, DiscardReceipt, SyncReceipt, DropReceipt, ReceiptStep,
         Ordinary
<1>3. CASE LinkStage \/ UnlinkStage \/ ReplaceTarget \/ RemoveSource
  BY <1>3
     DEF LinkStage, UnlinkStage, ReplaceTarget, RemoveSource, MutateStep, Unsuited, Quiet,
         Still, Ordinary
<1>4. CASE Restore \/ FinishRestore
  BY <1>4
     DEF Restore, FinishRestore, RemoveCreated, RenameBackup, LinkBackup, UnlinkBackup,
         RestoreStep, Refuse, Quiet, Still, Ordinary
<1>5. CASE FinishUnchanged \/ FinishCommit \/ FinishRollback
  BY <1>5 DEF FinishUnchanged, FinishCommit, FinishRollback, Log, Finished, Ordinary
<1>6. CASE CompletePath \/ CompleteRollback
  <2>1. Committed(at) \in Plain /\ RolledBack(at) \in Plain
    BY <1>6, PathIndex DEF CompletePath, CompleteRollback, Plain, TypeOK, PathPoints
  <2> QED
    BY <1>6, <2>1 DEF CompletePath, CompleteRollback, Log, Ordinary
<1> QED
  BY <1>1, <1>2, <1>3, <1>4, <1>5, <1>6 DEF CommitSteps

LEMMA CleanupOrdinary == ASSUME Cleanup PROVE Ordinary
BY DEF Cleanup, Clean, RetainBackup, AllRetained, DropTransitional, RemoveJournal, Call,
       RemoveStage, RemoveBackup, Quiet, Still, Ordinary

LEMMA RecoverOrdinary ==
  ASSUME TypeOK, Recover, ~AttestPath, ~RollbackPath PROVE Ordinary
<1>1. CASE \/ Open \/ OpenFails \/ RecoverFinished \/ RecoverUncommitted \/ RecoverChanged
           \/ ResumeRestore \/ SkipPath \/ RefusePath \/ RecoverVerify \/ ReadReceipt
  BY <1>1
     DEF Open, OpenFails, RecoverFinished, RecoverUncommitted, RecoverChanged, ResumeRestore,
         SkipPath, RefusePath, RecoverVerify, ReadReceipt, Refuse, Quiet, Still, Ordinary
<1>2. CASE RecordAbort \/ RecordRollback
  BY <1>2 DEF RecordAbort, RecordRollback, Log, Finished, Ordinary
<1>3. CASE RecordPath
  <2>1. RolledBack(at) \in Plain
    BY <1>3, PathIndex DEF RecordPath, Plain, TypeOK, PathPoints
  <2> QED
    BY <1>3, <2>1 DEF RecordPath, Log, Ordinary
<1>4. CASE RecoverRestore \/ RecoverUnlink
  BY <1>4
     DEF RecoverRestore, RecoverUnlink, RemoveCreated, RenameBackup, LinkBackup, UnlinkBackup,
         RestoreStep, Refuse, Quiet, Still, Ordinary
<1> QED
  BY <1>1, <1>2, <1>3, <1>4 DEF Recover

LEMMA OrdinarySkips == ASSUME LogOK, NoSkip, Ordinary PROVE NoSkip'
<1>1. ASSUME NEW r \in Plain \cup Finished, Logged(r) \/ NotLogged(r) PROVE NoSkip'
  <2>1. /\ r \in Record /\ r \notin {CommitIntent(p) : p \in Path}
        /\ r \notin {RollbackIntent(p) : p \in Path}
    BY PlainTypes, RecordsDiffer DEF Record
  <2> QED
    BY <1>1, <2>1, SkipsNone
<1>2. CASE log' = log
  BY <1>2 DEF NoSkip
<1>3. CASE log' = <<>>
  BY <1>3 DEF NoSkip, RollbackIntents, Has
<1> QED
  BY <1>1, <1>2, <1>3 DEF Ordinary

\* The last record of a rollback weighs what a commit intent weighs: where the
\* one is refused for want of room the other is.
LEMMA SameWeight ==
  ASSUME NEW j \in Seq(Record), NEW p \in Path
  PROVE  Weight(Append(j, CommitIntent(p))) = Weight(Append(j, FinishedRolledBack))
<1> DEFINE Heavy == {"Header", "Operation", "PathIntent", "PathStaged"}
           H(i) == {k \in DOMAIN i : i[k].type \in Heavy}
<1>1. ASSUME NEW r, r.type \notin Heavy
      PROVE  H(Append(j, r)) = H(j) /\ Len(Append(j, r)) = Len(j) + 1
  <2>1. /\ Len(j) \in Nat /\ DOMAIN j = 1..Len(j) /\ DOMAIN Append(j, r) = 1..Len(j)+1
        /\ Append(j, r)[Len(j)+1] = r /\ \A k \in 1..Len(j) : Append(j, r)[k] = j[k]
        /\ Len(Append(j, r)) = Len(j) + 1
    OBVIOUS
  <2> QED
    BY <1>1, <2>1
<1>2. CommitIntent(p).type \notin Heavy /\ FinishedRolledBack.type \notin Heavy
  BY DEF CommitIntent, FinishedRolledBack
<1>3. /\ H(Append(j, CommitIntent(p))) = H(Append(j, FinishedRolledBack))
      /\ Len(Append(j, CommitIntent(p))) = Len(Append(j, FinishedRolledBack))
  BY <1>1, <1>2
<1> QED
  BY <1>3 DEF Weight

\* What the invariant of the targets says at the points of the commit.
Known ==
  /\ pc \in {"check", "mutate"} => slot[at] = Before(at)
  /\ pc \in {"unlink_stage", "sync"} => Changed(at)

LEMMA KnownHolds ==
  ASSUME TypeOK, Direction, Running, Regime => Good, Undisturbed PROVE Known
<1> SUFFICES ASSUME pc \in {"check", "mutate", "unlink_stage", "sync"} PROVE Known
  BY DEF Known
<1>1. Ladder /\ Extent /\ at \in Path /\ RollbackIntents(log) = {}
  BY PathIndex DEF Running, Regime, Good, Direction, ForwardPoints, TypeOK, PathPoints
<1>2. pc \in {"unlink_stage", "sync"} => Changed(at)
  BY <1>1 DEF Extent, AfterPoints, ChangedUpTo
<1>3. pc \in {"check", "mutate"} => ~Changed(at)
  BY <1>1 DEF Extent, BeforePoints, NoneAbove
<1>4. slot[at] # "bak"
  BY <1>1 DEF Ladder, RollbackIntents
<1> QED
  BY <1>2, <1>3, <1>4 DEF Known, Changed

LEMMA CheckTurns ==
  ASSUME HandledFaults, TypeOK, Direction, Known, Upright, Check
  PROVE  Straight' /\ Grounded' /\ Classified'
<1>1. /\ log' = log /\ pc = "check" /\ at \in Path
      /\ \/ pc' = "intent"
         \/ at # 1 /\ pc' \in {"drop_receipt", "rollback"} /\ at' = at - 1
  BY PathIndex
     DEF Check, Unwind, Step, Still, Fault, HandledFaults, Known, TypeOK, PathPoints
<1>2. CommitIntents(log) = 1..at-1
  BY <1>1 DEF Upright, Sound, Placed, Walking
<1>3. CASE pc' = "intent"
  BY <1>3, NoTurn DEF TurnPoints, BackPoints
<1>4. CASE at # 1 /\ pc' \in {"drop_receipt", "rollback"} /\ at' = at - 1
  BY <1>1, <1>2, <1>4 DEF Straight, Grounded, Classified
<1> QED
  BY <1>1, <1>3, <1>4

LEMMA IntendTurns ==
  ASSUME TypeOK, Direction, Upright, Intend
  PROVE  Straight' /\ Grounded' /\ Classified'
<1>1. /\ pc = "intent" /\ at \in Path
      /\ \/ pc' = "mutate"
         \/ /\ NotLogged(CommitIntent(at))
            /\ pc' \in {"drop_receipt", "rollback"} /\ at' = at - 1
  BY PathIndex DEF Intend, Log, Unwind, Step, TypeOK, PathPoints
<1>2. CommitIntents(log) = 1..at-1
  BY <1>1 DEF Upright, Sound, Placed, Walking
<1>3. CASE pc' = "mutate"
  BY <1>3, NoTurn DEF TurnPoints, BackPoints
<1>4. CASE NotLogged(CommitIntent(at)) /\ pc' \in {"drop_receipt", "rollback"} /\ at' = at - 1
  <2>1. CASE poisoned' = TRUE
    BY <1>4, <2>1 DEF Straight, Grounded, Classified, Accepted
  <2>2. CASE ~Accepted(CommitIntent(at)) /\ UNCHANGED <<log, poisoned>>
    <3>1. ~Accepted(FinishedRolledBack)
      BY <1>1, <2>2, SameWeight DEF Accepted, TypeOK, LogOK
    <3>2. ~Accepted(FinishedRolledBack)'
      BY <2>2, <3>1 DEF Accepted
    <3>3. \A p \in CommitIntents(log') : ~(at - 1 < p)
      BY <1>1, <1>2, <2>2
    <3> QED
      BY <1>4, <3>2, <3>3 DEF Straight, Grounded, Classified
  <2> QED
    BY <1>4, <2>1, <2>2 DEF NotLogged
<1> QED
  BY <1>1, <1>3, <1>4

LEMMA ChangeTurns ==
  ASSUME HandledFaults, TypeOK, Known, Upright,
         LinkStage \/ UnlinkStage \/ ReplaceTarget \/ RemoveSource \/ SyncParent
  PROVE  Straight' /\ Grounded' /\ Classified'
<1>1. at \in Path /\ at' = at /\ pc' \in {"unlink_stage", "sync", "committed", "classify"}
  BY PathIndex
     DEF LinkStage, UnlinkStage, ReplaceTarget, RemoveSource, SyncParent, MutateStep,
         Unsuited, Call, Step, TypeOK, PathPoints
<1>2. ASSUME at # 1 PROVE ~Fault("mutate", at)
  BY <1>1, <1>2 DEF HandledFaults, Fault
<1>3. ASSUME at # 1, pc' = "classify" PROVE Changed(at) /\ UNCHANGED <<kind, slot>>
  <2>1. CASE LinkStage \/ ReplaceTarget \/ RemoveSource
    BY <1>2, <1>3, <2>1
       DEF LinkStage, ReplaceTarget, RemoveSource, MutateStep, Unsuited, Call, Step, Known,
           Before
  <2>2. CASE UnlinkStage
    BY <1>2, <1>3, <2>2
       DEF UnlinkStage, MutateStep, Unsuited, Call, Step, Known, Quiet, Still, disk
  <2>3. CASE SyncParent
    BY <1>3, <2>3 DEF SyncParent, Known, Still, disk
  <2> QED
    BY <2>1, <2>2, <2>3
<1>4. Classified'
  BY <1>1, <1>3 DEF Classified, Changed, Before
<1> QED
  BY <1>1, <1>4 DEF Straight, Grounded, BackPoints

LEMMA ClassifyTurns ==
  ASSUME TypeOK, Upright, Classify PROVE Straight' /\ Grounded' /\ Classified'
<1>1. /\ log' = log /\ pc = "classify" /\ at \in Path
      /\ \/ pc' = "down"
         \/ pc' \in {"drop_receipt", "rollback"} /\ at' = at
         \/ pc' \in {"drop_receipt", "rollback"} /\ at = 1 /\ at' = 0
  BY PathIndex
     DEF Classify, Unwind, Step, Leave, Quiet, Still, Upright, Classified, Changed, TypeOK,
         PathPoints
<1>2. CommitIntents(log) = 1..at
  BY <1>1 DEF Upright, Sound, Placed, Walking, ChangePoints
<1>3. CASE pc' = "down"
  BY <1>3, NoTurn DEF TurnPoints, BackPoints
<1>4. CASE pc' \in {"drop_receipt", "rollback"} /\ at' = at
  BY <1>1, <1>2, <1>4 DEF Straight, Grounded, Classified
<1>5. CASE pc' \in {"drop_receipt", "rollback"} /\ at = 1 /\ at' = 0
  <2>1. 1 \in CommitIntents(log')
    BY <1>1, <1>2, <1>5
  <2> QED
    BY <1>5, <2>1 DEF Straight, Grounded, Classified
<1> QED
  BY <1>1, <1>3, <1>4, <1>5

LEMMA CompleteTurns ==
  ASSUME TypeOK, Upright, CompletePath PROVE Straight' /\ Grounded' /\ Classified'
<1>1. /\ pc = "committed" /\ at \in Path /\ Committed(at) \in Plain
      /\ Logged(Committed(at)) \/ NotLogged(Committed(at))
      /\ \/ pc' \in {"check", "finish"}
         \/ pc' \in {"drop_receipt", "rollback"} /\ at' = at
  BY PathIndex DEF CompletePath, Log, Unwind, Step, TypeOK, PathPoints, Plain
<1>2. CommitIntents(log') = 1..at
  <2>1. CommitIntents(log) = 1..at
    BY <1>1 DEF Upright, Sound, Placed, Walking, ChangePoints
  <2> QED
    BY <1>1, <2>1, AppendGrows, PlainTypes DEF TypeOK
<1>3. CASE pc' \in {"check", "finish"}
  BY <1>3, NoTurn DEF TurnPoints, BackPoints
<1>4. CASE pc' \in {"drop_receipt", "rollback"} /\ at' = at
  BY <1>1, <1>2, <1>4 DEF Straight, Grounded, Classified
<1> QED
  BY <1>1, <1>3, <1>4

LEMMA RollbackTurns ==
  ASSUME TypeOK, Upright,
         \/ DropReceipt \/ IntendRollback \/ Restore \/ FinishRestore \/ VerifyRestored
         \/ CompleteRollback
  PROVE  Straight' /\ Grounded' /\ Classified'
<1>1. CASE DropReceipt
  <2>1. /\ log' = log /\ poisoned' = poisoned /\ pc = "drop_receipt"
        /\ pc' = "down" \/ (pc' = "rollback" /\ at' = at)
    BY <1>1 DEF DropReceipt, Call, Step, Leave
  <2> QED
    BY <2>1 DEF Upright, Straight, Grounded, Classified, Accepted, BackPoints
<1>2. CASE IntendRollback
  <2> DEFINE r == RollbackIntent(at)
  <2>1. /\ pc = "rollback" /\ at \in Path /\ r \in Record
        /\ \/ pc' = "down"
           \/ Logged(r) /\ pc' = "restore" /\ at' = at
    BY <1>2, PathIndex, RecordTypes
       DEF IntendRollback, Log, Step, Leave, TypeOK, UnwindPoints
  <2>2. CASE Logged(r) /\ pc' = "restore" /\ at' = at
    <3>1. /\ CommitIntents(log') = CommitIntents(log)
          /\ RolledBackPaths(log') = RolledBackPaths(log)
      BY <2>1, <2>2, OneSetFurther DEF Logged, TypeOK, LogOK
    <3>2. \A p \in CommitIntents(log) : at < p => p \in RolledBackPaths(log)
      BY <2>1, <2>2 DEF Logged, Accepted, Upright, Straight
    <3> QED
      BY <2>2, <3>1, <3>2 DEF Straight, Grounded, Classified
  <2>3. CASE pc' = "down"
    BY <2>3, NoTurn DEF TurnPoints, BackPoints
  <2> QED
    BY <2>1, <2>2, <2>3
<1>3. CASE Restore \/ FinishRestore \/ VerifyRestored
  <2>1. /\ log' = log /\ poisoned' = poisoned /\ pc \in BackPoints
        /\ pc' = "down" \/ (pc' \in BackPoints /\ at' = at)
    BY <1>3
       DEF Restore, FinishRestore, VerifyRestored, RemoveCreated, RenameBackup, LinkBackup,
           UnlinkBackup, RestoreStep, Refuse, Call, Step, Leave, Quiet, Still, BackPoints
  <2> QED
    BY <2>1 DEF Upright, Straight, Grounded, Classified, BackPoints
<1>4. CASE CompleteRollback
  <2> DEFINE r == RolledBack(at)
  <2>1. /\ pc = "rolled_back" /\ at \in Path /\ r \in Record
        /\ \/ pc' = "down"
           \/ Logged(r) /\ pc' = "rollback" /\ at' = at - 1
    BY <1>4, PathIndex, RecordTypes
       DEF CompleteRollback, Log, Step, Leave, TypeOK, PathPoints
  <2>2. CASE Logged(r) /\ pc' = "rollback" /\ at' = at - 1
    <3>1. /\ CommitIntents(log') = CommitIntents(log)
          /\ RolledBackPaths(log') = RolledBackPaths(log) \cup {at}
      BY <2>1, <2>2, OneSetFurther DEF Logged, TypeOK, LogOK
    <3>2. \A p \in CommitIntents(log) : at < p => p \in RolledBackPaths(log)
      BY <2>1, <2>2 DEF Logged, Accepted, Upright, Straight, BackPoints
    <3>3. \A p \in Path : at - 1 < p => p = at \/ at < p
      BY <2>1
    <3>4. \A p \in CommitIntents(log') : at - 1 < p => p \in RolledBackPaths(log')
      BY <3>1, <3>2, <3>3 DEF CommitIntents
    <3>5. at \in CommitIntents(log')
      BY <2>1, <3>1 DEF Upright, Sound, Placed, Unwinding, BackPoints
    <3> QED
      BY <2>2, <3>4, <3>5 DEF Straight, Grounded, Classified, BackPoints
  <2>3. CASE pc' = "down"
    BY <2>3, NoTurn DEF TurnPoints, BackPoints
  <2> QED
    BY <2>1, <2>2, <2>3
<1> QED
  BY <1>1, <1>2, <1>3, <1>4

LEMMA CommitTurns ==
  ASSUME HandledFaults, TypeOK, Direction, Known, Upright, CommitSteps
  PROVE  Straight' /\ Grounded' /\ Classified'
<1>1. CASE \/ Commit \/ Abort \/ Drop \/ VerifyAll \/ StoreFull
           \/ CreateReceipt \/ WriteReceipt \/ DiscardReceipt \/ SyncReceipt
           \/ FinishUnchanged \/ FinishCommit \/ FinishRollback
  <2>1. CASE Commit \/ Abort \/ Drop \/ VerifyAll \/ StoreFull
    BY <2>1, NoTurn
       DEF Commit, Abort, Drop, VerifyAll, StoreFull, Refuse, Step, Leave, TurnPoints,
           BackPoints
  <2>2. CASE CreateReceipt \/ WriteReceipt \/ DiscardReceipt \/ SyncReceipt
    BY <2>2, NoTurn
       DEF CreateReceipt, WriteReceipt, DiscardReceipt, SyncReceipt, ReceiptStep, Call, Step,
           TurnPoints, BackPoints
  <2>3. CASE FinishUnchanged \/ FinishCommit \/ FinishRollback
    BY <2>3, NoTurn
       DEF FinishUnchanged, FinishCommit, FinishRollback, Log, Step, Leave, TurnPoints,
           BackPoints
  <2> QED
    BY <1>1, <2>1, <2>2, <2>3
<1> QED
  BY <1>1, CheckTurns, IntendTurns, ChangeTurns, ClassifyTurns, CompleteTurns, RollbackTurns
     DEF CommitSteps

LEMMA NotFlawed == ASSUME LogOK, Legible PROVE ~Flawed(log)
BY FlawedIsRefused DEF Legible, LogOK

LEMMA RollbackUpright ==
  ASSUME TypeOK, Direction, Upright,
         FinishUnchanged \/ IntendRollback \/ FinishRollback \/ CompleteRollback
  PROVE  Sound'
<1>1. LogOK /\ log \in Seq(Record)
  BY DEF TypeOK, LogOK
<1>2. CASE FinishRollback
  <2>1. /\ Logged(FinishedRolledBack) \/ NotLogged(FinishedRolledBack)
        /\ pc = "rollback" /\ at = 0 /\ pc' \in {"clean", "down"}
        /\ FinishedRolledBack \in Record
    BY <1>2 DEF FinishRollback, Log, Step, Leave, Record, Finished
  <2>2. CommitIntents(log') = CommitIntents(log)
    BY <1>1, <2>1, AppendGrows, RecordsDiffer DEF Finished
  <2>3. CASE CommitIntents(log) # {}
    BY <1>2, <2>2, <2>3, RollbackRecords DEF BareRollback, ReadsUnless, Upright, Sound
  <2>4. CASE CommitIntents(log) = {}
    <3>1. ~Accepted(FinishedRolledBack)
      BY <2>1, <2>4 DEF Upright, Grounded
    <3>2. log' = log
      BY <2>1, <3>1 DEF Logged, NotLogged
    <3> QED
      BY <2>1, <3>2, FinishedPlaced DEF Legible, Sound, Upright, FinishedPoints
  <2> QED
    BY <2>3, <2>4
<1>3. CASE FinishUnchanged \/ IntendRollback \/ CompleteRollback
  <2>1. PICK r \in Record : /\ Logged(r) \/ NotLogged(r)
                            /\ r # FinishedRolledBack
                            /\ r \notin {CommitIntent(p) : p \in Path}
    <3>1. CASE FinishUnchanged
      <4>1. Logged(FinishedAborted) \/ NotLogged(FinishedAborted)
        BY <3>1 DEF FinishUnchanged, Log
      <4> QED
        BY <4>1 DEF Record, Finished, FinishedAborted, FinishedRolledBack, CommitIntent
    <3>2. CASE IntendRollback
      <4>1. Logged(RollbackIntent(at)) \/ NotLogged(RollbackIntent(at))
        BY <3>2 DEF IntendRollback, Log
      <4>2. RollbackIntent(at) \in Record
        BY <3>2, PathIndex, RecordTypes DEF IntendRollback, TypeOK, UnwindPoints
      <4> QED
        BY <4>1, <4>2 DEF RollbackIntent, FinishedRolledBack, CommitIntent
    <3>3. CASE CompleteRollback
      <4>1. Logged(RolledBack(at)) \/ NotLogged(RolledBack(at))
        BY <3>3 DEF CompleteRollback, Log
      <4>2. RolledBack(at) \in Record
        BY <3>3, PathIndex, RecordTypes DEF CompleteRollback, TypeOK, PathPoints
      <4> QED
        BY <4>1, <4>2 DEF RolledBack, FinishedRolledBack, CommitIntent
    <3> QED
      BY <1>3, <3>1, <3>2, <3>3
  <2>2. CommitIntents(log') = CommitIntents(log)
    BY <1>1, <2>1, AppendGrows
  <2>3. Has(log', FinishedRolledBack) => Has(log, FinishedRolledBack)
    BY <1>1, <2>1, AppendGrows
  <2>4. ~BareRollback(log')
    BY <1>1, <2>2, <2>3, NotFlawed DEF BareRollback, Flawed, Upright, Sound
  <2> QED
    BY <1>3, <2>4, RollbackRecords DEF Upright, Sound, Reads, ReadsUnless
<1> QED
  BY <1>2, <1>3

LEMMA AnnounceUpright ==
  ASSUME TypeOK, Direction, Snapshot, Upright, AttestPath \/ RollbackPath
  PROVE  Sound' /\ NoSkip'
<1>1. LogOK /\ log \in Seq(Record)
  BY DEF TypeOK, LogOK
<1>2. /\ pc = "recover_path" /\ at \in Path /\ Intended(at) /\ ~Restored(at)
      /\ Announce("recover_record") \/ Announce("recover_restore")
  BY PathIndex DEF AttestPath, RollbackPath, AtPath, TypeOK, UnwindPoints
<1>3. /\ at \in CommitIntents(log) /\ at \notin RolledBackPaths(log)
      /\ \A q \in CommitIntents(log) : at < q => q \in RolledBackPaths(log)
  <2>1. Resuming
    BY DEF Upright, Sound, Placed
  <2>2. /\ CommitIntents(log) = CommitIntents(parsed)
        /\ \A q \in CommitIntents(log) : at < q => q \in RolledBackPaths(log)
        /\ \A q \in RolledBackPaths(log) : q <= at => q \in RolledBackPaths(parsed)
    BY <1>2, <2>1 DEF Resuming, RecoverPoints
  <2> QED
    BY <1>2, <2>2 DEF Intended, Restored
<1>4. RollbackIntent(at) \in Record
  BY <1>2, RecordTypes
<1>5. CASE log' = log
  <2>1. ~UpwardRollback(log')
    BY <1>1, <1>5, NotFlawed DEF Flawed, Upright, Sound
  <2>2. Sound'
    BY <1>2, <2>1, AnnounceLegible DEF Upright, Sound, ReadsUnless
  <2> QED
    BY <1>5, <2>2 DEF Upright, NoSkip
<1>6. CASE Logged(RollbackIntent(at)) \/ NotLogged(RollbackIntent(at))
  <2>1. NoSkip'
    <3>1. \A q \in Path : RollbackIntent(at) = RollbackIntent(q) => q = at
      BY DEF RollbackIntent
    <3> QED
      BY <1>1, <1>2, <1>3, <1>4, <1>6, <3>1, SkipsNone, RecordsDiffer DEF Upright
  <2>2. ~UpwardRollback(log')
    <3>1. ~UpwardRollback(log)
      BY <1>1, NotFlawed DEF Flawed, Upright, Sound
    <3>2. \A q \in RollbackIntents(log) : ~(q < at)
      BY <1>3 DEF Upright, NoSkip
    <3>3. \A p \in Path : RollbackIntent(at) = RollbackIntent(p) => p = at
      BY DEF RollbackIntent
    <3>4. log' \in {log, Append(log, RollbackIntent(at))}
      BY <1>6 DEF Logged, NotLogged
    <3>5. ~UpwardRollback(Append(log, RollbackIntent(at)))
      BY <1>1, <1>4, <3>1, <3>2, <3>3, UpwardOnly
    <3> QED
      BY <3>1, <3>4, <3>5
  <2> QED
    BY <1>2, <2>1, <2>2, AnnounceLegible DEF Upright, Sound, ReadsUnless
<1> QED
  BY <1>2, <1>5, <1>6 DEF Announce, Log, Quiet, Still

LEMMA IntentsSkipNone ==
  ASSUME TypeOK, Direction, Upright, Intend \/ IntendRollback PROVE NoSkip'
<1>1. LogOK
  BY DEF TypeOK
<1>2. CASE Intend
  <2>1. /\ at \in Path /\ RollbackIntents(log) = {} /\ CommitIntent(at) \in Record
        /\ Logged(CommitIntent(at)) \/ NotLogged(CommitIntent(at))
    BY <1>2, PathIndex, RecordTypes
       DEF Intend, Log, TypeOK, PathPoints, Direction, ForwardPoints
  <2> QED
    BY <1>1, <2>1, SkipsNone, RecordsDiffer DEF Upright
<1>3. CASE IntendRollback
  <2>1. /\ at \in Path /\ RollbackIntent(at) \in Record /\ pc = "rollback"
        /\ Logged(RollbackIntent(at)) \/ NotLogged(RollbackIntent(at))
    BY <1>3, PathIndex, RecordTypes DEF IntendRollback, Log, TypeOK, UnwindPoints
  <2>2. log' = log \/ \A p \in CommitIntents(log) : at < p => p \in RolledBackPaths(log)
    BY <2>1 DEF Logged, NotLogged, Accepted, Upright, Straight
  <2>3. \A q \in Path : RollbackIntent(at) = RollbackIntent(q) => q = at
    BY DEF RollbackIntent
  <2> QED
    BY <1>1, <2>1, <2>2, <2>3, SkipsNone, RecordsDiffer DEF Upright
<1> QED
  BY <1>2, <1>3

LEMMA ProcessUpright ==
  ASSUME HandledFaults, TypeOK, Direction, Snapshot, Known, Upright, Process
  PROVE  Upright'
<1>0. LogOK
  BY DEF TypeOK
<1>1. CASE Prepare
  <2>1. Sound'
    BY <1>1, PrepareLegible DEF Upright, Sound, Reads
  <2>2. NoSkip'
    BY <1>0, <1>1, PrepareOrdinary, OrdinarySkips DEF Upright
  <2> QED
    BY <1>1, <2>1, <2>2, PrepareTurns, NoTurn DEF Upright
<1>2. CASE CommitSteps
  <2>1. Sound'
    BY <1>2, CommitQuietLegible, CommitRecords, RollbackUpright
       DEF Upright, Sound, Reads, CommitSteps
  <2>2. NoSkip'
    BY <1>0, <1>2, CommitOrdinary, OrdinarySkips, IntentsSkipNone DEF Upright
  <2> QED
    BY <1>2, <2>1, <2>2, CommitTurns DEF Upright
<1>3. CASE Cleanup
  <2>1. log' = <<>> => Legible'
    BY DEF Legible, Replayable, Stairs, Ranked, Has, CommitIntents, CommittedPaths, RollbackIntents,
           RolledBackPaths
  <2>2. Sound'
    BY <1>3, <2>1, CleanupLegible, EmptyReads DEF Upright, Sound, Reads
  <2>3. NoSkip'
    BY <1>0, <1>3, CleanupOrdinary, OrdinarySkips DEF Upright
  <2> QED
    BY <1>3, <2>2, <2>3, CleanupTurns, NoTurn DEF Upright
<1>4. CASE Recover
  <2>1. Sound' /\ NoSkip'
    <3>1. CASE AttestPath \/ RollbackPath
      BY <3>1, AnnounceUpright
    <3>2. CASE ~(AttestPath \/ RollbackPath)
      <4>1. Sound'
        BY <1>4, <3>2, RecoverStartsLegible, RecoverQuietLegible, RecoverRecords
           DEF Recover, Upright, Sound, Reads
      <4>2. NoSkip'
        BY <1>0, <1>4, <3>2, RecoverOrdinary, OrdinarySkips DEF Upright
      <4> QED
        BY <4>1, <4>2
    <3> QED
      BY <3>1, <3>2
  <2> QED
    BY <1>4, <2>1, RecoverTurns, NoTurn DEF Upright
<1> QED
  BY <1>1, <1>2, <1>3, <1>4 DEF Process

LEMMA UprightHolds ==
  ASSUME HandledFaults PROVE Spec => [](Undisturbed => Upright)
<1>1. Init => Upright
  BY DEF Init, Upright, Sound, Legible, Placed, Replayable, Stairs, Ranked, Has, CommitIntents,
         CommittedPaths, RollbackIntents, RolledBackPaths, Scripted, Opening, Walking,
         Unwinding, Resuming, ScriptPoints, PreparedPoints, AbortPoints, ChangePoints,
         BackPoints, RecoverPoints, NoSkip, Straight, Grounded, Classified
<1>2. /\ TypeOK /\ Direction /\ Snapshot /\ Running /\ (Regime => Good)
      /\ (Undisturbed => Upright) /\ [Next]_vars
      => (Undisturbed => Upright)'
  <2> SUFFICES ASSUME TypeOK, Direction, Snapshot, Running, Regime => Good,
                      Undisturbed => Upright, [Next]_vars, Undisturbed'
               PROVE  Upright'
    OBVIOUS
  <2>1. CASE Process
    <3>1. Undisturbed
      BY <2>1, ProcessFrame DEF Frame, Undisturbed
    <3> QED
      BY <2>1, <3>1, KnownHolds, ProcessUpright
  <2>2. CASE Crash
    <3>1. /\ log' = log /\ pc' = "down" /\ Undisturbed
      BY <2>2 DEF Crash, Leave, Still, Undisturbed
    <3> QED
      BY <3>1, FinishedPlaced, NoTurn
         DEF Upright, Sound, Legible, NoSkip, FinishedPoints, TurnPoints, BackPoints
  <2>3. ASSUME NEW p \in Path, Foreign(p) PROVE FALSE
    BY <2>3 DEF Foreign, Undisturbed, TypeOK, EnvOK
  <2>4. CASE Resolved \/ UNCHANGED vars
    <3>1. UNCHANGED <<kind, slot, log, poisoned, pc, at, parsed, foreign>>
      BY <2>4 DEF Resolved, vars, disk, call, env
    <3> QED
      BY <3>1
         DEF Undisturbed, Upright, Sound, Legible, Placed, Scripted, Opening, Walking, Unwinding,
             Resuming, NoSkip, Straight, Grounded, Accepted, Classified, Changed, Before
  <2> QED
    BY <2>1, <2>2, <2>3, <2>4 DEF Next
<1> QED
  BY <1>1, <1>2, FinalHolds, GoodHolds, PTL DEF Spec

\* With nobody else at a target, and without the two failures that lead to the
\* flawed journals, the strict parser of the next process reads every journal
\* that is left, wherever the process died and whatever else failed.
THEOREM JournalsStayReplayable ==
  ASSUME HandledFaults PROVE Spec => [](Undisturbed => JournalReplayable)
<1>1. (Undisturbed => Upright) => (Undisturbed => JournalReplayable)
  BY DEF Upright, Sound, Legible, JournalReplayable
<1> QED
  BY <1>1, UprightHolds, PTL

-----------------------------------------------------------------------------
(* What a recovery finds is what it knows how to read.  The two links of a *)
(* file are those of a create or of a restored deletion, a path that is    *)
(* recorded as put back or as installed is so, and a journal that is       *)
(* finished says what the targets hold.                                    *)

Linked ==
  \A p \in Path :
    /\ LinkedStage(p) => kind[p] = "create"
    /\ LinkedBackup(p) => kind[p] = "delete"

PutBack   == \A p \in RolledBackPaths(log) : MatchesBefore(p)
Installed == \A p \in CommittedPaths(log) : ~LinkedStage(p)

Ended ==
  IsFinished(log) =>
    \A p \in Path : IF Has(log, FinishedCommitted) THEN ~LinkedStage(p) ELSE MatchesBefore(p)

Files == Linked /\ PutBack /\ Installed /\ Ended

\* The path the running call is at.
Underway ==
  /\ pc \in {"sync", "committed"} => ~LinkedStage(at)
  /\ pc = "recover_restore" => slot[at] = After(at)
  /\ pc = "recover_unlink" => LinkedBackup(at)
  /\ pc \in {"restored", "recover_verify"} => ~LinkedBackup(at)
  /\ pc = "recover_verify" => slot[at] = "bak"
  /\ pc \in {"rolled_back", "recover_record"} => MatchesBefore(at)

UnderwayPoints ==
  {"sync", "committed", "recover_restore", "recover_unlink", "restored", "recover_verify",
   "rolled_back", "recover_record"}

Accounted == Files /\ Underway

LEMMA Elsewhere == ASSUME pc' \notin UnderwayPoints PROVE Underway'
BY DEF Underway, UnderwayPoints

-----------------------------------------------------------------------------
\* Before the first commit intent every path is as it was found.
LEMMA NothingFiles ==
  ASSUME Ladder, Ranked(log), CommitIntents(log) = {}
  PROVE  Files /\ \A p \in Path : slot[p] = Before(p) /\ MatchesBefore(p)
<1>1. /\ RollbackIntents(log) = {} /\ RolledBackPaths(log) = {} /\ CommittedPaths(log) = {}
  BY DEF Ranked
<1>2. \A p \in Path : slot[p] = Before(p)
  <2>1. \A p \in Path : ~Changed(p) /\ slot[p] # "bak"
    BY <1>1 DEF Ladder, CommitIntents, RollbackIntents
  <2> QED
    BY <2>1 DEF Changed
<1>3. \A p \in Path : ~LinkedStage(p) /\ ~LinkedBackup(p)
  BY <1>2 DEF Before, LinkedStage, LinkedBackup
<1>4. \A p \in Path : MatchesBefore(p)
  BY <1>2, <1>3 DEF MatchesBefore, Readable, Before
<1> QED
  BY <1>1, <1>2, <1>3, <1>4 DEF Files, Linked, PutBack, Installed, Ended

LEMMA NothingFilesNext ==
  (Ladder /\ Ranked(log) /\ CommitIntents(log) = {} => Files)'
<1>1. Ladder /\ Ranked(log) /\ CommitIntents(log) = {} => Files
  BY NothingFiles
<1> QED
  BY <1>1, PTL

LEMMA OrdinaryIntents ==
  ASSUME LogOK, Ordinary, CommitIntents(log) = {} PROVE CommitIntents(log') = {}
<1>1. ASSUME NEW r \in Plain \cup Finished, Logged(r) \/ NotLogged(r)
      PROVE  CommitIntents(log') = {}
  <2>1. r \in Record /\ r \notin {CommitIntent(p) : p \in Path}
    BY PlainTypes, RecordsDiffer DEF Record
  <2> QED
    BY <1>1, <2>1, AppendGrows
<1>2. log' = <<>> => CommitIntents(log') = {}
  BY DEF CommitIntents, Has
<1> QED
  BY <1>1, <1>2 DEF Ordinary, CommitIntents

LEMMA EarlyAccounted ==
  ASSUME TypeOK, Placed, pc \in StillPoints, Ordinary, pc' \notin UnderwayPoints,
         Ladder', Ranked(log')
  PROVE  Accounted'
<1>1. CommitIntents(log) = {}
  BY DEF Placed, Opening, StillPoints, ScriptPoints, PreparedPoints, AbortPoints
<1>2. CommitIntents(log') = {}
  BY <1>1, OrdinaryIntents DEF TypeOK
<1> QED
  BY <1>2, NothingFilesNext, Elsewhere DEF Accounted

-----------------------------------------------------------------------------
\* A step that only takes artifacts away,
Loosens ==
  /\ UNCHANGED <<kind, slot>>
  /\ \A p \in Path : stage'[p] \in {stage[p], "none"} /\ backup'[p] \in {backup[p], "none"}

LEMMA Loosened ==
  ASSUME Loosens
  PROVE  \A p \in Path : /\ LinkedStage(p)' => LinkedStage(p)
                         /\ LinkedBackup(p)' => LinkedBackup(p)
                         /\ MatchesBefore(p) => MatchesBefore(p)'
BY DEF Loosens, LinkedStage, LinkedBackup, MatchesBefore, Readable

LEMMA LoosenedFiles ==
  ASSUME Files, Loosens, log' = log \/ log' = <<>> PROVE Files'
<1>1. CASE log' = log
  <2>1. Linked' /\ PutBack' /\ Installed'
    BY <1>1, Loosened
       DEF Files, Linked, PutBack, Installed, Loosens, RolledBackPaths, CommittedPaths
  <2>2. Ended'
    BY <1>1, Loosened DEF Files, Ended
  <2> QED
    BY <2>1, <2>2 DEF Files
<1>2. CASE log' = <<>>
  <2>1. Linked'
    BY Loosened DEF Files, Linked, Loosens
  <2>2. PutBack' /\ Installed' /\ Ended'
    BY <1>2 DEF PutBack, Installed, Ended, RolledBackPaths, CommittedPaths, IsFinished, Has
  <2> QED
    BY <2>1, <2>2 DEF Files
<1> QED
  BY <1>1, <1>2

\* one that changes a path that is neither put back nor finished,
LEMMA PathFiles ==
  ASSUME Files, kind' = kind, log' = log, ~IsFinished(log), NEW p \in Path,
         \A q \in Path \ {p} :
           slot'[q] = slot[q] /\ stage'[q] = stage[q] /\ backup'[q] = backup[q],
         p \notin RolledBackPaths(log),
         p \in CommittedPaths(log) => ~LinkedStage(p)',
         LinkedStage(p)' => kind[p] = "create",
         LinkedBackup(p)' => kind[p] = "delete"
  PROVE  Files'
<1>1. ASSUME NEW q \in Path, q # p
      PROVE  /\ LinkedStage(q)' <=> LinkedStage(q)
             /\ LinkedBackup(q)' <=> LinkedBackup(q)
             /\ MatchesBefore(q)' <=> MatchesBefore(q)
  BY <1>1 DEF LinkedStage, LinkedBackup, MatchesBefore, Readable
<1>2. Linked'
  BY <1>1 DEF Files, Linked
<1>3. PutBack'
  BY <1>1 DEF Files, PutBack, RolledBackPaths
<1>4. Installed'
  BY <1>1 DEF Files, Installed, CommittedPaths
<1>5. Ended'
  BY DEF Ended
<1> QED
  BY <1>2, <1>3, <1>4, <1>5 DEF Files

\* or one that writes a record of what is so.
SameFiles == UNCHANGED <<kind, slot, stage, backup>>

LEMMA SameFound ==
  ASSUME SameFiles
  PROVE  \A p \in Path : /\ LinkedStage(p)' <=> LinkedStage(p)
                         /\ LinkedBackup(p)' <=> LinkedBackup(p)
                         /\ MatchesBefore(p)' <=> MatchesBefore(p)
BY DEF SameFiles, LinkedStage, LinkedBackup, MatchesBefore, Readable

LEMMA RecordFiles ==
  ASSUME TypeOK, Files, SameFiles, NEW r \in Record, Logged(r) \/ NotLogged(r),
         \A p \in Path : r = RolledBack(p) => MatchesBefore(p),
         \A p \in Path : r = Committed(p) => ~LinkedStage(p),
         r \in Finished =>
           /\ ~IsFinished(log)
           /\ \A p \in Path : IF r = FinishedCommitted THEN ~LinkedStage(p) ELSE MatchesBefore(p)
  PROVE  Files'
<1>1. LogOK
  BY DEF TypeOK
<1>2. log' = log \/ \A s : Has(log', s) <=> Has(log, s) \/ s = r
  BY <1>1, AppendGrows
<1>3. CASE log' = log
  BY <1>3, LoosenedFiles DEF SameFiles, Loosens
<1>4. CASE \A s : Has(log', s) <=> Has(log, s) \/ s = r
  <2>1. Linked'
    BY SameFound DEF Files, Linked, SameFiles
  <2>2. PutBack'
    BY <1>4, SameFound DEF Files, PutBack, RolledBackPaths
  <2>3. Installed'
    BY <1>4, SameFound DEF Files, Installed, CommittedPaths
  <2>4. CASE r \in Finished
    <3>1. ~Has(log, FinishedCommitted)
      BY <2>4 DEF IsFinished, Finished
    <3>2. Has(log', FinishedCommitted) <=> r = FinishedCommitted
      BY <1>4, <3>1
    <3>3. Ended'
      BY <2>4, <3>2, SameFound DEF Ended
    <3> QED
      BY <2>1, <2>2, <2>3, <3>3 DEF Files
  <2>5. CASE r \notin Finished
    <3>1. /\ IsFinished(log') <=> IsFinished(log)
          /\ Has(log', FinishedCommitted) <=> Has(log, FinishedCommitted)
      BY <1>4, <2>5 DEF IsFinished, Finished
    <3>2. Ended'
      BY <3>1, SameFound DEF Files, Ended
    <3> QED
      BY <2>1, <2>2, <2>3, <3>2 DEF Files
  <2> QED
    BY <2>4, <2>5
<1> QED
  BY <1>2, <1>3, <1>4

LEMMA QuietFiles == ASSUME Files, SameFiles, log' = log PROVE Files'
BY LoosenedFiles DEF SameFiles, Loosens

\* A path that was put back by its backup.
LEMMA BackupFound ==
  ASSUME Shape, NEW p \in Path, slot[p] = "bak", ~LinkedBackup(p) PROVE MatchesBefore(p)
BY DEF Shape, MatchesBefore, Readable, LinkedStage

\* With no path changed, those that were replaced by their backup are recorded.
LEMMA AllBack ==
  ASSUME Ladder, Untouched, PutBack, RollbackIntents(log) \subseteq RolledBackPaths(log)
  PROVE  \A p \in Path : MatchesBefore(p)
<1> SUFFICES ASSUME NEW p \in Path PROVE MatchesBefore(p)
  OBVIOUS
<1>1. CASE slot[p] = "bak"
  BY <1>1 DEF Ladder, RollbackIntents, PutBack
<1>2. CASE slot[p] # "bak"
  BY <1>2
     DEF Untouched, Changed, Before, MatchesBefore, Readable, LinkedStage, LinkedBackup
<1> QED
  BY <1>1, <1>2

LEMMA CommitQuietAccounted ==
  ASSUME TypeOK, Shape, Accounted,
         Check \/ SyncParent \/ Classify \/ DropReceipt \/ VerifyRestored
  PROVE  Accounted'
<1>1. SameFiles /\ log' = log
  BY DEF Check, SyncParent, Classify, DropReceipt, VerifyRestored, Quiet, Still, disk,
         artifacts, SameFiles
<1>2. CASE Check \/ Classify \/ DropReceipt
  <2>1. pc' \notin UnderwayPoints
    BY <1>2
       DEF Check, Classify, DropReceipt, Unwind, Call, Step, Leave, UnderwayPoints
  <2> QED
    BY <1>1, <2>1, QuietFiles, Elsewhere DEF Accounted
<1>3. CASE SyncParent
  <2>1. pc = "sync" /\ at' = at /\ pc' \in {"committed", "classify"}
    BY <1>3 DEF SyncParent, Call, Step
  <2>2. ~LinkedStage(at)'
    BY <1>1, <2>1 DEF Accounted, Underway, SameFiles, LinkedStage
  <2> QED
    BY <1>1, <2>1, <2>2, QuietFiles DEF Accounted, Underway
<1>4. CASE VerifyRestored
  <2>1. /\ pc = "restored" /\ at \in Path
        /\ \/ pc' = "rolled_back" /\ at' = at /\ slot[at] = "bak"
           \/ pc' = "down"
    BY <1>4, PathIndex DEF VerifyRestored, Step, Leave, TypeOK, PathPoints
  <2>2. CASE pc' = "down"
    BY <1>1, <2>2, QuietFiles, Elsewhere DEF Accounted, UnderwayPoints
  <2>3. CASE pc' = "rolled_back" /\ at' = at /\ slot[at] = "bak"
    <3>1. MatchesBefore(at)
      BY <2>1, <2>3, BackupFound DEF Accounted, Underway
    <3>2. MatchesBefore(at)'
      BY <1>1, <2>3, <3>1
         DEF SameFiles, MatchesBefore, Readable, LinkedStage, LinkedBackup
    <3> QED
      BY <1>1, <2>3, <3>2, QuietFiles DEF Accounted, Underway
  <2> QED
    BY <2>1, <2>2, <2>3
<1> QED
  BY <1>2, <1>3, <1>4

LEMMA MutateAccounted ==
  ASSUME TypeOK, Direction, Ranked(log), Placed, Accounted,
         LinkStage \/ UnlinkStage \/ ReplaceTarget \/ RemoveSource
  PROVE  Accounted'
<1>1. /\ log' = log /\ kind' = kind /\ at \in Path /\ at' = at /\ ~IsFinished(log)
      /\ at \notin RolledBackPaths(log) /\ at \notin CommittedPaths(log)
  <2>1. pc \in {"mutate", "unlink_stage"} /\ log' = log /\ kind' = kind /\ at' = at
    BY DEF LinkStage, UnlinkStage, ReplaceTarget, RemoveSource, MutateStep, Unsuited, Call,
           Step, Quiet, Still
  <2>2. at \in Path
    BY <2>1, PathIndex DEF TypeOK, PathPoints
  <2>3. CommittedPaths(log) = 1..at-1 /\ RollbackIntents(log) = {}
    BY <2>1 DEF Placed, Walking, ChangePoints, Direction, ForwardPoints
  <2>4. at \notin 1..at-1
    BY <2>2
  <2> QED
    BY <2>1, <2>2, <2>3, <2>4 DEF Direction, FinishedPoints, Ranked
<1>2. PICK p \in Path : p = at
  BY <1>1
<1>3. CASE SameFiles /\ pc' = "classify"
  BY <1>1, <1>3, QuietFiles, Elsewhere DEF Accounted, UnderwayPoints
<1>4. CASE LinkStage /\ ~(SameFiles /\ pc' = "classify")
  <2>1. /\ kind[p] = "create" /\ UNCHANGED <<stage, backup>> /\ pc' \notin UnderwayPoints
        /\ slot' = [slot EXCEPT ![p] = "new"]
    BY <1>1, <1>2, <1>4
       DEF LinkStage, MutateStep, Unsuited, Call, Step, Quiet, Still, disk, artifacts,
           Becomes, SameFiles, UnderwayPoints
  <2>2. slot'[p] = "new" /\ \A q \in Path \ {p} : slot'[q] = slot[q]
    BY <2>1 DEF TypeOK, DiskOK
  <2>3. ~LinkedBackup(p)'
    BY <2>2 DEF LinkedBackup
  <2>4. Files'
    BY <1>1, <1>2, <2>1, <2>2, <2>3, PathFiles DEF Accounted
  <2> QED
    BY <2>1, <2>4, Elsewhere DEF Accounted
<1>5. CASE UnlinkStage /\ ~(SameFiles /\ pc' = "classify")
  <2>1. /\ UNCHANGED <<kind, slot, backup>> /\ stage' = [stage EXCEPT ![at] = "none"]
        /\ pc' \in {"sync", "classify"}
    BY <1>1, <1>5
       DEF UnlinkStage, MutateStep, Unsuited, Call, Step, Quiet, Still, disk, artifacts, Gone,
           SameFiles
  <2>2. stage'[at] = "none" /\ Loosens
    BY <1>1, <2>1 DEF TypeOK, DiskOK, Loosens
  <2>3. Files'
    BY <1>1, <2>2, LoosenedFiles DEF Accounted
  <2>4. ~LinkedStage(at)'
    BY <1>1, <2>2 DEF LinkedStage
  <2> QED
    BY <2>1, <2>3, <2>4 DEF Accounted, Underway
<1>6. CASE (ReplaceTarget \/ RemoveSource) /\ ~(SameFiles /\ pc' = "classify")
  <2>1. /\ slot' = [slot EXCEPT ![p] = After(p)] /\ backup' = backup
        /\ stage' = stage \/ stage' = [stage EXCEPT ![p] = "none"]
        /\ After(p) = "none" \/ stage' = [stage EXCEPT ![p] = "none"]
        /\ pc' \in {"sync", "classify"}
    BY <1>1, <1>2, <1>6
       DEF ReplaceTarget, RemoveSource, MutateStep, Unsuited, Call, Step, Quiet, Still, disk,
           artifacts, Becomes, Gone, SameFiles, After
  <2>2. /\ slot'[p] = After(p) /\ \A q \in Path \ {p} : slot'[q] = slot[q]
        /\ \A q \in Path \ {p} : stage'[q] = stage[q]
        /\ After(p) = "none" \/ stage'[p] = "none"
    BY <2>1 DEF TypeOK, DiskOK
  <2>3. ~LinkedStage(p)' /\ ~LinkedBackup(p)'
    BY <2>2 DEF LinkedStage, LinkedBackup, After
  <2>4. Files'
    BY <1>1, <1>2, <2>1, <2>2, <2>3, PathFiles DEF Accounted
  <2>5. ~LinkedStage(at)'
    BY <1>1, <1>2, <2>3 DEF LinkedStage
  <2> QED
    BY <2>1, <2>4, <2>5 DEF Accounted, Underway
<1> QED
  BY <1>3, <1>4, <1>5, <1>6

\* The records differ in their types.
LEMMA RecordKinds ==
  /\ \A p, q \in Path :
       /\ CommitIntent(p) \notin {RolledBack(q), Committed(q)}
       /\ RollbackIntent(p) \notin {RolledBack(q), Committed(q)}
       /\ Committed(p) # RolledBack(q)
       /\ Committed(p) = Committed(q) => p = q
       /\ RolledBack(p) = RolledBack(q) => p = q
  /\ \A p \in Path : {CommitIntent(p), RollbackIntent(p), Committed(p), RolledBack(p)}
                       \cap Finished = {}
  /\ \A r \in Finished, p \in Path : r # RolledBack(p) /\ r # Committed(p)
<1>1. \A p \in Path : /\ CommitIntent(p).type = "CommitIntent" /\ CommitIntent(p).index = p
                      /\ RollbackIntent(p).type = "RollbackIntent"
                      /\ Committed(p).type = "Committed" /\ Committed(p).index = p
                      /\ RolledBack(p).type = "RolledBack" /\ RolledBack(p).index = p
  BY DEF CommitIntent, RollbackIntent, Committed, RolledBack
<1>2. \A r \in Finished :
        r.type \in {"FinishedCommitted", "FinishedAborted", "FinishedRolledBack"}
  BY DEF Finished, FinishedCommitted, FinishedAborted, FinishedRolledBack
<1>3. \A p \in Path : {CommitIntent(p), RollbackIntent(p), Committed(p), RolledBack(p)}
                       \cap Finished = {}
  BY <1>1, <1>2
<1>4. \A p, q \in Path :
       /\ CommitIntent(p) \notin {RolledBack(q), Committed(q)}
       /\ RollbackIntent(p) \notin {RolledBack(q), Committed(q)}
       /\ Committed(p) # RolledBack(q)
  BY <1>1
<1>5. \A p, q \in Path :
       /\ Committed(p) = Committed(q) => p = q
       /\ RolledBack(p) = RolledBack(q) => p = q
  BY <1>1
<1>6. \A r \in Finished, p \in Path : r # RolledBack(p) /\ r # Committed(p)
  BY <1>3
<1> QED
  BY <1>3, <1>4, <1>5, <1>6

LEMMA CommitRecordsAccounted ==
  ASSUME TypeOK, Direction, Good, Ranked(log), Placed, Accounted,
         \/ Intend \/ CompletePath \/ FinishCommit \/ IntendRollback \/ FinishRollback
         \/ CompleteRollback
  PROVE  Accounted'
<1>1. SameFiles /\ pc' \notin UnderwayPoints
  BY DEF Intend, CompletePath, FinishCommit, IntendRollback, FinishRollback,
         CompleteRollback, Log, Unwind, Step, Leave, disk, artifacts, SameFiles,
         UnderwayPoints
<1> SUFFICES Files'
  BY <1>1, Elsewhere DEF Accounted
<1>2. CASE Intend \/ IntendRollback
  <2>1. /\ at \in Path
        /\ \E r \in {CommitIntent(at), RollbackIntent(at)} :
             r \in Record /\ (Logged(r) \/ NotLogged(r))
    BY <1>2, PathIndex, RecordTypes
       DEF Intend, IntendRollback, Log, TypeOK, PathPoints, UnwindPoints
  <2> QED
    BY <1>1, <2>1, RecordKinds, RecordFiles DEF Accounted
<1>3. CASE CompletePath \/ CompleteRollback
  <2>1. /\ at \in Path /\ Committed(at) \in Record /\ RolledBack(at) \in Record
        /\ \/ pc = "committed" /\ (Logged(Committed(at)) \/ NotLogged(Committed(at)))
           \/ pc = "rolled_back" /\ (Logged(RolledBack(at)) \/ NotLogged(RolledBack(at)))
    BY <1>3, PathIndex, RecordTypes DEF CompletePath, CompleteRollback, Log, TypeOK, PathPoints
  <2>2. /\ pc = "committed" => ~LinkedStage(at)
        /\ pc = "rolled_back" => MatchesBefore(at)
    BY DEF Accounted, Underway
  <2>3. CASE Logged(Committed(at)) \/ NotLogged(Committed(at))
    BY <1>1, <2>1, <2>2, <2>3, RecordKinds, RecordFiles DEF Accounted
  <2>4. CASE Logged(RolledBack(at)) \/ NotLogged(RolledBack(at))
    BY <1>1, <2>1, <2>2, <2>4, RecordKinds, RecordFiles DEF Accounted
  <2> QED
    BY <2>1, <2>3, <2>4
<1>4. CASE FinishCommit
  <2>1. /\ pc = "finish" /\ FinishedCommitted \in Record /\ FinishedCommitted \in Finished
        /\ Logged(FinishedCommitted) \/ NotLogged(FinishedCommitted)
    BY <1>4 DEF FinishCommit, Log, Record, Finished
  <2>2. ~IsFinished(log) /\ \A p \in Path : ~LinkedStage(p)
    BY <2>1
       DEF Direction, FinishedPoints, Placed, Walking, Accounted, Files, Installed
  <2> QED
    BY <1>1, <2>1, <2>2, RecordKinds, RecordFiles DEF Accounted
<1>5. CASE FinishRollback
  <2>1. /\ pc = "rollback" /\ at = 0
        /\ FinishedRolledBack \in Record /\ FinishedRolledBack \in Finished
        /\ FinishedRolledBack # FinishedCommitted
        /\ Logged(FinishedRolledBack) \/ NotLogged(FinishedRolledBack)
    BY <1>5
       DEF FinishRollback, Log, Record, Finished, FinishedRolledBack, FinishedCommitted
  <2>2. ~IsFinished(log) /\ Untouched /\ RollbackIntents(log) \subseteq RolledBackPaths(log)
    BY <2>1
       DEF Direction, FinishedPoints, Good, Extent, RestoringPoints, NoneAbove, Untouched,
           Placed, Unwinding
  <2>3. \A p \in Path : MatchesBefore(p)
    BY <2>2, AllBack DEF Good, Accounted, Files
  <2> QED
    BY <1>1, <2>1, <2>2, <2>3, RecordKinds, RecordFiles DEF Accounted
<1> QED
  BY <1>2, <1>3, <1>4, <1>5

-----------------------------------------------------------------------------
\* A path is put back: by a failed commit, or by a recovery.
Restorable ==
  log' = log /\ at \in Path /\ at \notin RolledBackPaths(log) /\ ~IsFinished(log)

LEMMA RemoveCreatedFiles ==
  ASSUME TypeOK, Files, Restorable, kind[at] = "create", NEW next, NEW r, RemoveCreated(next, r)
  PROVE  Files' /\ (pc' = "down" \/ (pc' = next /\ at' = at /\ MatchesBefore(at)'))
<1>1. PICK p \in Path : p = at
  BY DEF Restorable
<1>2. CASE SameFiles /\ pc' = "down"
  BY <1>2, QuietFiles DEF Restorable
<1>3. CASE ~(SameFiles /\ pc' = "down")
  <2>1. /\ UNCHANGED <<kind, stage, backup>> /\ slot' = [slot EXCEPT ![p] = "none"]
        /\ pc' = "down" \/ (pc' = next /\ at' = at)
    BY <1>1, <1>3
       DEF RemoveCreated, RestoreStep, Refuse, Call, Step, Leave, Quiet, Still, disk,
           artifacts, Becomes, SameFiles
  <2>2. slot'[p] = "none" /\ \A q \in Path \ {p} : slot'[q] = slot[q]
    BY <2>1 DEF TypeOK, DiskOK
  <2>3. ~LinkedStage(p)' /\ ~LinkedBackup(p)'
    BY <2>2 DEF LinkedStage, LinkedBackup
  <2>4. Files'
    BY <1>1, <2>1, <2>2, <2>3, PathFiles DEF Restorable
  <2>5. MatchesBefore(p)'
    BY <1>1, <2>1, <2>2, <2>3 DEF MatchesBefore, Readable
  <2>6. at' = at => MatchesBefore(at)'
    BY <1>1, <2>5 DEF MatchesBefore, Readable, LinkedStage, LinkedBackup
  <2> QED
    BY <2>1, <2>4, <2>6
<1> QED
  BY <1>2, <1>3

LEMMA RenameBackupFiles ==
  ASSUME TypeOK, Files, Restorable, NEW next, RenameBackup(next)
  PROVE  /\ Files'
         /\ pc' = "down" \/ (pc' = next /\ at' = at /\ slot'[at] = "bak" /\ ~LinkedBackup(at)')
<1>1. PICK p \in Path : p = at
  BY DEF Restorable
<1>2. CASE SameFiles /\ pc' = "down"
  BY <1>2, QuietFiles DEF Restorable
<1>3. CASE ~(SameFiles /\ pc' = "down")
  <2>1. /\ UNCHANGED <<kind, stage>> /\ slot' = [slot EXCEPT ![p] = "bak"]
        /\ backup' = [backup EXCEPT ![p] = "none"]
        /\ pc' = "down" \/ (pc' = next /\ at' = at)
    BY <1>1, <1>3
       DEF RenameBackup, RestoreStep, Call, Step, Leave, disk, artifacts, Becomes, Gone,
           SameFiles
  <2>2. /\ slot'[p] = "bak" /\ \A q \in Path \ {p} : slot'[q] = slot[q]
        /\ backup'[p] = "none" /\ \A q \in Path \ {p} : backup'[q] = backup[q]
    BY <2>1 DEF TypeOK, DiskOK
  <2>3. ~LinkedStage(p)' /\ ~LinkedBackup(p)'
    BY <2>2 DEF LinkedStage, LinkedBackup
  <2>4. Files'
    BY <1>1, <2>1, <2>2, <2>3, PathFiles DEF Restorable
  <2>5. at' = at => ~LinkedBackup(at)'
    BY <1>1, <2>3 DEF LinkedBackup
  <2> QED
    BY <1>1, <2>1, <2>2, <2>4, <2>5
<1> QED
  BY <1>2, <1>3

LEMMA LinkBackupFiles ==
  ASSUME TypeOK, Files, Restorable, kind[at] = "delete", NEW next, LinkBackup(next)
  PROVE  /\ Files'
         /\ \/ pc' = "down"
            \/ pc' = next /\ at' = at /\ (backup[at] = "bak" => LinkedBackup(at)')
<1>1. PICK p \in Path : p = at
  BY DEF Restorable
<1>2. CASE SameFiles /\ pc' = "down"
  BY <1>2, QuietFiles DEF Restorable
<1>3. CASE ~(SameFiles /\ pc' = "down")
  <2>1. /\ UNCHANGED <<kind, stage, backup>> /\ slot' = [slot EXCEPT ![p] = "bak"]
        /\ pc' = "down" \/ (pc' = next /\ at' = at)
    BY <1>1, <1>3
       DEF LinkBackup, RestoreStep, Call, Step, Leave, disk, artifacts, Becomes, SameFiles
  <2>2. slot'[p] = "bak" /\ \A q \in Path \ {p} : slot'[q] = slot[q]
    BY <2>1 DEF TypeOK, DiskOK
  <2>3. ~LinkedStage(p)'
    BY <2>2 DEF LinkedStage
  <2>4. Files'
    BY <1>1, <2>1, <2>2, <2>3, PathFiles DEF Restorable
  <2>5. at' = at => (backup[at] = "bak" => LinkedBackup(at)')
    BY <1>1, <2>1, <2>2 DEF LinkedBackup
  <2> QED
    BY <2>1, <2>4, <2>5
<1> QED
  BY <1>2, <1>3

LEMMA UnlinkBackupFiles ==
  ASSUME TypeOK, Files, Restorable, NEW next, NEW r, UnlinkBackup(next, r)
  PROVE  /\ Files'
         /\ pc' = "down" \/ (pc' = next /\ at' = at /\ slot'[at] = "bak" /\ ~LinkedBackup(at)')
<1>1. CASE SameFiles /\ pc' = "down"
  BY <1>1, QuietFiles DEF Restorable
<1>2. CASE ~(SameFiles /\ pc' = "down")
  <2>1. /\ UNCHANGED <<kind, slot, stage>> /\ backup' = [backup EXCEPT ![at] = "none"]
        /\ pc' = "down" \/ (pc' = next /\ at' = at)
        /\ slot[at] = "bak"
    BY <1>2
       DEF UnlinkBackup, RestoreStep, Refuse, Call, Step, Leave, Quiet, Still, disk,
           artifacts, Gone, SameFiles, LinkedBackup
  <2>2. backup'[at] = "none" /\ Loosens
    BY <2>1 DEF TypeOK, DiskOK, Loosens, Restorable
  <2>3. Files'
    BY <2>2, LoosenedFiles DEF Restorable
  <2>4. at' = at => ~LinkedBackup(at)'
    BY <2>2 DEF LinkedBackup
  <2> QED
    BY <2>1, <2>3, <2>4
<1> QED
  BY <1>1, <1>2

LEMMA RestoreAccounted ==
  ASSUME TypeOK, Direction, Shape, Placed, Accounted, Restore \/ FinishRestore
  PROVE  Accounted'
<1>1. pc \in {"restore", "unlink_backup"} /\ log' = log
  BY DEF Restore, FinishRestore, RemoveCreated, RenameBackup, LinkBackup, UnlinkBackup,
         RestoreStep, Refuse, Quiet, Still
<1>2. Restorable
  <2>1. at \in Path
    BY <1>1, PathIndex DEF TypeOK, PathPoints
  <2> QED
    BY <1>1, <2>1 DEF Restorable, Placed, Unwinding, BackPoints, Direction, FinishedPoints
<1>3. CASE kind[at] = "create" /\ RemoveCreated("rolled_back", "recovery_required")
  <2>1. Files' /\ (pc' = "down" \/ (pc' = "rolled_back" /\ MatchesBefore(at)'))
    BY <1>2, <1>3, RemoveCreatedFiles DEF Accounted
  <2> QED
    BY <2>1 DEF Accounted, Underway
<1>4. CASE RenameBackup("restored")
  <2>1. Files' /\ (pc' = "down" \/ (pc' = "restored" /\ ~LinkedBackup(at)'))
    BY <1>2, <1>4, RenameBackupFiles DEF Accounted
  <2> QED
    BY <2>1 DEF Accounted, Underway
<1>5. CASE kind[at] # "create" /\ slot[at] = "none" /\ LinkBackup("unlink_backup")
  <2>1. kind[at] = "delete"
    BY <1>2, <1>5 DEF Shape, Before, After, Restorable, TypeOK, DiskOK, Kinds
  <2>2. Files' /\ pc' \in {"down", "unlink_backup"}
    BY <1>2, <1>5, <2>1, LinkBackupFiles DEF Accounted
  <2> QED
    BY <2>2 DEF Accounted, Underway
<1>6. CASE FinishRestore
  <2>1. Files' /\ (pc' = "down" \/ (pc' = "restored" /\ ~LinkedBackup(at)'))
    BY <1>2, <1>6, UnlinkBackupFiles DEF Accounted, FinishRestore
  <2> QED
    BY <2>1 DEF Accounted, Underway
<1>7. CASE Refuse("recovery_required")
  <2>1. SameFiles /\ pc' = "down"
    BY <1>7 DEF Refuse, Leave, Quiet, Still, disk, artifacts, SameFiles
  <2> QED
    BY <1>1, <2>1, QuietFiles DEF Accounted, Underway
<1> QED
  BY <1>3, <1>4, <1>5, <1>6, <1>7 DEF Restore

\* Before the first change, and in an abort, there is nothing to account for.
LEMMA EarlySteps ==
  ASSUME TypeOK, Placed, Ladder', Ranked(log'),
         \/ Prepare \/ Commit \/ Abort \/ Drop \/ FinishUnchanged \/ VerifyAll \/ StoreFull
         \/ CreateReceipt \/ WriteReceipt \/ DiscardReceipt \/ SyncReceipt \/ RecordAbort
  PROVE  Accounted'
<1>1. CASE Prepare
  <2>1. pc \in StillPoints /\ pc' \notin UnderwayPoints
    BY <1>1, PreparePoints DEF StillPoints, UnderwayPoints
  <2> QED
    BY <1>1, <2>1, PrepareOrdinary, EarlyAccounted
<1>2. CASE Commit \/ Abort \/ Drop \/ FinishUnchanged \/ VerifyAll \/ StoreFull
  <2>1. pc \in StillPoints /\ pc' \notin UnderwayPoints
    BY <1>2
       DEF Commit, Abort, Drop, FinishUnchanged, VerifyAll, StoreFull, Log, Step, Refuse,
           Leave, StillPoints, UnderwayPoints
  <2>2. CommitSteps /\ ~Intend /\ ~IntendRollback
    BY <1>2
       DEF CommitSteps, Commit, Abort, Drop, FinishUnchanged, VerifyAll, StoreFull, Intend,
           IntendRollback
  <2> QED
    BY <2>1, <2>2, CommitOrdinary, EarlyAccounted
<1>3. CASE CreateReceipt \/ WriteReceipt \/ DiscardReceipt \/ SyncReceipt
  <2>1. pc \in StillPoints /\ pc' \notin UnderwayPoints
    BY <1>3
       DEF CreateReceipt, WriteReceipt, DiscardReceipt, SyncReceipt, ReceiptStep, Call, Step,
           StillPoints, UnderwayPoints
  <2>2. CommitSteps /\ ~Intend /\ ~IntendRollback
    BY <1>3
       DEF CommitSteps, CreateReceipt, WriteReceipt, DiscardReceipt, SyncReceipt, Intend,
           IntendRollback
  <2> QED
    BY <2>1, <2>2, CommitOrdinary, EarlyAccounted
<1>4. CASE RecordAbort
  <2>1. pc \in StillPoints /\ pc' \notin UnderwayPoints
    BY <1>4 DEF RecordAbort, Log, Step, Leave, StillPoints, UnderwayPoints
  <2>2. Recover /\ ~AttestPath /\ ~RollbackPath
    BY <1>4 DEF Recover, RecordAbort, AttestPath, RollbackPath, AtPath
  <2> QED
    BY <2>1, <2>2, RecoverOrdinary, EarlyAccounted
<1> QED
  BY <1>1, <1>2, <1>3, <1>4

LEMMA CleanupAccounted == ASSUME TypeOK, Accounted, Cleanup PROVE Accounted'
<1>1. pc' \notin UnderwayPoints
  BY DEF Cleanup, Clean, RetainBackup, AllRetained, DropTransitional, RemoveJournal,
         RemoveStage, RemoveBackup, Call, call, Step, Leave, UnderwayPoints
<1>2. UNCHANGED <<kind, slot>> /\ (log' = log \/ log' = <<>>)
  BY DEF Cleanup, Clean, RetainBackup, AllRetained, DropTransitional, RemoveJournal,
         RemoveStage, RemoveBackup, Call, Quiet, Still, disk
<1>3. /\ stage' = stage \/ \E p \in Path : Gone(stage, p)
      /\ backup' = backup \/ \E p \in Path : Gone(backup, p)
  BY DEF Cleanup, Clean, RetainBackup, AllRetained, DropTransitional, RemoveJournal,
         RemoveStage, RemoveBackup, Call, Quiet, Still, disk, artifacts, Gone, First, Unkept
<1>4. Loosens
  BY <1>2, <1>3 DEF Loosens, Gone, TypeOK, DiskOK
<1> QED
  BY <1>1, <1>2, <1>4, LoosenedFiles, Elsewhere DEF Accounted

LEMMA RecoverQuietAccounted ==
  ASSUME TypeOK, Accounted,
         \/ Open \/ OpenFails \/ RecoverFinished \/ RecoverUncommitted \/ RecoverChanged
         \/ SkipPath \/ RefusePath \/ ReadReceipt
  PROVE  Accounted'
<1>1. SameFiles /\ log' = log
  BY DEF Open, OpenFails, RecoverFinished, RecoverUncommitted, RecoverChanged, SkipPath,
         RefusePath, ReadReceipt, Refuse, Quiet, Still, disk, artifacts, SameFiles
<1>2. pc' \notin UnderwayPoints
  BY DEF Open, OpenFails, RecoverFinished, RecoverUncommitted, RecoverChanged, SkipPath,
         RefusePath, ReadReceipt, Refuse, Step, Leave, UnderwayPoints
<1> QED
  BY <1>1, <1>2, QuietFiles, Elsewhere DEF Accounted

LEMMA RecoverRecordsAccounted ==
  ASSUME TypeOK, Direction, Good, Ranked(log), Placed, Accounted,
         RecordRollback \/ AttestPath \/ RollbackPath \/ RecordPath
  PROVE  Accounted'
<1>1. SameFiles
  BY DEF RecordRollback, AttestPath, RollbackPath, RecordPath, Announce, Log, Quiet, Still,
         disk, artifacts, SameFiles
<1>2. CASE RecordRollback
  <2>1. /\ pc = "recover_path" /\ at = 0 /\ pc' \notin UnderwayPoints
        /\ FinishedRolledBack \in Record /\ FinishedRolledBack \in Finished
        /\ FinishedRolledBack # FinishedCommitted
        /\ Logged(FinishedRolledBack) \/ NotLogged(FinishedRolledBack)
    BY <1>2
       DEF RecordRollback, Log, Step, Leave, UnderwayPoints, Record, Finished,
           FinishedRolledBack, FinishedCommitted
  <2>2. ~IsFinished(log) /\ Untouched /\ RollbackIntents(log) \subseteq RolledBackPaths(log)
    <3>1. ~IsFinished(log) /\ Untouched
      BY <2>1
         DEF Direction, FinishedPoints, Good, Extent, RestoringPoints, NoneAbove, Untouched
    <3>2. \A q \in CommitIntents(log) : q \in RolledBackPaths(log)
      <4>1. \A q \in CommitIntents(log) : q \in Nat /\ 0 < q
        BY DEF CommitIntents
      <4> QED
        BY <2>1, <4>1 DEF Placed, Resuming, RecoverPoints
    <3> QED
      BY <3>1, <3>2 DEF Ranked
  <2>3. \A p \in Path : MatchesBefore(p)
    BY <2>2, AllBack DEF Good, Accounted, Files
  <2> QED
    BY <1>1, <2>1, <2>2, <2>3, RecordKinds, RecordFiles, Elsewhere DEF Accounted
<1>3. CASE AttestPath \/ RollbackPath
  <2>1. /\ at \in Path
        /\ pc' = "down" \/ at' = at
        /\ \/ log' = log
           \/ Logged(RollbackIntent(at)) \/ NotLogged(RollbackIntent(at))
        /\ \/ pc' = "recover_record" /\ MatchesBefore(at)
           \/ pc' = "recover_restore" /\ slot[at] = After(at)
           \/ pc' = "down"
    <3>1. at \in Path
      BY <1>3, PathIndex DEF AttestPath, RollbackPath, AtPath, TypeOK, UnwindPoints
    <3>2. RollbackPath => slot[at] = After(at)
      BY DEF RollbackPath, HalfCreated, LinkedStage, MatchesAfter, After
    <3> QED
      BY <1>3, <3>1, <3>2 DEF AttestPath, RollbackPath, Announce, Log, Step, Leave, Quiet, Still
  <2>2. Files'
    <3>1. RollbackIntent(at) \in Record
      BY <2>1, RecordTypes
    <3> QED
      BY <1>1, <2>1, <3>1, QuietFiles, RecordKinds, RecordFiles DEF Accounted
  <2>3. Underway'
    <3>1. CASE pc' = "down"
      BY <3>1, Elsewhere DEF UnderwayPoints
    <3>2. CASE pc' = "recover_record" /\ at' = at /\ MatchesBefore(at)
      BY <1>1, <3>2
         DEF Underway, SameFiles, MatchesBefore, Readable, LinkedStage, LinkedBackup
    <3>3. CASE pc' = "recover_restore" /\ at' = at /\ slot[at] = After(at)
      BY <1>1, <3>3 DEF Underway, SameFiles, After
    <3> QED
      BY <2>1, <3>1, <3>2, <3>3
  <2> QED
    BY <2>2, <2>3 DEF Accounted
<1>4. CASE RecordPath
  <2>1. /\ pc = "recover_record" /\ pc' \notin UnderwayPoints
        /\ at \in Path /\ RolledBack(at) \in Record
        /\ Logged(RolledBack(at)) \/ NotLogged(RolledBack(at))
    BY <1>4, PathIndex, RecordTypes
       DEF RecordPath, Log, Step, Leave, UnderwayPoints, TypeOK, PathPoints
  <2>2. MatchesBefore(at)
    BY <2>1 DEF Accounted, Underway
  <2> QED
    BY <1>1, <2>1, <2>2, RecordKinds, RecordFiles, Elsewhere DEF Accounted
<1> QED
  BY <1>2, <1>3, <1>4

LEMMA RecoverPathAccounted ==
  ASSUME TypeOK, Direction, Shape, Placed, Accounted,
         ResumeRestore \/ RecoverRestore \/ RecoverUnlink \/ RecoverVerify
  PROVE  Accounted'
<1>1. CASE ResumeRestore
  <2>1. /\ SameFiles /\ log' = log /\ LinkedBackup(at) /\ pc' = "recover_unlink" /\ at' = at
    BY <1>1
       DEF ResumeRestore, HalfRestored, Step, Quiet, Still, disk, artifacts, SameFiles
  <2> QED
    BY <2>1, QuietFiles DEF Accounted, Underway, SameFiles, LinkedBackup
<1>2. CASE RecoverVerify
  <2>1. /\ pc = "recover_verify" /\ at \in Path /\ SameFiles /\ log' = log
        /\ \/ pc' = "recover_record" /\ at' = at /\ slot[at] = "bak"
           \/ pc' = "down"
    BY <1>2, PathIndex
       DEF RecoverVerify, Step, Leave, Quiet, Still, disk, artifacts, SameFiles, TypeOK,
           PathPoints
  <2>2. CASE pc' = "down"
    BY <2>1, <2>2, QuietFiles, Elsewhere DEF Accounted, UnderwayPoints
  <2>3. CASE pc' = "recover_record" /\ at' = at /\ slot[at] = "bak"
    <3>1. MatchesBefore(at)
      BY <2>1, <2>3, BackupFound DEF Accounted, Underway
    <3>2. MatchesBefore(at)'
      BY <2>1, <2>3, <3>1
         DEF SameFiles, MatchesBefore, Readable, LinkedStage, LinkedBackup
    <3> QED
      BY <2>1, <2>3, <3>2, QuietFiles DEF Accounted, Underway
  <2> QED
    BY <2>1, <2>2, <2>3
<1>3. CASE RecoverRestore \/ RecoverUnlink
  <2>1. pc \in {"recover_restore", "recover_unlink"} /\ log' = log
    BY <1>3
       DEF RecoverRestore, RecoverUnlink, RemoveCreated, RenameBackup, LinkBackup,
           UnlinkBackup, RestoreStep, Refuse, Quiet, Still
  <2>2. Restorable
    <3>1. at \in Path
      BY <2>1, PathIndex DEF TypeOK, PathPoints
    <3> QED
      BY <2>1, <3>1 DEF Restorable, Placed, Resuming, RecoverPoints, Direction, FinishedPoints
  <2>3. CASE kind[at] = "create" /\ RemoveCreated("recover_record", "refused")
    <3>1. Files' /\ (pc' = "down" \/ (pc' = "recover_record" /\ MatchesBefore(at)'))
      BY <2>2, <2>3, RemoveCreatedFiles DEF Accounted
    <3> QED
      BY <3>1 DEF Accounted, Underway
  <2>4. CASE RenameBackup("recover_verify")
    <3>1. /\ Files'
          /\ \/ pc' = "down"
             \/ pc' = "recover_verify" /\ at' = at /\ slot'[at] = "bak" /\ ~LinkedBackup(at)'
      BY <2>2, <2>4, RenameBackupFiles DEF Accounted
    <3> QED
      BY <3>1 DEF Accounted, Underway
  <2>5. CASE kind[at] = "delete" /\ backup[at] = "bak" /\ LinkBackup("recover_unlink")
    <3>1. Files' /\ (pc' = "down" \/ (pc' = "recover_unlink" /\ LinkedBackup(at)'))
      BY <2>2, <2>5, LinkBackupFiles DEF Accounted
    <3> QED
      BY <3>1 DEF Accounted, Underway
  <2>6. CASE RecoverUnlink
    <3>1. /\ Files'
          /\ \/ pc' = "down"
             \/ pc' = "recover_verify" /\ at' = at /\ slot'[at] = "bak" /\ ~LinkedBackup(at)'
      BY <2>2, <2>6, UnlinkBackupFiles DEF Accounted, RecoverUnlink
    <3> QED
      BY <3>1 DEF Accounted, Underway
  <2>7. CASE Refuse("refused")
    <3>1. SameFiles /\ pc' = "down"
      BY <2>7 DEF Refuse, Leave, Quiet, Still, disk, artifacts, SameFiles
    <3> QED
      BY <2>1, <3>1, QuietFiles, Elsewhere DEF Accounted, UnderwayPoints
  <2> QED
    BY <1>3, <2>3, <2>4, <2>5, <2>6, <2>7 DEF RecoverRestore
<1> QED
  BY <1>1, <1>2, <1>3

\* Every step of the process leaves what the next recovery can account for.
LEMMA ProcessAccounted ==
  ASSUME TypeOK, Direction, Good, Shape, Ranked(log), Placed, Accounted,
         Ladder', Ranked(log'), Process
  PROVE  Accounted'
<1>1. CASE Prepare
  BY <1>1, EarlySteps
<1>2. CASE CommitSteps
  BY <1>2, EarlySteps, CommitQuietAccounted, MutateAccounted, CommitRecordsAccounted,
     RestoreAccounted DEF CommitSteps
<1>3. CASE Cleanup
  BY <1>3, CleanupAccounted
<1>4. CASE Recover
  BY <1>4, EarlySteps, RecoverQuietAccounted, RecoverRecordsAccounted, RecoverPathAccounted
     DEF Recover
<1> QED
  BY <1>1, <1>2, <1>3, <1>4 DEF Process

\* What is known of every state, and used at every step.
Unrefused == TypeOK /\ Direction /\ Snapshot /\ Kept /\ Running /\ (Regime => Good /\ Final)

LEMMA UnrefusedHolds == Spec => []Unrefused
<1>1. TypeOK /\ Direction /\ Snapshot /\ Kept /\ Running /\ (Regime => Good /\ Final)
      => Unrefused
  BY DEF Unrefused
<1> QED
  BY <1>1, KeptHolds, FinalHolds, PTL

LEMMA AccountedHolds == Spec => []((Regime => Accounted) /\ Unrefused)
<1>1. Init => (Regime => Accounted)
  <2> SUFFICES ASSUME Init PROVE Accounted
    OBVIOUS
  <2>1. Ladder /\ Ranked(log) /\ CommitIntents(log) = {}
    BY DEF Init, Ladder, Ranked, Changed, Before, CommitIntents, CommittedPaths, RollbackIntents,
           RolledBackPaths, Has
  <2>2. pc \notin UnderwayPoints
    BY DEF Init, UnderwayPoints
  <2> QED
    BY <2>1, <2>2, NothingFiles DEF Accounted, Underway, UnderwayPoints
<1>2. Unrefused /\ Unrefused' /\ (Regime => Accounted) /\ [Next]_vars => (Regime => Accounted)'
  <2> SUFFICES ASSUME Unrefused, Unrefused', Regime => Accounted, [Next]_vars, Regime'
               PROVE  Accounted'
    OBVIOUS
  <2>0. Ranked(log') /\ Ladder'
    BY DEF Unrefused, Kept, Good
  <2>1. CASE Process
    <3>1. Regime
      BY <2>1, ProcessFrame DEF Frame, Regime, Undisturbed
    <3> QED
      BY <2>0, <2>1, <3>1, ProcessAccounted DEF Unrefused, Kept, Final
  <2>2. CASE Crash
    <3>1. SameFiles /\ log' = log /\ pc' \notin UnderwayPoints /\ Regime
      BY <2>2
         DEF Crash, Leave, Still, disk, artifacts, SameFiles, UnderwayPoints, Regime,
             Undisturbed
    <3> QED
      BY <3>1, QuietFiles, Elsewhere DEF Accounted
  <2>3. ASSUME NEW p \in Path, Foreign(p) PROVE FALSE
    BY <2>3 DEF Foreign, Regime, Undisturbed, Unrefused, TypeOK, EnvOK
  <2>4. CASE Resolved \/ UNCHANGED vars
    <3>1. /\ SameFiles /\ UNCHANGED <<log, pc, at>> /\ Regime
      BY <2>4 DEF Resolved, vars, disk, artifacts, call, env, SameFiles, Regime, Undisturbed
    <3>2. Underway'
      BY <3>1
         DEF Accounted, Underway, SameFiles, LinkedStage, LinkedBackup, After, MatchesBefore,
             Readable
    <3> QED
      BY <3>1, <3>2, QuietFiles DEF Accounted
  <2> QED
    BY <2>1, <2>2, <2>3, <2>4 DEF Next
<1> QED
  BY <1>1, <1>2, UnrefusedHolds, PTL DEF Spec

-----------------------------------------------------------------------------
(* What the calls answer.                                                  *)

\* No answer of a recovery that gives up.
Mild == report' \in {report, "recovery_required", "committed", "unchanged"}

LEMMA PrepareMild == ASSUME Prepare PROVE Mild
<1> USE DEF Mild, Step, Leave
<1>1. ASSUME NEW p \in Path, StageJob(p) PROVE Mild
  BY <1>1
     DEF StageJob, AdmitJob, CreateBackup, WriteBackup, CreateStage, WriteStage,
         SyncArtifacts, UndoJob, CancelJobs, JobCall, JobStep
<1>2. CASE Join \/ Collect
  BY <1>2 DEF Join, Collect, RemoveStage, RemoveBackup, Call, call
<1>3. CASE CreateJournal \/ WriteHeader \/ WriteOperation \/ WritePathIntent
  BY <1>3 DEF CreateJournal, WriteHeader, WriteOperation, WritePathIntent, Log, Then
<1>4. CASE FailPrepare \/ WritePathStaged \/ WritePrepared
  BY <1>4 DEF FailPrepare, WritePathStaged, WritePrepared, Log, Then
<1> QED BY <1>1, <1>2, <1>3, <1>4 DEF Prepare

LEMMA CommitMild == ASSUME CommitSteps PROVE Mild
<1> USE DEF Mild, Step, Leave, Unwind
<1>1. CASE \/ Commit \/ Abort \/ Drop \/ VerifyAll \/ StoreFull \/ Check \/ SyncParent
           \/ Classify \/ VerifyRestored
  BY <1>1
     DEF Commit, Abort, Drop, VerifyAll, StoreFull, Check, SyncParent, Classify,
         VerifyRestored, Refuse, Call
<1>2. CASE \/ FinishUnchanged \/ Intend \/ CompletePath \/ FinishCommit \/ IntendRollback
           \/ FinishRollback \/ CompleteRollback
  BY <1>2
     DEF FinishUnchanged, Intend, CompletePath, FinishCommit, IntendRollback, FinishRollback,
         CompleteRollback, Log
<1>3. CASE CreateReceipt \/ WriteReceipt \/ DiscardReceipt \/ SyncReceipt \/ DropReceipt
  BY <1>3
     DEF CreateReceipt, WriteReceipt, DiscardReceipt, SyncReceipt, DropReceipt, ReceiptStep,
         Call
<1>4. CASE LinkStage \/ UnlinkStage \/ ReplaceTarget \/ RemoveSource
  BY <1>4
     DEF LinkStage, UnlinkStage, ReplaceTarget, RemoveSource, MutateStep, Unsuited, Call
<1>5. CASE Restore \/ FinishRestore
  BY <1>5
     DEF Restore, FinishRestore, RemoveCreated, RenameBackup, LinkBackup, UnlinkBackup,
         RestoreStep, Refuse, Call
<1> QED BY <1>1, <1>2, <1>3, <1>4, <1>5 DEF CommitSteps

LEMMA CleanupMild == ASSUME Cleanup PROVE Mild
<1> USE DEF Mild, Step, Leave
<1>1. CASE Clean \/ RetainBackup \/ AllRetained \/ DropTransitional
  BY <1>1
     DEF Clean, RetainBackup, AllRetained, DropTransitional, RemoveStage, RemoveBackup, Call,
         call
<1>2. CASE RemoveJournal
  BY <1>2 DEF RemoveJournal, Call, Resolution
<1> QED BY <1>1, <1>2 DEF Cleanup

LEMMA RecoverMild ==
  ASSUME \/ OpenFails \/ RecoverChanged \/ ResumeRestore \/ SkipPath
         \/ RecordAbort \/ AttestPath \/ RollbackPath \/ RecordRollback \/ RecordPath
  PROVE  Mild
<1> USE DEF Mild, Step, Leave
<1>1. CASE OpenFails \/ RecoverChanged \/ ResumeRestore \/ SkipPath
  BY <1>1 DEF OpenFails, RecoverChanged, ResumeRestore, SkipPath
<1>2. CASE RecordAbort \/ AttestPath \/ RollbackPath \/ RecordRollback \/ RecordPath
  BY <1>2
     DEF RecordAbort, AttestPath, RollbackPath, RecordRollback, RecordPath, Announce, Log
<1> QED BY <1>1, <1>2

\* Every path a recovery comes to is one it can explain,
LEMMA PathExplained ==
  ASSUME TypeOK, Direction, Snapshot, Ranked(log), Placed, Good, Final, Accounted, AtPath
  PROVE  Explained
<1>1. pc = "recover_path" /\ at \in Path
  BY PathIndex DEF AtPath, TypeOK, UnwindPoints
<1>2. CommitIntents(log) = CommitIntents(parsed)
  BY <1>1 DEF Placed, Resuming, RecoverPoints
<1>3. at \in RollbackIntents(log) => Announced(at)
  BY <1>1 DEF Placed, Resuming, RecoverPoints, Announced, RollbackIntents
<1>4. Restored(at) => MatchesBefore(at)
  BY SnapshotSets DEF Restored, Accounted, Files, PutBack
<1>5. CASE slot[at] = "bak"
  <2>1. CASE LinkedBackup(at)
    <3>1. kind[at] = "delete" /\ ~MatchesBefore(at)
      BY <1>1, <2>1 DEF Accounted, Files, Linked, MatchesBefore, Readable
    <3>2. at \in RollbackIntents(log)
      BY <1>1, <1>5 DEF Good, Ladder, RollbackIntents
    <3> QED
      BY <1>3, <1>4, <2>1, <3>1, <3>2 DEF Explained, HalfRestored
  <2>2. CASE ~LinkedBackup(at)
    BY <1>1, <1>5, <2>2, BackupFound DEF Explained, Final
  <2> QED
    BY <2>1, <2>2
<1>6. CASE slot[at] = Before(at)
  BY <1>6 DEF Explained, MatchesBefore, Readable, Before, LinkedStage, LinkedBackup
<1>7. CASE slot[at] = After(at) /\ slot[at] # Before(at) /\ slot[at] # "bak"
  <2>1. Intended(at)
    BY <1>1, <1>2, <1>7 DEF Good, Ladder, Changed, CommitIntents, Intended
  <2>2. ~MatchesBefore(at)
    BY <1>7 DEF MatchesBefore, After, Before
  <2>3. HalfCreated \/ MatchesAfter(at)
    BY <1>1, <1>7
       DEF Accounted, Files, Linked, HalfCreated, MatchesAfter, Readable, LinkedBackup
  <2> QED
    BY <1>4, <2>1, <2>2, <2>3 DEF Explained
<1> QED
  BY <1>1, <1>5, <1>6, <1>7 DEF Final, Shape

\* every journal that is finished, or never came to a change, describes what is
\* found, and what a step puts back is there to be put back.
LEMMA JudgedMild ==
  ASSUME TypeOK, Direction, Snapshot, Ranked(log), Placed, Good, Final, Accounted,
         \/ RecoverFinished \/ RecoverUncommitted \/ RefusePath
         \/ RecoverRestore \/ RecoverUnlink \/ RecoverVerify
  PROVE  Mild
<1> USE DEF Mild, Step, Leave
<1>1. CASE RecoverFinished
  <2>1. parsed = log /\ IsFinished(log)
    BY <1>1 DEF RecoverFinished, Direction
  <2>2. CASE Has(log, FinishedCommitted)
    <3>1. \A p \in Path : MatchesAfter(p)
      BY <2>1, <2>2
         DEF Final, Decided, Accounted, Files, Ended, MatchesAfter, Readable, LinkedBackup, After
    <3> QED
      BY <1>1, <2>1, <2>2, <3>1 DEF RecoverFinished, Listed
  <2>3. CASE ~Has(log, FinishedCommitted)
    <3>1. \A p \in Path : MatchesBefore(p)
      BY <2>1, <2>3 DEF Accounted, Files, Ended
    <3> QED
      BY <1>1, <2>1, <2>3, <3>1 DEF RecoverFinished, Listed
  <2> QED
    BY <2>2, <2>3
<1>2. CASE RecoverUncommitted
  <2>1. CommitIntents(log) = {}
    BY <1>2 DEF RecoverUncommitted, Uncommitted, Direction, Ranked
  <2>2. \A p \in Path : MatchesBefore(p)
    BY <2>1, NothingFiles DEF Good
  <2> QED
    BY <1>2, <2>2 DEF RecoverUncommitted, Listed
<1>3. CASE RefusePath
  BY <1>3, PathExplained DEF RefusePath
<1>4. CASE RecoverRestore
  <2>1. /\ pc = "recover_restore" /\ at \in Path /\ slot[at] = After(at)
        /\ ~Has(log, FinishedCommitted)
    BY <1>4, PathIndex
       DEF RecoverRestore, Accounted, Underway, TypeOK, PathPoints, Direction, FinishedPoints,
           IsFinished, Finished
  <2>2. kind[at] # "create" => backup[at] = "bak"
    BY <2>1 DEF Good, Survives, After
  <2>3. /\ kind[at] = "create" => slot[at] = "new"
        /\ kind[at] = "delete" => slot[at] = "none"
    BY <2>1 DEF After
  <2> QED
    BY <1>4, <2>2, <2>3
       DEF RecoverRestore, RemoveCreated, RenameBackup, LinkBackup, RestoreStep, Call
<1>5. CASE RecoverUnlink
  <2>1. LinkedBackup(at)
    BY <1>5 DEF RecoverUnlink, Accounted, Underway
  <2> QED
    BY <1>5, <2>1 DEF RecoverUnlink, UnlinkBackup, RestoreStep, Call
<1>6. CASE RecoverVerify
  <2>1. slot[at] = "bak"
    BY <1>6 DEF RecoverVerify, Accounted, Underway
  <2> QED
    BY <1>6, <2>1 DEF RecoverVerify
<1> QED
  BY <1>1, <1>2, <1>3, <1>4, <1>5, <1>6

\* As long as nobody else touches a target no recovery, however often it was
\* interrupted and whatever failed before it, meets a path it must refuse.
THEOREM NothingIsRefused == Spec => [](Undisturbed => report # "refused")
<1>1. Init => report # "refused"
  BY DEF Init
<1>2. /\ (Regime => Accounted) /\ Unrefused /\ (Undisturbed => report # "refused")
      /\ [Next]_vars
      => (Undisturbed => report # "refused")'
  <2> SUFFICES ASSUME Regime => Accounted, Unrefused, Undisturbed => report # "refused",
                      [Next]_vars, Undisturbed'
               PROVE  report' # "refused"
    OBVIOUS
  <2>1. CASE Process
    <3>1. Regime /\ Undisturbed
      <4>1. Undisturbed
        BY <2>1, ProcessFrame DEF Frame, Undisturbed
      <4>2. ~Over
        BY <2>1, ProcessRuns DEF Unrefused
      <4> QED
        BY <4>1, <4>2 DEF Unrefused, Running, Regime, Over
    <3>2. Mild \/ Open \/ ReadReceipt
      BY <2>1, <3>1, PrepareMild, CommitMild, CleanupMild, RecoverMild, JudgedMild
         DEF Process, Recover, Unrefused, Kept
    <3>3. report' \in {report, "corrupt", "recovery_required", "committed", "unchanged"}
      BY <3>2 DEF Mild, Open, ReadReceipt, Step, Leave
    <3> QED
      BY <3>1, <3>3
  <2>2. CASE Crash
    BY <2>2 DEF Crash, Leave
  <2>3. CASE (\E p \in Path : Foreign(p)) \/ Resolved \/ UNCHANGED vars
    <3>1. report' = report
      BY <2>3 DEF Foreign, Resolved, vars, call
    <3>2. Undisturbed
      BY <2>3 DEF Foreign, Resolved, vars, env, Undisturbed, Unrefused, TypeOK, EnvOK
    <3> QED
      BY <3>1, <3>2
  <2> QED
    BY <2>1, <2>2, <2>3 DEF Next
<1> QED
  BY <1>1, <1>2, AccountedHolds, PTL DEF Spec

-----------------------------------------------------------------------------
(* The other answer of a recovery that gives up: the state is corrupt.     *)

\* The call that prepares and commits, as opposed to a recovery.
FirstPoints == ForwardPoints \cup {"drop_receipt", "rollback"} \cup BackPoints

\* A journal is rejected for what is in it, and a receipt only if it is torn.
Blamed ==
  /\ report = "corrupt" => receipt = "torn" \/ (Flawed(log) /\ pc = "down")
  /\ pc \in FirstPoints => report = "none"
  /\ pc = "drop_transitional" => receipt = "full"

\* A call that prepares or commits goes on as long as it has no answer.
LEMMA PrepareCall == ASSUME Prepare PROVE pc' \in FirstPoints => report' = report
<1> USE DEF Step, Leave, FirstPoints, ForwardPoints, BackPoints
<1>1. ASSUME NEW p \in Path, StageJob(p) PROVE report' = report
  BY <1>1
     DEF StageJob, AdmitJob, CreateBackup, WriteBackup, CreateStage, WriteStage,
         SyncArtifacts, UndoJob, CancelJobs, JobCall, JobStep
<1>2. CASE Join \/ Collect
  BY <1>2 DEF Join, Collect, RemoveStage, RemoveBackup, Call, call
<1>3. CASE CreateJournal \/ WriteHeader \/ WriteOperation \/ WritePathIntent
  BY <1>3 DEF CreateJournal, WriteHeader, WriteOperation, WritePathIntent, Log, Then
<1>4. CASE FailPrepare \/ WritePathStaged \/ WritePrepared
  BY <1>4 DEF FailPrepare, WritePathStaged, WritePrepared, Log, Then
<1> QED BY <1>1, <1>2, <1>3, <1>4 DEF Prepare

LEMMA CommitCall ==
  ASSUME CommitSteps
  PROVE  /\ pc \in FirstPoints /\ pc' # "drop_transitional"
         /\ pc' \in FirstPoints => report' = report
<1> USE DEF Step, Leave, Unwind, FirstPoints, ForwardPoints, BackPoints
<1>1. CASE \/ Commit \/ Abort \/ Drop \/ VerifyAll \/ StoreFull \/ Check \/ SyncParent
           \/ Classify \/ VerifyRestored
  BY <1>1
     DEF Commit, Abort, Drop, VerifyAll, StoreFull, Check, SyncParent, Classify,
         VerifyRestored, Refuse, Call
<1>2. CASE \/ FinishUnchanged \/ Intend \/ CompletePath \/ FinishCommit \/ IntendRollback
           \/ FinishRollback \/ CompleteRollback
  BY <1>2
     DEF FinishUnchanged, Intend, CompletePath, FinishCommit, IntendRollback, FinishRollback,
         CompleteRollback, Log
<1>3. CASE CreateReceipt \/ WriteReceipt \/ DiscardReceipt \/ SyncReceipt \/ DropReceipt
  BY <1>3
     DEF CreateReceipt, WriteReceipt, DiscardReceipt, SyncReceipt, DropReceipt, ReceiptStep,
         Call
<1>4. CASE LinkStage \/ UnlinkStage \/ ReplaceTarget \/ RemoveSource
  BY <1>4
     DEF LinkStage, UnlinkStage, ReplaceTarget, RemoveSource, MutateStep, Unsuited, Call
<1>5. CASE Restore \/ FinishRestore
  BY <1>5
     DEF Restore, FinishRestore, RemoveCreated, RenameBackup, LinkBackup, UnlinkBackup,
         RestoreStep, Refuse, Call
<1> QED BY <1>1, <1>2, <1>3, <1>4, <1>5 DEF CommitSteps

LEMMA RecoverCall == ASSUME Recover PROVE pc' \notin FirstPoints \cup {"drop_transitional"}
<1> USE DEF Step, Leave, FirstPoints, ForwardPoints, BackPoints
<1>1. CASE \/ Open \/ OpenFails \/ RecoverFinished \/ RecoverUncommitted \/ RecoverChanged
           \/ ResumeRestore \/ SkipPath \/ RefusePath \/ RecoverVerify \/ ReadReceipt
  BY <1>1
     DEF Open, OpenFails, RecoverFinished, RecoverUncommitted, RecoverChanged, ResumeRestore,
         SkipPath, RefusePath, RecoverVerify, ReadReceipt, AtPath, Refuse
<1>2. CASE RecordAbort \/ AttestPath \/ RollbackPath \/ RecordRollback \/ RecordPath
  BY <1>2
     DEF RecordAbort, AttestPath, RollbackPath, RecordRollback, RecordPath, AtPath, Announce, Log
<1>3. CASE RecoverRestore \/ RecoverUnlink
  BY <1>3
     DEF RecoverRestore, RecoverUnlink, RemoveCreated, RenameBackup, LinkBackup, UnlinkBackup,
         RestoreStep, Refuse, Call
<1> QED BY <1>1, <1>2, <1>3 DEF Recover

LEMMA PreparingCall == ASSUME Prepare PROVE pc \in FirstPoints /\ receipt' = receipt
<1> USE DEF FirstPoints, ForwardPoints
<1>1. ASSUME NEW p \in Path, StageJob(p) PROVE pc \in FirstPoints /\ receipt' = receipt
  BY <1>1
     DEF StageJob, AdmitJob, CreateBackup, WriteBackup, CreateStage, WriteStage,
         SyncArtifacts, UndoJob, CancelJobs, JobCall, JobStep
<1>2. CASE Join \/ Collect
  BY <1>2
     DEF Join, Collect, RemoveStage, RemoveBackup, Quiet, Still, disk, artifacts
<1>3. CASE CreateJournal \/ WriteHeader \/ WriteOperation \/ WritePathIntent
  BY <1>3
     DEF CreateJournal, WriteHeader, WriteOperation, WritePathIntent, Log, disk, artifacts
<1>4. CASE FailPrepare \/ WritePathStaged \/ WritePrepared
  BY <1>4 DEF FailPrepare, WritePathStaged, WritePrepared, Log, disk, artifacts
<1> QED BY <1>1, <1>2, <1>3, <1>4 DEF Prepare

\* Once it has written the receipt, only the call itself or the removal of
\* that of a transaction that did not commit touches it.
LEMMA RecoverKeepsReceipt == ASSUME Recover PROVE receipt' = receipt
<1>1. CASE \/ Open \/ OpenFails \/ RecoverFinished \/ RecoverUncommitted \/ RecoverChanged
           \/ ResumeRestore \/ SkipPath \/ RefusePath \/ RecoverVerify \/ ReadReceipt
  BY <1>1
     DEF Open, OpenFails, RecoverFinished, RecoverUncommitted, RecoverChanged, ResumeRestore,
         SkipPath, RefusePath, RecoverVerify, ReadReceipt, Refuse, Quiet, Still, disk, artifacts
<1>2. CASE RecordAbort \/ AttestPath \/ RollbackPath \/ RecordRollback \/ RecordPath
  BY <1>2
     DEF RecordAbort, AttestPath, RollbackPath, RecordRollback, RecordPath, Announce, Log,
         Quiet, Still, disk, artifacts
<1>3. CASE RecoverRestore \/ RecoverUnlink
  BY <1>3
     DEF RecoverRestore, RecoverUnlink, RemoveCreated, RenameBackup, LinkBackup, UnlinkBackup,
         RestoreStep, Refuse, Quiet, Still, disk, artifacts
<1> QED BY <1>1, <1>2, <1>3 DEF Recover

LEMMA CleanupReceipt ==
  ASSUME Cleanup, pc = "drop_transitional" => receipt = "full"
  PROVE  /\ receipt' = receipt \/ (pc = "drop_transitional" /\ receipt = "full")
         /\ pc' = "drop_transitional" => receipt' = "full"
         /\ pc' \notin FirstPoints
<1> USE DEF Step, Leave, FirstPoints, ForwardPoints, BackPoints
<1>1. CASE Clean \/ RetainBackup \/ AllRetained \/ DropTransitional
  BY <1>1
     DEF Clean, RetainBackup, AllRetained, DropTransitional, RemoveStage, RemoveBackup, Call,
         call, Quiet, Still, disk, artifacts
<1>2. CASE RemoveJournal
  BY <1>2 DEF RemoveJournal, Call, disk, artifacts
<1> QED BY <1>1, <1>2 DEF Cleanup

LEMMA RecoverBlames ==
  ASSUME TypeOK, Kept, Blamed, Recover
  PROVE  report' = "corrupt" => receipt' = "torn" \/ (Flawed(log') /\ pc' = "down")
<1> USE DEF Step, Leave
<1>0. receipt' = receipt
  BY RecoverKeepsReceipt
<1>1. CASE Open
  <2>1. CASE log # <<>> /\ ~Replayable(log)
    <3>1. Flawed(log) /\ log' = log
      BY <1>1, <2>1 DEF Kept, Legible, Open
    <3>2. pc' = "down"
      BY <1>1, <2>1 DEF Open
    <3> QED
      BY <3>1, <3>2
  <2>2. CASE log = <<>>
    <3>1. ~Flawed(log)
      BY <2>2 DEF Flawed, BareRollback, UpwardRollback, Has
    <3>2. report' = "corrupt" => ~Replayable(log) \/ report = "corrupt"
      BY <1>1 DEF Open
    <3>3. Replayable(log)
      BY <3>1 DEF Kept, Legible
    <3> QED
      BY <1>0, <3>1, <3>2, <3>3 DEF Blamed
  <2>3. CASE log # <<>> /\ Replayable(log)
    <3>1. ~Flawed(log) /\ report' = report
      BY <1>1, <2>3, FlawedIsRefused DEF Open, TypeOK, LogOK
    <3> QED
      BY <1>0, <3>1 DEF Blamed
  <2> QED
    BY <2>1, <2>2, <2>3
<1>2. CASE ReadReceipt
  <2>1. pc # "down" /\ (report' = report \/ receipt = "torn")
    BY <1>2 DEF ReadReceipt
  <2> QED
    BY <1>0, <2>1 DEF Blamed
<1>3. CASE OpenFails
  BY <1>3 DEF OpenFails
<1>4. CASE ~Open /\ ~ReadReceipt /\ ~OpenFails
  <2>1. pc # "down" /\ (report' = report \/ report' \in {"refused", "recovery_required"})
    <3>1. CASE \/ RecoverFinished \/ RecoverUncommitted \/ RecoverChanged
               \/ ResumeRestore \/ SkipPath \/ RefusePath \/ RecoverVerify
      BY <3>1
         DEF RecoverFinished, RecoverUncommitted, RecoverChanged, ResumeRestore, SkipPath,
             RefusePath, RecoverVerify, AtPath, Refuse
    <3>2. CASE RecordAbort \/ AttestPath \/ RollbackPath \/ RecordRollback \/ RecordPath
      BY <3>2
         DEF RecordAbort, AttestPath, RollbackPath, RecordRollback, RecordPath, AtPath,
             Announce, Log
    <3>3. CASE RecoverRestore \/ RecoverUnlink
      BY <3>3
         DEF RecoverRestore, RecoverUnlink, RemoveCreated, RenameBackup, LinkBackup,
             UnlinkBackup, RestoreStep, Refuse, Call
    <3> QED BY <1>4, <3>1, <3>2, <3>3 DEF Recover
  <2> QED
    BY <1>0, <2>1 DEF Blamed
<1> QED
  BY <1>1, <1>2, <1>3, <1>4

LEMMA CallBlames ==
  ASSUME Blamed, Prepare \/ CommitSteps PROVE Blamed'
<1>1. pc \in FirstPoints /\ report = "none"
  BY PreparingCall, CommitCall DEF Blamed
<1>2. Mild /\ (pc' \in FirstPoints => report' = report)
  BY PrepareMild, CommitMild, PrepareCall, CommitCall
<1>3. pc' # "drop_transitional"
  BY PreparePoints, CommitCall DEF StillPoints
<1> QED
  BY <1>1, <1>2, <1>3 DEF Mild, Blamed

LEMMA ProcessBlames == ASSUME TypeOK, Kept, Blamed, Process PROVE Blamed'
<1>1. CASE Prepare \/ CommitSteps
  BY <1>1, CallBlames
<1>2. CASE Cleanup
  <2>1. Mild /\ pc # "down"
    BY <1>2, CleanupMild DEF Cleanup, Clean, RetainBackup, AllRetained, DropTransitional,
       RemoveJournal
  <2>2. /\ receipt' = receipt \/ receipt = "full"
        /\ pc' = "drop_transitional" => receipt' = "full"
        /\ pc' \notin FirstPoints
    BY <1>2, CleanupReceipt DEF Blamed
  <2> QED
    BY <2>1, <2>2 DEF Mild, Blamed
<1>3. CASE Recover
  BY <1>3, RecoverBlames, RecoverCall DEF Blamed
<1> QED
  BY <1>1, <1>2, <1>3 DEF Process

LEMMA BlamedHolds == Spec => []Blamed
<1>1. Init => Blamed
  BY DEF Init, Blamed
<1>2. TypeOK /\ Kept /\ Blamed /\ [Next]_vars => Blamed'
  <2> SUFFICES ASSUME TypeOK, Kept, Blamed, [Next]_vars PROVE Blamed'
    OBVIOUS
  <2>1. CASE Process
    BY <2>1, ProcessBlames
  <2>2. CASE Crash
    BY <2>2 DEF Crash, Leave, Blamed, FirstPoints, ForwardPoints, BackPoints
  <2>3. CASE (\E p \in Path : Foreign(p)) \/ Resolved \/ UNCHANGED vars
    <3>1. UNCHANGED <<log, pc, report, receipt>>
      BY <2>3 DEF Foreign, Resolved, vars, disk, artifacts, call
    <3> QED
      BY <3>1 DEF Blamed
  <2> QED
    BY <2>1, <2>2, <2>3 DEF Next
<1> QED
  BY <1>1, <1>2, KeptHolds, PTL DEF Spec

\* A recovery calls the state corrupt for a torn receipt or for one of the two
\* flawed journals, whatever fails, dies or interferes.
THEOREM CorruptionHasTwoCauses ==
  Spec => [](report = "corrupt" => receipt = "torn" \/ Flawed(log))
<1>1. Blamed => (report = "corrupt" => receipt = "torn" \/ Flawed(log))
  BY DEF Blamed
<1> QED
  BY <1>1, BlamedHolds, PTL

\* With the system calls excluded whose failure leads to a flawed journal,
\* recovery explains every state the engine leaves behind.
THEOREM RecoveryExplainsItself ==
  ASSUME HandledFaults PROVE Spec => []RecoveryNeverRefuses
<1>1. /\ TypeOK /\ (Undisturbed => Upright)
      /\ (Undisturbed => report # "refused")
      /\ (report = "corrupt" => receipt = "torn" \/ Flawed(log))
      => RecoveryNeverRefuses
  BY NotFlawed DEF RecoveryNeverRefuses, Upright, Sound, TypeOK
<1> QED
  BY <1>1, TransactionTypeOK, UprightHolds, NothingIsRefused, CorruptionHasTwoCauses, PTL

-----------------------------------------------------------------------------
(* What is left of the artifacts, the receipt and the retained backups.    *)

Bare  == \A p \in Path : stage[p] = "none" /\ backup[p] = "none"
Whole == \A p \in Path : backup[p] # "partial"

\* Before the first staging job.
EarlyPoints == {"ready", "header", "operations", "intents"}

\* Behind the staging, up to the end of the commit.
WholePoints ==
  {"staged", "prepare", "prepared", "verify", "receipt", "receipt_write", "receipt_sync",
   "finish"} \cup BeforePoints \cup AfterPoints

\* A backup is written before it is relied on, and one that is retained is
\* gone from beside its target and has its receipt.
Stored ==
  /\ pc \in EarlyPoints => Bare /\ job = Idle
  /\ pc = "staging" =>
       \A p \in Path :
         job[p] \in {"queued", "backup", "stage", "stage_write", "sync", "ok"}
           => backup[p] # "partial"
  /\ pc \in WholePoints \/ Has(log, FinishedCommitted) => Whole
  /\ pc = "keep" => Keeping /\ \A p \in Path : stage[p] = "none"
  /\ pc = "drop_transitional" => ~Has(log, FinishedCommitted)
  /\ \A p \in Path : kept[p] = "bak" => backup[p] = "none" /\ (Over \/ Keeping)

\* Artifacts come from the staging jobs only.
Sheds ==
  \A p \in Path : stage'[p] \in {stage[p], "none"} /\ backup'[p] \in {backup[p], "none"}

\* The artifacts of one path, or none, go.
Drops ==
  /\ stage' = stage \/ \E x : Gone(stage, x)
  /\ backup' = backup \/ \E x : Gone(backup, x)

LEMMA DropsSheds == ASSUME TypeOK, Drops PROVE Sheds
BY DEF Drops, Sheds, Gone, TypeOK, DiskOK

LEMMA PrepareSheds ==
  ASSUME TypeOK, Prepare
  PROVE  kept' = kept /\ (Sheds \/ \E p \in Path : StageJob(p))
<1>1. ASSUME NEW p \in Path, StageJob(p) PROVE kept' = kept
  BY <1>1
     DEF StageJob, AdmitJob, CreateBackup, WriteBackup, CreateStage, WriteStage,
         SyncArtifacts, UndoJob, CancelJobs, JobCall, JobStep
<1>2. CASE Join \/ Collect
  <2>1. Drops /\ kept' = kept
    BY <1>2
       DEF Join, Collect, RemoveStage, RemoveBackup, Call, Quiet, Still, disk, artifacts, Drops
  <2> QED
    BY <2>1, DropsSheds
<1>3. CASE \/ CreateJournal \/ WriteHeader \/ WriteOperation \/ WritePathIntent
           \/ FailPrepare \/ WritePathStaged \/ WritePrepared
  <2>1. Drops /\ kept' = kept
    BY <1>3
       DEF CreateJournal, WriteHeader, WriteOperation, WritePathIntent, FailPrepare,
           WritePathStaged, WritePrepared, Log, disk, artifacts, Drops
  <2> QED
    BY <2>1, DropsSheds
<1> QED
  BY <1>1, <1>2, <1>3 DEF Prepare

LEMMA CommitSheds == ASSUME TypeOK, CommitSteps PROVE kept' = kept /\ Sheds
<1> SUFFICES kept' = kept /\ Drops
  BY DropsSheds
<1>1. CASE \/ Commit \/ Abort \/ Drop \/ VerifyAll \/ StoreFull \/ Check \/ SyncParent
           \/ Classify \/ VerifyRestored
  BY <1>1
     DEF Commit, Abort, Drop, VerifyAll, StoreFull, Check, SyncParent, Classify,
         VerifyRestored, Refuse, Quiet, Still, disk, artifacts, Drops
<1>2. CASE \/ FinishUnchanged \/ Intend \/ CompletePath \/ FinishCommit \/ IntendRollback
           \/ FinishRollback \/ CompleteRollback
  BY <1>2
     DEF FinishUnchanged, Intend, CompletePath, FinishCommit, IntendRollback, FinishRollback,
         CompleteRollback, Log, disk, artifacts, Drops
<1>3. CASE CreateReceipt \/ WriteReceipt \/ DiscardReceipt \/ SyncReceipt \/ DropReceipt
  BY <1>3
     DEF CreateReceipt, WriteReceipt, DiscardReceipt, SyncReceipt, DropReceipt, ReceiptStep,
         Drops
<1>4. CASE LinkStage \/ UnlinkStage \/ ReplaceTarget \/ RemoveSource
  BY <1>4
     DEF LinkStage, UnlinkStage, ReplaceTarget, RemoveSource, MutateStep, Unsuited, Call,
         Quiet, Still, disk, artifacts, Drops
<1>5. CASE Restore \/ FinishRestore
  BY <1>5
     DEF Restore, FinishRestore, RemoveCreated, RenameBackup, LinkBackup, UnlinkBackup,
         RestoreStep, Refuse, Call, Quiet, Still, disk, artifacts, Drops
<1> QED BY <1>1, <1>2, <1>3, <1>4, <1>5 DEF CommitSteps

LEMMA CleanupSheds ==
  ASSUME TypeOK, Cleanup
  PROVE  /\ Sheds /\ (kept' = kept \/ RetainBackup)
         /\ pc \in {"clean", "keep", "drop_transitional", "remove_journal"}
         /\ pc' \in {pc, "keep", "drop_transitional", "remove_journal", "down"}
<1> SUFFICES
      /\ Drops /\ (kept' = kept \/ RetainBackup)
      /\ pc \in {"clean", "keep", "drop_transitional", "remove_journal"}
      /\ pc' \in {pc, "keep", "drop_transitional", "remove_journal", "down"}
  BY DropsSheds
<1>1. CASE Clean
  BY <1>1
     DEF Clean, RemoveStage, RemoveBackup, Call, call, Step, Leave, Quiet, Still, disk,
         artifacts, Drops
<1>2. CASE RetainBackup
  BY <1>2 DEF RetainBackup, Call, call, Leave, Drops
<1>3. CASE AllRetained \/ DropTransitional \/ RemoveJournal
  BY <1>3
     DEF AllRetained, DropTransitional, RemoveJournal, Call, Step, Leave, Quiet, Still, disk,
         artifacts, Drops
<1> QED
  BY <1>1, <1>2, <1>3 DEF Cleanup

LEMMA RecoverSheds ==
  ASSUME TypeOK, Recover
  PROVE  kept' = kept /\ Sheds /\ pc' # "keep" /\ (pc' = "remove_journal" => log = <<>>)
<1> SUFFICES kept' = kept /\ Drops /\ pc' # "keep" /\ (pc' = "remove_journal" => log = <<>>)
  BY DropsSheds
<1>1. CASE \/ Open \/ OpenFails \/ RecoverFinished \/ RecoverUncommitted \/ RecoverChanged
           \/ ResumeRestore \/ SkipPath \/ RefusePath \/ RecoverVerify \/ ReadReceipt
  BY <1>1
     DEF Open, OpenFails, RecoverFinished, RecoverUncommitted, RecoverChanged, ResumeRestore,
         SkipPath, RefusePath, RecoverVerify, ReadReceipt, Refuse, Quiet, Still, disk,
         artifacts, Drops, Step, Leave
<1>2. CASE RecordAbort \/ AttestPath \/ RollbackPath \/ RecordRollback \/ RecordPath
  BY <1>2
     DEF RecordAbort, AttestPath, RollbackPath, RecordRollback, RecordPath, Announce, Log,
         Quiet, Still, disk, artifacts, Drops, Step, Leave
<1>3. CASE RecoverRestore \/ RecoverUnlink
  BY <1>3
     DEF RecoverRestore, RecoverUnlink, RemoveCreated, RenameBackup, LinkBackup, UnlinkBackup,
         RestoreStep, Refuse, Call, Quiet, Still, disk, artifacts, Drops, Step, Leave
<1> QED BY <1>1, <1>2, <1>3 DEF Recover

\* How the preparation comes to the points at which the backups are relied on.
LEMMA PrepareWhole ==
  ASSUME Prepare
  PROVE  /\ pc' \in WholePoints => pc \in WholePoints \/ (Join /\ \A p \in Path : job[p] = "ok")
         /\ pc' = "staging" =>
              (\E p \in Path : StageJob(p)) \/ (pc = "intents" /\ job' = job)
         /\ pc' \in EarlyPoints => pc \in EarlyPoints /\ job' = job
         /\ pc' \notin {"keep", "drop_transitional"}
         /\ pc \notin EarlyPoints \/ ~\E p \in Path : StageJob(p)
<1> USE DEF WholePoints, EarlyPoints, BeforePoints, AfterPoints
<1>1. ASSUME NEW p \in Path, StageJob(p) PROVE pc = "staging" /\ pc' = "staging"
  BY <1>1
     DEF StageJob, AdmitJob, CreateBackup, WriteBackup, CreateStage, WriteStage,
         SyncArtifacts, UndoJob, CancelJobs, JobCall, JobStep
<1>2. CASE Join \/ Collect
  <2>1. pc \in {"staging", "collect"} /\ pc' \in {"collect", "staged", "fail_prepare", "down"}
    BY <1>2 DEF Join, Collect, RemoveStage, RemoveBackup, Call, call, Step, Leave
  <2>2. pc' = "staged" => Join /\ \A p \in Path : job[p] = "ok"
    BY <1>2 DEF Join, Collect, RemoveStage, RemoveBackup, Call, call, Step, Leave
  <2> QED
    BY <2>1, <2>2
<1>3. CASE CreateJournal \/ WriteHeader \/ WriteOperation \/ WritePathIntent
  <2>1. /\ pc \in EarlyPoints
        /\ \/ pc' \in {"header", "operations", "intents"} /\ job' = job
           \/ pc' = "staging" /\ pc = "intents" /\ job' = job
           \/ pc' \in {"fail_prepare", "down"}
    BY <1>3
       DEF CreateJournal, WriteHeader, WriteOperation, WritePathIntent, Log, Then, Step, Leave
  <2> QED
    BY <1>1, <2>1
<1>4. CASE FailPrepare \/ WritePathStaged \/ WritePrepared
  <2>1. /\ pc \in {"fail_prepare", "staged", "prepare"}
        /\ \/ pc' \in {"remove_journal", "down"}
           \/ pc \in {"staged", "prepare"} /\ pc' \in {"staged", "prepare", "prepared"}
    BY <1>4 DEF FailPrepare, WritePathStaged, WritePrepared, Log, Then, Step, Leave
  <2> QED
    BY <1>1, <2>1
<1> QED
  BY <1>1, <1>2, <1>3, <1>4 DEF Prepare

LEMMA CommitWhole ==
  ASSUME CommitSteps
  PROVE  /\ pc' \in WholePoints => pc \in WholePoints
         /\ pc' \notin EarlyPoints \cup
                     {"staging", "collect", "fail_prepare", "keep", "remove_journal"}
<1> USE DEF WholePoints, EarlyPoints, BeforePoints, AfterPoints, Step, Leave, Unwind
<1>1. CASE \/ Commit \/ Abort \/ Drop \/ VerifyAll \/ StoreFull \/ Check \/ SyncParent
           \/ Classify \/ VerifyRestored
  BY <1>1
     DEF Commit, Abort, Drop, VerifyAll, StoreFull, Check, SyncParent, Classify,
         VerifyRestored, Refuse, Call
<1>2. CASE \/ FinishUnchanged \/ Intend \/ CompletePath \/ FinishCommit \/ IntendRollback
           \/ FinishRollback \/ CompleteRollback
  BY <1>2
     DEF FinishUnchanged, Intend, CompletePath, FinishCommit, IntendRollback, FinishRollback,
         CompleteRollback, Log
<1>3. CASE CreateReceipt \/ WriteReceipt \/ DiscardReceipt \/ SyncReceipt \/ DropReceipt
  BY <1>3
     DEF CreateReceipt, WriteReceipt, DiscardReceipt, SyncReceipt, DropReceipt, ReceiptStep,
         Call
<1>4. CASE LinkStage \/ UnlinkStage \/ ReplaceTarget \/ RemoveSource
  BY <1>4
     DEF LinkStage, UnlinkStage, ReplaceTarget, RemoveSource, MutateStep, Unsuited, Call
<1>5. CASE Restore \/ FinishRestore
  BY <1>5
     DEF Restore, FinishRestore, RemoveCreated, RenameBackup, LinkBackup, UnlinkBackup,
         RestoreStep, Refuse, Call
<1> QED BY <1>1, <1>2, <1>3, <1>4, <1>5 DEF CommitSteps

\* A receipt in use is not touched, nor is the record that it rests on.
LEMMA KeepingStays ==
  ASSUME TypeOK, Direction, Running, Stored, Keeping, Process
  PROVE  Keeping' \/ Over'
<1>1. pc \in FinishedPoints
  BY DEF Keeping, Direction, IsFinished, Finished
<1>2. pc \notin FirstPoints
  BY <1>1 DEF FinishedPoints, FirstPoints, ForwardPoints, BackPoints
<1>3. pc # "drop_transitional"
  BY DEF Stored, Keeping
<1>4. receipt' = receipt
  BY <1>2, <1>3, PreparingCall, CommitCall, CleanupReceipt, RecoverKeepsReceipt DEF Process
<1>5. Grows \/ (journal' = FALSE /\ pc' = "down")
  BY ProcessGrows
<1> QED
  BY <1>4, <1>5 DEF Keeping, Grows, Over

LEMMA WholeStays == ASSUME TypeOK, Sheds, Whole PROVE Whole'
BY DEF Sheds, Whole, TypeOK, DiskOK

LEMMA BareStays == ASSUME TypeOK, Sheds, Bare PROVE Bare'
BY DEF Sheds, Bare

LEMMA StageStored ==
  ASSUME TypeOK, Direction, Running, Stored, NEW p \in Path, StageJob(p)
  PROVE  Stored'
<1>1. /\ pc = "staging" /\ pc' = "staging" /\ UNCHANGED <<log, kept, receipt, journal>>
  BY DEF StageJob, AdmitJob, CreateBackup, WriteBackup, CreateStage, WriteStage,
         SyncArtifacts, UndoJob, CancelJobs, JobCall, JobStep
<1>2. ~Has(log, FinishedCommitted) /\ ~Over
  BY <1>1 DEF Direction, FinishedPoints, IsFinished, Finished, Running, Over
<1>3. /\ job' = [job EXCEPT ![p] = job'[p]] /\ \A q \in Path \ {p} : backup'[q] = backup[q]
      /\ job'[p] \in {"queued", "backup", "stage", "stage_write", "sync", "ok"} =>
           \/ backup'[p] = "bak"
           \/ /\ job[p] \in {"queued", "backup", "stage", "stage_write", "sync", "ok"}
              /\ backup'[p] = backup[p]
  <2>1. CASE AdmitJob(p)
    BY <2>1 DEF AdmitJob, JobStep, TypeOK, CallOK
  <2>2. CASE CreateBackup(p)
    BY <2>2 DEF CreateBackup, JobCall, JobStep, TypeOK, CallOK, DiskOK
  <2>3. CASE WriteBackup(p)
    BY <2>3 DEF WriteBackup, JobCall, JobStep, TypeOK, CallOK, DiskOK
  <2>4. CASE CreateStage(p) \/ WriteStage(p) \/ SyncArtifacts(p)
    BY <2>4 DEF CreateStage, WriteStage, SyncArtifacts, JobCall, JobStep, TypeOK, CallOK
  <2>5. CASE UndoJob(p) \/ CancelJobs(p)
    BY <2>5 DEF UndoJob, CancelJobs, JobStep, Gone, TypeOK, CallOK, DiskOK
  <2> QED
    BY <2>1, <2>2, <2>3, <2>4, <2>5 DEF StageJob
<1>4. \A q \in Path \ {p} : job'[q] = job[q]
  BY <1>3 DEF TypeOK, CallOK
<1>5. \A q \in Path :
        job'[q] \in {"queued", "backup", "stage", "stage_write", "sync", "ok"}
          => backup'[q] # "partial"
  BY <1>1, <1>3, <1>4 DEF Stored
<1>6. \A q \in Path : kept'[q] # "bak"
  BY <1>1, <1>2 DEF Stored, Keeping
<1> QED
  BY <1>1, <1>2, <1>5, <1>6
     DEF Stored, EarlyPoints, WholePoints, BeforePoints, AfterPoints

\* The backups that are retained.
LEMMA KeptStored ==
  ASSUME TypeOK, Direction, Running, Stored, Process, Sheds, kept' = kept \/ RetainBackup
  PROVE  \A p \in Path : kept'[p] = "bak" => backup'[p] = "none" /\ (Over' \/ Keeping')
<1> SUFFICES ASSUME NEW p \in Path, kept'[p] = "bak"
             PROVE  backup'[p] = "none" /\ (Over' \/ Keeping')
  OBVIOUS
<1>1. ~Over
  BY ProcessRuns
<1>2. CASE kept[p] = "bak"
  BY <1>1, <1>2, KeepingStays DEF Stored, Sheds
<1>3. CASE kept[p] # "bak"
  <2>1. RetainBackup
    BY <1>3
  <2>2. PICK q \in Path :
          kept' = [kept EXCEPT ![q] = "bak"] /\ backup' = [backup EXCEPT ![q] = "none"]
    BY <1>3, <2>1 DEF RetainBackup, Call, First, Unkept, Gone
  <2>3. p = q
    BY <1>3, <2>2 DEF TypeOK, DiskOK
  <2>4. Keeping
    BY <2>1 DEF RetainBackup, Stored
  <2> QED
    BY <2>2, <2>3, <2>4, KeepingStays DEF TypeOK, DiskOK
<1> QED
  BY <1>2, <1>3

LEMMA WholeStored ==
  ASSUME TypeOK, Stored, Process, Sheds
  PROVE  pc' \in WholePoints \/ Has(log', FinishedCommitted) => Whole'
<1>1. CASE pc' \in WholePoints
  <2>1. pc \in WholePoints \/ (Join /\ \A p \in Path : job[p] = "ok")
    <3>1. Cleanup \/ Recover => pc' \notin WholePoints
      <4>1. \A l \in WholePoints : l \in FirstPoints
        BY DEF WholePoints, BeforePoints, AfterPoints, FirstPoints, ForwardPoints
      <4>2. Recover => pc' \notin WholePoints
        BY <4>1, RecoverCall
      <4>3. Cleanup => pc' \notin WholePoints
        BY CleanupSheds DEF WholePoints, BeforePoints, AfterPoints
      <4> QED
        BY <4>2, <4>3
    <3> QED
      BY <1>1, <3>1, PrepareWhole, CommitWhole DEF Process
  <2>2. Whole
    BY <2>1 DEF Stored, Whole, Join
  <2> QED
    BY <2>2, WholeStays
<1>2. CASE Has(log', FinishedCommitted)
  <2>1. CASE FinishCommit
    BY <2>1, WholeStays DEF FinishCommit, Stored, WholePoints
  <2>2. CASE ~FinishCommit
    BY <1>2, <2>2, OnlyFinishCommits, WholeStays DEF DecidesNothing, Stored
  <2> QED
    BY <2>1, <2>2
<1> QED
  BY <1>1, <1>2

LEMMA ProcessStored ==
  ASSUME TypeOK, Direction, Running, Stored, Process PROVE Stored'
<1>1. CASE \E p \in Path : StageJob(p)
  BY <1>1, StageStored
<1> SUFFICES ASSUME ~\E p \in Path : StageJob(p) PROVE Stored'
  BY <1>1
<1>2. Sheds /\ (kept' = kept \/ RetainBackup)
  BY PrepareSheds, CommitSheds, CleanupSheds, RecoverSheds DEF Process
<1>3. /\ \A p \in Path : kept'[p] = "bak" => backup'[p] = "none" /\ (Over' \/ Keeping')
      /\ pc' \in WholePoints \/ Has(log', FinishedCommitted) => Whole'
  BY <1>2, KeptStored, WholeStored
<1>4. CASE Prepare
  <2>1. pc' \in EarlyPoints => Bare' /\ job' = Idle
    BY <1>2, <1>4, PrepareWhole, BareStays DEF Stored
  <2>2. pc' = "staging" => Whole'
    BY <1>2, <1>4, PrepareWhole, BareStays DEF Stored, EarlyPoints, Bare, Whole
  <2>3. pc' \notin {"keep", "drop_transitional"}
    BY <1>4, PrepareWhole
  <2> QED
    BY <1>3, <2>1, <2>2, <2>3 DEF Stored, Whole
<1>5. CASE CommitSteps
  BY <1>3, <1>5, CommitWhole, CommitCall DEF Stored
<1>6. CASE Cleanup
  <2>1. pc' \notin EarlyPoints \cup {"staging"}
    BY <1>6, CleanupSheds DEF EarlyPoints
  <2>2. pc' = "keep" => Keeping' /\ \A p \in Path : stage'[p] = "none"
    <3> SUFFICES ASSUME pc' = "keep"
                 PROVE  Keeping' /\ \A p \in Path : stage'[p] = "none"
      OBVIOUS
    <3>1. Keeping /\ \A p \in Path : stage[p] = "none"
      <4>1. CASE Clean
        BY <4>1
           DEF Clean, RemoveStage, RemoveBackup, Call, call, Step, Leave, Removable
      <4>2. CASE ~Clean
        <5>1. pc = "keep"
          BY <1>6, <4>2
             DEF Cleanup, RetainBackup, AllRetained, DropTransitional, RemoveJournal, Call,
                 Step, Leave
        <5> QED
          BY <5>1 DEF Stored
      <4> QED
        BY <4>1, <4>2
    <3>2. ~Over'
      BY DEF Over
    <3> QED
      BY <1>2, <3>1, <3>2, KeepingStays DEF Sheds
  <2>3. pc' = "drop_transitional" => ~Has(log', FinishedCommitted)
    BY <1>6
       DEF Cleanup, Clean, RetainBackup, AllRetained, DropTransitional, RemoveJournal,
           RemoveStage, RemoveBackup, Call, call, Step, Leave, Keeping, Quiet, Still, Stored
  <2> QED
    BY <1>3, <2>1, <2>2, <2>3 DEF Stored
<1>7. CASE Recover
  <2>1. pc' \notin EarlyPoints \cup {"staging", "keep", "drop_transitional"}
    BY <1>7, RecoverCall, RecoverSheds DEF EarlyPoints, FirstPoints, ForwardPoints
  <2> QED
    BY <1>3, <2>1 DEF Stored
<1> QED
  BY <1>4, <1>5, <1>6, <1>7 DEF Process

LEMMA StoredHolds == Spec => [](TypeOK /\ Direction /\ Running /\ Stored)
<1>1. Init => Stored
  BY DEF Init, Stored, Bare, Whole, EarlyPoints, WholePoints, BeforePoints, AfterPoints, Has
<1>2. TypeOK /\ Direction /\ Running /\ Stored /\ [Next]_vars => Stored'
  <2> SUFFICES ASSUME TypeOK, Direction, Running, Stored, [Next]_vars PROVE Stored'
    OBVIOUS
  <2>1. CASE Process
    BY <2>1, ProcessStored
  <2>2. CASE Crash
    <3>1. UNCHANGED <<log, stage, backup, kept, receipt, journal>> /\ pc' = "down"
      BY <2>2 DEF Crash, Leave, Still, disk, artifacts
    <3>2. Over => Over'
      BY <2>2 DEF Crash, Over
    <3> QED
      BY <3>1, <3>2
         DEF Stored, EarlyPoints, WholePoints, BeforePoints, AfterPoints, Whole, Keeping
  <2>3. CASE (\E p \in Path : Foreign(p)) \/ Resolved \/ UNCHANGED vars
    <3>1. UNCHANGED <<log, pc, job, stage, backup, kept, receipt, journal>>
      BY <2>3 DEF Foreign, Resolved, vars, disk, artifacts, call
    <3> QED
      BY <3>1 DEF Stored, Whole, Bare, Keeping, Over
  <2> QED
    BY <2>1, <2>2, <2>3 DEF Next
<1> QED
  BY <1>1, <1>2, FinalHolds, PTL DEF Spec

-----------------------------------------------------------------------------
(* Nothing is left behind, unless a later staging job can not clean up     *)
(* after itself: its error is not the one that is reported.                *)

\* No staging job but the first fails to remove its own artifacts.
HandledUndo == \A p \in 2..N : <<"undo", p>> \notin Faulty

\* Where the last artifact is gone.
BarePoints == {"fail_prepare", "drop_transitional", "remove_journal"}

\* A preparation that fails has removed what its jobs created: the error of the
\* lowest failed path is the one that decides, so only that of the first path
\* is sure to keep the journal.
Tidy ==
  /\ ~journal => log = <<>>
  /\ log = <<>> \/ pc \in BarePoints => Bare
  /\ pc \in {"staging", "collect"} =>
       \A p \in Path :
         /\ job[p] \in {"queued", "failed", "err"} => stage[p] = "none" /\ backup[p] = "none"
         /\ job[p] \in {"dirty", "err_dirty"} => p = 1
  /\ pc = "collect" => Busy = {}

LEMMA StageTidy ==
  ASSUME HandledUndo, TypeOK, Placed, Tidy, NEW p \in Path, StageJob(p) PROVE Tidy'
<1>1. /\ pc = "staging" /\ pc' = "staging" /\ log' = log /\ journal' = journal
  BY DEF StageJob, AdmitJob, CreateBackup, WriteBackup, CreateStage, WriteStage,
         SyncArtifacts, UndoJob, CancelJobs, JobCall, JobStep
<1>2. log # <<>>
  BY <1>1 DEF Placed, Scripted
<1>3. /\ job' = [job EXCEPT ![p] = job'[p]]
      /\ \A q \in Path \ {p} : backup'[q] = backup[q] /\ stage'[q] = stage[q]
      /\ job'[p] \in {"queued", "failed", "err"} =>
           \/ stage'[p] = "none" /\ backup'[p] = "none"
           \/ /\ job[p] \in {"queued", "failed", "err"}
              /\ stage'[p] = stage[p] /\ backup'[p] = backup[p]
      /\ job'[p] \in {"dirty", "err_dirty"} =>
           <<"undo", p>> \in Faulty \/ job[p] \in {"dirty", "err_dirty"}
  <2>1. CASE AdmitJob(p)
    BY <2>1 DEF AdmitJob, JobStep, TypeOK, CallOK
  <2>2. CASE CreateBackup(p) \/ WriteBackup(p)
    BY <2>2 DEF CreateBackup, WriteBackup, JobCall, JobStep, TypeOK, CallOK, DiskOK
  <2>3. CASE CreateStage(p) \/ WriteStage(p)
    BY <2>3 DEF CreateStage, WriteStage, JobCall, JobStep, TypeOK, CallOK, DiskOK
  <2>4. CASE SyncArtifacts(p)
    BY <2>4 DEF SyncArtifacts, JobCall, JobStep, TypeOK, CallOK
  <2>5. CASE UndoJob(p)
    BY <2>5 DEF UndoJob, JobStep, Gone, Fault, TypeOK, CallOK, DiskOK
  <2>6. CASE CancelJobs(p)
    BY <2>6 DEF CancelJobs, JobStep, TypeOK, CallOK
  <2> QED
    BY <2>1, <2>2, <2>3, <2>4, <2>5, <2>6 DEF StageJob
<1>4. \A q \in Path \ {p} : job'[q] = job[q]
  BY <1>3 DEF TypeOK, CallOK
<1>5. <<"undo", p>> \in Faulty => p = 1
  BY DEF HandledUndo
<1>6. ASSUME NEW q \in Path
      PROVE  /\ job'[q] \in {"queued", "failed", "err"}
                  => stage'[q] = "none" /\ backup'[q] = "none"
             /\ job'[q] \in {"dirty", "err_dirty"} => q = 1
  BY <1>1, <1>3, <1>4, <1>5 DEF Tidy
<1> QED
  BY <1>1, <1>2, <1>6 DEF Tidy, BarePoints

\* The journal is removed, and emptied, by the removal alone.
LEMMA OnlyRemoval ==
  ASSUME TypeOK, Direction, Running, Process
  PROVE  /\ ~journal' => RemoveJournal
         /\ log' = <<>> => log = <<>> \/ (RemoveJournal /\ ~journal')
<1>1. Frame /\ Answers /\ ~Over
  BY ProcessFrame, ProcessAnswers, ProcessRuns
<1>2. ASSUME ~journal' PROVE RemoveJournal
  <2>1. pc = "ready" => journal'
    BY <1>1 DEF Answers
  <2>2. pc # "ready" => journal
    BY <1>1 DEF Running, Over
  <2> QED
    BY <1>1, <1>2, <2>1, <2>2 DEF Frame
<1>3. ASSUME log' = <<>>, log # <<>> PROVE RemoveJournal /\ ~journal'
  <2>1. Has(log, log[1]) /\ ~Has(log', log[1])
    BY <1>3 DEF Has, TypeOK, LogOK
  <2>2. ~journal'
    BY <2>1, ProcessGrows DEF Grows
  <2> QED
    BY <1>2, <2>2
<1> QED
  BY <1>2, <1>3

\* It goes only where nothing is left to be found with it.
LEMMA JournalGoes ==
  ASSUME TypeOK, Direction, Running, Tidy, Process
  PROVE  /\ ~journal' => log' = <<>>
         /\ log' = <<>> => Bare
<1>1. ASSUME RemoveJournal, ~journal' PROVE log' = <<>>
  BY <1>1 DEF RemoveJournal, Call, Tidy
<1>2. RemoveJournal => Bare
  BY DEF RemoveJournal, Tidy, BarePoints
<1> QED
  BY <1>1, <1>2, OnlyRemoval DEF Tidy

\* A preparation that aborts has nothing left, or knows that it has.
LEMMA CollectBare ==
  ASSUME TypeOK, Tidy, Collect PROVE pc' = "fail_prepare" => Bare
<1> SUFFICES ASSUME pc' = "fail_prepare" PROVE Bare
  OBVIOUS
<1>1. pc = "collect"
  BY DEF Collect
<1>2. /\ \A p \in Path : ~Staged(p)
      /\ \E p \in Path : First(Failures, p) /\ job[p] = "err"
  BY <1>1 DEF Collect, RemoveStage, RemoveBackup, Call, call, Step, Leave
<1>3. PICK p \in Path : First(Failures, p) /\ job[p] = "err"
  BY <1>2
<1>4. \A q \in Path : job[q] # "err_dirty"
  <2> SUFFICES ASSUME NEW q \in Path, job[q] = "err_dirty" PROVE FALSE
    OBVIOUS
  <2>1. q = 1 /\ q \in Failures
    BY <1>1 DEF Tidy, Failures
  <2>2. p <= 1
    BY <1>3, <2>1 DEF First
  <2> QED
    BY <1>3, <2>1, <2>2
<1>5. \A q \in Path : job[q] \in {"queued", "ok", "err"}
  BY <1>1, <1>4 DEF Tidy, Busy
<1> QED
  BY <1>1, <1>2, <1>5 DEF Tidy, Staged, Bare

LEMMA PrepareTidy ==
  ASSUME TypeOK, Stored, Tidy, Prepare, ~\E p \in Path : StageJob(p)
  PROVE  /\ pc' \in BarePoints => Bare
         /\ pc' \in {"staging", "collect"} =>
              /\ job' = job
              /\ pc \in {"staging", "collect"} \/ (Bare /\ job = Idle)
         /\ pc' = "collect" => Busy = {}
<1>1. CASE Join
  BY <1>1 DEF Join, Step, BarePoints
<1>2. CASE Collect
  <2>1. /\ pc = "collect" /\ pc' \in {"collect", "fail_prepare", "down"}
        /\ pc' = "collect" => job' = job
    BY <1>2 DEF Collect, RemoveStage, RemoveBackup, Call, call, Step, Leave
  <2> QED
    BY <1>2, <2>1, CollectBare DEF BarePoints, Tidy
<1>3. CASE CreateJournal \/ WriteHeader \/ WriteOperation \/ WritePathIntent
  <2>1. pc \in EarlyPoints /\ pc' # "collect" /\ (pc' = "staging" => job' = job)
    BY <1>3
       DEF CreateJournal, WriteHeader, WriteOperation, WritePathIntent, Log, Then, Step, Leave,
           EarlyPoints
  <2> QED
    BY <2>1 DEF Stored
<1>4. CASE FailPrepare \/ WritePathStaged \/ WritePrepared
  <2>1. /\ pc' \notin {"staging", "collect"}
        /\ pc' \in BarePoints => pc = "fail_prepare"
    BY <1>4
       DEF FailPrepare, WritePathStaged, WritePrepared, Log, Then, Step, Leave, BarePoints
  <2> QED
    BY <2>1 DEF Tidy, BarePoints
<1> QED
  BY <1>1, <1>2, <1>3, <1>4 DEF Prepare

LEMMA CleanupTidy ==
  ASSUME TypeOK, Stored, Tidy, Cleanup PROVE pc' \in BarePoints => Bare
<1>1. CASE Clean
  <2> SUFFICES ASSUME pc' \in BarePoints PROVE Bare
    OBVIOUS
  <2>1. ~Keeping /\ \A p \in Path : ~Removable(p)
    BY <1>1
       DEF Clean, RemoveStage, RemoveBackup, Call, call, Step, Leave, BarePoints
  <2> QED
    BY <2>1 DEF Removable, Bare
<1>2. CASE RetainBackup
  BY <1>2 DEF RetainBackup, Call, call, Leave, BarePoints
<1>3. CASE AllRetained
  <2>1. /\ pc = "keep" /\ Unkept = {}
    BY <1>3 DEF AllRetained
  <2>2. Keeping /\ (\A p \in Path : stage[p] = "none") /\ Whole
    BY <2>1 DEF Stored, Keeping
  <2>3. \A p \in Path : backup[p] # "bak"
    <3> SUFFICES ASSUME NEW p \in Path, backup[p] = "bak" PROVE FALSE
      OBVIOUS
    <3>1. kept[p] = "bak"
      BY <2>1 DEF Unkept, TypeOK, DiskOK
    <3> QED
      BY <3>1 DEF Stored
  <2> QED
    BY <2>2, <2>3 DEF Whole, Bare, TypeOK, DiskOK
<1>4. CASE DropTransitional \/ RemoveJournal
  BY <1>4 DEF DropTransitional, RemoveJournal, Tidy, BarePoints
<1> QED
  BY <1>1, <1>2, <1>3, <1>4 DEF Cleanup

LEMMA ProcessTidy ==
  ASSUME HandledUndo, TypeOK, Direction, Running, Placed, Stored, Tidy, Process
  PROVE  Tidy'
<1>1. CASE \E p \in Path : StageJob(p)
  BY <1>1, StageTidy
<1> SUFFICES ASSUME ~\E p \in Path : StageJob(p) PROVE Tidy'
  BY <1>1
<1>2. Sheds
  BY PrepareSheds, CommitSheds, CleanupSheds, RecoverSheds DEF Process
<1>3. /\ pc' \in BarePoints => Bare
      /\ pc' \in {"staging", "collect"} =>
           /\ job' = job
           /\ pc \in {"staging", "collect"} \/ (Bare /\ job = Idle)
      /\ pc' = "collect" => Busy = {}
  <2>1. CASE Prepare
    BY <2>1, PrepareTidy
  <2>2. CASE CommitSteps
    BY <2>2, CommitWhole, CommitCall DEF BarePoints
  <2>3. CASE Cleanup
    BY <2>3, CleanupTidy, CleanupSheds
  <2>4. CASE Recover
    <3>1. pc' \in BarePoints => log = <<>>
      BY <2>4, RecoverCall, RecoverSheds DEF BarePoints, FirstPoints, ForwardPoints
    <3>2. pc' \notin {"staging", "collect"}
      BY <2>4, RecoverCall DEF FirstPoints, ForwardPoints
    <3> QED
      BY <3>1, <3>2 DEF Tidy
  <2> QED
    BY <2>1, <2>2, <2>3, <2>4 DEF Process
<1>4. log' = <<>> \/ pc' \in BarePoints => Bare'
  BY <1>2, <1>3, JournalGoes, BareStays
<1>5. ASSUME pc' \in {"staging", "collect"}, NEW p \in Path
      PROVE  /\ job'[p] \in {"queued", "failed", "err"}
                  => stage'[p] = "none" /\ backup'[p] = "none"
             /\ job'[p] \in {"dirty", "err_dirty"} => p = 1
  BY <1>2, <1>3, <1>5 DEF Tidy, Sheds, Bare, Idle
<1>6. pc' = "collect" => Busy' = {}
  BY <1>3 DEF Busy
<1> QED
  BY <1>4, <1>5, <1>6, JournalGoes DEF Tidy

LEMMA TidyHolds == ASSUME HandledUndo PROVE Spec => [](Tidy /\ Stored)
<1>1. Init => Tidy
  BY DEF Init, Tidy, Bare, BarePoints
<1>2. TypeOK /\ Direction /\ Running /\ Kept /\ Stored /\ Tidy /\ [Next]_vars => Tidy'
  <2> SUFFICES ASSUME TypeOK, Direction, Running, Kept, Stored, Tidy, [Next]_vars PROVE Tidy'
    OBVIOUS
  <2>1. CASE Process
    BY <2>1, ProcessTidy DEF Kept
  <2>2. CASE Crash
    BY <2>2 DEF Crash, Leave, Still, disk, artifacts, Tidy, BarePoints, Bare
  <2>3. CASE (\E p \in Path : Foreign(p)) \/ Resolved \/ UNCHANGED vars
    <3>1. UNCHANGED <<log, pc, job, stage, backup, journal>>
      BY <2>3 DEF Foreign, Resolved, vars, disk, artifacts, call
    <3> QED
      BY <3>1 DEF Tidy, Bare, Busy
  <2> QED
    BY <2>1, <2>2, <2>3 DEF Next
<1> QED
  BY <1>1, <1>2, KeptHolds, StoredHolds, PTL DEF Spec

\* Whatever dies or interferes and whatever else fails, a journal that is gone
\* has taken every artifact with it, unless a later staging job failed to
\* remove its own.
THEOREM NothingStaysBehind == ASSUME HandledUndo PROVE Spec => []NoOrphans
<1>1. Tidy => NoOrphans
  BY DEF Tidy, NoOrphans, Over, Bare
<1> QED
  BY <1>1, TidyHolds, PTL

-----------------------------------------------------------------------------
(* The receipt, as long as the two calls that would leave it behind an     *)
(* abort do not fail.                                                      *)

HandledReceipts ==
  <<"receipt_sync", 0>> \notin Faulty /\ <<"receipt_discard", 0>> \notin Faulty

PreparingPoints ==
  {"ready", "header", "operations", "intents", "staging", "collect", "staged", "fail_prepare",
   "prepare"}

\* Here there is no receipt yet, or no longer.
NoReceiptPoints ==
  PreparingPoints \cup {"prepared", "verify", "unchanged", "receipt", "rollback"}
    \cup BackPoints

\* Here there is one exactly if the running call retains.
ReceiptPoints ==
  BeforePoints \cup AfterPoints \cup {"classify", "finish", "drop_receipt", "receipt_sync"}

ResumedPoints == {"recover", "recover_abort", "recover_receipt"} \cup RecoverPoints

\* Which receipt there is at each point of a call; a journal is removed only
\* without one, or behind a commit that has moved every backup to it.
Filed ==
  /\ log = <<>> \/ pc \in NoReceiptPoints => Over \/ receipt = "none"
  /\ pc \in ReceiptPoints => receipt = IF retain THEN "full" ELSE "none"
  /\ pc \in {"receipt", "receipt_write"} => retain
  /\ pc = "clean" =>
       \/ receipt = "none"
       \/ receipt = "full" /\ (Recovering \/ Has(log, FinishedCommitted))
  /\ pc = "remove_journal" =>
       \/ receipt = "none"
       \/ Keeping /\ \A p \in Path : kind[p] # "create" => kept[p] = "bak"
  /\ pc \in ResumedPoints => Recovering

LEMMA PrepareFiled ==
  ASSUME TypeOK, Direction, Running, Filed, Prepare PROVE Filed'
<1>1. /\ pc \in PreparingPoints
      /\ pc' \in PreparingPoints \cup {"prepared", "remove_journal", "down"}
  <2> USE DEF PreparingPoints, Step, Leave
  <2>1. ASSUME NEW p \in Path, StageJob(p) PROVE pc = "staging" /\ pc' = "staging"
    BY <2>1
       DEF StageJob, AdmitJob, CreateBackup, WriteBackup, CreateStage, WriteStage,
           SyncArtifacts, UndoJob, CancelJobs, JobCall, JobStep
  <2>2. CASE Join \/ Collect
    BY <2>2 DEF Join, Collect, RemoveStage, RemoveBackup, Call, call
  <2>3. CASE CreateJournal \/ WriteHeader \/ WriteOperation \/ WritePathIntent
    BY <2>3 DEF CreateJournal, WriteHeader, WriteOperation, WritePathIntent, Log, Then
  <2>4. CASE FailPrepare \/ WritePathStaged \/ WritePrepared
    BY <2>4 DEF FailPrepare, WritePathStaged, WritePrepared, Log, Then
  <2> QED
    BY <2>1, <2>2, <2>3, <2>4 DEF Prepare
<1>2. receipt' = "none"
  <2>1. ~Over /\ receipt' = receipt
    BY PreparingCall, ProcessRuns DEF Process
  <2> QED
    BY <1>1, <2>1 DEF Filed, NoReceiptPoints
<1> QED
  BY <1>1, <1>2
     DEF Filed, PreparingPoints, ReceiptPoints, BeforePoints, AfterPoints, ResumedPoints,
         RecoverPoints

\* A commit step that leaves the receipt as it is.
LEMMA UnwindFiled ==
  ASSUME Filed, pc \in ReceiptPoints, ~Over, receipt' = receipt, NEW k, Unwind(k),
         log' = <<>> => log = <<>>
  PROVE  Filed'
<1>1. /\ retain' = retain
      /\ pc' = IF retain THEN "drop_receipt" ELSE "rollback"
  BY DEF Unwind, Step
<1>2. receipt = IF retain THEN "full" ELSE "none"
  BY DEF Filed
<1> QED
  BY <1>1, <1>2
     DEF Filed, NoReceiptPoints, PreparingPoints, BackPoints, ReceiptPoints, BeforePoints,
         AfterPoints, ResumedPoints, RecoverPoints

LEMMA WalkFiled ==
  ASSUME Filed, pc \in ReceiptPoints, ~Over, UNCHANGED <<receipt, retain>>,
         pc' \in ReceiptPoints \cup {"down"}, log' = <<>> => log = <<>>
  PROVE  Filed'
BY DEF Filed, NoReceiptPoints, PreparingPoints, BackPoints, ReceiptPoints, BeforePoints,
       AfterPoints, ResumedPoints, RecoverPoints

LEMMA NoneFiled ==
  ASSUME receipt' = "none", pc' \in NoReceiptPoints \cup {"clean", "remove_journal", "down"},
         pc' = "receipt" => retain'
  PROVE  Filed'
BY DEF Filed, NoReceiptPoints, PreparingPoints, BackPoints, ReceiptPoints, BeforePoints,
       AfterPoints, ResumedPoints, RecoverPoints

LEMMA DecideFiled ==
  ASSUME HandledReceipts, TypeOK, Direction, Running, Placed, Filed, CommitSteps,
         \/ Commit \/ Abort \/ Drop \/ FinishUnchanged \/ VerifyAll \/ StoreFull
         \/ CreateReceipt \/ WriteReceipt \/ DiscardReceipt \/ SyncReceipt
  PROVE  Filed'
<1>0. ~Over
  BY ProcessRuns DEF Process
<1> USE DEF Step, Leave
<1>1. CASE Commit \/ Abort \/ Drop \/ FinishUnchanged \/ StoreFull
  <2>1. /\ pc \in {"prepared", "unchanged", "receipt"} /\ receipt' = receipt
        /\ pc' \in {"verify", "unchanged", "clean", "down"}
    BY <1>1
       DEF Commit, Abort, Drop, FinishUnchanged, StoreFull, Log, Refuse, Quiet, Still, disk,
           artifacts
  <2>2. receipt = "none"
    BY <1>0, <2>1 DEF Filed, NoReceiptPoints
  <2> QED
    BY <2>1, <2>2, NoneFiled DEF NoReceiptPoints
<1>2. CASE VerifyAll
  <2>1. /\ pc = "verify" /\ receipt' = receipt /\ retain' = retain
        /\ \/ pc' = "receipt" /\ retain
           \/ pc' = "check" /\ ~retain
           \/ pc' = "unchanged"
    BY <1>2 DEF VerifyAll, Still, disk, artifacts
  <2>2. receipt = "none"
    BY <1>0, <2>1 DEF Filed, NoReceiptPoints
  <2>3. CASE pc' = "check" /\ ~retain
    BY <2>1, <2>2, <2>3
       DEF Filed, NoReceiptPoints, PreparingPoints, BackPoints, ReceiptPoints, ResumedPoints,
           RecoverPoints
  <2> QED
    BY <2>1, <2>2, <2>3, NoneFiled DEF NoReceiptPoints
<1>3. CASE CreateReceipt \/ WriteReceipt
  <2>1. /\ pc \in {"receipt", "receipt_write"} /\ retain' = retain /\ log' = log
        /\ \/ pc' = "receipt_sync" /\ receipt' = "full"
           \/ pc' \in {"receipt_write", "receipt_discard"}
    BY <1>3 DEF CreateReceipt, WriteReceipt, ReceiptStep, Call
  <2>2. retain /\ log # <<>>
    BY <2>1 DEF Filed, Placed, Opening, PreparedPoints, Has
  <2> QED
    BY <2>1, <2>2
       DEF Filed, NoReceiptPoints, PreparingPoints, BackPoints, ReceiptPoints, BeforePoints,
           AfterPoints, ResumedPoints, RecoverPoints
<1>4. CASE DiscardReceipt
  <2>1. pc' = "unchanged" /\ receipt' = "none"
    BY <1>4 DEF DiscardReceipt, ReceiptStep, Call, Fault, HandledReceipts
  <2> QED
    BY <2>1, NoneFiled DEF NoReceiptPoints
<1>5. CASE SyncReceipt
  <2>1. /\ pc = "receipt_sync" /\ pc' = "check" /\ UNCHANGED <<receipt, retain>>
        /\ log' = log
    BY <1>5 DEF SyncReceipt, ReceiptStep, Call, Fault, HandledReceipts
  <2> QED
    BY <1>0, <2>1, WalkFiled DEF ReceiptPoints, BeforePoints
<1> QED
  BY <1>1, <1>2, <1>3, <1>4, <1>5

LEMMA CommitFiled ==
  ASSUME TypeOK, Direction, Running, Filed, CommitSteps,
         \/ Check \/ Intend \/ LinkStage \/ UnlinkStage \/ ReplaceTarget \/ RemoveSource
         \/ SyncParent \/ Classify \/ CompletePath
  PROVE  Filed'
<1>0. ~Over /\ (log' = <<>> => log = <<>>)
  <2>1. ~RemoveJournal
    BY CommitCall DEF RemoveJournal, FirstPoints, ForwardPoints, BackPoints
  <2> QED
    BY <2>1, ProcessRuns, OnlyRemoval DEF Process
<1> USE DEF Step, Leave
<1>1. CASE Check \/ Classify
  <2>1. /\ pc \in {"check", "classify"} /\ receipt' = receipt
        /\ \/ pc' \in {"intent", "down"} /\ (pc' = "down" \/ retain' = retain)
           \/ \E k : Unwind(k)
    BY <1>1 DEF Check, Classify, Quiet, Still, disk, artifacts
  <2>2. pc \in ReceiptPoints
    BY <2>1 DEF ReceiptPoints, BeforePoints
  <2>3. CASE \E k : Unwind(k)
    BY <1>0, <2>1, <2>2, <2>3, UnwindFiled
  <2>4. CASE pc' = "intent" /\ retain' = retain
    BY <1>0, <2>1, <2>2, <2>4, WalkFiled DEF ReceiptPoints, BeforePoints
  <2>5. CASE pc' = "down"
    BY <1>0, <2>1, <2>5
       DEF Filed, NoReceiptPoints, PreparingPoints, BackPoints, ReceiptPoints, BeforePoints,
           AfterPoints, ResumedPoints, RecoverPoints
  <2> QED
    BY <2>1, <2>3, <2>4, <2>5
<1>2. CASE Intend \/ CompletePath
  <2>1. /\ pc \in {"intent", "committed"} /\ receipt' = receipt
        /\ \/ pc' \in {"mutate", "check", "finish"} /\ retain' = retain
           \/ \E k : Unwind(k)
    BY <1>2 DEF Intend, CompletePath, Log, disk, artifacts
  <2>2. pc \in ReceiptPoints
    BY <2>1 DEF ReceiptPoints, BeforePoints, AfterPoints
  <2>3. CASE \E k : Unwind(k)
    BY <1>0, <2>1, <2>2, <2>3, UnwindFiled
  <2>4. CASE pc' \in {"mutate", "check", "finish"} /\ retain' = retain
    BY <1>0, <2>1, <2>2, <2>4, WalkFiled DEF ReceiptPoints, BeforePoints
  <2> QED
    BY <2>1, <2>3, <2>4
<1>3. CASE LinkStage \/ UnlinkStage \/ ReplaceTarget \/ RemoveSource \/ SyncParent
  <2>1. /\ pc \in {"mutate", "unlink_stage", "sync"} /\ UNCHANGED <<receipt, retain>>
        /\ pc' \in {"unlink_stage", "sync", "committed", "classify"}
    BY <1>3
       DEF LinkStage, UnlinkStage, ReplaceTarget, RemoveSource, SyncParent, MutateStep,
           Unsuited, Call, Quiet, Still, disk, artifacts
  <2> QED
    BY <1>0, <2>1, WalkFiled DEF ReceiptPoints, BeforePoints, AfterPoints
<1> QED
  BY <1>1, <1>2, <1>3

LEMMA BackFiled ==
  ASSUME TypeOK, Direction, Running, Filed, CommitSteps,
         \/ FinishCommit \/ DropReceipt \/ IntendRollback \/ FinishRollback
         \/ Restore \/ FinishRestore \/ VerifyRestored \/ CompleteRollback
  PROVE  Filed'
<1>0. ~Over /\ (log' = <<>> => log = <<>>)
  <2>1. ~RemoveJournal
    BY CommitCall DEF RemoveJournal, FirstPoints, ForwardPoints, BackPoints
  <2> QED
    BY <2>1, ProcessRuns, OnlyRemoval DEF Process
<1> USE DEF Step, Leave
<1>1. CASE FinishCommit
  <2>1. /\ pc = "finish" /\ receipt' = receipt
        /\ \/ pc' = "clean" /\ Logged(FinishedCommitted)
           \/ pc' = "down"
    BY <1>1 DEF FinishCommit, Log, disk, artifacts
  <2>2. receipt \in {"none", "full"}
    BY <2>1 DEF Filed, ReceiptPoints
  <2>3. pc' = "clean" => Has(log', FinishedCommitted)
    <3>1. FinishedCommitted \in Record
      BY RecordTypes
    <3> QED
      BY <2>1, <3>1, LoggedHas DEF TypeOK
  <2> QED
    BY <1>0, <2>1, <2>2, <2>3
       DEF Filed, NoReceiptPoints, PreparingPoints, BackPoints, ReceiptPoints, BeforePoints,
           AfterPoints, ResumedPoints, RecoverPoints
<1>2. CASE DropReceipt
  <2>1. /\ pc' = "rollback" => receipt' = "none"
        /\ pc' \in {"rollback", "down"} /\ receipt' \in {receipt, "none"} /\ log' = log
    BY <1>2 DEF DropReceipt, Call
  <2> QED
    BY <1>0, <2>1
       DEF Filed, NoReceiptPoints, PreparingPoints, BackPoints, ReceiptPoints, BeforePoints,
           AfterPoints, ResumedPoints, RecoverPoints
<1>3. CASE \/ IntendRollback \/ FinishRollback \/ CompleteRollback \/ VerifyRestored
           \/ Restore \/ FinishRestore
  <2>1. /\ pc \in {"rollback"} \cup BackPoints /\ receipt' = receipt
        /\ pc' \in {"rollback", "clean", "down"} \cup BackPoints
    <3>1. CASE IntendRollback \/ FinishRollback \/ CompleteRollback \/ VerifyRestored
      BY <3>1
         DEF IntendRollback, FinishRollback, CompleteRollback, VerifyRestored, Log, Quiet,
             Still, disk, artifacts, BackPoints
    <3>2. CASE Restore \/ FinishRestore
      BY <3>2
         DEF Restore, FinishRestore, RemoveCreated, RenameBackup, LinkBackup, UnlinkBackup,
             RestoreStep, Refuse, Call, Quiet, Still, disk, artifacts, BackPoints
    <3> QED
      BY <1>3, <3>1, <3>2
  <2>2. receipt = "none"
    BY <1>0, <2>1 DEF Filed, NoReceiptPoints
  <2>3. pc' # "receipt" /\ pc' \in NoReceiptPoints \cup {"clean", "down"}
    BY <2>1 DEF NoReceiptPoints, BackPoints
  <2> QED
    BY <2>1, <2>2, <2>3, NoneFiled
<1> QED
  BY <1>1, <1>2, <1>3

LEMMA CleanupFiled ==
  ASSUME TypeOK, Direction, Running, Stored, Filed, Cleanup PROVE Filed'
<1>0. ~Over /\ (log' = <<>> => log = <<>> \/ Over')
  <2>1. RemoveJournal /\ ~journal' => Over'
    BY DEF RemoveJournal, Call, Leave, Over
  <2> QED
    BY <2>1, ProcessRuns, OnlyRemoval DEF Process
<1> USE DEF Step, Leave
<1>1. CASE Clean
  <2>1. /\ pc = "clean" /\ UNCHANGED <<receipt, log>>
        /\ \/ pc' = "clean" /\ parsed' = parsed
           \/ pc' = "remove_journal" /\ ~Keeping /\ ~(Recovering /\ receipt = "full")
           \/ pc' \in {"keep", "drop_transitional", "down"}
    BY <1>1 DEF Clean, RemoveStage, RemoveBackup, Call, call, Quiet, Still, disk, artifacts
  <2>2. CASE pc' = "clean" /\ parsed' = parsed
    BY <1>0, <2>1, <2>2
       DEF Filed, NoReceiptPoints, PreparingPoints, BackPoints, ReceiptPoints, BeforePoints,
           AfterPoints, ResumedPoints, RecoverPoints, Recovering
  <2>3. CASE pc' = "remove_journal" /\ ~Keeping /\ ~(Recovering /\ receipt = "full")
    <3>1. receipt = "none"
      BY <2>1, <2>3 DEF Filed, Keeping
    <3> QED
      BY <2>1, <2>3, <3>1, NoneFiled
  <2>4. CASE pc' \in {"keep", "drop_transitional", "down"}
    BY <1>0, <2>1, <2>4
       DEF Filed, NoReceiptPoints, PreparingPoints, BackPoints, ReceiptPoints, BeforePoints,
           AfterPoints, ResumedPoints, RecoverPoints
  <2> QED
    BY <2>1, <2>2, <2>3, <2>4
<1>2. CASE RetainBackup
  <2>1. pc' \in {"keep", "down"} /\ UNCHANGED <<receipt, log>>
    BY <1>2 DEF RetainBackup, Call, call
  <2> QED
    BY <1>0, <2>1
       DEF Filed, NoReceiptPoints, PreparingPoints, BackPoints, ReceiptPoints, BeforePoints,
           AfterPoints, ResumedPoints, RecoverPoints
<1>3. CASE AllRetained
  <2>1. /\ pc = "keep" /\ pc' = "remove_journal" /\ UNCHANGED <<kind, receipt, log, kept>>
        /\ \A p \in Path : kind[p] # "create" => kept[p] = "bak"
    BY <1>3 DEF AllRetained, Quiet, Still, disk, artifacts
  <2>2. Keeping'
    BY <2>1 DEF Stored, Keeping
  <2> QED
    BY <1>0, <2>1, <2>2
       DEF Filed, NoReceiptPoints, PreparingPoints, BackPoints, ReceiptPoints, BeforePoints,
           AfterPoints, ResumedPoints, RecoverPoints
<1>4. CASE DropTransitional
  <2>1. /\ pc' = "remove_journal" => receipt' = "none"
        /\ pc' \in {"remove_journal", "down"} /\ receipt' \in {receipt, "none"} /\ log' = log
    BY <1>4 DEF DropTransitional, Call
  <2> QED
    BY <1>0, <2>1
       DEF Filed, NoReceiptPoints, PreparingPoints, BackPoints, ReceiptPoints, BeforePoints,
           AfterPoints, ResumedPoints, RecoverPoints
<1>5. CASE RemoveJournal
  <2>1. pc' = "down" /\ receipt' = receipt
    BY <1>5 DEF RemoveJournal, Call, disk, artifacts
  <2> QED
    BY <1>0, <2>1
       DEF Filed, NoReceiptPoints, PreparingPoints, BackPoints, ReceiptPoints, BeforePoints,
           AfterPoints, ResumedPoints, RecoverPoints
<1> QED
  BY <1>1, <1>2, <1>3, <1>4, <1>5 DEF Cleanup

LEMMA RecoverFiled ==
  ASSUME TypeOK, Direction, Running, Filed, Recover PROVE Filed'
<1>0. ~Over /\ (log' = <<>> => log = <<>>) /\ receipt' = receipt
  <2>1. ~RemoveJournal \/ pc = "remove_journal"
    BY DEF RemoveJournal
  <2>2. Frame /\ ~Over
    BY ProcessFrame, ProcessRuns DEF Process
  <2>3. log' = <<>> => log = <<>>
    <3>1. pc # "remove_journal"
      BY DEF Recover, Open, OpenFails, RecoverFinished, RecoverUncommitted, RecordAbort,
             RecoverChanged, ResumeRestore, SkipPath, AttestPath, RollbackPath, RefusePath,
             AtPath, RecordRollback, RecoverRestore, RecoverUnlink, RecoverVerify, RecordPath,
             ReadReceipt
    <3> QED
      BY <2>1, <3>1, OnlyRemoval DEF Process
  <2> QED
    BY <2>2, <2>3, RecoverKeepsReceipt
<1> USE DEF Step, Leave
<1>1. /\ \/ pc' \in ResumedPoints /\ pc \in ResumedPoints /\ parsed' = parsed
         \/ pc' = "recover" /\ parsed' # <<>>
         \/ pc' = "clean" /\ pc \in ResumedPoints /\ parsed' = parsed /\ receipt # "torn"
         \/ pc' = "remove_journal" /\ log = <<>>
         \/ pc' = "down"
  <2> USE DEF ResumedPoints, RecoverPoints
  <2>1. CASE Open \/ OpenFails \/ ReadReceipt
    BY <2>1 DEF Open, OpenFails, ReadReceipt
  <2>2. CASE \/ RecoverFinished \/ RecoverUncommitted \/ RecoverChanged \/ ResumeRestore
             \/ SkipPath \/ RefusePath \/ RecoverVerify
    BY <2>2
       DEF RecoverFinished, RecoverUncommitted, RecoverChanged, ResumeRestore, SkipPath,
           RefusePath, RecoverVerify, AtPath, Refuse
  <2>3. CASE RecordAbort \/ AttestPath \/ RollbackPath \/ RecordRollback \/ RecordPath
    BY <2>3
       DEF RecordAbort, AttestPath, RollbackPath, RecordRollback, RecordPath, AtPath, Announce,
           Log
  <2>4. CASE RecoverRestore \/ RecoverUnlink
    BY <2>4
       DEF RecoverRestore, RecoverUnlink, RemoveCreated, RenameBackup, LinkBackup,
           UnlinkBackup, RestoreStep, Refuse, Call
  <2> QED
    BY <2>1, <2>2, <2>3, <2>4 DEF Recover
<1>2. pc \in ResumedPoints /\ parsed' = parsed => Recovering'
  BY DEF Filed, Recovering
<1>3. pc' = "recover" /\ parsed' # <<>> => Recovering'
  BY DEF Recovering
<1>4. receipt \in {"none", "torn", "full"} /\ (log' = <<>> => receipt' = "none")
  BY <1>0 DEF TypeOK, DiskOK, Filed
<1>5. pc' = "remove_journal" => log = <<>> /\ receipt' = "none"
  <2>1. \A l \in ResumedPoints : l # "remove_journal"
    BY DEF ResumedPoints, RecoverPoints
  <2> QED
    BY <1>0, <1>1, <2>1 DEF Filed
<1>6. pc' = "clean" => receipt' \in {"none", "full"} /\ Recovering'
  <2>1. \A l \in ResumedPoints : l # "clean"
    BY DEF ResumedPoints, RecoverPoints
  <2> QED
    BY <1>0, <1>1, <1>2, <1>4, <2>1
<1>7. pc' \in ResumedPoints => Recovering'
  <2>1. "clean" \notin ResumedPoints /\ "remove_journal" \notin ResumedPoints
        /\ "down" \notin ResumedPoints
    BY DEF ResumedPoints, RecoverPoints
  <2> QED
    BY <1>1, <1>2, <1>3, <2>1
<1>8. pc' \in ResumedPoints \cup {"clean", "remove_journal", "down"}
  BY <1>1 DEF ResumedPoints
<1>9. pc' \notin NoReceiptPoints \cup ReceiptPoints \cup {"receipt", "receipt_write"}
  BY <1>8
     DEF NoReceiptPoints, PreparingPoints, BackPoints, ReceiptPoints, BeforePoints, AfterPoints,
         ResumedPoints, RecoverPoints
<1> QED
  BY <1>4, <1>5, <1>6, <1>7, <1>9 DEF Filed

LEMMA ProcessFiled ==
  ASSUME HandledReceipts, TypeOK, Direction, Running, Placed, Stored, Filed, Process
  PROVE  Filed'
BY PrepareFiled, DecideFiled, CommitFiled, BackFiled, CleanupFiled, RecoverFiled
   DEF Process, CommitSteps

\* The journal is removed: the receipt that outlives it says what was done.
LEMMA ReceiptStays ==
  ASSUME TypeOK, Direction, Running, Stored, Filed, Regime => Good /\ Final, Process, Over'
  PROVE  ReceiptBacked'
<1>1. RemoveJournal /\ ~Over
  BY OnlyRemoval, ProcessRuns DEF Over
<1>2. /\ pc = "remove_journal" /\ UNCHANGED <<kind, disk, foreign>>
      /\ report' \in {Resolution, "recovery_required"}
  BY <1>1 DEF RemoveJournal, Call, Leave, Fault, Steady, env
<1>3. UNCHANGED <<slot, stage, backup, kept, receipt>>
  BY <1>2 DEF disk, artifacts
<1>4. CASE receipt = "none"
  <2>1. \A p \in Path : kept[p] # "bak"
    BY <1>1, <1>4 DEF Stored, Keeping
  <2>2. \A p \in Path : kept[p] = "none"
    BY <2>1 DEF TypeOK, DiskOK
  <2> QED
    BY <1>3, <1>4, <2>2 DEF ReceiptBacked
<1>5. CASE receipt # "none"
  <2>1. Keeping /\ \A p \in Path : kind[p] # "create" => kept[p] = "bak"
    BY <1>2, <1>5 DEF Filed
  <2>2. report' # "unchanged"
    BY <1>2, <2>1 DEF Resolution, Keeping
  <2>3. ASSUME Undisturbed PROVE \A p \in Path : MatchesAfter(p)
    <3>1. Final
      BY <1>1, <1>2, <2>3 DEF Regime, Running
    <3> QED
      BY <1>2, <2>1, <3>1 DEF Final, Decided, Keeping, MatchesAfter
  <2>4. Undisturbed' => \A p \in Path : MatchesAfter(p)'
    BY <1>2, <1>3, <2>3
       DEF Undisturbed, MatchesAfter, Readable, LinkedStage, LinkedBackup, After
  <2> QED
    BY <1>2, <1>3, <1>5, <2>1, <2>2, <2>4 DEF ReceiptBacked, Keeping
<1> QED
  BY <1>4, <1>5

LEMMA FiledHolds ==
  ASSUME HandledReceipts PROVE Spec => [](Filed /\ ReceiptBacked)
<1>1. Init => Filed /\ ReceiptBacked
  <2> SUFFICES ASSUME Init PROVE Filed /\ ReceiptBacked
    OBVIOUS
  <2>1. receipt = "none" /\ pc = "ready" /\ \A p \in Path : kept[p] = "none"
    BY DEF Init
  <2> QED
    BY <2>1
       DEF Filed, ReceiptPoints, BeforePoints, AfterPoints, ResumedPoints, RecoverPoints,
           ReceiptBacked
<1>2. /\ TypeOK /\ Direction /\ Running /\ Kept /\ Stored /\ (Regime => Good /\ Final)
      /\ Filed /\ ReceiptBacked /\ [Next]_vars
      => (Filed /\ ReceiptBacked)'
  <2> SUFFICES ASSUME TypeOK, Direction, Running, Kept, Stored, Regime => Good /\ Final, Filed,
                      ReceiptBacked, [Next]_vars
               PROVE  Filed' /\ ReceiptBacked'
    OBVIOUS
  <2>1. CASE Process
    <3>1. ReceiptBacked'
      BY <2>1, ReceiptStays DEF ReceiptBacked
    <3> QED
      BY <2>1, <3>1, ProcessFiled DEF Kept
  <2>2. CASE Crash
    <3>1. UNCHANGED <<log, receipt, journal>> /\ pc' = "down" /\ journal
      BY <2>2 DEF Crash, Leave, Still, disk, artifacts
    <3>2. ~Over /\ ~Over'
      BY <3>1 DEF Over
    <3> QED
      BY <3>1, <3>2
         DEF Filed, NoReceiptPoints, PreparingPoints, BackPoints, ReceiptPoints, BeforePoints,
             AfterPoints, ResumedPoints, RecoverPoints, ReceiptBacked
  <2>3. ASSUME NEW p \in Path, Foreign(p) PROVE Filed' /\ ReceiptBacked'
    <3>1. /\ UNCHANGED <<kind, log, pc, retain, parsed, kept, receipt, journal>>
          /\ journal
      BY <2>3 DEF Foreign, artifacts, call
    <3> QED
      BY <3>1 DEF Filed, ReceiptBacked, Over, Keeping, Recovering
  <2>4. CASE Resolved \/ UNCHANGED vars
    <3>1. UNCHANGED <<kind, slot, stage, backup, log, pc, retain, parsed, kept, receipt, journal,
                      report, foreign>>
      BY <2>4 DEF Resolved, vars, disk, artifacts, call, env
    <3> QED
      BY <3>1
         DEF Filed, ReceiptBacked, Over, Keeping, Recovering, Undisturbed, MatchesAfter, Readable,
             LinkedStage, LinkedBackup, After
  <2> QED
    BY <2>1, <2>2, <2>3, <2>4 DEF Next
<1> QED
  BY <1>1, <1>2, FinalHolds, KeptHolds, StoredHolds, PTL DEF Spec

\* Whatever dies and whatever else fails, a receipt that outlives its journal
\* has every backup it names and, unless somebody else wrote to a target,
\* speaks of the commit that is there; and no backup is retained without one.
\* The two calls that the hypothesis excludes are those an abort relies on.
THEOREM ReceiptsAreBacked == ASSUME HandledReceipts PROVE Spec => []ReceiptBacked
BY FiledHolds, PTL

-----------------------------------------------------------------------------
(* Every artifact is removable where it is to be removed.                  *)

TwoLinks(p) == LinkedStage(p) \/ LinkedBackup(p)

\* Where a path may be half installed or half restored: only the one the
\* running call is at, and those a recovery has not come down to.
InstallPoints ==
  {"unlink_stage", "classify", "drop_receipt", "rollback", "restore", "unlink_backup"}

Linkable(p) ==
  \/ pc \in {"down", "recover", "remove_journal"}
  \/ pc \in InstallPoints /\ p = at
  \/ pc \in {"recover_path", "recover_restore", "recover_unlink"} /\ p <= at
  \/ pc \in {"recover_verify", "recover_record"} /\ p < at

\* While artifacts are written no target is one of them.
StagingPoints == {"ready", "header", "operations", "intents", "staging"}

OneLink ==
  /\ \A p \in Path : TwoLinks(p) => Linkable(p)
  /\ pc \in StagingPoints => \A p \in Path : slot[p] \notin {"new", "bak"}

\* Recovery looks only at the paths its journal lists; every linked path is one.
Named == journal => \A p \in Path : TwoLinks(p) => p \in CommitIntents(log)

Shrinks == \A p \in Path : TwoLinks(p)' => TwoLinks(p)

LEMMA SameShrinks == ASSUME UNCHANGED <<slot, stage, backup>> PROVE Shrinks
  BY DEF Shrinks, TwoLinks, LinkedStage, LinkedBackup

\* A removal, or a target that is no longer the artifact.
LEMMA RemovalShrinks ==
  ASSUME TypeOK, NEW p \in Path,
         \/ Gone(stage, p) /\ UNCHANGED <<slot, backup>>
         \/ Gone(backup, p) /\ UNCHANGED <<slot, stage>>
         \/ (\E file \in {"ext", "none"} : Becomes(p, file)) /\ UNCHANGED <<stage, backup>>
  PROVE  Shrinks
  BY DEF Gone, Becomes, Shrinks, TwoLinks, LinkedStage, LinkedBackup, TypeOK, DiskOK

\* Behind a step that leaves no call, or one that reads the journal, any path may be.
LEMMA LeftAlone ==
  ASSUME pc' \in {"down", "recover", "remove_journal"} PROVE OneLink'
  BY DEF OneLink, Linkable, StagingPoints

\* No path is linked here, and none becomes so.
LEMMA NoLinkStays ==
  ASSUME OneLink, Shrinks, slot' = slot,
         pc \notin {"down", "recover", "remove_journal", "recover_path", "recover_restore",
                    "recover_unlink", "recover_verify", "recover_record"},
         pc \notin InstallPoints,
         pc' \in StagingPoints => pc \in StagingPoints
  PROVE  OneLink'
<1>1. \A p \in Path : ~TwoLinks(p)'
  BY DEF OneLink, Linkable, Shrinks
<1> QED BY <1>1 DEF OneLink

LEMMA PrepareLink == ASSUME TypeOK, OneLink, Prepare PROVE OneLink'
<1>1. ASSUME NEW p \in Path, StageJob(p) PROVE OneLink'
  <2>1. pc = "staging" /\ pc' = "staging" /\ slot' = slot
    BY <1>1
       DEF StageJob, AdmitJob, CreateBackup, WriteBackup, CreateStage, WriteStage,
           SyncArtifacts, UndoJob, CancelJobs, JobCall, JobStep
  <2> QED BY <2>1 DEF OneLink, StagingPoints, TwoLinks, LinkedStage, LinkedBackup
<1>2. CASE Join \/ Collect
  <2>1. Shrinks
    BY <1>2, SameShrinks, RemovalShrinks
       DEF Join, Collect, RemoveStage, RemoveBackup, Call, Quiet, Still, disk, artifacts
  <2>2. /\ slot' = slot /\ pc \in {"staging", "collect"}
        /\ pc' \in {"collect", "staged", "fail_prepare", "down"}
    BY <1>2
       DEF Join, Collect, RemoveStage, RemoveBackup, Call, call, Step, Leave, Quiet, Still, disk
  <2> QED BY <2>1, <2>2, NoLinkStays DEF InstallPoints, StagingPoints
<1>3. CASE \/ CreateJournal \/ WriteHeader \/ WriteOperation \/ WritePathIntent
           \/ FailPrepare \/ WritePathStaged \/ WritePrepared
  <2>1. UNCHANGED <<slot, stage, backup>>
    BY <1>3
       DEF CreateJournal, WriteHeader, WriteOperation, WritePathIntent, FailPrepare,
           WritePathStaged, WritePrepared, Log, disk, artifacts
  <2>2. /\ pc \in {"ready", "header", "operations", "intents", "fail_prepare", "staged", "prepare"}
        /\ pc' \in StagingPoints => pc \in StagingPoints
    BY <1>3
       DEF CreateJournal, WriteHeader, WriteOperation, WritePathIntent, FailPrepare,
           WritePathStaged, WritePrepared, Log, Then, Step, Leave, StagingPoints
  <2> QED BY <2>1, <2>2, SameShrinks, NoLinkStays DEF InstallPoints
<1> QED BY <1>1, <1>2, <1>3 DEF Prepare

LEMMA CleanupLink == ASSUME TypeOK, OneLink, Cleanup PROVE OneLink'
<1>1. CASE RemoveJournal
  BY <1>1, LeftAlone DEF RemoveJournal, Call, Leave
<1>2. CASE Clean \/ RetainBackup \/ AllRetained \/ DropTransitional
  <2>1. Shrinks /\ slot' = slot
    BY <1>2, SameShrinks, RemovalShrinks
       DEF Clean, RetainBackup, AllRetained, DropTransitional, RemoveStage, RemoveBackup, Call,
           Quiet, Still, disk, artifacts
  <2>2. /\ pc \in {"clean", "keep", "drop_transitional"}
        /\ pc' \in {"clean", "keep", "drop_transitional", "remove_journal", "down"}
    BY <1>2
       DEF Clean, RetainBackup, AllRetained, DropTransitional, RemoveStage, RemoveBackup, Call,
           call, Step, Leave
  <2> QED BY <2>1, <2>2, NoLinkStays DEF InstallPoints, StagingPoints
<1> QED BY <1>1, <1>2 DEF Cleanup


\* At these points the path the call is at may be linked, and no other is.
LEMMA LinkHere ==
  ASSUME pc' \in InstallPoints, \A p \in Path : TwoLinks(p)' => p = at' PROVE OneLink'
  BY DEF OneLink, Linkable, StagingPoints, InstallPoints

LEMMA NoneLinked ==
  ASSUME pc' \notin StagingPoints, \A p \in Path : ~TwoLinks(p)' PROVE OneLink'
  BY DEF OneLink

LEMMA CommitLink == ASSUME TypeOK, OneLink, CommitSteps PROVE OneLink'
<1>1. CASE pc' = "down"
  BY <1>1, LeftAlone
<1>2. CASE \/ Commit \/ Abort \/ FinishUnchanged \/ VerifyAll \/ StoreFull \/ CreateReceipt
           \/ WriteReceipt \/ DiscardReceipt \/ SyncReceipt \/ Check \/ Intend \/ SyncParent
           \/ CompletePath \/ FinishCommit \/ VerifyRestored \/ CompleteRollback
  <2>1. UNCHANGED <<slot, stage, backup>>
    BY <1>2
       DEF Commit, Abort, FinishUnchanged, VerifyAll, StoreFull, CreateReceipt, WriteReceipt,
           DiscardReceipt, SyncReceipt, ReceiptStep, Check, Intend, SyncParent, CompletePath,
           FinishCommit, VerifyRestored, CompleteRollback, Log, Refuse, Quiet,
           Still, disk, artifacts
  <2>2. /\ pc \in {"prepared", "unchanged", "verify", "receipt", "receipt_write",
                   "receipt_discard", "receipt_sync", "check", "intent", "sync", "committed",
                   "finish", "restored", "rolled_back"}
        /\ pc' \notin StagingPoints
    BY <1>2
       DEF Commit, Abort, FinishUnchanged, VerifyAll, StoreFull, CreateReceipt, WriteReceipt,
           DiscardReceipt, SyncReceipt, ReceiptStep, Check, Intend, SyncParent, CompletePath,
           FinishCommit, VerifyRestored, CompleteRollback, Log, Refuse, Call,
           Unwind, Step, Leave, StagingPoints
  <2> QED BY <2>1, <2>2, SameShrinks, NoLinkStays DEF InstallPoints, StagingPoints
<1>3. CASE LinkStage \/ ReplaceTarget \/ RemoveSource
  <2>1. /\ pc = "mutate" /\ at \in Path /\ at' = at
        /\ pc' \in {"unlink_stage", "sync", "classify"}
        /\ LinkStage => pc' # "sync"
    BY <1>3 DEF LinkStage, ReplaceTarget, RemoveSource, MutateStep, Unsuited, Call, Step,
                TypeOK, CallOK, AtFits, PathPoints
  <2>2. \A p \in Path : ~TwoLinks(p)
    BY <2>1 DEF OneLink, Linkable, InstallPoints
  <2>3. ASSUME NEW p \in Path, TwoLinks(p)' PROVE p = at /\ LinkStage
    BY <1>3, <2>1, <2>2, <2>3
       DEF LinkStage, ReplaceTarget, RemoveSource, MutateStep, Unsuited, Call, Becomes, Gone,
           Quiet, Still, disk, artifacts, TwoLinks, LinkedStage, LinkedBackup, TypeOK, DiskOK
  <2> QED BY <2>1, <2>3 DEF OneLink, Linkable, InstallPoints, StagingPoints
<1>4. CASE \/ UnlinkStage \/ FinishRestore \/ Classify \/ DropReceipt \/ IntendRollback
           \/ Restore \/ FinishRollback
  <2>1. \A p \in Path : TwoLinks(p) => p = at
    BY <1>4
       DEF UnlinkStage, FinishRestore, Classify, DropReceipt, IntendRollback, Restore,
           FinishRollback, OneLink, Linkable, InstallPoints
  <2>2. CASE UnlinkStage \/ FinishRestore
    <3>1. /\ pc \in {"unlink_stage", "unlink_backup"} /\ at \in Path
          /\ at' = at \/ pc' = "down"
          /\ pc' \in {"classify", "sync", "restored", "down"}
      BY <2>2
         DEF UnlinkStage, FinishRestore, UnlinkBackup, MutateStep, RestoreStep, Unsuited, Refuse,
             Call, Step, Leave, TypeOK, CallOK, AtFits, PathPoints
    <3>2. Shrinks
      BY <2>2, <3>1, SameShrinks, RemovalShrinks
         DEF UnlinkStage, FinishRestore, UnlinkBackup, MutateStep, RestoreStep, Unsuited, Refuse,
             Call, Quiet, Still, disk, artifacts
    <3>3. pc' \in {"sync", "restored"} => ~TwoLinks(at)'
      BY <2>2, <3>1
         DEF UnlinkStage, FinishRestore, UnlinkBackup, MutateStep, RestoreStep, Unsuited, Refuse,
             Call, Step, Leave, Gone, TwoLinks, LinkedStage, LinkedBackup, TypeOK, DiskOK
    <3> QED
      BY <1>1, <2>1, <3>1, <3>2, <3>3, LinkHere, NoneLinked
         DEF Shrinks, InstallPoints, StagingPoints
  <2>3. CASE Classify \/ DropReceipt \/ IntendRollback
    <3>1. UNCHANGED <<slot, stage, backup>>
      BY <2>3
         DEF Classify, DropReceipt, IntendRollback, Log, Quiet, Still, disk, artifacts
    <3>2. /\ pc' \in {"rollback", "drop_receipt", "restore"} \/ pc' = "down"
          /\ at' = at \/ pc' = "down" \/ (Classify /\ slot[at] = Before(at))
      BY <2>3 DEF Classify, DropReceipt, IntendRollback, Log, Call, Unwind, Step, Leave
    <3>3. Classify /\ slot[at] = Before(at) => ~TwoLinks(at)
      BY DEF Before, TwoLinks, LinkedStage, LinkedBackup
    <3> QED BY <1>1, <2>1, <3>1, <3>2, <3>3, SameShrinks, LinkHere DEF Shrinks, InstallPoints
  <2>4. CASE Restore
    <3>1. pc = "restore" /\ at \in Path
      BY <2>4 DEF Restore, TypeOK, CallOK, AtFits, PathPoints
    <3>2. /\ (at' = at /\ pc' \in {"rolled_back", "unlink_backup", "restored"}) \/ pc' = "down"
          /\ \A p \in Path : TwoLinks(p)' => TwoLinks(p) \/ p = at
      BY <2>4, <3>1
         DEF Restore, RemoveCreated, RenameBackup, LinkBackup, RestoreStep, Refuse, Call, Step,
             Leave, Becomes, Gone, Quiet, Still, disk, artifacts, TwoLinks, LinkedStage,
             LinkedBackup, TypeOK, DiskOK
    <3>3. pc' \in {"rolled_back", "restored"} => ~TwoLinks(at)'
      BY <2>4, <3>1
         DEF Restore, RemoveCreated, RenameBackup, LinkBackup, RestoreStep, Refuse, Call, Step,
             Leave, Becomes, Gone, TwoLinks, LinkedStage, LinkedBackup, TypeOK, DiskOK
    <3> QED
      BY <1>1, <2>1, <3>2, <3>3, LinkHere, NoneLinked DEF InstallPoints, StagingPoints
  <2>5. CASE FinishRollback
    <3>1. at = 0 /\ UNCHANGED <<slot, stage, backup>> /\ pc' \in {"clean", "down"}
      BY <2>5 DEF FinishRollback, Log, Step, Leave, disk, artifacts
    <3> QED BY <2>1, <3>1, SameShrinks, NoneLinked DEF Shrinks, StagingPoints
  <2> QED BY <1>4, <2>2, <2>3, <2>4, <2>5
<1>5. CASE Drop
  BY <1>1, <1>5 DEF Drop, Refuse, Leave
<1> QED BY <1>2, <1>3, <1>4, <1>5 DEF CommitSteps


\* A path the journal does not list yet has never been installed.
LEMMA JudgedUnlinked ==
  ASSUME TypeOK, Direction, Named, pc = "recover", \A p \in Listed : Readable(p)
  PROVE  \A p \in Path : ~TwoLinks(p)
<1> SUFFICES ASSUME NEW p \in Path, TwoLinks(p) PROVE FALSE
  OBVIOUS
<1>1. parsed = log /\ Replayable(log) /\ p \in CommitIntents(log) /\ log \in Seq(Record)
  BY DEF Direction, Named, TypeOK, LogOK
<1>2. p \in Listed
  BY <1>1, PathsFirst DEF Listed
<1> QED BY <1>2 DEF TwoLinks, Readable

LEMMA RecoverLink == ASSUME TypeOK, Direction, OneLink, Named, Recover PROVE OneLink'
<1>1. CASE pc' \in {"down", "recover", "remove_journal"}
  BY <1>1, LeftAlone
<1>2. CASE RecoverFinished \/ RecoverUncommitted
  <2>1. /\ pc = "recover" /\ (pc' = "down" \/ \A p \in Listed : Readable(p))
        /\ pc' \in {"recover_receipt", "recover_abort", "down"}
        /\ UNCHANGED <<slot, stage, backup>>
    BY <1>2
       DEF RecoverFinished, RecoverUncommitted, MatchesAfter, MatchesBefore, Step, Leave, Quiet,
           Still, disk, artifacts
  <2>2. pc' = "down" \/ \A p \in Path : ~TwoLinks(p)
    BY <2>1, JudgedUnlinked
  <2> QED BY <1>1, <2>1, <2>2, SameShrinks, NoneLinked DEF Shrinks, StagingPoints
<1>3. CASE RecordAbort \/ ReadReceipt
  <2>1. /\ pc \in {"recover_abort", "recover_receipt"}
        /\ pc' \in {"recover_receipt", "clean", "down"}
        /\ UNCHANGED <<slot, stage, backup>>
    BY <1>3 DEF RecordAbort, ReadReceipt, Log, Step, Leave, Quiet, Still, disk, artifacts
  <2> QED BY <2>1, SameShrinks, NoLinkStays DEF InstallPoints, StagingPoints
<1>4. CASE RecoverChanged
  <2>1. pc' = "recover_path" /\ at' = N
    BY <1>4 DEF RecoverChanged, Step
  <2> QED BY <2>1 DEF OneLink, Linkable, StagingPoints
<1>5. CASE ResumeRestore \/ SkipPath \/ AttestPath \/ RollbackPath \/ RefusePath
  <2>1. at \in Path /\ pc = "recover_path"
    BY <1>5
       DEF ResumeRestore, SkipPath, AttestPath, RollbackPath, RefusePath, AtPath, TypeOK, CallOK,
           AtFits, UnwindPoints
  <2>2. \A p \in Path : TwoLinks(p) => p <= at
    BY <2>1 DEF OneLink, Linkable, InstallPoints
  <2>3. CASE ResumeRestore \/ RollbackPath
    <3>1. /\ UNCHANGED <<slot, stage, backup>>
          /\ (at' = at /\ pc' \in {"recover_unlink", "recover_restore"}) \/ pc' = "down"
      BY <2>3
         DEF ResumeRestore, RollbackPath, Announce, Log, Step, Leave, Quiet, Still, disk,
             artifacts
    <3> QED
      BY <1>1, <2>2, <3>1, SameShrinks DEF Shrinks, OneLink, Linkable, StagingPoints
  <2>4. CASE SkipPath \/ AttestPath
    <3>1. /\ UNCHANGED <<slot, stage, backup>> /\ Readable(at)
          /\ \/ at' = at - 1 /\ pc' = "recover_path"
             \/ at' = at /\ pc' = "recover_record"
             \/ pc' = "down"
      BY <2>4
         DEF SkipPath, AttestPath, MatchesBefore, Announce, Log, Step, Leave, Quiet, Still, disk,
             artifacts
    <3>2. \A p \in Path : TwoLinks(p) => p < at
      BY <2>1, <2>2, <3>1 DEF TwoLinks, Readable
    <3>3. \A p \in Path : p < at => p <= at - 1
      BY <2>1
    <3> QED
      BY <1>1, <3>1, <3>2, <3>3, SameShrinks DEF Shrinks, OneLink, Linkable, StagingPoints
  <2>5. CASE RefusePath
    BY <1>1, <2>5 DEF RefusePath, Refuse, Leave
  <2> QED BY <1>1, <1>5, <2>3, <2>4, <2>5
<1>6. CASE RecordRollback
  <2>1. /\ pc = "recover_path" /\ at = 0 /\ pc' \in {"recover_receipt", "down"}
        /\ UNCHANGED <<slot, stage, backup>>
    BY <1>6 DEF RecordRollback, Log, Step, Leave, disk, artifacts
  <2>2. \A p \in Path : ~TwoLinks(p)
    BY <2>1 DEF OneLink, Linkable, InstallPoints
  <2> QED BY <2>1, <2>2, SameShrinks, NoneLinked DEF Shrinks, StagingPoints
<1>7. CASE RecoverRestore \/ RecoverUnlink
  <2>1. at \in Path /\ pc \in {"recover_restore", "recover_unlink"}
    BY <1>7 DEF RecoverRestore, RecoverUnlink, TypeOK, CallOK, AtFits, PathPoints
  <2>2. \A p \in Path : TwoLinks(p) => p <= at
    BY <2>1 DEF OneLink, Linkable, InstallPoints
  <2>3. /\ pc' = "down" \/ (at' = at /\ pc' \in {"recover_unlink", "recover_verify", "recover_record"})
        /\ \A p \in Path : TwoLinks(p)' => TwoLinks(p) \/ p = at
    BY <1>7, <2>1
       DEF RecoverRestore, RecoverUnlink, RemoveCreated, RenameBackup, LinkBackup, UnlinkBackup,
           RestoreStep, Refuse, Call, Step, Leave, Becomes, Gone, Quiet, Still, disk, artifacts,
           TwoLinks, LinkedStage, LinkedBackup, TypeOK, DiskOK
  <2>4. pc' \in {"recover_verify", "recover_record"} => ~TwoLinks(at)'
    BY <1>7, <2>1
       DEF RecoverRestore, RecoverUnlink, RemoveCreated, RenameBackup, LinkBackup, UnlinkBackup,
           RestoreStep, Refuse, Call, Step, Leave, Becomes, Gone, TwoLinks, LinkedStage,
           LinkedBackup, TypeOK, DiskOK
  <2>5. \A p \in Path : p <= at => p < at \/ p = at
    BY <2>1
  <2> QED BY <1>1, <2>1, <2>2, <2>3, <2>4, <2>5 DEF OneLink, Linkable, StagingPoints
<1>8. CASE RecoverVerify \/ RecordPath
  <2>1. /\ pc \in {"recover_verify", "recover_record"} /\ at \in Path
        /\ UNCHANGED <<slot, stage, backup>>
        /\ \/ at' = at /\ pc' = "recover_record"
           \/ at' = at - 1 /\ pc' = "recover_path"
           \/ pc' = "down"
    BY <1>8
       DEF RecoverVerify, RecordPath, Log, Step, Leave, Quiet, Still, disk, artifacts, TypeOK,
           CallOK, AtFits, PathPoints
  <2>2. \A p \in Path : TwoLinks(p) => p < at /\ p <= at - 1
    BY <2>1 DEF OneLink, Linkable, InstallPoints
  <2> QED BY <1>1, <2>1, <2>2, SameShrinks DEF Shrinks, OneLink, Linkable, StagingPoints
<1>9. CASE Open \/ OpenFails
  BY <1>1, <1>9 DEF Open, OpenFails, Step, Leave
<1> QED
  BY <1>2, <1>3, <1>4, <1>5, <1>6, <1>7, <1>8, <1>9
     DEF Recover

\* Only an install and a restore give a file its second name.
LEMMA LinkOrigin ==
  ASSUME TypeOK, OneLink, Process, NEW p \in Path, TwoLinks(p)', ~TwoLinks(p)
  PROVE  p = at /\ pc \in {"mutate", "restore", "recover_restore"}
<1>1. CASE Prepare
  <2>1. ASSUME NEW q \in Path, StageJob(q) PROVE FALSE
    <3>1. pc = "staging" /\ slot' = slot
      BY <2>1
         DEF StageJob, AdmitJob, CreateBackup, WriteBackup, CreateStage, WriteStage,
             SyncArtifacts, UndoJob, CancelJobs, JobCall, JobStep
    <3> QED BY <3>1 DEF OneLink, StagingPoints, TwoLinks, LinkedStage, LinkedBackup
  <2>2. CASE Join \/ Collect
    BY <2>2, SameShrinks, RemovalShrinks
       DEF Join, Collect, RemoveStage, RemoveBackup, Call, Quiet, Still, disk, artifacts, Shrinks
  <2>3. CASE \/ CreateJournal \/ WriteHeader \/ WriteOperation \/ WritePathIntent
             \/ FailPrepare \/ WritePathStaged \/ WritePrepared
    BY <2>3, SameShrinks
       DEF CreateJournal, WriteHeader, WriteOperation, WritePathIntent, FailPrepare,
           WritePathStaged, WritePrepared, Log, disk, artifacts, Shrinks
  <2> QED BY <1>1, <2>1, <2>2, <2>3 DEF Prepare
<1>2. CASE CommitSteps
  <2>1. CASE \/ Commit \/ Abort \/ FinishUnchanged \/ VerifyAll \/ StoreFull \/ CreateReceipt
             \/ WriteReceipt \/ DiscardReceipt \/ SyncReceipt \/ Check \/ Intend \/ SyncParent
             \/ CompletePath \/ FinishCommit \/ VerifyRestored \/ CompleteRollback
    BY <2>1, SameShrinks
       DEF Commit, Abort, FinishUnchanged, VerifyAll, StoreFull, CreateReceipt, WriteReceipt,
           DiscardReceipt, SyncReceipt, ReceiptStep, Check, Intend, SyncParent, CompletePath,
           FinishCommit, VerifyRestored, CompleteRollback, Log, Refuse, Quiet,
           Still, disk, artifacts, Shrinks
  <2>2. CASE Classify \/ DropReceipt \/ IntendRollback \/ FinishRollback \/ Drop
    BY <2>2, SameShrinks
       DEF Classify, DropReceipt, IntendRollback, FinishRollback, Drop, Refuse, Log, Quiet, Still,
           disk, artifacts, Shrinks
  <2>3. CASE LinkStage \/ ReplaceTarget \/ RemoveSource
    <3>1. pc = "mutate"
      BY <2>3 DEF LinkStage, ReplaceTarget, RemoveSource, MutateStep
    <3>2. p = at
      BY <2>3
         DEF LinkStage, ReplaceTarget, RemoveSource, MutateStep, Unsuited, Call, Becomes, Gone,
             Quiet, Still, disk, artifacts, TwoLinks, LinkedStage, LinkedBackup, TypeOK, DiskOK
    <3> QED BY <3>1, <3>2
  <2>4. CASE UnlinkStage \/ FinishRestore
    <3>1. at \in Path
      BY <2>4 DEF UnlinkStage, FinishRestore, TypeOK, CallOK, AtFits, PathPoints
    <3>2. Shrinks
      BY <2>4, <3>1, SameShrinks, RemovalShrinks
         DEF UnlinkStage, FinishRestore, UnlinkBackup, MutateStep, RestoreStep, Unsuited, Refuse,
             Call, Quiet, Still, disk, artifacts
    <3> QED BY <3>2 DEF Shrinks
  <2>5. CASE Restore
    BY <2>5
       DEF Restore, RemoveCreated, RenameBackup, LinkBackup, RestoreStep, Refuse, Call, Step,
           Leave, Becomes, Gone, Quiet, Still, disk, artifacts, TwoLinks, LinkedStage,
           LinkedBackup, TypeOK, DiskOK
  <2> QED BY <1>2, <2>1, <2>2, <2>3, <2>4, <2>5 DEF CommitSteps
<1>3. CASE Cleanup
  BY <1>3, SameShrinks, RemovalShrinks
     DEF Cleanup, Clean, RetainBackup, AllRetained, DropTransitional, RemoveJournal, RemoveStage,
         RemoveBackup, Call, Quiet, Still, disk, artifacts, Shrinks
<1>4. CASE Recover
  <2>1. CASE \/ Open \/ OpenFails \/ RecoverFinished \/ RecoverUncommitted \/ RecoverChanged
             \/ ResumeRestore \/ SkipPath \/ RefusePath \/ RecoverVerify \/ ReadReceipt
    BY <2>1, SameShrinks
       DEF Open, OpenFails, RecoverFinished, RecoverUncommitted, RecoverChanged, ResumeRestore,
           SkipPath, RefusePath, RecoverVerify, ReadReceipt, Refuse, Quiet, Still, disk,
           artifacts, Shrinks
  <2>2. CASE RecordAbort \/ AttestPath \/ RollbackPath \/ RecordRollback \/ RecordPath
    BY <2>2, SameShrinks
       DEF RecordAbort, AttestPath, RollbackPath, RecordRollback, RecordPath, Announce, Log,
           Quiet, Still, disk, artifacts, Shrinks
  <2>3. CASE RecoverRestore
    BY <2>3
       DEF RecoverRestore, RemoveCreated, RenameBackup, LinkBackup, RestoreStep, Refuse, Call,
           Step, Leave, Becomes, Gone, Quiet, Still, disk, artifacts, TwoLinks, LinkedStage,
           LinkedBackup, TypeOK, DiskOK
  <2>4. CASE RecoverUnlink
    <3>1. at \in Path
      BY <2>4 DEF RecoverUnlink, TypeOK, CallOK, AtFits, PathPoints
    <3>2. Shrinks
      BY <2>4, <3>1, SameShrinks, RemovalShrinks
         DEF RecoverUnlink, UnlinkBackup, RestoreStep, Refuse, Call, Quiet, Still, disk, artifacts
    <3> QED BY <3>2 DEF Shrinks
  <2> QED BY <1>4, <2>1, <2>2, <2>3, <2>4 DEF Recover
<1> QED BY <1>1, <1>2, <1>3, <1>4 DEF Process

\* Both rest on a commit intent that is in the journal before.
LEMMA NamedStays ==
  ASSUME TypeOK, Direction, Kept, OneLink, Named, Process PROVE Named'
<1> SUFFICES ASSUME journal', NEW p \in Path, TwoLinks(p)' PROVE Has(log', CommitIntent(p))
  BY DEF Named, CommitIntents
<1>1. Grows
  BY ProcessGrows
<1>2. CASE TwoLinks(p)
  <2>1. pc # "ready"
    BY <1>2 DEF OneLink, Linkable, InstallPoints
  <2>2. journal
    BY <2>1, ProcessFrame DEF Frame
  <2> QED BY <1>1, <1>2, <2>2 DEF Named, CommitIntents, Grows
<1>3. CASE ~TwoLinks(p)
  <2>1. p = at /\ pc \in {"mutate", "restore", "recover_restore"}
    BY <1>3, LinkOrigin
  <2>2. at \in CommitIntents(log)
    BY <2>1
       DEF Kept, Placed, Walking, ChangePoints, Unwinding, BackPoints, Resuming, RecoverPoints,
           Ranked
  <2> QED BY <1>1, <2>1, <2>2 DEF CommitIntents, Grows
<1> QED BY <1>2, <1>3

LEMMA OneLinkHolds == Spec => []OneLink
<1>1. Init => OneLink /\ Named
  BY DEF Init, OneLink, Named, TwoLinks, LinkedStage, LinkedBackup, Before, Kinds
<1>2. TypeOK /\ Direction /\ Kept /\ OneLink /\ Named /\ [Next]_vars => (OneLink /\ Named)'
  <2> SUFFICES ASSUME TypeOK, Direction, Kept, OneLink, Named, [Next]_vars
               PROVE  OneLink' /\ Named'
    OBVIOUS
  <2>1. CASE Process
    BY <2>1, PrepareLink, CommitLink, CleanupLink, RecoverLink, NamedStays DEF Process
  <2>2. CASE Crash
    <3>1. UNCHANGED <<slot, stage, backup, log, journal>>
      BY <2>2 DEF Crash, Still, disk, artifacts
    <3> QED BY <2>2, <3>1, LeftAlone, SameShrinks DEF Crash, Leave, Named, Shrinks
  <2>3. ASSUME NEW p \in Path, Foreign(p) PROVE OneLink' /\ Named'
    <3>1. /\ UNCHANGED <<pc, at, log, journal>>
          /\ Shrinks
          /\ \A q \in Path : slot'[q] = slot[q] \/ slot'[q] \in {"ext", "none"}
      BY <2>3, RemovalShrinks DEF Foreign, Becomes, call, artifacts, TypeOK, DiskOK
    <3> QED BY <3>1 DEF Shrinks, OneLink, Linkable, Named
  <2>4. CASE Resolved \/ UNCHANGED vars
    <3>1. UNCHANGED <<slot, stage, backup, pc, at, log, journal>>
      BY <2>4 DEF Resolved, vars, disk, artifacts, call
    <3> QED BY <3>1, SameShrinks DEF Shrinks, OneLink, Linkable, Named
  <2> QED BY <2>1, <2>2, <2>3, <2>4 DEF Next
<1> QED BY <1>1, <1>2, KeptHolds, PTL DEF Spec


\* A retained backup is beside its target or has been moved, from the end of the
\* staging on.
Supplied ==
  /\ Backed
  /\ pc = "finish" => \A p \in Path : kind[p] # "create" => backup[p] = "bak"
  /\ Keeping => \A p \in Path : kind[p] # "create" => "bak" \in {backup[p], kept[p]}

\* Behind this record no backup is touched but by its relocation.
LEMMA SuppliedKept ==
  ASSUME TypeOK, Direction, Running, Stored, Supplied, Process, Keeping
  PROVE  \A p \in Path : kind'[p] # "create" => "bak" \in {backup'[p], kept'[p]}
<1>1. kind' = kind
  BY ProcessFrame DEF Frame
<1>2. pc \in FinishedPoints /\ pc \notin FirstPoints
  BY DEF Keeping, Direction, IsFinished, Finished, FinishedPoints, FirstPoints, ForwardPoints,
         BackPoints
<1>3. CASE Cleanup
  <2>1. CASE Clean
    <3>1. UNCHANGED <<backup, kept>>
      BY <2>1
         DEF Clean, Removable, First, RemoveStage, RemoveBackup, Keeping, Quiet, Still, disk,
             artifacts
    <3> QED BY <1>1, <3>1 DEF Supplied, Keeping
  <2>2. CASE RetainBackup
    <3>1. \/ UNCHANGED <<backup, kept>>
          \/ \E p \in Path : kept' = [kept EXCEPT ![p] = "bak"] /\ Gone(backup, p)
      BY <2>2 DEF RetainBackup, Call, First, Unkept
    <3> QED BY <1>1, <3>1 DEF Supplied, Keeping, Gone, TypeOK, DiskOK
  <2>3. CASE AllRetained \/ DropTransitional \/ RemoveJournal
    <3>1. UNCHANGED <<backup, kept>>
      BY <2>3 DEF AllRetained, DropTransitional, RemoveJournal, Quiet, Still, disk, artifacts
    <3> QED BY <1>1, <3>1 DEF Supplied, Keeping
  <2> QED BY <1>3, <2>1, <2>2, <2>3 DEF Cleanup
<1>4. CASE Recover
  <2>1. UNCHANGED <<backup, kept>>
    <3>1. pc \notin {"recover_restore", "recover_unlink"}
      BY <1>2 DEF FinishedPoints
    <3>2. CASE \/ Open \/ OpenFails \/ RecoverFinished \/ RecoverUncommitted
               \/ RecoverChanged \/ ResumeRestore \/ SkipPath \/ RefusePath
               \/ RecoverVerify \/ ReadReceipt
      BY <3>2
         DEF Open, OpenFails, RecoverFinished, RecoverUncommitted, RecoverChanged, ResumeRestore,
             SkipPath, RefusePath, RecoverVerify, ReadReceipt, Refuse, Quiet, Still, disk,
             artifacts
    <3>3. CASE RecordAbort \/ AttestPath \/ RollbackPath \/ RecordRollback \/ RecordPath
      BY <3>3
         DEF RecordAbort, AttestPath, RollbackPath, RecordRollback, RecordPath, Announce, Log,
             Quiet, Still, disk, artifacts
    <3> QED BY <1>4, <3>1, <3>2, <3>3 DEF Recover, RecoverRestore, RecoverUnlink
  <2> QED BY <1>1, <2>1 DEF Supplied, Keeping
<1> QED BY <1>2, <1>3, <1>4, PreparingCall, CommitCall DEF Process

LEMMA CommitBacked ==
  ASSUME TypeOK, Supplied, CommitSteps
  PROVE  /\ Backed'
         /\ pc' = "finish" => \A p \in Path : kind'[p] # "create" => backup'[p] = "bak"
<1>1. /\ pc' \in WholePoints => pc \in WholePoints
      /\ pc' \notin {"ready", "header", "operations", "intents", "staging"}
  BY CommitWhole DEF EarlyPoints
<1>2. kind' = kind
  BY CommitFrame DEF Frame
<1>3. ASSUME pc' \in WholePoints
      PROVE  \A p \in Path : kind'[p] # "create" => backup'[p] = "bak"
  <2>1. pc \in WholePoints
    BY <1>1, <1>3
  <2>2. \A p \in Path : kind[p] # "create" => backup[p] = "bak"
    BY <2>1 DEF Supplied, Backed, WholePoints, BackedPoints
  <2>3. pc \notin {"restore", "unlink_backup"}
    BY <2>1 DEF WholePoints, BeforePoints, AfterPoints
  <2>4. backup' = backup
    <3>1. CASE \/ Commit \/ Abort \/ Drop \/ VerifyAll \/ StoreFull \/ Check \/ SyncParent
               \/ Classify \/ VerifyRestored
      BY <3>1
         DEF Commit, Abort, Drop, VerifyAll, StoreFull, Check, SyncParent, Classify,
             VerifyRestored, Refuse, Quiet, Still, disk, artifacts
    <3>2. CASE \/ FinishUnchanged \/ Intend \/ CompletePath \/ FinishCommit \/ IntendRollback
               \/ FinishRollback \/ CompleteRollback
      BY <3>2
         DEF FinishUnchanged, Intend, CompletePath, FinishCommit, IntendRollback, FinishRollback,
             CompleteRollback, Log, disk, artifacts
    <3>3. CASE CreateReceipt \/ WriteReceipt \/ DiscardReceipt \/ SyncReceipt \/ DropReceipt
      BY <3>3
         DEF CreateReceipt, WriteReceipt, DiscardReceipt, SyncReceipt, DropReceipt, ReceiptStep
    <3>4. CASE LinkStage \/ UnlinkStage \/ ReplaceTarget \/ RemoveSource
      BY <3>4
         DEF LinkStage, UnlinkStage, ReplaceTarget, RemoveSource, MutateStep, Unsuited, Quiet,
             Still, disk, artifacts
    <3> QED BY <2>3, <3>1, <3>2, <3>3, <3>4 DEF CommitSteps, Restore, FinishRestore
  <2> QED BY <1>2, <2>2, <2>4
<1> QED BY <1>1, <1>3 DEF Backed, WholePoints, BackedPoints

LEMMA ProcessSupplies ==
  ASSUME TypeOK, Direction, Running, Stored, Supplied, Process PROVE Supplied'
<1>1. /\ Backed'
      /\ pc' = "finish" => \A p \in Path : kind'[p] # "create" => backup'[p] = "bak"
  <2>1. CASE Prepare
    BY <2>1, PrepareBacked, PreparePoints DEF Supplied, StillPoints
  <2>2. CASE CommitSteps
    BY <2>2, CommitBacked
  <2>3. CASE Cleanup \/ Recover
    <3>1. pc' \notin WholePoints \cup {"ready", "header", "operations", "intents", "staging"}
      BY <2>3, CleanupSheds, RecoverCall
         DEF WholePoints, BeforePoints, AfterPoints, FirstPoints, ForwardPoints
    <3> QED BY <3>1 DEF Backed, WholePoints, BackedPoints
  <2> QED BY <2>1, <2>2, <2>3 DEF Process
<1>2. ASSUME Keeping'
      PROVE  \A p \in Path : kind'[p] # "create" => "bak" \in {backup'[p], kept'[p]}
  <2>1. CASE Keeping
    BY <2>1, SuppliedKept
  <2>2. CASE ~Keeping /\ ~FinishCommit
    <3>1. Has(log, FinishedCommitted) /\ receipt # "full" /\ receipt' = "full"
      BY <1>2, <2>2, OnlyFinishCommits DEF Keeping, DecidesNothing
    <3>2. pc \notin FirstPoints
      BY <3>1 DEF Direction, IsFinished, Finished, FinishedPoints, FirstPoints, ForwardPoints,
                  BackPoints
    <3>3. pc # "drop_transitional"
      BY <3>1 DEF Stored
    <3> QED
      BY <3>1, <3>2, <3>3, PreparingCall, CommitCall, CleanupReceipt, RecoverKeepsReceipt
         DEF Process
  <2>3. CASE FinishCommit
    BY <2>3 DEF FinishCommit, Log, disk, artifacts, Supplied
  <2> QED BY <2>1, <2>2, <2>3
<1> QED BY <1>1, <1>2 DEF Supplied

LEMMA SuppliedHolds == Spec => []Supplied
<1>1. Init => Supplied
  BY DEF Init, Supplied, Backed, BackedPoints, BeforePoints, AfterPoints, Keeping
<1>2. TypeOK /\ Direction /\ Running /\ Stored /\ Supplied /\ [Next]_vars => Supplied'
  <2> SUFFICES ASSUME TypeOK, Direction, Running, Stored, Supplied, [Next]_vars PROVE Supplied'
    OBVIOUS
  <2>1. CASE Process
    BY <2>1, ProcessSupplies
  <2>2. CASE Crash
    <3>1. UNCHANGED <<kind, log, backup, kept, receipt>> /\ pc' = "down"
      BY <2>2 DEF Crash, Leave, Still, disk, artifacts
    <3> QED
      BY <3>1 DEF Supplied, Backed, BackedPoints, BeforePoints, AfterPoints, Keeping
  <2>3. CASE (\E p \in Path : Foreign(p)) \/ Resolved \/ UNCHANGED vars
    <3>1. UNCHANGED <<kind, log, pc, job, backup, kept, receipt>>
      BY <2>3 DEF Foreign, Resolved, vars, disk, artifacts, call
    <3> QED BY <3>1 DEF Supplied, Backed, Keeping
  <2> QED BY <2>1, <2>2, <2>3 DEF Next
<1> QED BY <1>1, <1>2, StoredHolds, PTL DEF Spec

(***************************************************************************)
(* remove_artifact refuses a file with two links, and retain_backups a     *)
(* backup that is neither beside its target nor moved; either would leave  *)
(* the journal unresolved for good.  No clean-up of a failed staging, of a *)
(* commit, a rollback or a recovery ever comes to that, whatever died,     *)
(* failed or interfered before.                                            *)
(***************************************************************************)
CleanupNeverSticks ==
  /\ pc \in {"collect", "clean", "keep"} => \A p \in Path : Readable(p)
  /\ pc = "keep" => \A p \in Path : kind[p] # "create" => "bak" \in {backup[p], kept[p]}

\* The two-link file of a half-done install is told apart and dealt with before
\* every clean-up, so the guards of the removals refuse nothing.
THEOREM CleanupGoesOn == Spec => []CleanupNeverSticks
<1>1. OneLink /\ Stored /\ Supplied => CleanupNeverSticks
  BY DEF OneLink, Linkable, InstallPoints, TwoLinks, Readable, Stored, Supplied,
         CleanupNeverSticks
<1> QED BY <1>1, OneLinkHolds, StoredHolds, SuppliedHolds, PTL
=============================================================================
