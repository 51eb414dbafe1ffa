--------------------------- MODULE OperationPrepare ---------------------------
(***************************************************************************)
(* prepare_operation_plan (operation/mod.rs) and its staging (stage.rs):   *)
(* the journal is created and its preamble written, one job per path       *)
(* writes the backup and the staged output on the bounded workers of       *)
(* Scheduler, and the synchronized artifacts are recorded.                 *)
(***************************************************************************)
EXTENDS OperationState

\* Control moves on: the next path, or control point l behind the last one.
Then(here, last, l, i) == IF at < last THEN Step(here, at + 1) ELSE Step(l, i)

CreateJournal ==
  /\ pc = "ready"
  /\ journal' = TRUE
  /\ \/ Step("header", 0) /\ Steady
     \/ Fault("create", 0) /\ Leave("recovery_required")
  /\ UNCHANGED <<kind, disk, log, poisoned>>

WriteHeader ==
  /\ pc = "header"
  /\ Log(Header, Step("operations", 1), Leave("recovery_required"))

WriteOperation ==
  /\ pc = "operations"
  /\ Log(Operation(at), Then("operations", Ops, "intents", 1), Step("fail_prepare", 0))

WritePathIntent ==
  /\ pc = "intents"
  /\ Log(PathIntent(at), Then("intents", N, "staging", 0), Step("fail_prepare", 0))

-----------------------------------------------------------------------------
(* The staging jobs.                                                       *)

Busy == {p \in Path : job[p] \notin {"queued", "ok", "err", "err_dirty"}}
Cancelled == \E p \in Path : job[p] \in {"err", "err_dirty"}

JobStep(p, from, to) ==
  /\ pc = "staging" /\ job[p] = from
  /\ job' = [job EXCEPT ![p] = to]
  /\ UNCHANGED <<pc, at, retain, parsed, report, kind, journal, log, poisoned, slot, kept, receipt>>

AfterBackup(p) == IF kind[p] = "delete" THEN "sync" ELSE "stage"

AdmitJob(p) ==
  /\ ~Cancelled
  /\ Cardinality(Busy) < Workers
  /\ \A q \in 1..p-1 : job[q] # "queued"
  /\ JobStep(p, "queued", IF kind[p] = "create" THEN "stage" ELSE "backup")
  /\ Steady /\ UNCHANGED <<stage, backup>>

\* One system call of a job: it has its effect, or the job is undone.
JobCall(p, from, to, Effect, NoEffect) ==
  \/ JobStep(p, from, to) /\ Effect /\ Steady
  \/ JobStep(p, from, "undo") /\ (Effect \/ NoEffect) /\ Fault("stage", p)

\* Mutant of CreateBackup: the backup is created but never written.
CreateEmptyBackup(p) ==
  /\ JobCall(p, "backup", IF kind[p] = "delete" THEN "sync" ELSE "stage",
             backup' = [backup EXCEPT ![p] = "partial"], UNCHANGED backup)
  /\ UNCHANGED stage

CreateBackup(p) ==
  /\ JobCall(p, "backup", "backup_write",
             backup' = [backup EXCEPT ![p] = "partial"], UNCHANGED backup)
  /\ UNCHANGED stage

WriteBackup(p) ==
  /\ JobCall(p, "backup_write", IF kind[p] = "delete" THEN "sync" ELSE "stage",
             backup' = [backup EXCEPT ![p] = "bak"], UNCHANGED backup)
  /\ UNCHANGED stage

CreateStage(p) ==
  /\ JobCall(p, "stage", "stage_write",
             stage' = [stage EXCEPT ![p] = "partial"], UNCHANGED stage)
  /\ UNCHANGED backup

WriteStage(p) ==
  /\ JobCall(p, "stage_write", "sync",
             stage' = [stage EXCEPT ![p] = "new"], UNCHANGED stage)
  /\ UNCHANGED backup

SyncArtifacts(p) ==
  JobCall(p, "sync", "ok", UNCHANGED <<stage, backup>>, UNCHANGED <<stage, backup>>)

\* Mutant of UndoJob: the backup is left behind.
UndoStageOnly(p) ==
  JobStep(p, "undo", "failed") /\ Gone(stage, p) /\ Steady /\ UNCHANGED backup

\* A failed job removes its stage, then its backup; a removal that fails ends
\* it there, with an error that asks for recovery.
UndoJob(p) ==
  \/ JobStep(p, "undo", "failed") /\ Gone(stage, p) /\ Gone(backup, p) /\ Steady
  \/ /\ JobStep(p, "undo", "dirty") /\ Fault("undo", p)
     /\ \/ UNCHANGED <<stage, backup>>
        \/ Gone(stage, p) /\ UNCHANGED backup

\* The worker stores the failed result and raises the cancellation flag.
CancelJobs(p) ==
  /\ JobStep(p, "failed", "err") \/ JobStep(p, "dirty", "err_dirty")
  /\ Steady /\ UNCHANGED <<stage, backup>>

StageJob(p) ==
  \/ AdmitJob(p)   \/ CreateBackup(p)  \/ WriteBackup(p) \/ CreateStage(p)
  \/ WriteStage(p) \/ SyncArtifacts(p) \/ UndoJob(p)     \/ CancelJobs(p)

-----------------------------------------------------------------------------
(* Joining the jobs.                                                       *)

Failures == {p \in Path : job[p] \in {"err", "err_dirty"}}

\* Every worker has come home; after a failure the artifacts of the jobs that
\* went well are removed.
Join ==
  /\ pc = "staging"
  /\ Busy = {}
  /\ \/ Failures # {} /\ Step("collect", 0)
     \/ Failures = {} /\ (\A p \in Path : job[p] = "ok") /\ Step("staged", 1)
  /\ Quiet

Staged(p) == job[p] = "ok" /\ (stage[p] # "none" \/ backup[p] # "none")

\* cleanup of the collected paths, and then the error of the lowest failed one.
Collect ==
  /\ pc = "collect"
  /\ \/ \E p \in Path :
          /\ First({q \in Path : Staged(q)}, p)
          /\ RemoveStage(p) \/ (stage[p] = "none" /\ RemoveBackup(p))
     \/ /\ \A p \in Path : ~Staged(p)
        /\ \E p \in Path :
             /\ First(Failures, p)
             /\ \/ job[p] = "err" /\ Step("fail_prepare", 0)
                \/ job[p] = "err_dirty" /\ Leave("recovery_required")
        /\ Quiet

FailPrepare ==
  /\ pc = "fail_prepare"
  /\ Log(FinishedAborted, Step("remove_journal", 0), Leave("recovery_required"))

WritePathStaged ==
  /\ pc = "staged"
  /\ Log(PathStaged(at), Then("staged", N, "prepare", 0), Leave("recovery_required"))

WritePrepared ==
  /\ pc = "prepare"
  /\ Log(Prepared, Step("prepared", 0), Leave("recovery_required"))

Prepare ==
  \/ CreateJournal \/ WriteHeader \/ WriteOperation \/ WritePathIntent
  \/ \E p \in Path : StageJob(p)
  \/ Join \/ Collect \/ FailPrepare \/ WritePathStaged \/ WritePrepared
=============================================================================
