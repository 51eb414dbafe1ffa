---------------------------- MODULE EditTransaction ----------------------------
(***************************************************************************)
(* One V1 edit transaction (transaction/): existing files are modified,    *)
(* behind a journal of its own, by code of its own.  Preparation, commit,  *)
(* rollback and recovery differ from the V3 transaction in what they check *)
(* and in which order: a restore is announced after the target was looked  *)
(* at, and recovery passes a restored path without a record.               *)
(*                                                                         *)
(* A file is where it came from: "old" (found at preparation), "new" (the  *)
(* staged output), "bak" (the backup, of the same content as old) or "ext" *)
(* (somebody else's).                                                      *)
(***************************************************************************)
EXTENDS EditJournal

CONSTANTS
  MaxDeaths,    \* bound on process deaths
  MaxFaults,    \* bound on failing system calls
  MaxForeign    \* bound on changes by writers that ignore the root lock

ASSUME EditBounds == {MaxDeaths, MaxFaults, MaxForeign} \subseteq Nat

VARIABLES
  slot,      \* the target name: "none", "old", "new", "bak" or "ext"
  stage,     \* the staged output beside it: "none", "partial" or "new"
  backup,    \* the backup beside it: "none", "partial" or "bak"
  journal,   \* whether active.jsonl exists
  log,       \* its complete records
  poisoned,  \* the journal writer saw a failed append
  pc, at,    \* control point of the running call, and the path it is at
  job,       \* control point of each staging job
  parsed,    \* the journal as the running recovery parsed it
  report,    \* what the last call returned
  deaths, faults, foreign

artifacts == <<stage, backup>>
disk == <<slot, artifacts, journal>>
call == <<pc, at, job, parsed, report>>
env  == <<deaths, faults, foreign>>
vars == <<disk, log, poisoned, call, env>>

JobStates == {"queued", "backup", "stage", "output", "verify", "ok", "failed", "cancelled"}
Reports   == {"none", "committed", "unchanged", "recovery_required", "refused", "corrupt"}

-----------------------------------------------------------------------------
(* Control.                                                                *)

Idle == [p \in Path |-> "queued"]

Step(l, i) == pc' = l /\ at' = i /\ UNCHANGED <<job, parsed, report>>

\* The call returns r; its memory, its writer and the root lock are dropped.
Leave(r) == pc' = "down" /\ at' = 0 /\ job' = Idle /\ parsed' = <<>> /\ report' = r

Steady == UNCHANGED env
Still  == UNCHANGED <<disk, log, poisoned>>
Quiet  == Still /\ Steady

Fault == faults < MaxFaults /\ faults' = faults + 1 /\ UNCHANGED <<deaths, foreign>>

\* A system call: it works, or it fails with its effect or without it.
Call(Effect, NoEffect, Ok, Fail) ==
  \/ Effect /\ Ok /\ Steady
  \/ Fault /\ (Effect \/ NoEffect) /\ Fail

\* JournalWriter::append: durable; or refused, by a poisoned writer or for the
\* byte limit; or failed, durable or not, and the writer is poisoned.
Log(r, Ok, Fail) ==
  /\ \/ ~poisoned /\ log' = Append(log, r) /\ UNCHANGED poisoned /\ Ok /\ Steady
     \/ poisoned /\ UNCHANGED <<log, poisoned>> /\ Fail /\ Steady
     \/ ~poisoned /\ UNCHANGED <<log, poisoned>> /\ Fail /\ Fault
     \/ ~poisoned /\ log' \in {log, Append(log, r)} /\ poisoned' = TRUE /\ Fail /\ Fault
  /\ UNCHANGED disk

Becomes(p, file) == slot' = [slot EXCEPT ![p] = file]
Put(file, p, x)  == file' = [file EXCEPT ![p] = x]

-----------------------------------------------------------------------------
(* prepare_transaction: the root lock is held and no journal is pending.   *)

\* validate_plan and preflight: the plan may break a limit, a target be missing.
Preflight ==
  /\ pc = "ready"
  /\ \/ (\A p \in Path : slot[p] # "none") /\ Step("project", 0)
     \/ Leave("unchanged")
  /\ Quiet

\* project_target: every target is read and has the content the plan names.
Project ==
  /\ pc = "project"
  /\ \/ (\A p \in Path : slot[p] = "old") /\ Step("create", 0)
     \/ Leave("unchanged")
  /\ Quiet

CreateJournal ==
  /\ pc = "create"
  /\ Call(journal' = TRUE, UNCHANGED journal, Step("header", 0), Leave("recovery_required"))
  /\ UNCHANGED <<slot, artifacts, log, poisoned>>

WriteHeader == pc = "header" /\ Log(Header, Step("record", 1), Leave("recovery_required"))

\* append_file_record for every file, before any job.
RecordFile ==
  /\ pc = "record"
  /\ Log(PreparedFile(at), IF at < N THEN Step("record", at + 1) ELSE Step("stage", 0),
         Step("abort", 0))

-----------------------------------------------------------------------------
(* stage_one, on the worker pool of Scheduler: jobs start in order, and    *)
(* behind a failed one they may be cancelled.                              *)

JobStep(p, from, to) ==
  /\ pc = "stage" /\ job[p] = from
  /\ job' = [job EXCEPT ![p] = to]
  /\ UNCHANGED <<pc, at, parsed, report, slot, journal, log, poisoned>>

Admissible(p) == \A q \in 1..p-1 : job[q] \notin {"queued", "cancelled"}

StartJob(p) ==
  /\ Admissible(p)
  /\ JobStep(p, "queued", "backup")
  /\ Put(backup, p, "partial") /\ UNCHANGED stage /\ Steady

WriteBackup(p) ==
  JobStep(p, "backup", "stage") /\ Put(backup, p, "bak") /\ UNCHANGED stage /\ Steady

CreateStage(p) ==
  JobStep(p, "stage", "output") /\ Put(stage, p, "partial") /\ UNCHANGED backup /\ Steady

WriteStage(p) ==
  JobStep(p, "output", "verify") /\ Put(stage, p, "new") /\ UNCHANGED backup /\ Steady

VerifyArtifacts(p) ==
  JobStep(p, "verify", "ok") /\ UNCHANGED artifacts /\ Steady

\* A job fails.  It removes its artifacts, as far as that works.
FailJob(p) ==
  /\ job[p] \notin {"queued", "ok", "failed", "cancelled"} /\ JobStep(p, job[p], "failed")
  /\ \E x \in {"none", stage[p]}, y \in {"none", backup[p]} :
       Put(stage, p, x) /\ Put(backup, p, y)
  /\ Fault

CancelJob(p) ==
  /\ \E q \in 1..p-1 : job[q] = "failed"
  /\ JobStep(p, "queued", "cancelled")
  /\ UNCHANGED artifacts /\ Steady

\* Mutant of CollectStaged: the failed job has cleaned up, so nobody else does.
CollectUnclean ==
  /\ pc = "stage"
  /\ \A p \in Path : job[p] \in {"ok", "failed", "cancelled"}
  /\ IF \A p \in Path : job[p] = "ok" THEN Step("staged", 0) ELSE Step("abort", 0)
  /\ Quiet

CollectStaged ==
  /\ pc = "stage"
  /\ \A p \in Path : job[p] \in {"ok", "failed", "cancelled"}
  /\ IF \A p \in Path : job[p] = "ok" THEN Step("staged", 0) ELSE Step("discard", 1)
  /\ Quiet

WritePrepared ==
  pc = "staged" /\ Log(Prepared, Step("prepared", 0), Leave("recovery_required"))

\* finish_aborted: nothing is left beside the targets.
FinishAborted ==
  pc = "abort" /\ Log(Finished("aborted"), Step("drop", 0), Leave("recovery_required"))

-----------------------------------------------------------------------------
(* commit, abort, or the transaction is dropped and left to recovery.      *)

Drop == pc = "prepared" /\ Leave("recovery_required") /\ Quiet

Abort ==
  pc = "prepared" /\ Log(Finished("aborted"), Step("clean", 1), Leave("recovery_required"))

\* verify_all_backups.
Commit ==
  /\ pc = "prepared"
  /\ \/ (\A p \in Path : backup[p] = "bak") /\ Step("check", 1) /\ Steady
     \/ Step("undo", 0) /\ Fault
  /\ Still

\* Mutant of Check: the target is not looked at again.
CheckStage ==
  /\ pc = "check"
  /\ stage[at] = "new" /\ Step("intent", at) /\ Steady
  /\ Still

Check ==
  /\ pc = "check"
  /\ \/ slot[at] = "old" /\ stage[at] = "new" /\ Step("intent", at) /\ Steady
     \/ ~(slot[at] = "old" /\ stage[at] = "new") /\ Step("undo", at - 1) /\ Steady
     \/ Step("undo", at - 1) /\ Fault
  /\ Still

\* Mutant of Intend: the intent is taken for written.
IntendLater == pc = "intent" /\ Step("replace", at) /\ Quiet

Intend ==
  pc = "intent" /\ Log(CommitIntent(at), Step("replace", at), Step("undo", at - 1))

ReplaceTarget ==
  /\ pc = "replace"
  /\ Call(Becomes(at, "new") /\ Put(stage, at, "none"), UNCHANGED <<slot, stage>>,
          Step("sync", at), Step("classify", at))
  /\ UNCHANGED <<backup, journal, log, poisoned>>

\* Mutant of Classify: a failed rename is taken for one without effect.
ClassifyUnchanged == pc = "classify" /\ Step("undo", at - 1) /\ Quiet

\* classify_failed_rename.
Classify ==
  /\ pc = "classify"
  /\ \/ slot[at] = "new" /\ Step("undo", at)
     \/ slot[at] = "old" /\ Step("undo", at - 1)
     \/ slot[at] \notin {"old", "new"} /\ Leave("recovery_required")
  /\ Quiet

SyncParent ==
  pc = "sync" /\ Call(TRUE, TRUE, Step("complete", at), Step("undo", at)) /\ Still

CompletePath ==
  /\ pc = "complete"
  /\ Log(Committed(at), IF at < N THEN Step("check", at + 1) ELSE Step("finish", 0),
         Step("undo", at))

FinishCommit ==
  /\ pc = "finish"
  /\ Log(Finished("committed"), Step("clean", 1), Leave("recovery_required"))

-----------------------------------------------------------------------------
(* rollback_committed, from path at downwards, and rollback_unfinished of  *)
(* a recovery, which decides from the disk what there is to do.            *)

Recovering == parsed # <<>>

\* rollback_one: the target and the backup are looked at first.
Look ==
  /\ pc = "undo" /\ at > 0 /\ ~Recovering
  /\ \/ slot[at] = "new" /\ backup[at] = "bak" /\ Step("announce", at)
     \/ ~(slot[at] = "new" /\ backup[at] = "bak") /\ Leave("refused")
  /\ Quiet

Uncommitted == at \notin CommitIntents(parsed)

\* Mutant of Restored: only the file found at preparation counts.
RestoredOriginal(p) == slot[p] = "old"

\* By its content.
Restored(p) == slot[p] \in {"old", "bak"}

PassRestored ==
  /\ pc = "undo" /\ at > 0 /\ Recovering
  /\ Uncommitted \/ Restored(at)
  /\ Step("undo", at - 1) /\ Quiet

\* restore_file, up to the verification of the backup.
RecoverPath ==
  /\ pc = "undo" /\ at > 0 /\ Recovering
  /\ ~Uncommitted /\ ~Restored(at)
  /\ \/ slot[at] = "new" /\ backup[at] = "bak" /\ Step("announce", at)
     \/ ~(slot[at] = "new" /\ backup[at] = "bak") /\ Leave("refused")
  /\ Quiet

Announce ==
  pc = "announce" /\ Log(RollbackIntent(at), Step("restore", at), Leave("recovery_required"))

\* Also of a path whose restore is announced already, by a process that died.
Restore ==
  /\ pc = "restore"
  /\ Call(Becomes(at, "bak") /\ Put(backup, at, "none"), UNCHANGED <<slot, backup>>,
          Step("record_restore", at), Leave("recovery_required"))
  /\ UNCHANGED <<stage, journal, log, poisoned>>

RecordRestore ==
  /\ pc = "record_restore"
  /\ Log(RolledBack(at), Step("undo", at - 1), Leave("recovery_required"))

FinishRollback ==
  /\ pc = "undo" /\ at = 0
  /\ Log(Finished("rolled_back"), Step("clean", 1), Leave("recovery_required"))

-----------------------------------------------------------------------------
(* cleanup_staged, cleanup_artifacts and cleanup_recovered, path by path,  *)
(* then the journal goes.                                                  *)

CleanStage ==
  /\ pc \in {"discard", "clean"} /\ stage[at] # "none"
  /\ Call(Put(stage, at, "none"), UNCHANGED stage, UNCHANGED call, Leave("recovery_required"))
  /\ UNCHANGED <<slot, backup, journal, log, poisoned>>

CleanBackup ==
  /\ pc \in {"discard", "clean"} /\ stage[at] = "none" /\ backup[at] # "none"
  /\ Call(Put(backup, at, "none"), UNCHANGED backup, UNCHANGED call, Leave("recovery_required"))
  /\ UNCHANGED <<slot, stage, journal, log, poisoned>>

\* Mutant of CleanNext: one path too many.
CleanPastEnd ==
  /\ pc \in {"discard", "clean"} /\ stage[at] = "none" /\ backup[at] = "none"
  /\ IF at <= N THEN Step(pc, at + 1)
     ELSE IF pc = "discard" THEN Step("abort", 0) ELSE Step("drop", 0)
  /\ Quiet

CleanNext ==
  /\ pc \in {"discard", "clean"} /\ stage[at] = "none" /\ backup[at] = "none"
  /\ IF at < N THEN Step(pc, at + 1)
     ELSE IF pc = "discard" THEN Step("abort", 0) ELSE Step("drop", 0)
  /\ Quiet

DropJournal ==
  /\ pc = "drop"
  /\ Call(journal' = FALSE /\ log' = <<>>, UNCHANGED <<journal, log>>,
          Leave(IF Has(log, Finished("committed")) THEN "committed" ELSE "unchanged"),
          Leave("recovery_required"))
  /\ UNCHANGED <<slot, artifacts, poisoned>>

-----------------------------------------------------------------------------
(* recover_transaction: the journal is parsed, a torn tail is cut off, and *)
(* the writer goes on behind it.                                           *)

Recover ==
  /\ pc = "down" /\ journal
  /\ \/ log = <<>> /\ Step("drop", 0)
     \/ log # <<>> /\ ~Replayable(log) /\ Leave("corrupt")
     \/ /\ log # <<>> /\ Replayable(log)
        /\ parsed' = log /\ pc' = "recover" /\ at' = 0 /\ UNCHANGED <<job, report>>
  /\ poisoned' = FALSE
  /\ UNCHANGED <<disk, log>> /\ Steady

\* What verify_finished asks of path p.
Expected(p) ==
  IF Has(parsed, Finished("committed")) THEN {"new"}
  ELSE IF p \in CommitIntents(parsed) THEN {"old", "bak"}
  ELSE {"none", "old", "new", "bak", "ext"}

RecoverFinished ==
  /\ pc = "recover" /\ IsFinished(parsed)
  /\ \/ (\A p \in Path : slot[p] \in Expected(p)) /\ Step("clean", 1)
     \/ (\E p \in Path : slot[p] \notin Expected(p)) /\ Leave("refused")
  /\ Quiet

RecoverStaging ==
  /\ pc = "recover" /\ ~IsFinished(parsed) /\ CommitIntents(parsed) = {}
  /\ Log(Finished("aborted"), Step("clean", 1), Leave("recovery_required"))

RecoverUnfinished ==
  /\ pc = "recover" /\ ~IsFinished(parsed) /\ CommitIntents(parsed) # {}
  /\ Step("undo", N) /\ Quiet

-----------------------------------------------------------------------------
(* The environment.                                                        *)

Init ==
  /\ slot = [p \in Path |-> "old"]
  /\ stage = [p \in Path |-> "none"] /\ backup = [p \in Path |-> "none"]
  /\ journal = FALSE /\ log = <<>> /\ poisoned = FALSE
  /\ pc = "ready" /\ at = 0 /\ job = Idle /\ parsed = <<>> /\ report = "none"
  /\ deaths = 0 /\ faults = 0 /\ foreign = 0

Crash ==
  /\ pc # "down" /\ deaths < MaxDeaths
  /\ deaths' = deaths + 1
  /\ Leave("none")
  /\ Still /\ UNCHANGED <<faults, foreign>>

\* The last look at the target of path p is past, the rename is to come.  The
\* record in between is synchronized inside this window.
RaceWindow(p) == at = p /\ pc \in {"intent", "replace", "announce", "restore"}

Over == pc = "down" /\ ~journal

\* Any other program replaces or deletes a target.
Foreign(p) ==
  /\ ~Over /\ ~RaceWindow(p)
  /\ foreign < MaxForeign
  /\ foreign' = foreign + 1
  /\ \E file \in {"ext", "none"} \ {slot[p]} : Becomes(p, file)
  /\ UNCHANGED <<artifacts, journal, log, poisoned, call, deaths, faults>>

Job(p) ==
  \/ StartJob(p) \/ WriteBackup(p) \/ CreateStage(p) \/ WriteStage(p)
  \/ VerifyArtifacts(p) \/ FailJob(p) \/ CancelJob(p)

Process ==
  \/ Preflight \/ Project \/ CreateJournal \/ WriteHeader \/ RecordFile
  \/ (\E p \in Path : Job(p)) \/ CollectStaged \/ WritePrepared \/ FinishAborted
  \/ Drop \/ Abort \/ Commit
  \/ Check \/ Intend \/ ReplaceTarget \/ Classify \/ SyncParent \/ CompletePath \/ FinishCommit
  \/ Look \/ PassRestored \/ RecoverPath \/ Announce \/ Restore \/ RecordRestore
  \/ FinishRollback
  \/ CleanStage \/ CleanBackup \/ CleanNext \/ DropJournal
  \/ Recover \/ RecoverFinished \/ RecoverStaging \/ RecoverUnfinished

Resolved == Over /\ UNCHANGED vars

Next == Process \/ Crash \/ (\E p \in Path : Foreign(p)) \/ Resolved

\* A running call is scheduled, and a process that finds the journal recovers.
Spec == Init /\ [][Next]_vars /\ WF_vars(Process)

-----------------------------------------------------------------------------
(* Properties.                                                             *)

PathPoints ==
  {"record", "check", "intent", "replace", "classify", "sync", "complete", "announce",
   "restore", "record_restore", "discard", "clean"}
CallPoints ==
  {"ready", "project", "create", "header", "stage", "staged", "abort", "prepared", "finish",
   "drop", "down", "recover"}

DiskOK ==
  /\ slot \in [Path -> {"none", "old", "new", "bak", "ext"}]
  /\ stage \in [Path -> {"none", "partial", "new"}]
  /\ backup \in [Path -> {"none", "partial", "bak"}]
  /\ journal \in BOOLEAN

LogOK == log \in Seq(Record) /\ poisoned \in BOOLEAN

CallOK ==
  /\ \/ pc \in CallPoints /\ at = 0
     \/ pc \in PathPoints /\ at \in Path
     \/ pc = "undo" /\ at \in 0..N
  /\ job \in [Path -> JobStates]
  /\ parsed \in Seq(Record)
  /\ report \in Reports

EnvOK == deaths \in 0..MaxDeaths /\ faults \in 0..MaxFaults /\ foreign \in 0..MaxForeign

\* Type invariant: a call that is at a path is at a path of the plan.
TypeOK == DiskOK /\ LogOK /\ CallOK /\ EnvOK

(***************************************************************************)
(* The abstract transaction this one implements.  It is decided when the   *)
(* record Finished(COMMITTED) is durable, and closed when the journal is   *)
(* removed.                                                                *)
(***************************************************************************)
Tree ==
  IF Has(log, Finished("committed")) \/ (~journal /\ \A p \in Path : slot[p] = "new")
  THEN "after" ELSE "before"

Found(p) ==
  CASE slot[p] = "new"            -> "after"
    [] slot[p] \in {"old", "bak"} -> "before"
    [] OTHER                      -> "neither"

Atomic == INSTANCE AtomicApply WITH
  tree <- Tree,
  open <- ~Over,
  found <- [p \in Path |-> IF Over THEN Found(p) ELSE "unknown"],
  answer <- IF report \in {"committed", "unchanged"} THEN report ELSE "unsure",
  disturbed <- foreign > 0

(***************************************************************************)
(* Crash-recoverable all-or-restored: whatever fails or dies, the files    *)
(* end up all changed or all as they were, that is decided by one record,  *)
(* and a caller that is told an outcome is told the one on the disk.       *)
(***************************************************************************)
ImplementsAtomicApply == Atomic!Spec

\* Each restore is announced once: the process that announced it did it.
Twice(j, r) == \E k, l \in DOMAIN j : k # l /\ j[k] = r /\ j[l] = r
AnnouncedOnce == \A p \in Path : ~Twice(log, RollbackIntent(p))

(***************************************************************************)
(* Recovery can explain every journal and every disk this engine leaves    *)
(* behind, as long as no restore was interrupted between its announcement  *)
(* and the rename.                                                         *)
(***************************************************************************)
EditNeverRefuses ==
  foreign = 0 /\ AnnouncedOnce => report \notin {"refused", "corrupt"}

(***************************************************************************)
(* What the documentation says: "an interrupted transaction remains        *)
(* recoverable from a synchronized journal".                               *)
(***************************************************************************)
AlwaysRecoverable == foreign = 0 => report # "corrupt"

\* Nothing is left beside the targets once the journal, the only record of the
\* artifact names, is removed.
EditNoOrphans == Over => \A p \in Path : stage[p] = "none" /\ backup[p] = "none"

(***************************************************************************)
(* Rollback and recovery never replace or remove a file that somebody else *)
(* put in the place of a target, and commit replaces none it looked at.    *)
(***************************************************************************)
ForeignPreserved ==
  [][\A p \in Path : slot[p] = "ext" /\ foreign' = foreign => slot'[p] = "ext"]_vars

\* Once the deaths and failures stop, repeated recovery removes the journal.
EditResolves == journal ~> (~journal \/ foreign > 0 \/ ~AnnouncedOnce)
=============================================================================
