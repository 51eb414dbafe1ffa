---------------------------- MODULE OperationState ----------------------------
(***************************************************************************)
(* State of one V3 operation transaction: the disk, the journal on it, and *)
(* the memory of the call that is running (prepare, commit, abort or       *)
(* recover), with the helpers every step of those calls is written with.   *)
(*                                                                         *)
(* One path of the plan is one slot.  A file is represented by where it    *)
(* came from, which is what the identity, hash and permission evidence of  *)
(* the code tells apart: the file found at preparation (old), the staged   *)
(* output (new), the backup copy of old (bak) and anything some other      *)
(* writer put there (ext).                                                 *)
(***************************************************************************)
EXTENDS JournalGrammar

CONSTANTS
  Workers,      \* staging workers
  Capacity,     \* max_journal_bytes, in units of Weight
  Modes,        \* calls to explore: FALSE commit, TRUE commit_retained
  MaxCrashes,   \* bound on process deaths
  MaxFaults,    \* bound on failing system calls
  MaxForeign,   \* bound on changes by writers that ignore the root lock
  Faulty        \* the <<call, path>> pairs that may fail

ASSUME OperationAssumption ==
  /\ Workers \in Nat \ {0}
  /\ Modes \subseteq BOOLEAN
  /\ {Capacity, MaxCrashes, MaxFaults, MaxForeign} \subseteq Nat

Kinds == {"create", "modify", "delete"}

VARIABLES
  kind,      \* what the plan does to each path; fixed by the plan
  slot,      \* the target name: "none", "old", "new", "bak" or "ext"
  stage,     \* the staged output beside it: "none", "partial" or "new"
  backup,    \* the backup beside it: "none", "partial" or "bak"
  kept,      \* the backup in the state directory: "none" or "bak"
  receipt,   \* the undo receipt: "none", "torn" or "full"
  journal,   \* whether active-v3.jsonl exists
  log,       \* its complete records
  poisoned,  \* the journal writer saw a failed append
  pc, at,    \* control point of the running call, and the path it is at
  job,       \* control point of each staging job
  retain,    \* the call is commit_retained
  parsed,    \* the journal as the running recovery parsed it
  report,    \* what the last call returned
  crashes, faults, foreign

artifacts == <<stage, backup, kept, receipt>>
disk      == <<slot, artifacts>>
call      == <<pc, at, job, retain, parsed, report>>
env       == <<crashes, faults, foreign>>
vars      == <<kind, disk, journal, log, poisoned, call, env>>

JobStates == {"queued", "backup", "backup_write", "stage", "stage_write", "sync",
              "ok", "undo", "failed", "dirty", "err", "err_dirty"}

Reports == {"none", "committed", "unchanged", "recovery_required", "refused", "corrupt"}

-----------------------------------------------------------------------------
(* What the evidence checks of the code tell apart.                        *)

\* The exact state before the plan, and the state it asks for.
Before(p) == IF kind[p] = "create" THEN "none" ELSE "old"
After(p)  == IF kind[p] = "delete" THEN "none" ELSE "new"

\* A target and an artifact that are two links of one file.
LinkedStage(p)  == slot[p] = "new" /\ stage[p] = "new"
LinkedBackup(p) == slot[p] = "bak" /\ backup[p] = "bak"

\* Slot evidence is refused for a file with two links.
Readable(p) == ~LinkedStage(p) /\ ~LinkedBackup(p)

\* Mutant of MatchesBefore: only the original file counts as the before state.
MatchesOriginal(p) == Readable(p) /\ slot[p] = Before(p)

\* Recovery takes a restored backup for the before state.
MatchesBefore(p) ==
  Readable(p) /\ slot[p] \in (IF kind[p] = "create" THEN {"none"} ELSE {"old", "bak"})
MatchesAfter(p) == Readable(p) /\ slot[p] = After(p)

Recovering == parsed # <<>>

-----------------------------------------------------------------------------
(* Control.                                                                *)

Idle == [p \in Path |-> "queued"]

\* The call goes on at control point l, path i.
Step(l, i) == pc' = l /\ at' = i /\ UNCHANGED <<job, retain, parsed, report>>

\* The call returns r and its memory, writer and lock are dropped.
Leave(r) ==
  /\ pc' = "down" /\ at' = 0 /\ job' = Idle /\ retain' = FALSE /\ parsed' = <<>>
  /\ report' = r

Steady == UNCHANGED env

\* A system call named c, working on path p, fails.
Fault(c, p) ==
  /\ <<c, p>> \in Faulty
  /\ faults < MaxFaults
  /\ faults' = faults + 1
  /\ UNCHANGED <<crashes, foreign>>

\* The system call c on path p: it has its Effect and the call goes on with
\* Ok, or it fails with or without the effect and the call goes on with Fail.
Call(c, p, Effect, NoEffect, Ok, Fail) ==
  \/ Effect /\ Ok /\ Steady
  \/ Fault(c, p) /\ (Effect \/ NoEffect) /\ Fail

\* The lowest member of a set of paths.
First(S, p) == p \in S /\ \A q \in S : p <= q

-----------------------------------------------------------------------------
(* The journal.                                                            *)

Weight(j) ==
  Len(j) + Cardinality({k \in DOMAIN j :
             j[k].type \in {"Header", "Operation", "PathIntent", "PathStaged"}})

\* The record is durable, refused before a byte is written, or fails on its
\* way: then it may be durable or not, and the writer takes no more records.
Accepted(r) == ~poisoned /\ Weight(Append(log, r)) <= Capacity

Logged(r) == Accepted(r) /\ log' = Append(log, r) /\ Steady /\ UNCHANGED poisoned

NotLogged(r) ==
  \/ ~Accepted(r) /\ UNCHANGED <<log, poisoned>> /\ Steady
  \/ /\ Accepted(r) /\ Fault("append", 0)
     /\ poisoned' = TRUE
     /\ log' \in {log, Append(log, r)}

\* Writer::append(r): Ok and Fail say where the call goes on.
Log(r, Ok, Fail) ==
  /\ \/ Logged(r) /\ Ok
     \/ NotLogged(r) /\ Fail
  /\ UNCHANGED <<kind, disk, journal>>

\* One artifact of path p is removed (remove_artifact).  The code refuses an
\* artifact with two links; here such a state has no successor, and the
\* deadlock check of every run shows that no cleanup meets one.
Gone(file, p) == file' = [file EXCEPT ![p] = "none"]

RemoveStage(p) ==
  /\ stage[p] # "none" /\ ~LinkedStage(p)
  /\ Call("clean", p, Gone(stage, p), UNCHANGED stage,
          UNCHANGED call, Leave("recovery_required"))
  /\ UNCHANGED <<backup, kind, slot, kept, receipt, journal, log, poisoned>>

RemoveBackup(p) ==
  /\ backup[p] # "none" /\ ~LinkedBackup(p)
  /\ Call("clean", p, Gone(backup, p), UNCHANGED backup,
          UNCHANGED call, Leave("recovery_required"))
  /\ UNCHANGED <<stage, kind, slot, kept, receipt, journal, log, poisoned>>

\* A step that touches neither the disk nor the journal, and does not fail.
Still == UNCHANGED <<kind, disk, journal, log, poisoned>>
Quiet == Still /\ Steady

\* The call stops because of what it found.
Refuse(r) == Leave(r) /\ Quiet

-----------------------------------------------------------------------------
(* Restoring path at, by a failed commit or by a recovery: r is what the   *)
(* call returns when the disk is not as it must be.                        *)

Becomes(p, file) == slot' = [slot EXCEPT ![p] = file]

RestoreStep(Effect, NoEffect, next) ==
  /\ Call("restore", at, Effect, NoEffect, Step(next, at), Leave("recovery_required"))
  /\ UNCHANGED <<kind, kept, receipt, journal, log, poisoned>>

\* remove_exact, or rollback_linked_install while the stage is still linked.
RemoveCreated(next, r) ==
  \/ /\ slot[at] = "new"
     /\ RestoreStep(Becomes(at, "none"), UNCHANGED slot, next)
     /\ UNCHANGED <<stage, backup>>
  \/ slot[at] # "new" /\ Refuse(r)

\* replace_from(backup): a rename over whatever is there.
RenameBackup(next) ==
  /\ RestoreStep(Becomes(at, "bak") /\ Gone(backup, at), UNCHANGED <<slot, backup>>, next)
  /\ UNCHANGED stage

\* link_absent_from(backup): the first half of install_absent_from.
LinkBackup(next) ==
  /\ RestoreStep(Becomes(at, "bak"), UNCHANGED slot, next)
  /\ UNCHANGED <<stage, backup>>

\* finish_linked_install(backup): the second half.
UnlinkBackup(next, r) ==
  \/ /\ LinkedBackup(at)
     /\ RestoreStep(Gone(backup, at), UNCHANGED backup, next)
     /\ UNCHANGED <<slot, stage>>
  \/ ~LinkedBackup(at) /\ Refuse(r)
=============================================================================
