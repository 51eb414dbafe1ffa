------------------------- MODULE EditTransactionProofs -------------------------
(***************************************************************************)
(* The V1 edit transaction implements the atomic one, leaves nothing       *)
(* behind, destroys nobody's file and can always be recovered unless it    *)
(* announced a restore twice, for any number of paths, deaths, failing     *)
(* calls and foreign changes.                                              *)
(***************************************************************************)
EXTENDS EditTransaction, TLAPS

USE EditAssumption, EditBounds DEF Path

-----------------------------------------------------------------------------
(* The inductive invariant.                                                *)

Clear(p) == stage[p] = "none" /\ backup[p] = "none"

\* Which control points there are without a journal, before its first record and
\* behind its last one, and where no artifact can be left.
Phases ==
  /\ ~journal => log = <<>> /\ pc \in {"ready", "project", "create", "down"}
  /\ pc \in {"ready", "project", "create"} => ~journal
  /\ log = <<>> => pc \in {"ready", "project", "create", "header", "drop", "down"}
  /\ pc = "header" => log = <<>>
  /\ IsFinished(log) => pc \in {"clean", "drop", "down", "recover"}
  /\ pc \in {"clean", "drop"} => IsFinished(log) \/ (pc = "drop" /\ log = <<>>)
  /\ pc = "recover" => parsed = log /\ log # <<>>
  /\ Recovering =>
       pc \in {"recover", "undo", "announce", "restore", "record_restore", "clean", "drop"}
  /\ report \in {"committed", "unchanged"} => Over

Swept ==
  /\ log = <<>> \/ pc \in {"record", "abort", "drop"} => \A p \in Path : Clear(p)
  /\ pc \in {"clean", "discard"} => \A q \in 1..at-1 : Clear(q)

\* Where a rename may follow, its target has been looked at.
LookedAt ==
  /\ pc \in {"intent", "replace"} => slot[at] = "old"
  /\ pc \in {"announce", "restore"} => slot[at] = "new"

\* The log explains the disk ...
Explained ==
  foreign = 0 =>
    /\ ~Over => \A p \in Path : p \notin CommitIntents(log) => slot[p] = "old"
    /\ Has(log, Finished("committed")) => \A p \in Path : slot[p] = "new"
    /\ Has(log, Finished("rolled_back")) \/ Has(log, Finished("aborted")) =>
         \A p \in Path : Restored(p)

Unstarted ==
  {"ready", "project", "create", "header", "record", "stage", "staged", "prepared",
   "discard", "abort"}

\* ... and the control point says how far the call has come.
Progress ==
  foreign = 0 =>
    /\ pc \in Unstarted => \A p \in Path : slot[p] = "old"
    /\ pc = "replace" => at \in CommitIntents(log)
    /\ pc \in {"check", "intent", "replace", "classify"} =>
         \A q \in Path : (q < at => slot[q] = "new") /\ (q > at => slot[q] = "old")
    /\ pc = "check" => slot[at] = "old"
    /\ pc \in {"sync", "complete"} =>
         \A q \in Path : (q <= at => slot[q] = "new") /\ (q > at => slot[q] = "old")
    /\ pc = "finish" => \A q \in Path : slot[q] = "new"
    /\ pc \in {"undo", "announce", "restore"} => \A q \in Path : q > at => Restored(q)
    /\ pc = "record_restore" => \A q \in Path : q >= at => Restored(q)
    /\ Recovering => \A q \in Path : q \notin CommitIntents(parsed) => Restored(q)

IInv == TypeOK /\ Phases /\ Swept /\ LookedAt /\ Explained /\ Progress

-----------------------------------------------------------------------------
(* Journals.                                                               *)

LEMMA Records ==
  /\ Header \in Record /\ Prepared \in Record
  /\ \A o \in Outcomes : Finished(o) \in Record
  /\ \A p \in Path : /\ PreparedFile(p) \in Record /\ CommitIntent(p) \in Record
                     /\ Committed(p) \in Record /\ RollbackIntent(p) \in Record
                     /\ RolledBack(p) \in Record
BY DEF Record

LEMMA Appended ==
  ASSUME NEW j \in Seq(Record), NEW r \in Record
  PROVE  /\ Append(j, r) \in Seq(Record) /\ Append(j, r) # <<>>
         /\ \A s : Has(Append(j, r), s) <=> Has(j, s) \/ s = r
<1>1. /\ Append(j, r) \in Seq(Record) /\ Append(j, r) # <<>>
      /\ DOMAIN j = 1..Len(j) /\ DOMAIN Append(j, r) = 1..Len(j)+1
      /\ Append(j, r)[Len(j)+1] = r /\ \A k \in 1..Len(j) : Append(j, r)[k] = j[k]
      /\ Len(j) \in Nat
  OBVIOUS
<1> QED
  BY <1>1 DEF Has

LEMMA NothingLogged == \A r : ~Has(<<>>, r)
BY DEF Has

\* A journal that went on, if at all, and has not ended.
Kept ==
  /\ log' \in Seq(Record) /\ (log' = <<>> => log = <<>>)
  /\ CommitIntents(log) \subseteq CommitIntents(log')
  /\ \A o \in Outcomes : Has(log', Finished(o)) <=> Has(log, Finished(o))

LEMMA GoesOn ==
  ASSUME log \in Seq(Record), NEW r \in Record \ {Finished(o) : o \in Outcomes},
         log' \in {log, Append(log, r)}
  PROVE  Kept
<1>1. CASE log' = log
  BY <1>1 DEF Kept, CommitIntents
<1>2. CASE log' = Append(log, r)
  BY <1>2, Appended DEF Kept, CommitIntents
<1> QED
  BY <1>1, <1>2

LEMMA Going ==
  LET Ends == {Finished(o) : o \in Outcomes} IN
  /\ Header \in Record \ Ends /\ Prepared \in Record \ Ends
  /\ \A p \in Path : /\ PreparedFile(p) \in Record \ Ends /\ CommitIntent(p) \in Record \ Ends
                     /\ Committed(p) \in Record \ Ends /\ RollbackIntent(p) \in Record \ Ends
                     /\ RolledBack(p) \in Record \ Ends
BY Records DEF Outcomes, Finished, Header, Prepared, PreparedFile, CommitIntent, Committed,
               RollbackIntent, RolledBack

LEMMA SameKept == log \in Seq(Record) /\ log' = log => Kept
BY DEF Kept, CommitIntents

LEMMA KeptFinished == Kept => (IsFinished(log') <=> IsFinished(log))
BY DEF Kept, IsFinished

-----------------------------------------------------------------------------
(* The bookkeeping of a step.                                              *)

\* A step of the process: nobody else, and the counters within their bounds.
Own == EnvOK' /\ foreign' = foreign

LEMMA OwnStep == EnvOK /\ (Steady \/ Fault) => Own
BY DEF EnvOK, Steady, Fault, Own, env

LEMMA StepTypes ==
  ASSUME CallOK, NEW l, NEW i, Step(l, i),
         \/ l \in CallPoints /\ i = 0
         \/ l \in PathPoints /\ i \in Path
         \/ l = "undo" /\ i \in 0..N
  PROVE  CallOK'
BY DEF CallOK, Step

LEMMA LeaveTypes == ASSUME NEW r \in Reports, Leave(r) PROVE CallOK'
BY DEF CallOK, Leave, Idle, JobStates, CallPoints

-----------------------------------------------------------------------------
(* A call that returns.                                                    *)

LEMMA LeaveStep ==
  ASSUME IInv, NEW r \in Reports, Leave(r), DiskOK', LogOK', Own, Explained',
         ~journal' => log' = <<>>,
         log' = <<>> => \A p \in Path : Clear(p)',
         r \in {"committed", "unchanged"} => ~journal'
  PROVE  IInv'
<1>1. pc' = "down" /\ at' = 0 /\ parsed' = <<>> /\ report' = r
  BY DEF Leave
<1>2. TypeOK'
  BY LeaveTypes DEF TypeOK, Own
<1>3. Phases'
  BY <1>1 DEF Phases, Recovering, Over
<1>4. Swept' /\ LookedAt' /\ Progress'
  BY <1>1 DEF Swept, LookedAt, Progress, Unstarted, Recovering
<1> QED
  BY <1>2, <1>3, <1>4 DEF IInv

\* Nothing is moved, and the transaction neither ends nor goes on to another path.
LEMMA StillExplained ==
  ASSUME IInv, UNCHANGED <<slot, foreign>>, Kept, pc # "down"
  PROVE  Explained'
BY DEF IInv, Explained, Kept, Over, Restored, Outcomes

LEMMA LeaveStill ==
  ASSUME IInv, pc # "down", NEW r \in Reports, Leave(r), Own, UNCHANGED disk,
         Kept, poisoned' \in BOOLEAN, r \in {"committed", "unchanged"} => ~journal,
         log' # log => journal
  PROVE  IInv'
<1>1. /\ UNCHANGED <<slot, stage, backup, journal>> /\ foreign' = foreign
  BY DEF disk, artifacts, Own
<1>2. DiskOK' /\ LogOK'
  BY <1>1 DEF IInv, TypeOK, DiskOK, LogOK, Kept
<1>3. Explained'
  BY <1>1, StillExplained
<1>4. log' = <<>> => \A p \in Path : Clear(p)'
  BY <1>1 DEF IInv, Swept, Clear, Kept
<1>5. ~journal' => log' = <<>>
  BY <1>1 DEF IInv, Phases
<1> QED
  BY <1>1, <1>2, <1>3, <1>4, <1>5, LeaveStep

-----------------------------------------------------------------------------
(* Preparation.                                                            *)

LEMMA StartStep == ASSUME IInv, Preflight \/ Project PROVE IInv'
<1>1. /\ pc \in {"ready", "project"} /\ ~journal /\ UNCHANGED <<disk, log, poisoned>>
      /\ log \in Seq(Record) /\ poisoned' \in BOOLEAN /\ Own
  BY OwnStep DEF Preflight, Project, Quiet, Still, IInv, Phases, TypeOK, LogOK
<1>2. CASE Leave("unchanged")
  BY <1>1, <1>2, SameKept, LeaveStill DEF Reports
<1>3. CASE ~Leave("unchanged")
  <2>1. /\ UNCHANGED <<slot, stage, backup, journal, log, poisoned>> /\ foreign' = foreign
        /\ pc' = IF pc = "ready" THEN "project" ELSE "create"
        /\ at' = 0 /\ UNCHANGED <<job, parsed, report>>
    BY <1>1, <1>3 DEF Preflight, Project, Step, disk, artifacts, Own
  <2>2. TypeOK'
    BY <1>1, <2>1 DEF IInv, TypeOK, DiskOK, LogOK, CallOK, Own, CallPoints
  <2>3. Phases'
    BY <1>1, <2>1 DEF IInv, Phases, Recovering, Over
  <2>4. Swept' /\ LookedAt'
    BY <1>1, <2>1 DEF IInv, Swept, LookedAt, Clear
  <2>5. Explained'
    BY <1>1, <2>1, SameKept, StillExplained
  <2>6. Progress'
    BY <1>1, <2>1 DEF IInv, Progress, Unstarted, Recovering, Phases
  <2> QED
    BY <2>2, <2>3, <2>4, <2>5, <2>6 DEF IInv
<1> QED
  BY <1>2, <1>3

LEMMA CreateStep == ASSUME IInv, CreateJournal PROVE IInv'
<1>1. /\ pc = "create" /\ ~journal /\ log = <<>> /\ UNCHANGED <<slot, stage, backup, log, poisoned>>
      /\ journal' \in BOOLEAN /\ Own /\ foreign' = foreign
      /\ (Step("header", 0) /\ journal') \/ Leave("recovery_required")
  BY OwnStep DEF CreateJournal, Call, artifacts, IInv, Phases, TypeOK, DiskOK, Own
<1>2. DiskOK' /\ LogOK'
  BY <1>1 DEF IInv, TypeOK, DiskOK, LogOK
<1>3. Explained'
  BY <1>1, SameKept, StillExplained DEF IInv, TypeOK, LogOK
<1>4. \A p \in Path : Clear(p)'
  BY <1>1 DEF IInv, Swept, Clear
<1>5. CASE Leave("recovery_required")
  BY <1>1, <1>2, <1>3, <1>4, <1>5, LeaveStep DEF Reports
<1>6. CASE Step("header", 0) /\ journal'
  <2>1. pc' = "header" /\ at' = 0 /\ UNCHANGED <<job, parsed, report>>
    BY <1>6 DEF Step
  <2>2. TypeOK'
    BY <1>1, <1>2, <2>1 DEF IInv, TypeOK, CallOK, Own, CallPoints
  <2>3. Phases'
    BY <1>1, <1>6, <2>1, NothingLogged DEF IInv, Phases, Recovering, Over, IsFinished
  <2>4. Swept' /\ LookedAt'
    BY <1>1, <1>4, <2>1 DEF Swept, LookedAt
  <2>5. Progress'
    BY <1>1, <2>1 DEF IInv, Progress, Unstarted, Recovering, Phases
  <2> QED
    BY <1>3, <2>2, <2>3, <2>4, <2>5 DEF IInv
<1> QED
  BY <1>1, <1>5, <1>6

-----------------------------------------------------------------------------
(* A call that walks on: nothing but its control point and the journal     *)
(* change, and the journal does not end.                                   *)

Onward(l) ==
  /\ l \in (CallPoints \cup PathPoints \cup {"undo"})
             \ {"ready", "project", "create", "header", "down", "recover"}
  /\ IsFinished(log) <=> l \in {"clean", "drop"}
  /\ Recovering => l \in {"undo", "announce", "restore", "record_restore", "clean", "drop"}

LEMMA WalkStep ==
  ASSUME IInv, pc \notin {"ready", "project", "create", "down"}, UNCHANGED disk,
         Kept, poisoned' \in BOOLEAN, Own,
         NEW l, NEW i, Step(l, i), Onward(l), log' # <<>>,
         \/ l \in CallPoints /\ i = 0
         \/ l \in PathPoints /\ i \in Path
         \/ l = "undo" /\ i \in 0..N,
         Swept', LookedAt', Progress'
  PROVE  IInv'
<1>1. /\ UNCHANGED <<slot, stage, backup, journal, parsed, report>> /\ foreign' = foreign
      /\ pc' = l
  BY DEF disk, artifacts, Own, Step
<1>2. DiskOK' /\ LogOK'
  BY <1>1 DEF IInv, TypeOK, DiskOK, LogOK, Kept
<1>3. TypeOK'
  BY <1>2, StepTypes DEF IInv, TypeOK, Own
<1>4. Phases'
  BY <1>1, KeptFinished DEF IInv, Phases, Onward, Recovering, Over
<1>5. Explained'
  BY <1>1, StillExplained
<1> QED
  BY <1>3, <1>4, <1>5 DEF IInv

\* What a call that is on its way appends, or fails to append.
LEMMA LogStep ==
  ASSUME IInv, pc \notin {"ready", "project", "create", "down"},
         NEW r \in Record \ {Finished(o) : o \in Outcomes},
         log' \in {log, Append(log, r)}, UNCHANGED disk,
         poisoned' \in {poisoned, TRUE}, Steady \/ Fault
  PROVE  /\ Kept /\ Own /\ poisoned' \in BOOLEAN /\ journal
         /\ UNCHANGED <<slot, stage, backup, journal>> /\ foreign' = foreign
         /\ log # <<>> \/ log' = Append(log, r) => log' # <<>>
<1>1. Kept
  BY GoesOn DEF IInv, TypeOK, LogOK
<1>2. Own /\ foreign' = foreign
  BY OwnStep DEF Own, IInv, TypeOK
<1>3. log # <<>> \/ log' = Append(log, r) => log' # <<>>
  BY <1>1, Appended DEF Kept, IInv, TypeOK, LogOK
<1> QED
  BY <1>1, <1>2, <1>3 DEF IInv, TypeOK, LogOK, Phases, disk, artifacts

LEMMA HeaderStep == ASSUME IInv, WriteHeader PROVE IInv'
<1>1. /\ pc = "header" /\ log' \in {log, Append(log, Header)} /\ UNCHANGED disk
      /\ poisoned' \in {poisoned, TRUE} /\ (Steady \/ Fault)
      /\ \/ Step("record", 1) /\ log' = Append(log, Header)
         \/ Leave("recovery_required")
  BY DEF WriteHeader, Log
<1>2. log = <<>> /\ ~Recovering /\ ~IsFinished(log) /\ \A p \in Path : Clear(p)
  BY <1>1, NothingLogged DEF IInv, Phases, Swept, IsFinished
<1>3. /\ Kept /\ Own /\ poisoned' \in BOOLEAN /\ journal
      /\ UNCHANGED <<slot, stage, backup, journal>> /\ foreign' = foreign
      /\ log' = Append(log, Header) => log' # <<>>
  BY <1>1, LogStep, Going
<1>4. CASE Leave("recovery_required")
  BY <1>1, <1>3, <1>4, LeaveStill DEF Reports
<1>5. CASE Step("record", 1) /\ log' = Append(log, Header)
  <2>1. pc' = "record" /\ at' = 1 /\ parsed' = parsed
    BY <1>5 DEF Step
  <2>2. Swept' /\ LookedAt'
    BY <1>2, <1>3, <2>1 DEF Swept, LookedAt, Clear
  <2>3. Progress'
    BY <1>1, <1>2, <1>3, <2>1 DEF IInv, Progress, Unstarted, Recovering
  <2>4. Onward("record")
    BY <1>2 DEF Onward, PathPoints
  <2> QED
    BY <1>1, <1>3, <1>5, <2>2, <2>3, <2>4, WalkStep DEF PathPoints
<1> QED
  BY <1>1, <1>4, <1>5

LEMMA RecordStep == ASSUME IInv, RecordFile PROVE IInv'
<1>1. /\ pc = "record" /\ log' \in {log, Append(log, PreparedFile(at))} /\ UNCHANGED disk
      /\ poisoned' \in {poisoned, TRUE} /\ (Steady \/ Fault)
      /\ \/ at < N /\ Step("record", at + 1)
         \/ ~(at < N) /\ Step("stage", 0)
         \/ Step("abort", 0)
  BY DEF RecordFile, Log
<1>2. /\ log # <<>> /\ ~Recovering /\ ~IsFinished(log) /\ at \in Path
      /\ \A p \in Path : Clear(p)
  BY <1>1 DEF IInv, Phases, Swept, TypeOK, CallOK, CallPoints, PathPoints
<1>3. /\ Kept /\ Own /\ poisoned' \in BOOLEAN /\ log' # <<>>
      /\ UNCHANGED <<slot, stage, backup, journal>> /\ foreign' = foreign
  BY <1>1, <1>2, LogStep, Going
<1>4. PICK l \in {"record", "stage", "abort"}, i \in 0..N :
        /\ Step(l, i) /\ (l = "record" => i \in Path) /\ (l # "record" => i = 0)
  BY <1>1, <1>2
<1>5. pc' = l /\ at' = i /\ parsed' = parsed
  BY <1>4 DEF Step
<1>6. Swept' /\ LookedAt'
  BY <1>2, <1>3, <1>5 DEF Swept, LookedAt, Clear
<1>7. Progress'
  BY <1>1, <1>2, <1>3, <1>5 DEF IInv, Progress, Unstarted, Recovering
<1>8. Onward(l)
  BY <1>2 DEF Onward, PathPoints, CallPoints
<1> QED
  BY <1>1, <1>3, <1>4, <1>6, <1>7, <1>8, WalkStep DEF PathPoints, CallPoints

-----------------------------------------------------------------------------
(* Staging.                                                                *)

LEMMA JobStepStep ==
  ASSUME IInv, NEW p \in Path, Job(p)
  PROVE  IInv'
<1>1. /\ pc = "stage" /\ UNCHANGED <<pc, at, parsed, report, slot, journal, log, poisoned>>
      /\ \E x \in JobStates : job' = [job EXCEPT ![p] = x]
      /\ (Steady \/ Fault)
  BY DEF Job, StartJob, WriteBackup, CreateStage, WriteStage, VerifyArtifacts, FailJob,
         CancelJob, JobStep, JobStates
<1>2. /\ stage' \in [Path -> {"none", "partial", "new"}]
      /\ backup' \in [Path -> {"none", "partial", "bak"}]
  BY DEF IInv, TypeOK, DiskOK, Job, StartJob, WriteBackup, CreateStage, WriteStage,
         VerifyArtifacts, FailJob, CancelJob, Put, artifacts
<1>3. Own /\ foreign' = foreign
  BY <1>1, OwnStep DEF Own, IInv, TypeOK
<1>4. TypeOK'
  BY <1>1, <1>2, <1>3 DEF IInv, TypeOK, DiskOK, LogOK, CallOK, Own
<1>5. Phases'
  BY <1>1 DEF IInv, Phases, Recovering, Over
<1>6. Swept' /\ LookedAt'
  BY <1>1 DEF IInv, Phases, Swept, LookedAt
<1>7. Explained'
  BY <1>1, <1>3, SameKept, StillExplained DEF IInv, TypeOK, LogOK
<1>8. Progress'
  BY <1>1, <1>3 DEF IInv, Progress, Unstarted, Recovering, Restored
<1> QED
  BY <1>4, <1>5, <1>6, <1>7, <1>8 DEF IInv

\* A walk that reads, and records nothing.
LEMMA ReadStep ==
  ASSUME IInv, pc \notin {"ready", "project", "create", "header", "drop", "down"}, Still,
         Steady \/ Fault
  PROVE  /\ Kept /\ Own /\ poisoned' \in BOOLEAN /\ journal /\ log # <<>> /\ log' # <<>>
         /\ UNCHANGED disk /\ log' = log
         /\ UNCHANGED <<slot, stage, backup, journal>> /\ foreign' = foreign
BY OwnStep, SameKept DEF IInv, TypeOK, LogOK, Phases, Still, disk, artifacts, Own

LEMMA CollectStep == ASSUME IInv, CollectStaged PROVE IInv'
<1>1. /\ pc = "stage" /\ Still /\ Steady
      /\ Step("staged", 0) \/ Step("discard", 1)
  BY DEF CollectStaged, Quiet
<1>2. /\ Kept /\ Own /\ poisoned' \in BOOLEAN /\ log' # <<>> /\ UNCHANGED disk
      /\ UNCHANGED <<slot, stage, backup, journal>> /\ foreign' = foreign
  BY <1>1, ReadStep
<1>3. ~Recovering /\ ~IsFinished(log)
  BY <1>1 DEF IInv, Phases
<1>4. PICK l \in {"staged", "discard"}, i \in {0, 1} :
        Step(l, i) /\ (l = "staged" => i = 0) /\ (l = "discard" => i = 1)
  BY <1>1
<1>5. pc' = l /\ at' = i /\ parsed' = parsed
  BY <1>4 DEF Step
<1>6. Swept' /\ LookedAt'
  BY <1>2, <1>4, <1>5 DEF Swept, LookedAt
<1>7. Progress'
  BY <1>1, <1>2, <1>3, <1>5 DEF IInv, Progress, Unstarted, Recovering
<1>8. Onward(l)
  BY <1>3 DEF Onward, PathPoints, CallPoints
<1> QED
  BY <1>1, <1>2, <1>4, <1>6, <1>7, <1>8, WalkStep DEF PathPoints, CallPoints

LEMMA PreparedStep == ASSUME IInv, WritePrepared PROVE IInv'
<1>1. /\ pc = "staged" /\ log' \in {log, Append(log, Prepared)} /\ UNCHANGED disk
      /\ poisoned' \in {poisoned, TRUE} /\ (Steady \/ Fault)
      /\ Step("prepared", 0) \/ Leave("recovery_required")
  BY DEF WritePrepared, Log
<1>2. log # <<>> /\ ~Recovering /\ ~IsFinished(log)
  BY <1>1 DEF IInv, Phases
<1>3. /\ Kept /\ Own /\ poisoned' \in BOOLEAN /\ journal /\ log' # <<>>
      /\ UNCHANGED <<slot, stage, backup, journal>> /\ foreign' = foreign
  BY <1>1, <1>2, LogStep, Going
<1>4. CASE Leave("recovery_required")
  BY <1>1, <1>3, <1>4, LeaveStill DEF Reports
<1>5. CASE Step("prepared", 0)
  <2>1. pc' = "prepared" /\ at' = 0 /\ parsed' = parsed
    BY <1>5 DEF Step
  <2>2. Swept' /\ LookedAt'
    BY <1>3, <2>1 DEF Swept, LookedAt
  <2>3. Progress'
    BY <1>1, <1>2, <1>3, <2>1 DEF IInv, Progress, Unstarted, Recovering
  <2>4. Onward("prepared")
    BY <1>2 DEF Onward, CallPoints
  <2> QED
    BY <1>1, <1>3, <1>5, <2>2, <2>3, <2>4, WalkStep DEF CallPoints
<1> QED
  BY <1>1, <1>4, <1>5

LEMMA DropStep == ASSUME IInv, Drop PROVE IInv'
<1>1. pc = "prepared" /\ Still /\ Steady /\ Leave("recovery_required")
  BY DEF Drop, Quiet
<1> QED
  BY <1>1, ReadStep, LeaveStill DEF Reports

-----------------------------------------------------------------------------
(* The end of a journal.                                                   *)

\* What the record of the end says of the disk.
Concluded(o) ==
  foreign = 0 => \A p \in Path : IF o = "committed" THEN slot[p] = "new" ELSE Restored(p)

LEMMA EndStep ==
  ASSUME IInv, pc \in {"abort", "prepared", "finish", "undo", "recover"},
         NEW o \in Outcomes, log' \in {log, Append(log, Finished(o))}, UNCHANGED disk,
         poisoned' \in {poisoned, TRUE}, Steady \/ Fault, ~IsFinished(log), Concluded(o),
         \/ Leave("recovery_required")
         \/ log' = Append(log, Finished(o)) /\ Step("clean", 1)
         \/ log' = Append(log, Finished(o)) /\ Step("drop", 0) /\ \A p \in Path : Clear(p)
  PROVE  IInv'
<1>1. /\ UNCHANGED <<slot, stage, backup, journal>> /\ foreign' = foreign /\ Own
      /\ poisoned' \in BOOLEAN /\ journal /\ log # <<>> /\ log \in Seq(Record)
  BY OwnStep DEF disk, artifacts, IInv, TypeOK, LogOK, Phases, Own
<1>2. CASE log' = log /\ Leave("recovery_required")
  BY <1>1, <1>2, SameKept, LeaveStill DEF Reports
<1>3. CASE log' = Append(log, Finished(o))
  <2>1. /\ log' \in Seq(Record) /\ log' # <<>>
        /\ \A r : Has(log', r) <=> Has(log, r) \/ r = Finished(o)
    BY <1>1, <1>3, Appended, Records
  <2>2. Explained'
    <3>1. CommitIntents(log) \subseteq CommitIntents(log')
      BY <2>1 DEF CommitIntents
    <3>2. \A x \in Outcomes : Has(log', Finished(x)) => x = o
      BY <2>1 DEF IsFinished, Finished
    <3> QED
      BY <1>1, <3>1, <3>2 DEF IInv, Explained, Concluded, Over, Restored, Outcomes
  <2>3. DiskOK' /\ LogOK'
    BY <1>1, <2>1 DEF IInv, TypeOK, DiskOK, LogOK
  <2>4. CASE Leave("recovery_required")
    BY <1>1, <2>1, <2>2, <2>3, <2>4, LeaveStep DEF Reports
  <2>5. CASE Step("clean", 1) \/ (Step("drop", 0) /\ \A p \in Path : Clear(p))
    <3>1. PICK l \in {"clean", "drop"}, i \in {0, 1} :
            /\ Step(l, i) /\ (l = "clean" => i = 1)
            /\ l = "drop" => i = 0 /\ \A p \in Path : Clear(p)
      BY <2>5
    <3>2. pc' = l /\ at' = i /\ UNCHANGED <<parsed, report>>
      BY <3>1 DEF Step
    <3>3. TypeOK'
      BY <1>1, <2>3, <3>1, StepTypes DEF IInv, TypeOK, Own, CallPoints, PathPoints
    <3>4. Phases'
      BY <1>1, <2>1, <3>1, <3>2 DEF IInv, Phases, Recovering, Over, IsFinished
    <3>5. Swept' /\ LookedAt'
      BY <1>1, <2>1, <3>1, <3>2 DEF Swept, LookedAt, Clear
    <3>6. Progress'
      BY <1>1, <3>2 DEF IInv, Progress, Unstarted, Recovering, Restored
    <3> QED
      BY <2>2, <3>3, <3>4, <3>5, <3>6 DEF IInv
  <2> QED
    BY <1>1, <2>4, <2>5
<1> QED
  BY <1>2, <1>3

LEMMA AbortedStep == ASSUME IInv, FinishAborted \/ Abort PROVE IInv'
<1>1. /\ pc \in {"abort", "prepared"} /\ log' \in {log, Append(log, Finished("aborted"))}
      /\ UNCHANGED disk /\ poisoned' \in {poisoned, TRUE} /\ (Steady \/ Fault)
      /\ \/ Leave("recovery_required")
         \/ log' = Append(log, Finished("aborted")) /\ Step("clean", 1)
         \/ log' = Append(log, Finished("aborted")) /\ Step("drop", 0) /\ pc = "abort"
  BY DEF FinishAborted, Abort, Log
<1>2. ~IsFinished(log) /\ (pc = "abort" => \A p \in Path : Clear(p))
  BY <1>1 DEF IInv, Phases, Swept
<1>3. Concluded("aborted")
  BY <1>1 DEF IInv, Progress, Unstarted, Concluded, Restored
<1> QED
  BY <1>1, <1>2, <1>3, EndStep DEF Outcomes

LEMMA FinishStep == ASSUME IInv, FinishCommit PROVE IInv'
<1>1. /\ pc = "finish" /\ log' \in {log, Append(log, Finished("committed"))}
      /\ UNCHANGED disk /\ poisoned' \in {poisoned, TRUE} /\ (Steady \/ Fault)
      /\ \/ Leave("recovery_required")
         \/ log' = Append(log, Finished("committed")) /\ Step("clean", 1)
  BY DEF FinishCommit, Log
<1>2. ~IsFinished(log)
  BY <1>1 DEF IInv, Phases
<1>3. Concluded("committed")
  BY <1>1 DEF IInv, Progress, Concluded
<1> QED
  BY <1>1, <1>2, <1>3, EndStep DEF Outcomes

LEMMA RolledBackStep == ASSUME IInv, FinishRollback PROVE IInv'
<1>1. /\ pc = "undo" /\ at = 0 /\ log' \in {log, Append(log, Finished("rolled_back"))}
      /\ UNCHANGED disk /\ poisoned' \in {poisoned, TRUE} /\ (Steady \/ Fault)
      /\ \/ Leave("recovery_required")
         \/ log' = Append(log, Finished("rolled_back")) /\ Step("clean", 1)
  BY DEF FinishRollback, Log
<1>2. ~IsFinished(log)
  BY <1>1 DEF IInv, Phases
<1>3. Concluded("rolled_back")
  BY <1>1 DEF IInv, Progress, Concluded
<1> QED
  BY <1>1, <1>2, <1>3, EndStep DEF Outcomes

LEMMA StagingStep == ASSUME IInv, RecoverStaging PROVE IInv'
<1>1. /\ pc = "recover" /\ log' \in {log, Append(log, Finished("aborted"))}
      /\ ~IsFinished(parsed) /\ CommitIntents(parsed) = {}
      /\ UNCHANGED disk /\ poisoned' \in {poisoned, TRUE} /\ (Steady \/ Fault)
      /\ \/ Leave("recovery_required")
         \/ log' = Append(log, Finished("aborted")) /\ Step("clean", 1)
  BY DEF RecoverStaging, Log
<1>2. parsed = log /\ Recovering
  BY <1>1 DEF IInv, Phases, Recovering
<1>3. Concluded("aborted")
  BY <1>1, <1>2 DEF IInv, Progress, Concluded
<1> QED
  BY <1>1, <1>2, <1>3, EndStep DEF Outcomes

-----------------------------------------------------------------------------
(* Commit.                                                                 *)

LEMMA CommitStep == ASSUME IInv, Commit PROVE IInv'
<1>1. /\ pc = "prepared" /\ Still /\ (Steady \/ Fault)
      /\ Step("check", 1) \/ Step("undo", 0)
  BY DEF Commit
<1>2. /\ Kept /\ Own /\ poisoned' \in BOOLEAN /\ log' # <<>> /\ UNCHANGED disk
      /\ UNCHANGED <<slot, stage, backup, journal>> /\ foreign' = foreign
  BY <1>1, ReadStep
<1>3. ~Recovering /\ ~IsFinished(log)
  BY <1>1 DEF IInv, Phases
<1>4. PICK l \in {"check", "undo"}, i \in {0, 1} :
        Step(l, i) /\ (l = "undo" => i = 0) /\ (l = "check" => i = 1)
  BY <1>1
<1>5. pc' = l /\ at' = i /\ parsed' = parsed
  BY <1>4 DEF Step
<1>6. Swept' /\ LookedAt'
  BY <1>2, <1>4, <1>5 DEF Swept, LookedAt
<1>7. Progress'
  BY <1>1, <1>2, <1>3, <1>4, <1>5 DEF IInv, Progress, Unstarted, Recovering, Restored
<1>8. Onward(l)
  BY <1>3 DEF Onward, PathPoints
<1> QED
  BY <1>1, <1>2, <1>4, <1>6, <1>7, <1>8, WalkStep DEF PathPoints

\* Where a call at a path stands.
LEMMA AtPath ==
  ASSUME IInv, pc \in PathPoints \/ (pc = "undo" /\ at > 0)
  PROVE  at \in Path /\ at - 1 \in 0..N /\ (at < N => at + 1 \in Path)
BY DEF IInv, TypeOK, CallOK, PathPoints, CallPoints

LEMMA CheckStep == ASSUME IInv, Check PROVE IInv'
<1>1. /\ pc = "check" /\ Still /\ (Steady \/ Fault)
      /\ (slot[at] = "old" /\ Step("intent", at)) \/ Step("undo", at - 1)
  BY DEF Check
<1>2. /\ Kept /\ Own /\ poisoned' \in BOOLEAN /\ log' # <<>> /\ UNCHANGED disk
      /\ UNCHANGED <<slot, stage, backup, journal>> /\ foreign' = foreign
  BY <1>1, ReadStep
<1>3. ~Recovering /\ ~IsFinished(log) /\ at \in Path /\ at - 1 \in 0..N
  BY <1>1, AtPath DEF IInv, Phases, PathPoints
<1>4. CASE slot[at] = "old" /\ Step("intent", at)
  <2>1. pc' = "intent" /\ at' = at /\ parsed' = parsed
    BY <1>4 DEF Step
  <2>2. Swept' /\ LookedAt'
    BY <1>2, <1>4, <2>1 DEF Swept, LookedAt
  <2>3. Progress'
    BY <1>1, <1>2, <1>3, <2>1 DEF IInv, Progress, Unstarted, Recovering
  <2>4. Onward("intent")
    BY <1>3 DEF Onward, PathPoints
  <2> QED
    BY <1>1, <1>2, <1>3, <1>4, <2>2, <2>3, <2>4, WalkStep DEF PathPoints
<1>5. CASE Step("undo", at - 1)
  <2>1. pc' = "undo" /\ at' = at - 1 /\ parsed' = parsed
    BY <1>5 DEF Step
  <2>2. Swept' /\ LookedAt'
    BY <1>2, <2>1 DEF Swept, LookedAt
  <2>3. Progress'
    BY <1>1, <1>2, <1>3, <2>1 DEF IInv, Progress, Unstarted, Recovering, Restored
  <2>4. Onward("undo")
    BY <1>3 DEF Onward
  <2> QED
    BY <1>1, <1>2, <1>3, <1>5, <2>2, <2>3, <2>4, WalkStep
<1> QED
  BY <1>1, <1>4, <1>5

LEMMA IntendStep == ASSUME IInv, Intend PROVE IInv'
<1>1. /\ pc = "intent" /\ log' \in {log, Append(log, CommitIntent(at))} /\ UNCHANGED disk
      /\ poisoned' \in {poisoned, TRUE} /\ (Steady \/ Fault)
      /\ \/ Step("replace", at) /\ log' = Append(log, CommitIntent(at))
         \/ Step("undo", at - 1)
  BY DEF Intend, Log
<1>2. /\ log # <<>> /\ ~Recovering /\ ~IsFinished(log) /\ at \in Path /\ at - 1 \in 0..N
      /\ slot[at] = "old"
  BY <1>1, AtPath DEF IInv, Phases, LookedAt, PathPoints
<1>3. /\ Kept /\ Own /\ poisoned' \in BOOLEAN /\ log' # <<>>
      /\ UNCHANGED <<slot, stage, backup, journal>> /\ foreign' = foreign
  BY <1>1, <1>2, LogStep, Going
<1>4. CASE Step("replace", at) /\ log' = Append(log, CommitIntent(at))
  <2>1. pc' = "replace" /\ at' = at /\ parsed' = parsed
    BY <1>4 DEF Step
  <2>2. Swept' /\ LookedAt'
    BY <1>2, <1>3, <2>1 DEF Swept, LookedAt
  <2>3. at \in CommitIntents(log')
    BY <1>2, <1>4, Appended, Records DEF CommitIntents, IInv, TypeOK, LogOK
  <2>4. Progress'
    BY <1>1, <1>2, <1>3, <2>1, <2>3 DEF IInv, Progress, Unstarted, Recovering
  <2>5. Onward("replace")
    BY <1>2 DEF Onward, PathPoints
  <2> QED
    BY <1>1, <1>2, <1>3, <1>4, <2>2, <2>4, <2>5, WalkStep DEF PathPoints
<1>5. CASE Step("undo", at - 1)
  <2>1. pc' = "undo" /\ at' = at - 1 /\ parsed' = parsed
    BY <1>5 DEF Step
  <2>2. Swept' /\ LookedAt'
    BY <1>3, <2>1 DEF Swept, LookedAt
  <2>3. Progress'
    BY <1>1, <1>2, <1>3, <2>1 DEF IInv, Progress, Unstarted, Recovering, Restored
  <2>4. Onward("undo")
    BY <1>2 DEF Onward
  <2> QED
    BY <1>1, <1>2, <1>3, <1>5, <2>2, <2>3, <2>4, WalkStep
<1> QED
  BY <1>1, <1>4, <1>5

LEMMA ReplaceStep == ASSUME IInv, ReplaceTarget PROVE IInv'
<1>1. /\ pc = "replace" /\ UNCHANGED <<backup, journal, log, poisoned>> /\ Own
      /\ foreign' = foreign
      /\ \/ /\ slot' = [slot EXCEPT ![at] = "new"] /\ stage' = [stage EXCEPT ![at] = "none"]
            /\ Step("sync", at) \/ Step("classify", at)
         \/ UNCHANGED <<slot, stage>> /\ Step("classify", at)
  BY OwnStep DEF ReplaceTarget, Call, Becomes, Put, Own, IInv, TypeOK
<1>2. /\ log # <<>> /\ ~Recovering /\ ~IsFinished(log) /\ at \in Path
      /\ foreign = 0 => at \in CommitIntents(log)
  BY <1>1, AtPath DEF IInv, Phases, Progress, PathPoints
<1>3. PICK l \in {"sync", "classify"} :
        Step(l, at) /\ (l = "sync" => slot' = [slot EXCEPT ![at] = "new"])
  BY <1>1
<1>4. pc' = l /\ at' = at /\ UNCHANGED <<parsed, report>>
  BY <1>3 DEF Step
<1>5. /\ slot' \in [Path -> {"none", "old", "new", "bak", "ext"}]
      /\ stage' \in [Path -> {"none", "partial", "new"}]
      /\ \A q \in Path : q # at => slot'[q] = slot[q]
  BY <1>1, <1>2 DEF IInv, TypeOK, DiskOK
<1>6. TypeOK'
  BY <1>1, <1>2, <1>3, <1>5, StepTypes DEF IInv, TypeOK, DiskOK, LogOK, Own, PathPoints
<1>7. Phases'
  BY <1>1, <1>2, <1>4 DEF IInv, Phases, Recovering, Over
<1>8. Swept' /\ LookedAt'
  BY <1>1, <1>2, <1>4 DEF Swept, LookedAt
<1>9. Explained'
  BY <1>1, <1>2, <1>5 DEF IInv, Explained, Over, IsFinished, Outcomes
<1>10. Progress'
  <2>1. l = "sync" => slot'[at] = "new"
    BY <1>2, <1>3 DEF IInv, TypeOK, DiskOK
  <2> QED
    BY <1>1, <1>2, <1>4, <1>5, <2>1 DEF IInv, Progress, Unstarted, Recovering
<1> QED
  BY <1>6, <1>7, <1>8, <1>9, <1>10 DEF IInv

LEMMA ClassifyStep == ASSUME IInv, Classify PROVE IInv'
<1>1. /\ pc = "classify" /\ Still /\ Steady
      /\ \/ Step("undo", at)
         \/ slot[at] = "old" /\ Step("undo", at - 1)
         \/ Leave("recovery_required")
  BY DEF Classify, Quiet
<1>2. /\ Kept /\ Own /\ poisoned' \in BOOLEAN /\ log' # <<>> /\ UNCHANGED disk /\ journal
      /\ UNCHANGED <<slot, stage, backup, journal>> /\ foreign' = foreign
  BY <1>1, ReadStep
<1>3. ~Recovering /\ ~IsFinished(log) /\ at \in Path /\ at - 1 \in 0..N
  BY <1>1, AtPath DEF IInv, Phases, PathPoints
<1>4. CASE Leave("recovery_required")
  BY <1>1, <1>2, <1>4, LeaveStill DEF Reports
<1>5. CASE \E i \in {at - 1, at} : Step("undo", i) /\ (i = at - 1 => slot[at] = "old")
  <2>1. PICK i \in 0..N : /\ Step("undo", i) /\ i \in {at - 1, at}
                          /\ i = at - 1 => slot[at] = "old"
    BY <1>3, <1>5
  <2>2. pc' = "undo" /\ at' = i /\ parsed' = parsed
    BY <2>1 DEF Step
  <2>3. Swept' /\ LookedAt'
    BY <1>2, <2>2 DEF Swept, LookedAt
  <2>4. Progress'
    BY <1>1, <1>2, <1>3, <2>1, <2>2 DEF IInv, Progress, Unstarted, Recovering, Restored
  <2>5. Onward("undo")
    BY <1>3 DEF Onward
  <2> QED
    BY <1>1, <1>2, <2>1, <2>3, <2>4, <2>5, WalkStep
<1> QED
  BY <1>1, <1>3, <1>4, <1>5

LEMMA SyncStep == ASSUME IInv, SyncParent PROVE IInv'
<1>1. /\ pc = "sync" /\ Still /\ (Steady \/ Fault)
      /\ Step("complete", at) \/ Step("undo", at)
  BY DEF SyncParent, Call
<1>2. /\ Kept /\ Own /\ poisoned' \in BOOLEAN /\ log' # <<>> /\ UNCHANGED disk
      /\ UNCHANGED <<slot, stage, backup, journal>> /\ foreign' = foreign
  BY <1>1, ReadStep
<1>3. ~Recovering /\ ~IsFinished(log) /\ at \in Path
  BY <1>1, AtPath DEF IInv, Phases, PathPoints
<1>4. PICK l \in {"complete", "undo"} : Step(l, at)
  BY <1>1
<1>5. pc' = l /\ at' = at /\ parsed' = parsed
  BY <1>4 DEF Step
<1>6. Swept' /\ LookedAt'
  BY <1>2, <1>5 DEF Swept, LookedAt
<1>7. Progress'
  BY <1>1, <1>2, <1>3, <1>5 DEF IInv, Progress, Unstarted, Recovering, Restored
<1>8. Onward(l)
  BY <1>3 DEF Onward, PathPoints
<1> QED
  BY <1>1, <1>2, <1>3, <1>4, <1>6, <1>7, <1>8, WalkStep DEF PathPoints

LEMMA CompleteStep == ASSUME IInv, CompletePath PROVE IInv'
<1>1. /\ pc = "complete" /\ log' \in {log, Append(log, Committed(at))} /\ UNCHANGED disk
      /\ poisoned' \in {poisoned, TRUE} /\ (Steady \/ Fault)
      /\ \/ at < N /\ Step("check", at + 1)
         \/ ~(at < N) /\ Step("finish", 0)
         \/ Step("undo", at)
  BY DEF CompletePath, Log
<1>2. log # <<>> /\ ~Recovering /\ ~IsFinished(log) /\ at \in Path
  BY <1>1, AtPath DEF IInv, Phases, PathPoints
<1>3. /\ Kept /\ Own /\ poisoned' \in BOOLEAN /\ log' # <<>>
      /\ UNCHANGED <<slot, stage, backup, journal>> /\ foreign' = foreign
  BY <1>1, <1>2, LogStep, Going
<1>4. PICK l \in {"check", "finish", "undo"}, i \in 0..N :
        /\ Step(l, i) /\ (l = "check" => i = at + 1 /\ i \in Path)
        /\ (l = "finish" => i = 0 /\ at = N) /\ (l = "undo" => i = at)
  BY <1>1, <1>2
<1>5. pc' = l /\ at' = i /\ parsed' = parsed
  BY <1>4 DEF Step
<1>6. Swept' /\ LookedAt'
  BY <1>3, <1>5 DEF Swept, LookedAt
<1>7. Progress'
  BY <1>1, <1>2, <1>3, <1>4, <1>5 DEF IInv, Progress, Unstarted, Recovering, Restored
<1>8. Onward(l)
  BY <1>2 DEF Onward, PathPoints, CallPoints
<1> QED
  BY <1>1, <1>3, <1>4, <1>6, <1>7, <1>8, WalkStep DEF PathPoints, CallPoints

-----------------------------------------------------------------------------
(* Rollback.                                                               *)

\* rollback_one and restore_file, up to the announcement.
LEMMA LookStep == ASSUME IInv, Look \/ RecoverPath PROVE IInv'
<1>1. /\ pc = "undo" /\ at > 0 /\ Still /\ Steady
      /\ (slot[at] = "new" /\ Step("announce", at)) \/ Leave("refused")
  BY DEF Look, RecoverPath, Quiet
<1>2. /\ Kept /\ Own /\ poisoned' \in BOOLEAN /\ log' # <<>> /\ UNCHANGED disk /\ journal
      /\ UNCHANGED <<slot, stage, backup, journal>> /\ foreign' = foreign
  BY <1>1, ReadStep
<1>3. ~IsFinished(log) /\ at \in Path
  BY <1>1, AtPath DEF IInv, Phases
<1>4. CASE Leave("refused")
  BY <1>1, <1>2, <1>4, LeaveStill DEF Reports
<1>5. CASE slot[at] = "new" /\ Step("announce", at)
  <2>1. pc' = "announce" /\ at' = at /\ parsed' = parsed
    BY <1>5 DEF Step
  <2>2. Swept' /\ LookedAt'
    BY <1>2, <1>5, <2>1 DEF Swept, LookedAt
  <2>3. Progress'
    BY <1>1, <1>2, <1>3, <2>1 DEF IInv, Progress, Unstarted, Recovering, Restored
  <2>4. Onward("announce")
    BY <1>3 DEF Onward, PathPoints
  <2> QED
    BY <1>1, <1>2, <1>3, <1>5, <2>2, <2>3, <2>4, WalkStep DEF PathPoints
<1> QED
  BY <1>1, <1>4, <1>5

LEMMA PassStep == ASSUME IInv, PassRestored PROVE IInv'
<1>1. /\ pc = "undo" /\ at > 0 /\ Recovering /\ Still /\ Steady /\ Step("undo", at - 1)
      /\ at \notin CommitIntents(parsed) \/ Restored(at)
  BY DEF PassRestored, Quiet, Uncommitted
<1>2. /\ Kept /\ Own /\ poisoned' \in BOOLEAN /\ log' # <<>> /\ UNCHANGED disk
      /\ UNCHANGED <<slot, stage, backup, journal>> /\ foreign' = foreign
  BY <1>1, ReadStep
<1>3. ~IsFinished(log) /\ at \in Path /\ at - 1 \in 0..N
  BY <1>1, AtPath DEF IInv, Phases
<1>4. pc' = "undo" /\ at' = at - 1 /\ parsed' = parsed
  BY <1>1 DEF Step
<1>5. Swept' /\ LookedAt'
  BY <1>2, <1>4 DEF Swept, LookedAt
<1>6. Progress'
  BY <1>1, <1>2, <1>3, <1>4 DEF IInv, Progress, Unstarted, Recovering, Restored
<1>7. Onward("undo")
  BY <1>3 DEF Onward
<1> QED
  BY <1>1, <1>2, <1>3, <1>5, <1>6, <1>7, WalkStep

LEMMA AnnounceStep == ASSUME IInv, Announce PROVE IInv'
<1>1. /\ pc = "announce" /\ log' \in {log, Append(log, RollbackIntent(at))} /\ UNCHANGED disk
      /\ poisoned' \in {poisoned, TRUE} /\ (Steady \/ Fault)
      /\ Step("restore", at) \/ Leave("recovery_required")
  BY DEF Announce, Log
<1>2. log # <<>> /\ ~IsFinished(log) /\ at \in Path
  BY <1>1, AtPath DEF IInv, Phases, PathPoints
<1>3. /\ Kept /\ Own /\ poisoned' \in BOOLEAN /\ log' # <<>> /\ journal
      /\ UNCHANGED <<slot, stage, backup, journal>> /\ foreign' = foreign
  BY <1>1, <1>2, LogStep, Going
<1>4. CASE Leave("recovery_required")
  BY <1>1, <1>3, <1>4, LeaveStill DEF Reports
<1>5. CASE Step("restore", at)
  <2>1. pc' = "restore" /\ at' = at /\ parsed' = parsed
    BY <1>5 DEF Step
  <2>2. Swept' /\ LookedAt'
    BY <1>1, <1>3, <2>1 DEF IInv, Swept, LookedAt
  <2>3. Progress'
    BY <1>1, <1>3, <2>1 DEF IInv, Progress, Unstarted, Recovering, Restored
  <2>4. Onward("restore")
    BY <1>2 DEF Onward, PathPoints
  <2> QED
    BY <1>1, <1>2, <1>3, <1>5, <2>2, <2>3, <2>4, WalkStep DEF PathPoints
<1> QED
  BY <1>1, <1>4, <1>5

LEMMA RestoreStep == ASSUME IInv, Restore PROVE IInv'
<1>1. /\ pc = "restore" /\ UNCHANGED <<stage, journal, log, poisoned>> /\ Own
      /\ foreign' = foreign
      /\ \/ slot' = [slot EXCEPT ![at] = "bak"] /\ backup' = [backup EXCEPT ![at] = "none"]
         \/ UNCHANGED <<slot, backup>> /\ Leave("recovery_required")
      /\ Step("record_restore", at) \/ Leave("recovery_required")
  BY OwnStep DEF Restore, Call, Becomes, Put, Own, IInv, TypeOK
<1>2. /\ log # <<>> /\ ~IsFinished(log) /\ at \in Path /\ slot[at] = "new" /\ journal
      /\ foreign = 0 => at \in CommitIntents(log)
  BY <1>1, AtPath DEF IInv, Phases, LookedAt, Explained, Over, PathPoints
<1>3. /\ slot' \in [Path -> {"none", "old", "new", "bak", "ext"}]
      /\ backup' \in [Path -> {"none", "partial", "bak"}]
      /\ \A q \in Path : q # at => slot'[q] = slot[q]
      /\ Step("record_restore", at) => slot'[at] = "bak"
  BY <1>1, <1>2 DEF IInv, TypeOK, DiskOK, Step, Leave
<1>4. DiskOK' /\ LogOK'
  BY <1>1, <1>3 DEF IInv, TypeOK, DiskOK, LogOK
<1>5. Explained'
  BY <1>1, <1>2, <1>3 DEF IInv, Explained, Over, IsFinished, Outcomes
<1>6. CASE Leave("recovery_required")
  BY <1>1, <1>2, <1>4, <1>5, <1>6, LeaveStep DEF Reports
<1>7. CASE Step("record_restore", at)
  <2>1. pc' = "record_restore" /\ at' = at /\ UNCHANGED <<parsed, report>>
    BY <1>7 DEF Step
  <2>2. TypeOK'
    BY <1>1, <1>2, <1>4, <1>7, StepTypes DEF IInv, TypeOK, Own, PathPoints
  <2>3. Phases'
    BY <1>1, <1>2, <2>1 DEF IInv, Phases, Recovering, Over
  <2>4. Swept' /\ LookedAt'
    BY <1>1, <1>2, <2>1 DEF Swept, LookedAt
  <2>5. Progress'
    BY <1>1, <1>2, <1>3, <1>7, <2>1 DEF IInv, Progress, Unstarted, Recovering, Restored
  <2> QED
    BY <1>5, <2>2, <2>3, <2>4, <2>5 DEF IInv
<1> QED
  BY <1>1, <1>6, <1>7

LEMMA RecordRestoreStep == ASSUME IInv, RecordRestore PROVE IInv'
<1>1. /\ pc = "record_restore" /\ log' \in {log, Append(log, RolledBack(at))}
      /\ UNCHANGED disk /\ poisoned' \in {poisoned, TRUE} /\ (Steady \/ Fault)
      /\ Step("undo", at - 1) \/ Leave("recovery_required")
  BY DEF RecordRestore, Log
<1>2. log # <<>> /\ ~IsFinished(log) /\ at \in Path /\ at - 1 \in 0..N
  BY <1>1, AtPath DEF IInv, Phases, PathPoints
<1>3. /\ Kept /\ Own /\ poisoned' \in BOOLEAN /\ log' # <<>> /\ journal
      /\ UNCHANGED <<slot, stage, backup, journal>> /\ foreign' = foreign
  BY <1>1, <1>2, LogStep, Going
<1>4. CASE Leave("recovery_required")
  BY <1>1, <1>3, <1>4, LeaveStill DEF Reports
<1>5. CASE Step("undo", at - 1)
  <2>1. pc' = "undo" /\ at' = at - 1 /\ parsed' = parsed
    BY <1>5 DEF Step
  <2>2. Swept' /\ LookedAt'
    BY <1>3, <2>1 DEF Swept, LookedAt
  <2>3. Progress'
    BY <1>1, <1>2, <1>3, <2>1 DEF IInv, Progress, Unstarted, Recovering, Restored
  <2>4. Onward("undo")
    BY <1>1, <1>2 DEF Onward, IInv, Phases
  <2> QED
    BY <1>1, <1>2, <1>3, <1>5, <2>2, <2>3, <2>4, WalkStep
<1> QED
  BY <1>1, <1>4, <1>5

-----------------------------------------------------------------------------
(* Cleaning up.                                                            *)

LEMMA CleanStep == ASSUME IInv, CleanStage \/ CleanBackup PROVE IInv'
<1>1. /\ pc \in {"discard", "clean"} /\ UNCHANGED <<slot, journal, log, poisoned>> /\ Own
      /\ foreign' = foreign
      /\ stage' \in {stage, [stage EXCEPT ![at] = "none"]}
      /\ backup' \in {backup, [backup EXCEPT ![at] = "none"]}
      /\ UNCHANGED call \/ Leave("recovery_required")
  BY OwnStep DEF CleanStage, CleanBackup, Call, Put, Own, IInv, TypeOK
<1>2. log # <<>> /\ journal /\ at \in Path
  BY <1>1, AtPath DEF IInv, Phases, PathPoints
<1>3. /\ stage' \in [Path -> {"none", "partial", "new"}]
      /\ backup' \in [Path -> {"none", "partial", "bak"}]
      /\ \A q \in Path : Clear(q) => Clear(q)'
  BY <1>1, <1>2 DEF IInv, TypeOK, DiskOK, Clear
<1>4. DiskOK' /\ LogOK'
  BY <1>1, <1>3 DEF IInv, TypeOK, DiskOK, LogOK
<1>5. Explained'
  BY <1>1, SameKept, StillExplained DEF IInv, TypeOK, LogOK
<1>6. CASE Leave("recovery_required")
  BY <1>1, <1>2, <1>4, <1>5, <1>6, LeaveStep DEF Reports
<1>7. CASE UNCHANGED call
  <2>1. UNCHANGED <<pc, at, job, parsed, report>>
    BY <1>7 DEF call
  <2>2. TypeOK'
    BY <1>1, <1>4, <2>1 DEF IInv, TypeOK, CallOK, Own
  <2>3. Phases'
    BY <1>1, <2>1 DEF IInv, Phases, Recovering, Over
  <2>4. Swept' /\ LookedAt'
    BY <1>1, <1>2, <1>3, <2>1 DEF IInv, Swept, LookedAt
  <2>5. Progress'
    BY <1>1, <2>1 DEF IInv, Progress, Unstarted, Recovering, Restored
  <2> QED
    BY <1>5, <2>2, <2>3, <2>4, <2>5 DEF IInv
<1> QED
  BY <1>1, <1>6, <1>7

LEMMA NextPathStep == ASSUME IInv, CleanNext PROVE IInv'
<1>1. /\ pc \in {"discard", "clean"} /\ Clear(at) /\ Still /\ Steady
      /\ \/ at < N /\ Step(pc, at + 1)
         \/ ~(at < N) /\ pc = "discard" /\ Step("abort", 0)
         \/ ~(at < N) /\ pc = "clean" /\ Step("drop", 0)
  BY DEF CleanNext, Quiet, Clear
<1>2. /\ Kept /\ Own /\ poisoned' \in BOOLEAN /\ log' # <<>> /\ UNCHANGED disk
      /\ UNCHANGED <<slot, stage, backup, journal>> /\ foreign' = foreign
  BY <1>1, ReadStep
<1>3. /\ at \in Path /\ \A q \in 1..at : Clear(q)
      /\ IsFinished(log) <=> pc = "clean"
      /\ Recovering => pc = "clean"
  BY <1>1, AtPath DEF IInv, Phases, Swept, PathPoints
<1>4. PICK l \in {"discard", "clean", "abort", "drop"}, i \in 0..N :
        /\ Step(l, i) /\ (pc = "clean" <=> l \in {"clean", "drop"})
        /\ l \in {"discard", "clean"} => i = at + 1 /\ i \in Path
        /\ l \in {"abort", "drop"} => i = 0 /\ at = N
  BY <1>1, <1>3
<1>5. pc' = l /\ at' = i /\ parsed' = parsed
  BY <1>4 DEF Step
<1>6. Swept' /\ LookedAt'
  BY <1>2, <1>3, <1>4, <1>5 DEF Swept, LookedAt, Clear
<1>7. Progress'
  BY <1>1, <1>2, <1>3, <1>4, <1>5 DEF IInv, Progress, Unstarted, Recovering, Restored
<1>8. Onward(l)
  BY <1>3, <1>4 DEF Onward, PathPoints, CallPoints
<1> QED
  BY <1>1, <1>2, <1>4, <1>6, <1>7, <1>8, WalkStep DEF PathPoints, CallPoints

LEMMA DropJournalStep == ASSUME IInv, DropJournal PROVE IInv'
<1>1. /\ pc = "drop" /\ UNCHANGED <<slot, stage, backup, poisoned>> /\ Own /\ foreign' = foreign
      /\ (journal' = FALSE /\ log' = <<>>) \/ UNCHANGED <<journal, log>>
      /\ \/ journal' = FALSE /\ Leave(IF Has(log, Finished("committed")) THEN "committed" ELSE "unchanged")
         \/ Leave("recovery_required")
  BY OwnStep DEF DropJournal, Call, Own, IInv, TypeOK, artifacts
<1>2. journal /\ \A p \in Path : Clear(p)
  BY <1>1 DEF IInv, Phases, Swept
<1>3. PICK r \in {"committed", "unchanged", "recovery_required"} :
        Leave(r) /\ (r # "recovery_required" => journal' = FALSE)
  <2>1. CASE Has(log, Finished("committed"))
    BY <1>1, <2>1
  <2>2. CASE ~Has(log, Finished("committed"))
    BY <1>1, <2>2
  <2> QED
    BY <2>1, <2>2
<1>4. /\ journal' \in BOOLEAN /\ log' \in Seq(Record)
      /\ (~journal' => log' = <<>>)
  <2>1. <<>> \in Seq(Record)
    OBVIOUS
  <2>2. CASE journal' = FALSE /\ log' = <<>>
    BY <2>1, <2>2
  <2>3. CASE UNCHANGED <<journal, log>>
    BY <1>2, <2>3 DEF IInv, TypeOK, DiskOK, LogOK
  <2> QED
    BY <1>1, <2>2, <2>3
<1>5. DiskOK' /\ LogOK'
  BY <1>1, <1>4 DEF IInv, TypeOK, DiskOK, LogOK
<1>6. Explained'
  <2>1. CASE ~journal' /\ log' = <<>>
    <3>1. Over'
      BY <1>3, <2>1 DEF Over, Leave
    <3> QED
      BY <2>1, <3>1, NothingLogged DEF Explained
  <2>2. CASE UNCHANGED <<journal, log>>
    BY <1>1, <2>2, SameKept, StillExplained DEF IInv, TypeOK, LogOK
  <2> QED
    BY <1>1, <2>1, <2>2
<1>7. \A p \in Path : Clear(p)'
  BY <1>1, <1>2 DEF Clear
<1> QED
  BY <1>1, <1>3, <1>4, <1>5, <1>6, <1>7, LeaveStep DEF Reports

-----------------------------------------------------------------------------
(* Recovery.                                                               *)

LEMMA RecoverStep == ASSUME IInv, Recover PROVE IInv'
<1>1. /\ pc = "down" /\ journal /\ poisoned' = FALSE /\ Own /\ foreign' = foreign
      /\ UNCHANGED <<slot, stage, backup, journal, log>>
      /\ \/ log = <<>> /\ Step("drop", 0)
         \/ log # <<>> /\ Leave("corrupt")
         \/ /\ log # <<>> /\ parsed' = log
            /\ pc' = "recover" /\ at' = 0 /\ UNCHANGED <<job, report>>
  BY OwnStep DEF Recover, Own, IInv, TypeOK, disk, artifacts
<1>2. ~Over /\ ~Recovering /\ ~Over'
  BY <1>1 DEF IInv, Phases, Over, Recovering
<1>3. DiskOK' /\ LogOK'
  BY <1>1 DEF IInv, TypeOK, DiskOK, LogOK
<1>4. Explained'
  BY <1>1, <1>2 DEF IInv, Explained, Restored
<1>5. CASE log # <<>> /\ Leave("corrupt")
  BY <1>1, <1>3, <1>4, <1>5, LeaveStep DEF Reports
<1>6. CASE ~(log # <<>> /\ Leave("corrupt"))
  <2>1. /\ pc' \in {"drop", "recover"} /\ at' = 0 /\ UNCHANGED <<job, report>>
        /\ pc' = "drop" => log = <<>> /\ parsed' = parsed
        /\ pc' = "recover" => log # <<>> /\ parsed' = log
    BY <1>1, <1>6 DEF Step
  <2>2. TypeOK'
    BY <1>1, <1>3, <2>1 DEF IInv, TypeOK, CallOK, LogOK, Own, CallPoints
  <2>3. Phases'
    BY <1>1, <1>2, <2>1 DEF IInv, Phases, Recovering
  <2>4. Swept' /\ LookedAt'
    BY <1>1, <2>1 DEF IInv, Swept, LookedAt, Clear
  <2>5. Progress'
    BY <1>1, <1>2, <2>1 DEF IInv, Progress, Explained, Unstarted, Recovering, Restored
  <2> QED
    BY <1>4, <2>2, <2>3, <2>4, <2>5 DEF IInv
<1> QED
  BY <1>5, <1>6

LEMMA RecoverFurtherStep == ASSUME IInv, RecoverFinished \/ RecoverUnfinished PROVE IInv'
<1>1. /\ pc = "recover" /\ Still /\ Steady
      /\ \/ IsFinished(parsed) /\ Step("clean", 1)
         \/ Leave("refused")
         \/ ~IsFinished(parsed) /\ Step("undo", N)
  BY DEF RecoverFinished, RecoverUnfinished, Quiet
<1>2. /\ Kept /\ Own /\ poisoned' \in BOOLEAN /\ log' # <<>> /\ UNCHANGED disk /\ journal
      /\ UNCHANGED <<slot, stage, backup, journal>> /\ foreign' = foreign
  BY <1>1, ReadStep
<1>3. parsed = log
  BY <1>1 DEF IInv, Phases
<1>4. CASE Leave("refused")
  BY <1>1, <1>2, <1>4, LeaveStill DEF Reports
<1>5. CASE ~Leave("refused")
  <2>1. PICK l \in {"clean", "undo"}, i \in 0..N :
          /\ Step(l, i) /\ (IsFinished(log) <=> l = "clean")
          /\ (l = "clean" => i = 1) /\ (l = "undo" => i = N)
    BY <1>1, <1>3, <1>5
  <2>2. pc' = l /\ at' = i /\ parsed' = parsed
    BY <2>1 DEF Step
  <2>3. Swept' /\ LookedAt'
    BY <1>2, <2>1, <2>2 DEF Swept, LookedAt
  <2>4. Progress'
    BY <1>1, <1>2, <2>1, <2>2 DEF IInv, Progress, Unstarted, Recovering, Restored
  <2>5. Onward(l)
    BY <2>1 DEF Onward, PathPoints
  <2> QED
    BY <1>1, <1>2, <2>1, <2>3, <2>4, <2>5, WalkStep DEF PathPoints
<1> QED
  BY <1>4, <1>5

-----------------------------------------------------------------------------
(* The environment.                                                        *)

LEMMA CrashStep == ASSUME IInv, Crash PROVE IInv'
<1>1. /\ pc # "down" /\ Leave("none") /\ Own /\ UNCHANGED disk /\ log' = log
      /\ poisoned' \in BOOLEAN /\ log \in Seq(Record)
  BY DEF Crash, Still, Own, IInv, TypeOK, LogOK, EnvOK
<1> QED
  BY <1>1, SameKept, LeaveStill DEF Reports

LEMMA ForeignStep == ASSUME IInv, NEW p \in Path, Foreign(p) PROVE IInv'
<1>1. /\ UNCHANGED <<stage, backup, journal, log, poisoned, pc, at, job, parsed, report>>
      /\ foreign' = foreign + 1 /\ foreign < MaxForeign /\ UNCHANGED <<deaths, faults>>
      /\ slot' \in [Path -> {"none", "old", "new", "bak", "ext"}]
      /\ \A q \in Path : q # p => slot'[q] = slot[q]
      /\ ~RaceWindow(p)
  BY DEF Foreign, Becomes, artifacts, call, IInv, TypeOK, DiskOK
<1>2. TypeOK'
  BY <1>1 DEF IInv, TypeOK, DiskOK, LogOK, CallOK, EnvOK
<1>3. Phases'
  BY <1>1 DEF IInv, Phases, Recovering, Over
<1>4. Swept'
  BY <1>1 DEF IInv, Swept, Clear
<1>5. LookedAt'
  BY <1>1, AtPath DEF IInv, LookedAt, RaceWindow, PathPoints
<1>6. foreign' # 0
  BY <1>1 DEF IInv, TypeOK, EnvOK
<1> QED
  BY <1>2, <1>3, <1>4, <1>5, <1>6 DEF IInv, Explained, Progress

LEMMA StutterStep == ASSUME IInv, UNCHANGED vars PROVE IInv'
<1>1. UNCHANGED <<slot, stage, backup, journal, log, poisoned, pc, at, job, parsed, report,
                  deaths, faults, foreign>>
  BY DEF vars, disk, artifacts, call, env
<1>2. TypeOK' /\ Phases'
  BY <1>1 DEF IInv, TypeOK, DiskOK, LogOK, CallOK, EnvOK, Phases, Recovering, Over
<1>3. Swept' /\ LookedAt'
  BY <1>1 DEF IInv, Swept, LookedAt, Clear
<1>4. Explained' /\ Progress'
  BY <1>1 DEF IInv, Explained, Progress, Over, Restored, Recovering, Unstarted
<1> QED
  BY <1>2, <1>3, <1>4 DEF IInv

-----------------------------------------------------------------------------
(* The theorems.                                                           *)

LEMMA Initially == Init => IInv
<1> SUFFICES ASSUME Init PROVE IInv
  OBVIOUS
<1>1. /\ slot = [p \in Path |-> "old"] /\ stage = [p \in Path |-> "none"]
      /\ backup = [p \in Path |-> "none"] /\ journal = FALSE /\ log = <<>>
      /\ pc = "ready" /\ at = 0 /\ parsed = <<>> /\ report = "none" /\ foreign = 0
  BY DEF Init
<1>2. DiskOK /\ LogOK /\ EnvOK
  <2>1. DiskOK
    BY <1>1 DEF DiskOK
  <2>2. LogOK
    <3>1. <<>> \in Seq(Record)
      OBVIOUS
    <3> QED
      BY <1>1, <3>1 DEF Init, LogOK
  <2>3. EnvOK
    <3>1. MaxDeaths \in Nat /\ MaxFaults \in Nat /\ MaxForeign \in Nat
      OBVIOUS
    <3> QED
      BY <3>1 DEF Init, EnvOK
  <2> QED
    BY <2>1, <2>2, <2>3
<1>3. CallOK
  BY DEF Init, CallOK, CallPoints, Idle, JobStates, Reports
<1>4. Phases
  BY <1>1, NothingLogged DEF Phases, Recovering, IsFinished
<1>5. Swept /\ LookedAt
  BY <1>1 DEF Swept, LookedAt, Clear
<1>6. Explained /\ Progress
  BY <1>1, NothingLogged DEF Explained, Progress, Recovering
<1> QED
  BY <1>2, <1>3, <1>4, <1>5, <1>6 DEF IInv, TypeOK

LEMMA ProcessStep == ASSUME IInv, Process PROVE IInv'
<1>1. CASE Preflight \/ Project \/ CreateJournal \/ WriteHeader \/ RecordFile
  BY <1>1, StartStep, CreateStep, HeaderStep, RecordStep
<1>2. CASE (\E p \in Path : Job(p)) \/ CollectStaged \/ WritePrepared \/ FinishAborted
  BY <1>2, JobStepStep, CollectStep, PreparedStep, AbortedStep
<1>3. CASE Drop \/ Abort \/ Commit \/ Check \/ Intend \/ ReplaceTarget
  BY <1>3, DropStep, AbortedStep, CommitStep, CheckStep, IntendStep, ReplaceStep
<1>4. CASE Classify \/ SyncParent \/ CompletePath \/ FinishCommit
  BY <1>4, ClassifyStep, SyncStep, CompleteStep, FinishStep
<1>5. CASE Look \/ PassRestored \/ RecoverPath \/ Announce \/ Restore \/ RecordRestore
             \/ FinishRollback
  BY <1>5, LookStep, PassStep, AnnounceStep, RestoreStep, RecordRestoreStep, RolledBackStep
<1>6. CASE CleanStage \/ CleanBackup \/ CleanNext \/ DropJournal
  BY <1>6, CleanStep, NextPathStep, DropJournalStep
<1>7. CASE Recover \/ RecoverFinished \/ RecoverStaging \/ RecoverUnfinished
  BY <1>7, RecoverStep, RecoverFurtherStep, StagingStep
<1> QED
  BY <1>1, <1>2, <1>3, <1>4, <1>5, <1>6, <1>7 DEF Process

LEMMA Inductive == IInv /\ [Next]_vars => IInv'
BY ProcessStep, CrashStep, ForeignStep, StutterStep DEF Next, Resolved

LEMMA Invariant == Spec => []IInv
<1> QED
  BY Initially, Inductive, PTL DEF Spec

\* Type invariant: a call that is at a path is at a path of the plan.
THEOREM EditTypeOK == Spec => []TypeOK
<1>1. IInv => TypeOK
  BY DEF IInv
<1> QED
  BY <1>1, Invariant, PTL

\* When the journal is gone, so is everything it is the only record of.
THEOREM EditLeavesNothing == Spec => []EditNoOrphans
<1>1. IInv => EditNoOrphans
  BY DEF IInv, Phases, Swept, Clear, EditNoOrphans, Over
<1> QED
  BY <1>1, Invariant, PTL

-----------------------------------------------------------------------------
(* Nobody's file is destroyed.                                             *)

\* The two steps that replace a target replace the one they looked at.
LEMMA Replaces ==
  ASSUME IInv, Process, NEW p \in Path
  PROVE  slot'[p] = slot[p] \/ slot[p] \in {"old", "new"}
<1>1. CASE ReplaceTarget \/ Restore
  <2>1. /\ slot' \in {slot, [slot EXCEPT ![at] = "new"], [slot EXCEPT ![at] = "bak"]}
        /\ slot[at] \in {"old", "new"}
    BY <1>1 DEF ReplaceTarget, Restore, Call, Becomes, IInv, LookedAt
  <2> QED
    BY <2>1 DEF IInv, TypeOK, DiskOK
<1>2. CASE Preflight \/ Project \/ CreateJournal \/ WriteHeader \/ RecordFile
             \/ CollectStaged \/ WritePrepared \/ FinishAborted \/ Drop \/ Abort \/ Commit
  BY <1>2 DEF Preflight, Project, CreateJournal, WriteHeader, RecordFile, CollectStaged,
              WritePrepared, FinishAborted, Drop, Abort, Commit, Log, Quiet, Still, disk
<1>3. CASE \E q \in Path : Job(q)
  BY <1>3 DEF Job, StartJob, WriteBackup, CreateStage, WriteStage, VerifyArtifacts, FailJob,
              CancelJob, JobStep
<1>4. CASE Check \/ Intend \/ Classify \/ SyncParent \/ CompletePath \/ FinishCommit
  BY <1>4 DEF Check, Intend, Classify, SyncParent, CompletePath, FinishCommit, Log, Quiet,
              Still, disk
<1>5. CASE Look \/ PassRestored \/ RecoverPath \/ Announce \/ RecordRestore \/ FinishRollback
  BY <1>5 DEF Look, PassRestored, RecoverPath, Announce, RecordRestore, FinishRollback, Log,
              Quiet, Still, disk
<1>6. CASE CleanStage \/ CleanBackup \/ CleanNext \/ DropJournal
  BY <1>6 DEF CleanStage, CleanBackup, CleanNext, DropJournal, Quiet, Still, disk
<1>7. CASE Recover \/ RecoverFinished \/ RecoverStaging \/ RecoverUnfinished
  BY <1>7 DEF Recover, RecoverFinished, RecoverStaging, RecoverUnfinished, Log, Quiet, Still,
              disk
<1> QED
  BY <1>1, <1>2, <1>3, <1>4, <1>5, <1>6, <1>7 DEF Process

\* Rollback and recovery never replace or remove a file that somebody else put
\* in the place of a target, and commit replaces none it looked at.
THEOREM EditPreservesForeign == Spec => ForeignPreserved
<1> DEFINE Preserves(p) == slot[p] = "ext" /\ foreign' = foreign => slot'[p] = "ext"
<1>1. ASSUME IInv, [Next]_vars PROVE \A p \in Path : Preserves(p)
  <2> SUFFICES ASSUME NEW p \in Path PROVE Preserves(p)
    OBVIOUS
  <2>1. CASE Process
    BY <1>1, <2>1, Replaces
  <2>2. CASE Crash \/ UNCHANGED vars
    BY <2>2 DEF Crash, Still, disk, vars
  <2>3. CASE \E q \in Path : Foreign(q)
    <3>1. foreign' # foreign
      BY <1>1, <2>3 DEF Foreign, IInv, TypeOK, EnvOK
    <3> QED
      BY <3>1
  <2> QED
    BY <1>1, <2>1, <2>2, <2>3 DEF Next, Resolved
<1>2. IInv /\ [Next]_vars => [\A p \in Path : Preserves(p)]_vars
  BY <1>1
<1> QED
  BY <1>2, Invariant, PTL DEF Spec, ForeignPreserved

-----------------------------------------------------------------------------
(* The refinement.                                                         *)

ProcessOrDeath == Process \/ Crash

LEMMA NothingRunsAfterwards == ASSUME IInv, ProcessOrDeath PROVE ~Over
<1>1. CASE pc # "down"
  BY <1>1 DEF Over
<1>2. CASE pc = "down"
  <2>1. journal
    <3>1. Process
      BY <1>2 DEF ProcessOrDeath, Crash
    <3>2. CASE Recover
      BY <3>2 DEF Recover
    <3>3. CASE Preflight \/ Project \/ CreateJournal \/ WriteHeader \/ RecordFile
               \/ CollectStaged \/ WritePrepared \/ FinishAborted \/ Drop \/ Abort \/ Commit
      BY <1>2, <3>3 DEF Preflight, Project, CreateJournal, WriteHeader, RecordFile,
           CollectStaged, WritePrepared, FinishAborted, Drop, Abort, Commit
    <3>4. CASE \E p \in Path : Job(p)
      BY <1>2, <3>4 DEF Job, StartJob, WriteBackup, CreateStage, WriteStage, VerifyArtifacts,
           FailJob, CancelJob, JobStep
    <3>5. CASE Check \/ Intend \/ ReplaceTarget \/ Classify \/ SyncParent \/ CompletePath
               \/ FinishCommit
      BY <1>2, <3>5 DEF Check, Intend, ReplaceTarget, Classify, SyncParent, CompletePath,
           FinishCommit
    <3>6. CASE Look \/ PassRestored \/ RecoverPath \/ Announce \/ Restore \/ RecordRestore
               \/ FinishRollback
      BY <1>2, <3>6 DEF Look, PassRestored, RecoverPath, Announce, Restore, RecordRestore,
           FinishRollback
    <3>7. CASE CleanStage \/ CleanBackup \/ CleanNext \/ DropJournal
               \/ RecoverFinished \/ RecoverStaging \/ RecoverUnfinished
      BY <1>2, <3>7 DEF CleanStage, CleanBackup, CleanNext, DropJournal, RecoverFinished,
           RecoverStaging, RecoverUnfinished
    <3> QED
      BY <3>1, <3>2, <3>3, <3>4, <3>5, <3>6, <3>7 DEF Process
  <2> QED
    BY <2>1 DEF Over
<1> QED
  BY <1>1, <1>2

\* How the journal and the answer change, except when the journal is removed.
Continues ==
  /\ log' = log \/ \E r \in Record : log' = Append(log, r)
  /\ journal => journal'
  /\ ~journal => slot' = slot /\ report' # "committed"

LEMMA StepContinues == ASSUME IInv, ProcessOrDeath, ~DropJournal PROVE Continues
<1>1. CASE Preflight \/ Project \/ CreateJournal
  BY <1>1 DEF Preflight, Project, CreateJournal, Call, Step, Leave, Quiet, Still, disk,
              artifacts, Continues, IInv, Phases, Over
<1>2. CASE Crash
  BY <1>2 DEF Crash, Leave, Still, disk, Continues
<1>3. CASE ~(Preflight \/ Project \/ CreateJournal \/ Crash)
  <2>1. Process
    BY <1>3 DEF ProcessOrDeath
  <2>2. journal \/ pc \in {"ready", "project", "create"}
    BY NothingRunsAfterwards DEF IInv, Phases, Over
  <2>3. CASE WriteHeader \/ WritePrepared
    BY <2>2, <2>3, Records DEF WriteHeader, WritePrepared, Log, disk, Continues
  <2>4. CASE RecordFile \/ Intend \/ CompletePath \/ Announce \/ RecordRestore
    <3>1. at \in Path /\ journal
      BY <2>2, <2>4, AtPath DEF RecordFile, Intend, CompletePath, Announce, RecordRestore,
           PathPoints
    <3> QED
      BY <2>4, <3>1, Records DEF RecordFile, Intend, CompletePath, Announce, RecordRestore,
           Log, disk, Continues
  <2>5. CASE FinishAborted \/ Abort \/ FinishCommit \/ FinishRollback \/ RecoverStaging
    BY <2>2, <2>5, Records DEF FinishAborted, Abort, FinishCommit, FinishRollback,
         RecoverStaging, Log, disk, Continues, Outcomes
  <2>6. CASE CollectStaged \/ Drop \/ Commit \/ Check \/ Classify \/ SyncParent \/ Look
             \/ PassRestored \/ RecoverPath \/ CleanNext \/ RecoverFinished
             \/ RecoverUnfinished \/ Recover
    BY <2>2, <2>6 DEF CollectStaged, Drop, Commit, Check, Classify, SyncParent, Look,
         PassRestored, RecoverPath, CleanNext, RecoverFinished, RecoverUnfinished, Recover,
         Quiet, Still, disk, Continues
  <2>7. CASE (\E p \in Path : Job(p)) \/ ReplaceTarget \/ Restore \/ CleanStage \/ CleanBackup
    BY <2>2, <2>7 DEF Job, StartJob, WriteBackup, CreateStage, WriteStage, VerifyArtifacts,
         FailJob, CancelJob, JobStep, ReplaceTarget, Restore, CleanStage, CleanBackup, Continues
  <2> QED
    BY <1>3, <2>1, <2>3, <2>4, <2>5, <2>6, <2>7 DEF Process
<1> QED
  BY <1>1, <1>2, <1>3

\* As long as the transaction is open the record of its end decides.
LEMMA OpenTree ==
  IInv /\ ~Over /\ foreign = 0 =>
    /\ Tree = IF Has(log, Finished("committed")) THEN "after" ELSE "before"
    /\ report \notin {"committed", "unchanged"}
<1> SUFFICES ASSUME IInv, ~Over, foreign = 0
             PROVE  /\ Tree = IF Has(log, Finished("committed")) THEN "after" ELSE "before"
                    /\ report \notin {"committed", "unchanged"}
  OBVIOUS
<1>1. ~journal => slot[1] = "old" /\ 1 \in Path
  BY DEF IInv, Phases, Progress, Unstarted, Over
<1> QED
  BY <1>1 DEF Tree, IInv, Phases

LEMMA OpenStep ==
  ASSUME IInv, IInv', foreign = 0, foreign' = 0, ~Over, ~Over', Continues
  PROVE  Atomic!Decide \/ UNCHANGED Atomic!vars
<1>1. /\ Tree' = IF Has(log', Finished("committed")) THEN "after" ELSE "before"
      /\ report' \notin {"committed", "unchanged"}
  <2>1. (IInv /\ ~Over /\ foreign = 0 =>
           /\ Tree = IF Has(log, Finished("committed")) THEN "after" ELSE "before"
           /\ report \notin {"committed", "unchanged"})'
    BY OpenTree, PTL
  <2> QED
    BY <2>1
<1>2. /\ Tree = IF Has(log, Finished("committed")) THEN "after" ELSE "before"
      /\ report \notin {"committed", "unchanged"}
  BY OpenTree
<1>3. Has(log, Finished("committed")) => Has(log', Finished("committed"))
  <2>1. log \in Seq(Record)
    BY DEF IInv, TypeOK, LogOK
  <2>2. CASE log' = log
    BY <2>2
  <2>3. ASSUME NEW r \in Record, log' = Append(log, r)
        PROVE  Has(log, Finished("committed")) => Has(log', Finished("committed"))
    BY <2>1, <2>3, Appended
  <2> QED
    BY <2>2, <2>3 DEF Continues
<1> QED
  BY <1>1, <1>2, <1>3 DEF Atomic!Decide, Atomic!vars

\* What is found is what was decided.
LEMMA Closing ==
  ASSUME IInv, foreign = 0, foreign' = 0, ~Over, Over', UNCHANGED slot, log' = <<>>,
         NEW x \in {"before", "after"}, Tree = x,
         x = "after" => \A p \in Path : slot[p] = "new",
         x = "before" => \A p \in Path : Restored(p),
         report' = "committed" => x = "after",
         report' = "unchanged" => x = "before"
  PROVE  Atomic!Close
<1>1. 1 \in Path
  OBVIOUS
<1>2. Tree' = x
  BY <1>1, NothingLogged DEF Tree, Over, Restored
<1>3. \A p \in Path : Found(p)' = x
  BY DEF Found, Restored
<1> QED
  BY <1>2, <1>3 DEF Atomic!Close, Atomic!Verdict

LEMMA CloseStep ==
  ASSUME IInv, IInv', foreign = 0, foreign' = 0, ~Over, Over', Continues
  PROVE  Atomic!Close
<1>1. ~journal /\ log' = <<>> /\ log = <<>> /\ slot' = slot /\ report' # "committed"
  BY DEF Over, Continues, IInv, Phases
<1>2. \A p \in Path : slot[p] = "old"
  BY <1>1 DEF IInv, Phases, Progress, Unstarted, Over
<1>3. Tree = "before"
  BY <1>1, OpenTree, NothingLogged
<1> QED
  BY <1>1, <1>2, <1>3, Closing DEF Restored

LEMMA DropStepCloses ==
  ASSUME IInv, foreign = 0, foreign' = 0, DropJournal, journal' = FALSE
  PROVE  Atomic!Close
<1>1. /\ ~Over /\ journal /\ Over' /\ slot' = slot /\ log' = <<>>
      /\ report' \in {"recovery_required",
                      IF Has(log, Finished("committed")) THEN "committed" ELSE "unchanged"}
  BY DEF DropJournal, Call, Leave, Over, IInv, Phases, TypeOK, DiskOK
<1>2. CASE Has(log, Finished("committed"))
  BY <1>1, <1>2, OpenTree, Closing DEF IInv, Explained
<1>3. CASE ~Has(log, Finished("committed"))
  <2>1. IsFinished(log) \/ log = <<>>
    BY DEF IInv, Phases, DropJournal
  <2>2. \A p \in Path : Restored(p)
    BY <1>1, <1>3, <2>1, NothingLogged
    DEF IInv, Explained, IsFinished, Outcomes, Restored, CommitIntents
  <2> QED
    BY <1>1, <1>3, <2>2, OpenTree, Closing
<1> QED
  BY <1>2, <1>3

LEMMA ProcessFrame == ASSUME ProcessOrDeath PROVE foreign' = foreign
<1>1. Steady \/ Fault => foreign' = foreign
  BY DEF Steady, Fault, env
<1>2. CASE Crash
  BY <1>2 DEF Crash
<1>3. CASE Preflight \/ Project \/ CreateJournal \/ WriteHeader \/ RecordFile
           \/ CollectStaged \/ WritePrepared \/ FinishAborted \/ Drop \/ Abort \/ Commit
  BY <1>1, <1>3 DEF Preflight, Project, CreateJournal, WriteHeader, RecordFile, CollectStaged,
       WritePrepared, FinishAborted, Drop, Abort, Commit, Call, Log, Quiet
<1>4. CASE \E p \in Path : Job(p)
  BY <1>1, <1>4 DEF Job, StartJob, WriteBackup, CreateStage, WriteStage, VerifyArtifacts,
       FailJob, CancelJob
<1>5. CASE Check \/ Intend \/ ReplaceTarget \/ Classify \/ SyncParent \/ CompletePath
           \/ FinishCommit
  BY <1>1, <1>5 DEF Check, Intend, ReplaceTarget, Classify, SyncParent, CompletePath,
       FinishCommit, Call, Log, Quiet
<1>6. CASE Look \/ PassRestored \/ RecoverPath \/ Announce \/ Restore \/ RecordRestore
           \/ FinishRollback
  BY <1>1, <1>6 DEF Look, PassRestored, RecoverPath, Announce, Restore, RecordRestore,
       FinishRollback, Call, Log, Quiet
<1>7. CASE CleanStage \/ CleanBackup \/ CleanNext \/ DropJournal
           \/ Recover \/ RecoverFinished \/ RecoverStaging \/ RecoverUnfinished
  BY <1>1, <1>7 DEF CleanStage, CleanBackup, CleanNext, DropJournal, Recover,
       RecoverFinished, RecoverStaging, RecoverUnfinished, Call, Log, Quiet
<1> QED
  BY <1>2, <1>3, <1>4, <1>5, <1>6, <1>7 DEF ProcessOrDeath, Process

LEMMA ProcessOrDeathKeeps ==
  ASSUME IInv, [Next]_vars, foreign' = 0, ~UNCHANGED vars
  PROVE  ProcessOrDeath /\ foreign = 0
<1>1. ~\E p \in Path : Foreign(p)
  BY DEF Foreign, IInv, TypeOK, EnvOK
<1>2. ProcessOrDeath
  BY <1>1 DEF Next, Resolved, ProcessOrDeath
<1> QED
  BY <1>2, ProcessFrame

LEMMA AtomicStep ==
  ASSUME IInv, IInv', [Next]_vars
  PROVE  [Atomic!Next]_(Atomic!vars)
<1>1. CASE foreign' # 0
  <2>1. (foreign > 0)' = TRUE
    BY <1>1 DEF IInv, TypeOK, EnvOK
  <2> QED
    BY <2>1 DEF Atomic!Next, Atomic!Disturb
<1>2. CASE foreign' = 0 /\ UNCHANGED vars
  <2>1. UNCHANGED <<slot, journal, log, pc, report, foreign>>
    BY <1>2 DEF vars, disk, call, env
  <2> QED
    BY <2>1 DEF Atomic!vars, Tree, Over, Found
<1>3. CASE foreign' = 0 /\ ~UNCHANGED vars
  <2>1. ProcessOrDeath /\ foreign = 0
    BY <1>3, ProcessOrDeathKeeps
  <2>2. ~Over
    BY <2>1, NothingRunsAfterwards
  <2>3. CASE ~DropJournal
    BY <1>3, <2>1, <2>2, <2>3, StepContinues, OpenStep, CloseStep DEF Atomic!Next
  <2>4. CASE DropJournal /\ journal' = FALSE
    BY <1>3, <2>1, <2>4, DropStepCloses DEF Atomic!Next
  <2>5. CASE DropJournal /\ journal' # FALSE
    <3>1. Continues /\ ~Over'
      BY <2>5 DEF DropJournal, Call, Continues, Over, IInv, Phases, TypeOK, DiskOK
    <3> QED
      BY <1>3, <2>1, <2>2, <3>1, OpenStep DEF Atomic!Next
  <2> QED
    BY <2>3, <2>4, <2>5
<1> QED
  BY <1>1, <1>2, <1>3

(***************************************************************************)
(* Whatever fails or dies, the files end up all changed or all as they     *)
(* were, one record decides which, and who is told is told the truth.      *)
(***************************************************************************)
THEOREM EditIsAtomic == Spec => ImplementsAtomicApply
<1>1. Init => Atomic!Init
  <2> SUFFICES ASSUME Init PROVE Atomic!Init
    OBVIOUS
  <2>1. /\ ~Over /\ foreign = 0 /\ log = <<>> /\ report = "none"
        /\ 1 \in Path /\ slot[1] = "old"
    BY DEF Init, Over
  <2> QED
    BY <2>1, NothingLogged DEF Atomic!Init, Tree
<1>2. IInv /\ IInv' /\ [Next]_vars => [Atomic!Next]_(Atomic!vars)
  BY AtomicStep
<1> QED
  BY <1>1, <1>2, Invariant, PTL DEF Spec, Atomic!Spec, ImplementsAtomicApply

-----------------------------------------------------------------------------
(* What recovery reads, it can parse.                                      *)

\* Where a call stands, so much is in the journal: this is what the parser asks
\* of the record that is written there.
Recorded ==
  /\ pc \in {"record", "stage", "staged"} => ~Has(log, Prepared)
  /\ pc = "record" => \A q \in Path : Has(log, PreparedFile(q)) <=> q < at
  /\ pc \in {"stage", "staged"} => \A q \in Path : Has(log, PreparedFile(q))
  /\ pc \in {"record", "stage", "staged", "prepared"} =>
       \A q \in Path : ~Has(log, CommitIntent(q)) /\ ~Has(log, Committed(q))
  /\ pc \in {"prepared", "check", "intent", "replace", "classify", "sync", "complete"} =>
       Has(log, Prepared)
  /\ pc \in {"check", "intent"} =>
       \A q \in Path : /\ Has(log, CommitIntent(q)) <=> q < at
                       /\ Has(log, Committed(q)) => q < at
  /\ pc \in {"replace", "classify", "sync", "complete"} =>
       \A q \in Path : /\ Has(log, CommitIntent(q)) <=> q <= at
                       /\ Has(log, Committed(q)) => q < at
  /\ pc \in {"undo", "announce", "restore", "record_restore"} /\ ~Recovering =>
       \A q \in Path : q <= at => Has(log, CommitIntent(q))
  /\ pc \in {"announce", "restore", "record_restore"} => Has(log, CommitIntent(at))
  /\ pc \in {"restore", "record_restore"} => Has(log, RollbackIntent(at))
  /\ Recovering => \A r \in Record : Has(parsed, r) => Has(log, r)

\* A restore announced twice is the one thing the parser rejects.
Legible == Replayable(log) \/ ~AnnouncedOnce

LEMMA ReplayedFurther ==
  ASSUME NEW j \in Seq(Record), NEW r \in Record
  PROVE  Replayable(Append(j, r)) <=> Replayable(j) /\ MayFollow(j, r)
<1> DEFINE jj == Append(j, r)
<1>1. /\ Len(j) \in Nat /\ DOMAIN j = 1..Len(j) /\ DOMAIN jj = 1..Len(j)+1
      /\ jj[Len(j)+1] = r /\ \A k \in 1..Len(j) : jj[k] = j[k]
  OBVIOUS
<1>2. \A k \in 1..Len(j) : SubSeq(jj, 1, k - 1) = SubSeq(j, 1, k - 1)
  OBVIOUS
<1>3. SubSeq(jj, 1, (Len(j) + 1) - 1) = j
  OBVIOUS
<1> HIDE DEF jj
<1>4. Replayable(jj) <=>
        /\ \A k \in 1..Len(j) : MayFollow(SubSeq(jj, 1, k - 1), jj[k])
        /\ MayFollow(SubSeq(jj, 1, (Len(j) + 1) - 1), jj[Len(j) + 1])
  BY <1>1 DEF Replayable
<1>5. Replayable(jj) <=>
        /\ \A k \in 1..Len(j) : MayFollow(SubSeq(j, 1, k - 1), j[k])
        /\ MayFollow(j, r)
  BY <1>1, <1>2, <1>3, <1>4
<1> QED
  BY <1>1, <1>5 DEF Replayable, jj

\* An announcement stays, and a second one is a repetition.
LEMMA AnnouncedFurther ==
  ASSUME NEW j \in Seq(Record), NEW r \in Record, NEW p \in Path
  PROVE  /\ Twice(j, RollbackIntent(p)) => Twice(Append(j, r), RollbackIntent(p))
         /\ r = RollbackIntent(p) /\ Has(j, r) => Twice(Append(j, r), r)
<1>1. /\ Len(j) \in Nat /\ DOMAIN j = 1..Len(j) /\ DOMAIN Append(j, r) = 1..Len(j)+1
      /\ Append(j, r)[Len(j)+1] = r /\ \A k \in 1..Len(j) : Append(j, r)[k] = j[k]
  OBVIOUS
<1> QED
  BY <1>1 DEF Twice, Has

\* The writer goes on with record r.
Writes(r) ==
  /\ log' \in {log, Append(log, r)}
  /\ \A s : Has(log', s) => Has(log, s) \/ s = r
  /\ \A s : Has(log, s) => Has(log', s)
  /\ log' = Append(log, r) => Has(log', r)

LEMMA Writing ==
  ASSUME IInv, NEW r \in Record, log' \in {log, Append(log, r)}
  PROVE  Writes(r)
<1>1. log \in Seq(Record)
  BY DEF IInv, TypeOK, LogOK
<1>2. CASE log' = log
  <2>1. Append(log, r) # log
    BY <1>1
  <2> QED
    BY <1>2, <2>1 DEF Writes
<1>3. CASE log' = Append(log, r)
  BY <1>1, <1>3, Appended DEF Writes
<1> QED
  BY <1>2, <1>3

\* What is written leaves the journal legible.
LEMMA StaysLegible ==
  ASSUME IInv, Legible, NEW r \in Record, log' \in {log, Append(log, r)},
         MayFollow(log, r) \/ \E p \in Path : r = RollbackIntent(p) /\ Has(log, r)
  PROVE  Legible'
<1>1. log \in Seq(Record)
  BY DEF IInv, TypeOK, LogOK
<1>2. CASE log' = log
  BY <1>2 DEF Legible, AnnouncedOnce
<1>3. CASE log' = Append(log, r) /\ Replayable(log) /\ MayFollow(log, r)
  BY <1>1, <1>3, ReplayedFurther DEF Legible
<1>4. CASE log' = Append(log, r) /\ ~AnnouncedOnce
  BY <1>1, <1>4, AnnouncedFurther DEF Legible, AnnouncedOnce
<1>5. CASE log' = Append(log, r) /\ \E p \in Path : r = RollbackIntent(p) /\ Has(log, r)
  BY <1>1, <1>5, AnnouncedFurther DEF Legible, AnnouncedOnce
<1> QED
  BY <1>2, <1>3, <1>4, <1>5 DEF Legible

LEMMA ReturnedRecorded == ASSUME NEW r, Leave(r) PROVE Recorded'
BY DEF Leave, Recorded, Recovering

LEMMA PrepareRecorded ==
  ASSUME IInv, Recorded, Legible,
         Preflight \/ Project \/ CreateJournal \/ WriteHeader \/ RecordFile \/ WritePrepared
  PROVE  Recorded' /\ Legible'
<1>1. CASE Preflight \/ Project \/ CreateJournal
  <2>1. /\ log' = log /\ ~Recovering
        /\ Leave("unchanged") \/ Leave("recovery_required") \/
             (parsed' = parsed /\ pc' \in {"project", "create", "header"})
    BY <1>1 DEF Preflight, Project, CreateJournal, Call, Step, Quiet, Still, IInv, Phases
  <2> QED
    BY <2>1, ReturnedRecorded DEF Recorded, Recovering, Legible, AnnouncedOnce
<1>2. CASE WriteHeader
  <2>1. /\ pc = "header" /\ log' \in {log, Append(log, Header)} /\ log = <<>> /\ ~Recovering
        /\ \/ Leave("recovery_required")
           \/ log' = Append(log, Header) /\ parsed' = parsed /\ pc' = "record" /\ at' = 1
    BY <1>2 DEF WriteHeader, Log, Step, IInv, Phases
  <2>2. Writes(Header) /\ MayFollow(log, Header)
    BY <2>1, Writing, Records DEF MayFollow
  <2>3. \A s : Has(log', s) => s = Header
    BY <2>1, <2>2, NothingLogged DEF Writes
  <2>4. Recorded'
    BY <2>1, <2>3, ReturnedRecorded DEF Recorded, Recovering, Header, Prepared,
       PreparedFile, CommitIntent, Committed
  <2> QED
    BY <2>1, <2>2, <2>4, StaysLegible, Records
<1>3. CASE RecordFile
  <2>1. /\ pc = "record" /\ log' \in {log, Append(log, PreparedFile(at))} /\ ~Recovering
        /\ at \in Path /\ ~IsFinished(log) /\ log # <<>>
        /\ \/ parsed' = parsed /\ pc' = "abort"
           \/ /\ log' = Append(log, PreparedFile(at)) /\ parsed' = parsed
              /\ \/ at < N /\ pc' = "record" /\ at' = at + 1
                 \/ at = N /\ pc' = "stage"
    BY <1>3, AtPath DEF RecordFile, Log, Step, IInv, Phases, PathPoints
  <2>2. Writes(PreparedFile(at)) /\ PreparedFile(at) \in Record
    BY <2>1, Writing, Records
  <2>3. MayFollow(log, PreparedFile(at))
    BY <2>1 DEF MayFollow, Recorded
  <2>4. Recorded'
    BY <2>1, <2>2 DEF Recorded, Recovering, Writes, Prepared, PreparedFile, CommitIntent,
       Committed
  <2> QED
    BY <2>1, <2>2, <2>3, <2>4, StaysLegible
<1>4. CASE WritePrepared
  <2>1. /\ pc = "staged" /\ log' \in {log, Append(log, Prepared)} /\ ~Recovering
        /\ ~IsFinished(log) /\ log # <<>>
        /\ \/ Leave("recovery_required")
           \/ log' = Append(log, Prepared) /\ parsed' = parsed /\ pc' = "prepared"
    BY <1>4 DEF WritePrepared, Log, Step, IInv, Phases
  <2>2. Writes(Prepared) /\ Prepared \in Record
    BY <2>1, Writing, Records
  <2>3. MayFollow(log, Prepared)
    BY <2>1 DEF MayFollow, Recorded
  <2>4. Recorded'
    BY <2>1, <2>2, ReturnedRecorded DEF Recorded, Recovering, Writes, Prepared,
       CommitIntent, Committed
  <2> QED
    BY <2>1, <2>2, <2>3, <2>4, StaysLegible
<1> QED
  BY <1>1, <1>2, <1>3, <1>4

\* The journal is not touched, and the call stays where it is or goes on.
LEMMA UnwrittenRecorded ==
  ASSUME IInv, Recorded, Legible,
         \/ \E p \in Path : Job(p)
         \/ CollectStaged \/ Drop \/ Commit \/ Check \/ ReplaceTarget \/ Classify \/ SyncParent
  PROVE  Recorded' /\ Legible'
<1>1. log' = log /\ ~Recovering
  BY DEF Job, StartJob, WriteBackup, CreateStage, WriteStage, VerifyArtifacts, FailJob,
     CancelJob, JobStep, CollectStaged, Drop, Commit, Check, ReplaceTarget, Classify,
     SyncParent, Quiet, Still, IInv, Phases
<1>2. Legible'
  BY <1>1 DEF Legible, AnnouncedOnce
<1>3. CASE (\E p \in Path : Job(p)) \/ CollectStaged \/ Drop \/ Commit
  <2>1. \/ Leave("recovery_required")
        \/ pc = "stage" /\ UNCHANGED <<pc, at, parsed>>
        \/ pc = "stage" /\ parsed' = parsed /\ pc' \in {"staged", "discard"}
        \/ pc = "prepared" /\ parsed' = parsed /\ pc' = "check" /\ at' = 1
        \/ pc = "prepared" /\ parsed' = parsed /\ pc' = "undo" /\ at' = 0
    BY <1>3 DEF Job, StartJob, WriteBackup, CreateStage, WriteStage, VerifyArtifacts, FailJob,
       CancelJob, JobStep, CollectStaged, Drop, Commit, Step
  <2> QED
    BY <1>1, <1>2, <2>1, ReturnedRecorded DEF Recorded, Recovering
<1>4. CASE Check \/ ReplaceTarget \/ Classify \/ SyncParent
  <2>1. at \in Path
    BY <1>4, AtPath DEF Check, ReplaceTarget, Classify, SyncParent, PathPoints
  <2>2. \/ Leave("recovery_required")
        \/ pc = "check" /\ parsed' = parsed /\ pc' = "intent" /\ at' = at
        \/ pc = "check" /\ parsed' = parsed /\ pc' = "undo" /\ at' = at - 1
        \/ /\ pc \in {"replace", "classify", "sync"} /\ parsed' = parsed
           /\ \/ pc' \in {"classify", "sync", "complete", "undo"} /\ at' = at
              \/ pc' = "undo" /\ at' = at - 1
    BY <1>4 DEF Check, ReplaceTarget, Call, Classify, SyncParent, Step
  <2> QED
    BY <1>1, <1>2, <2>1, <2>2, ReturnedRecorded DEF Recorded, Recovering
<1> QED
  BY <1>3, <1>4

LEMMA CommitRecorded ==
  ASSUME IInv, Recorded, Legible, Intend \/ CompletePath
  PROVE  Recorded' /\ Legible'
<1>1. at \in Path /\ ~Recovering /\ ~IsFinished(log) /\ log # <<>>
  BY AtPath DEF Intend, CompletePath, PathPoints, IInv, Phases
<1>2. CASE Intend
  <2>1. /\ pc = "intent" /\ log' \in {log, Append(log, CommitIntent(at))} /\ parsed' = parsed
        /\ \/ pc' = "undo" /\ at' = at - 1
           \/ log' = Append(log, CommitIntent(at)) /\ pc' = "replace" /\ at' = at
    BY <1>2 DEF Intend, Log, Step
  <2>2. Writes(CommitIntent(at)) /\ CommitIntent(at) \in Record
    BY <1>1, <2>1, Writing, Records
  <2>3. MayFollow(log, CommitIntent(at))
    BY <1>1, <2>1 DEF MayFollow, Recorded
  <2>4. /\ Has(log, Prepared) => Has(log', Prepared)
        /\ \A q \in Path : /\ Has(log', CommitIntent(q)) => Has(log, CommitIntent(q)) \/ q = at
                           /\ Has(log, CommitIntent(q)) => Has(log', CommitIntent(q))
                           /\ Has(log', Committed(q)) => Has(log, Committed(q))
        /\ pc' = "replace" => Has(log', CommitIntent(at))
    BY <2>1, <2>2 DEF Writes, CommitIntent, Committed
  <2>5. Recorded'
    BY <1>1, <2>1, <2>4 DEF Recorded, Recovering
  <2> QED
    BY <2>1, <2>2, <2>3, <2>5, StaysLegible
<1>3. CASE CompletePath
  <2>1. /\ pc = "complete" /\ log' \in {log, Append(log, Committed(at))} /\ parsed' = parsed
        /\ \/ pc' = "undo" /\ at' = at
           \/ /\ log' = Append(log, Committed(at))
              /\ pc' = "finish" \/ (pc' = "check" /\ at' = at + 1)
    BY <1>3 DEF CompletePath, Log, Step
  <2>2. Writes(Committed(at)) /\ Committed(at) \in Record
    BY <1>1, <2>1, Writing, Records
  <2>3. MayFollow(log, Committed(at))
    BY <1>1, <2>1 DEF MayFollow, Recorded
  <2>4. /\ Has(log, Prepared) => Has(log', Prepared)
        /\ \A q \in Path : /\ Has(log', Committed(q)) => Has(log, Committed(q)) \/ q = at
                           /\ Has(log, CommitIntent(q)) <=> Has(log', CommitIntent(q))
    BY <2>1, <2>2 DEF Writes, CommitIntent, Committed
  <2>5. Recorded'
    BY <1>1, <2>1, <2>4 DEF Recorded, Recovering
  <2> QED
    BY <2>1, <2>2, <2>3, <2>5, StaysLegible
<1> QED
  BY <1>2, <1>3

\* The record of the end, which the parser takes anywhere.
LEMMA EndRecorded ==
  ASSUME IInv, Recorded, Legible,
         FinishAborted \/ Abort \/ FinishCommit \/ FinishRollback \/ RecoverStaging
  PROVE  Recorded' /\ Legible'
<1>1. PICK o \in Outcomes : log' \in {log, Append(log, Finished(o))}
  BY DEF FinishAborted, Abort, FinishCommit, FinishRollback, RecoverStaging, Log, Outcomes
<1>2. ~IsFinished(log) /\ log # <<>>
  BY DEF FinishAborted, Abort, FinishCommit, FinishRollback, RecoverStaging, IInv, Phases
<1>3. Leave("recovery_required") \/ (parsed' = parsed /\ pc' \in {"clean", "drop"})
  BY DEF FinishAborted, Abort, FinishCommit, FinishRollback, RecoverStaging, Log, Step
<1>4. Finished(o) \in Record /\ Writes(Finished(o)) /\ MayFollow(log, Finished(o))
  BY <1>1, <1>2, Writing, Records DEF MayFollow
<1> QED
  BY <1>1, <1>3, <1>4, ReturnedRecorded, StaysLegible DEF Recorded, Recovering, Writes

LEMMA RollbackRecorded ==
  ASSUME IInv, Recorded, Legible,
         Look \/ PassRestored \/ RecoverPath \/ Announce \/ Restore \/ RecordRestore
  PROVE  Recorded' /\ Legible'
<1>1. at \in Path /\ ~IsFinished(log) /\ log # <<>>
  BY AtPath DEF Look, PassRestored, RecoverPath, Announce, Restore, RecordRestore, PathPoints,
     IInv, Phases
<1>2. CASE Look \/ PassRestored \/ RecoverPath \/ Restore
  <2>1. /\ log' = log
        /\ \/ Leave("recovery_required") \/ Leave("refused")
           \/ /\ parsed' = parsed
              /\ \/ /\ pc = "undo" /\ pc' = "announce" /\ at' = at
                    /\ ~Recovering \/ at \in CommitIntents(parsed)
                 \/ pc = "undo" /\ Recovering /\ pc' = "undo" /\ at' = at - 1
                 \/ pc = "restore" /\ pc' = "record_restore" /\ at' = at
    BY <1>2 DEF Look, PassRestored, RecoverPath, Restore, Call, Step, Quiet, Still, Uncommitted
  <2>2. Recovering /\ at \in CommitIntents(parsed) => Has(log, CommitIntent(at))
    BY <1>1, Records DEF Recorded, CommitIntents
  <2> QED
    BY <1>1, <2>1, <2>2, ReturnedRecorded DEF Recorded, Recovering, Legible, AnnouncedOnce
<1>3. CASE Announce
  <2>1. /\ pc = "announce" /\ log' \in {log, Append(log, RollbackIntent(at))}
        /\ \/ Leave("recovery_required")
           \/ /\ log' = Append(log, RollbackIntent(at)) /\ parsed' = parsed
              /\ pc' = "restore" /\ at' = at
    BY <1>3 DEF Announce, Log, Step
  <2>2. Writes(RollbackIntent(at)) /\ RollbackIntent(at) \in Record
    BY <1>1, <2>1, Writing, Records
  <2>3. MayFollow(log, RollbackIntent(at)) \/ Has(log, RollbackIntent(at))
    BY <1>1, <2>1 DEF MayFollow, Recorded
  <2>4. Recorded'
    BY <1>1, <2>1, <2>2, ReturnedRecorded DEF Recorded, Recovering, Writes
  <2> QED
    BY <1>1, <2>1, <2>2, <2>3, <2>4, StaysLegible
<1>4. CASE RecordRestore
  <2>1. /\ pc = "record_restore" /\ log' \in {log, Append(log, RolledBack(at))}
        /\ Leave("recovery_required") \/ (parsed' = parsed /\ pc' = "undo" /\ at' = at - 1)
    BY <1>4 DEF RecordRestore, Log, Step
  <2>2. Writes(RolledBack(at)) /\ RolledBack(at) \in Record
    BY <1>1, <2>1, Writing, Records
  <2>3. MayFollow(log, RolledBack(at))
    BY <1>1, <2>1 DEF MayFollow, Recorded
  <2>4. Recorded'
    BY <1>1, <2>1, <2>2, ReturnedRecorded DEF Recorded, Recovering, Writes
  <2> QED
    BY <1>1, <2>1, <2>2, <2>3, <2>4, StaysLegible
<1> QED
  BY <1>2, <1>3, <1>4

LEMMA RecoverRecorded ==
  ASSUME IInv, Recorded, Legible,
         \/ CleanStage \/ CleanBackup \/ CleanNext \/ DropJournal
         \/ Recover \/ RecoverFinished \/ RecoverUnfinished
  PROVE  Recorded' /\ Legible'
<1>1. CASE CleanStage \/ CleanBackup \/ CleanNext
  <2>1. /\ log' = log
        /\ Leave("recovery_required") \/
             (parsed' = parsed /\ pc' \in {"discard", "clean", "abort", "drop"})
    BY <1>1 DEF CleanStage, CleanBackup, CleanNext, Call, Step, Quiet, Still, call
  <2> QED
    BY <2>1, ReturnedRecorded DEF Recorded, Recovering, Legible, AnnouncedOnce
<1>2. CASE DropJournal
  <2>1. /\ log' = log \/ log' = <<>>
        /\ \/ Leave("recovery_required")
           \/ Leave(IF Has(log, Finished("committed")) THEN "committed" ELSE "unchanged")
    BY <1>2 DEF DropJournal, Call
  <2>2. log' = <<>> => Replayable(log')
    BY DEF Replayable
  <2> QED
    BY <2>1, <2>2, ReturnedRecorded DEF Legible, AnnouncedOnce
<1>3. CASE Recover
  <2>1. /\ log' = log /\ ~Recovering
        /\ \/ Leave("corrupt")
           \/ parsed' = parsed /\ pc' = "drop"
           \/ parsed' = log /\ pc' = "recover"
    BY <1>3 DEF Recover, Step, IInv, Phases
  <2> QED
    BY <2>1, ReturnedRecorded DEF Recorded, Recovering, Legible, AnnouncedOnce
<1>4. CASE RecoverFinished \/ RecoverUnfinished
  <2>1. /\ log' = log /\ Recovering
        /\ Leave("refused") \/ (parsed' = parsed /\ pc' \in {"clean", "undo"})
    BY <1>4 DEF RecoverFinished, RecoverUnfinished, Step, Quiet, Still, IInv, Phases, Recovering
  <2> QED
    BY <2>1, ReturnedRecorded DEF Recorded, Recovering, Legible, AnnouncedOnce
<1> QED
  BY <1>1, <1>2, <1>3, <1>4

LEMMA RecordedStep == ASSUME IInv, Recorded, Legible, [Next]_vars PROVE Recorded' /\ Legible'
<1>1. CASE Process
  BY <1>1, PrepareRecorded, UnwrittenRecorded, CommitRecorded, EndRecorded, RollbackRecorded,
     RecoverRecorded DEF Process
<1>2. CASE Crash
  BY <1>2, ReturnedRecorded DEF Crash, Still, Legible, AnnouncedOnce
<1>3. CASE \E p \in Path : Foreign(p)
  BY <1>3 DEF Foreign, call, Recorded, Recovering, Legible, AnnouncedOnce
<1>4. CASE UNCHANGED vars
  BY <1>4 DEF vars, call, Recorded, Recovering, Legible, AnnouncedOnce
<1> QED
  BY <1>1, <1>2, <1>3, <1>4 DEF Next, Resolved

-----------------------------------------------------------------------------
(* What has to be restored, can be.                                        *)

AfterStaging ==
  {"staged", "prepared", "check", "intent", "replace", "classify", "sync", "complete", "finish"}

\* While nobody else writes, a changed file of an unfinished transaction has its
\* backup beside it, and an unwinding call has changed what it still has to undo.
Backed ==
  foreign = 0 =>
    /\ \A p \in Path : slot[p] \in {"old", "new", "bak"}
    /\ journal /\ ~IsFinished(log) => \A p \in Path : slot[p] = "new" => backup[p] = "bak"
    /\ pc \in AfterStaging => \A p \in Path : backup[p] = "bak"
    /\ pc = "undo" /\ ~Recovering => \A p \in Path : p <= at => slot[p] = "new"
    /\ pc \in {"announce", "restore", "record_restore"} /\ ~Recovering =>
         \A p \in Path : p < at => slot[p] = "new"

\* A staging job past its backup has made it; before staging there is no job.
Staged ==
  /\ pc \in {"ready", "project", "create", "header", "record"} => job = Idle
  /\ pc = "stage" =>
       \A p \in Path : job[p] \in {"stage", "output", "verify", "ok"} => backup[p] = "bak"

Answers ==
  /\ report = "refused" => foreign # 0
  /\ report = "corrupt" => pc = "down" /\ ~Replayable(log)

LEMMA ReturnedStaged == ASSUME NEW r, Leave(r) PROVE Staged'
BY DEF Leave, Staged

LEMMA JobStaged == ASSUME IInv, Staged, NEW p \in Path, Job(p) PROVE Staged'
<1>1. /\ pc = "stage" /\ pc' = pc /\ job \in [Path -> JobStates]
      /\ backup \in [Path -> {"none", "partial", "bak"}]
  BY DEF Job, StartJob, WriteBackup, CreateStage, WriteStage, VerifyArtifacts, FailJob,
     CancelJob, JobStep, IInv, TypeOK, CallOK, DiskOK
<1>2. CASE StartJob(p) \/ WriteBackup(p)
  <2>1. \/ job' = [job EXCEPT ![p] = "backup"] /\ backup' = [backup EXCEPT ![p] = "partial"]
        \/ job' = [job EXCEPT ![p] = "stage"] /\ backup' = [backup EXCEPT ![p] = "bak"]
    BY <1>2 DEF StartJob, WriteBackup, JobStep, Put
  <2> QED
    BY <1>1, <2>1 DEF Staged
<1>3. CASE CreateStage(p) \/ WriteStage(p) \/ VerifyArtifacts(p)
  <2>1. /\ backup' = backup /\ job[p] \in {"stage", "output", "verify"}
        /\ \E x \in JobStates : job' = [job EXCEPT ![p] = x]
    BY <1>3 DEF CreateStage, WriteStage, VerifyArtifacts, JobStep, artifacts, JobStates
  <2> QED
    BY <1>1, <2>1 DEF Staged
<1>4. CASE FailJob(p) \/ CancelJob(p)
  <2>1. /\ \E y : backup' = [backup EXCEPT ![p] = y]
        /\ \E x \in {"failed", "cancelled"} : job' = [job EXCEPT ![p] = x]
    <3>1. CASE FailJob(p)
      BY <3>1 DEF FailJob, JobStep, Put
    <3>2. CASE CancelJob(p)
      <4>1. backup' = [backup EXCEPT ![p] = backup[p]]
        BY <1>1, <3>2 DEF CancelJob, artifacts
      <4> QED
        BY <3>2, <4>1 DEF CancelJob, JobStep
    <3> QED
      BY <1>4, <3>1, <3>2
  <2> QED
    BY <1>1, <2>1 DEF Staged
<1> QED
  BY <1>2, <1>3, <1>4 DEF Job

LEMMA StagedStep == ASSUME IInv, Staged, [Next]_vars PROVE Staged'
<1>1. CASE \E p \in Path : Job(p)
  BY <1>1, JobStaged
<1>2. CASE Preflight \/ Project \/ CreateJournal \/ WriteHeader \/ RecordFile
  <2>1. \/ Leave("unchanged") \/ Leave("recovery_required")
        \/ /\ job' = job /\ pc \in {"ready", "project", "create", "header", "record"}
           /\ pc' \in {"project", "create", "header", "record", "stage", "abort"}
    BY <1>2 DEF Preflight, Project, CreateJournal, WriteHeader, RecordFile, Call, Log, Step
  <2>2. job = Idle => \A p \in Path : job[p] = "queued"
    BY DEF Idle
  <2> QED
    BY <2>1, <2>2, ReturnedStaged DEF Staged
<1>3. CASE CollectStaged \/ WritePrepared \/ FinishAborted \/ Drop \/ Abort \/ Commit
  BY <1>3, ReturnedStaged DEF CollectStaged, WritePrepared, FinishAborted, Drop, Abort, Commit,
     Log, Step, Staged
<1>4. CASE Check \/ Intend \/ ReplaceTarget \/ Classify \/ SyncParent \/ CompletePath
           \/ FinishCommit
  BY <1>4, ReturnedStaged DEF Check, Intend, ReplaceTarget, Classify, SyncParent, CompletePath,
     FinishCommit, Call, Log, Step, Staged
<1>5. CASE Look \/ PassRestored \/ RecoverPath \/ Announce \/ Restore \/ RecordRestore
           \/ FinishRollback
  BY <1>5, ReturnedStaged DEF Look, PassRestored, RecoverPath, Announce, Restore,
     RecordRestore, FinishRollback, Call, Log, Step, Staged
<1>6. CASE CleanStage \/ CleanBackup \/ CleanNext \/ DropJournal
  BY <1>6, ReturnedStaged DEF CleanStage, CleanBackup, CleanNext, DropJournal, Call, Step, call,
     Staged
<1>7. CASE Recover \/ RecoverFinished \/ RecoverStaging \/ RecoverUnfinished
  BY <1>7, ReturnedStaged DEF Recover, RecoverFinished, RecoverStaging, RecoverUnfinished,
     Log, Step, Staged
<1>8. CASE Crash
  BY <1>8, ReturnedStaged DEF Crash
<1>9. CASE (\E p \in Path : Foreign(p)) \/ UNCHANGED vars
  BY <1>9 DEF Foreign, artifacts, call, vars, disk, Staged
<1> QED
  BY <1>1, <1>2, <1>3, <1>4, <1>5, <1>6, <1>7, <1>8, <1>9 DEF Next, Resolved, Process

-----------------------------------------------------------------------------
(* The backups, step by step.                                              *)

\* A journal that goes on does not lose its end.
LEMMA EndStays ==
  ASSUME IInv, NEW r \in Record, log' \in {log, Append(log, r)}
  PROVE  IsFinished(log) => IsFinished(log')
BY Writing DEF Writes, IsFinished

\* Before the commit every target is as it was found.
LEMMA PreparingBacked ==
  ASSUME IInv, Backed, Staged,
         \/ Preflight \/ Project \/ CreateJournal \/ WriteHeader \/ RecordFile
         \/ (\E p \in Path : Job(p)) \/ CollectStaged \/ WritePrepared \/ FinishAborted
         \/ Drop \/ Abort \/ Commit
  PROVE  Backed'
<1> SUFFICES ASSUME foreign' = 0 PROVE Backed'
  BY DEF Backed
<1>1. foreign = 0 /\ slot' = slot
  BY ProcessFrame DEF ProcessOrDeath, Process, Preflight, Project, CreateJournal, WriteHeader,
     RecordFile, Job, StartJob, WriteBackup, CreateStage, WriteStage, VerifyArtifacts, FailJob,
     CancelJob, JobStep, CollectStaged, WritePrepared, FinishAborted, Drop, Abort, Commit,
     Log, Quiet, Still, disk
<1>2. \A p \in Path : slot[p] = "old"
  <2>1. pc \in Unstarted
    BY DEF Preflight, Project, CreateJournal, WriteHeader, RecordFile, Job, StartJob,
       WriteBackup, CreateStage, WriteStage, VerifyArtifacts, FailJob, CancelJob, JobStep,
       CollectStaged, WritePrepared, FinishAborted, Drop, Abort, Commit, Unstarted
  <2> QED
    BY <1>1, <2>1 DEF IInv, Progress
<1>3. ~Recovering'
  BY DEF Preflight, Project, CreateJournal, WriteHeader, RecordFile, Job, StartJob,
       WriteBackup, CreateStage, WriteStage, VerifyArtifacts, FailJob, CancelJob, JobStep,
       CollectStaged, WritePrepared, FinishAborted, Drop, Abort, Commit, Call, Log, Step, Leave,
       IInv, Phases, Recovering
<1>4. pc' = "undo" => at' = 0
  BY DEF Preflight, Project, CreateJournal, WriteHeader, RecordFile, Job, StartJob,
       WriteBackup, CreateStage, WriteStage, VerifyArtifacts, FailJob, CancelJob, JobStep,
       CollectStaged, WritePrepared, FinishAborted, Drop, Abort, Commit, Call, Log, Step, Leave
<1>5. pc' \notin {"announce", "restore", "record_restore"}
  BY DEF Preflight, Project, CreateJournal, WriteHeader, RecordFile, Job, StartJob,
       WriteBackup, CreateStage, WriteStage, VerifyArtifacts, FailJob, CancelJob, JobStep,
       CollectStaged, WritePrepared, FinishAborted, Drop, Abort, Commit, Call, Log, Step, Leave
<1>6. pc' \in AfterStaging => \A p \in Path : backup'[p] = "bak"
  <2>1. CASE CollectStaged
    BY <2>1 DEF CollectStaged, Step, AfterStaging, Quiet, Still, disk, artifacts, Staged
  <2>2. CASE WritePrepared \/ Commit
    BY <1>1, <2>2 DEF WritePrepared, Commit, Log, Still, disk, artifacts, Backed, AfterStaging
  <2>3. CASE ~(CollectStaged \/ WritePrepared \/ Commit)
    BY <2>3 DEF Preflight, Project, CreateJournal, WriteHeader, RecordFile, Job, StartJob,
       WriteBackup, CreateStage, WriteStage, VerifyArtifacts, FailJob, CancelJob, JobStep,
       FinishAborted, Drop, Abort, Call, Log, Step, Leave, AfterStaging
  <2> QED
    BY <2>1, <2>2, <2>3
<1>7. \A p \in Path : p <= 0 => FALSE
  OBVIOUS
<1> QED
  BY <1>1, <1>2, <1>3, <1>4, <1>5, <1>6, <1>7 DEF Backed

LEMMA CommitBacked ==
  ASSUME IInv, Backed,
         \/ Check \/ Intend \/ ReplaceTarget \/ Classify \/ SyncParent \/ CompletePath
         \/ FinishCommit
  PROVE  Backed'
<1> SUFFICES ASSUME foreign' = 0 PROVE Backed'
  BY DEF Backed
<1>1. /\ foreign = 0 /\ backup' = backup /\ pc \in AfterStaging
      /\ \A p \in Path : backup[p] = "bak"
  BY ProcessFrame DEF ProcessOrDeath, Process, Check, Intend, ReplaceTarget, Classify,
     SyncParent, CompletePath, FinishCommit, Log, Quiet, Still, disk, artifacts, AfterStaging,
     Backed
<1>2. CASE ReplaceTarget
  <2>1. at \in Path /\ pc = "replace"
    BY <1>2, AtPath DEF ReplaceTarget, PathPoints
  <2>2. /\ slot' \in {slot, [slot EXCEPT ![at] = "new"]} /\ pc' \in {"sync", "classify"}
        /\ slot \in [Path -> {"none", "old", "new", "bak", "ext"}]
    BY <1>2 DEF ReplaceTarget, Call, Becomes, Step, IInv, TypeOK, DiskOK
  <2> QED
    BY <1>1, <2>1, <2>2 DEF Backed
<1>3. CASE Check \/ Intend \/ Classify \/ SyncParent \/ CompletePath
  <2>1. at \in Path /\ slot' = slot
    BY <1>3, AtPath DEF Check, Intend, Classify, SyncParent, CompletePath, PathPoints, Log,
       Quiet, Still, disk
  <2>2. \/ pc' \in AfterStaging \/ pc' = "down"
        \/ pc' = "undo" /\ at' = at - 1 /\ pc \in {"check", "intent", "classify"}
        \/ pc' = "undo" /\ at' = at /\ pc \in {"sync", "complete"}
        \/ pc' = "undo" /\ at' = at /\ pc = "classify" /\ slot[at] = "new"
    <3>1. CASE Check \/ Classify
      BY <3>1 DEF Check, Classify, Step, Leave, AfterStaging
    <3>2. CASE Intend \/ SyncParent \/ CompletePath
      BY <3>2 DEF Intend, SyncParent, CompletePath, Call, Log, Step, AfterStaging
    <3> QED
      BY <1>3, <3>1, <3>2
  <2>3. pc' = "undo" => pc \in {"check", "intent", "classify", "sync", "complete"}
    BY <1>3 DEF Check, Intend, Classify, SyncParent, CompletePath
  <2>4. pc' = "undo" => \A p \in Path : p <= at' => slot[p] = "new"
    BY <1>1, <2>1, <2>2, <2>3 DEF IInv, Progress, AfterStaging
  <2> QED
    BY <1>1, <2>1, <2>2, <2>4 DEF Backed, AfterStaging
<1>4. CASE FinishCommit
  <2>1. slot' = slot /\ pc' \in {"clean", "down"}
    BY <1>4 DEF FinishCommit, Log, Step, Leave, disk
  <2> QED
    BY <1>1, <2>1 DEF Backed, AfterStaging
<1> QED
  BY <1>2, <1>3, <1>4

LEMMA RollbackBacked ==
  ASSUME IInv, Backed,
         \/ Look \/ PassRestored \/ RecoverPath \/ Announce \/ Restore \/ RecordRestore
         \/ FinishRollback
  PROVE  Backed'
<1> SUFFICES ASSUME foreign' = 0 PROVE Backed'
  BY DEF Backed
<1>1. foreign = 0 /\ UNCHANGED <<stage, journal>> /\ ~IsFinished(log) /\ journal
  BY ProcessFrame DEF ProcessOrDeath, Process, Look, PassRestored, RecoverPath, Announce,
     Restore, RecordRestore, FinishRollback, Log, Quiet, Still, disk, artifacts, IInv, Phases
<1>2. pc' \notin AfterStaging
  BY DEF Look, PassRestored, RecoverPath, Announce, Restore, RecordRestore, FinishRollback,
     Call, Log, Step, Leave, AfterStaging
<1>3. CASE Look \/ PassRestored \/ RecoverPath \/ Announce \/ RecordRestore
  <2>1. at \in Path /\ UNCHANGED <<slot, backup>>
    BY <1>3, AtPath DEF Look, PassRestored, RecoverPath, Announce, RecordRestore, PathPoints,
       Log, Quiet, Still, disk, artifacts
  <2>2. \/ pc' = "down"
        \/ /\ parsed' = parsed
           /\ \/ pc = "undo" /\ at' = at /\ pc' = "announce"
              \/ pc = "undo" /\ Recovering /\ pc' = "undo"
              \/ pc = "announce" /\ at' = at /\ pc' = "restore"
              \/ pc = "record_restore" /\ at' = at - 1 /\ pc' = "undo"
    BY <1>3 DEF Look, PassRestored, RecoverPath, Announce, RecordRestore, Log, Step, Leave
  <2> QED
    BY <1>1, <1>2, <2>1, <2>2 DEF Backed, Recovering
<1>4. CASE Restore
  <2>1. /\ at \in Path /\ pc = "restore"
        /\ slot \in [Path -> {"none", "old", "new", "bak", "ext"}]
        /\ backup \in [Path -> {"none", "partial", "bak"}]
    BY <1>4, AtPath DEF Restore, PathPoints, IInv, TypeOK, DiskOK
  <2>2. /\ \/ slot' = [slot EXCEPT ![at] = "bak"] /\ backup' = [backup EXCEPT ![at] = "none"]
           \/ UNCHANGED <<slot, backup>>
        /\ pc' = "down" \/ (pc' = "record_restore" /\ at' = at /\ parsed' = parsed)
    BY <1>4 DEF Restore, Call, Becomes, Put, Step, Leave
  <2>3. /\ \A p \in Path : p # at => slot'[p] = slot[p] /\ backup'[p] = backup[p]
        /\ slot'[at] # "new" \/ (slot'[at] = slot[at] /\ backup'[at] = backup[at])
        /\ slot'[at] \in {"bak", slot[at]}
    BY <2>1, <2>2
  <2>4. IsFinished(log') => IsFinished(log)
    BY <1>4 DEF Restore
  <2> QED
    BY <1>1, <1>2, <2>1, <2>2, <2>3, <2>4 DEF Backed, Recovering
<1>5. CASE FinishRollback
  <2>1. UNCHANGED <<slot, backup>> /\ pc' \in {"clean", "down"}
    BY <1>5 DEF FinishRollback, Log, Step, Leave, disk, artifacts
  <2> QED
    BY <1>1, <1>2, <2>1 DEF Backed
<1> QED
  BY <1>3, <1>4, <1>5

LEMMA CleaningBacked ==
  ASSUME IInv, Backed, CleanStage \/ CleanBackup \/ CleanNext \/ DropJournal
  PROVE  Backed'
<1> SUFFICES ASSUME foreign' = 0 PROVE Backed'
  BY DEF Backed
<1>1. foreign = 0 /\ slot' = slot /\ (pc = "discard" \/ IsFinished(log) \/ log = <<>>)
  BY ProcessFrame DEF ProcessOrDeath, Process, CleanStage, CleanBackup, CleanNext, DropJournal,
     Quiet, Still, disk, IInv, Phases
<1>2. pc' \in {"down", "discard", "clean", "abort", "drop"}
  BY DEF CleanStage, CleanBackup, CleanNext, DropJournal, Call, Step, Leave, call
<1>3. \/ IsFinished(log')
      \/ ~journal'
      \/ \A p \in Path : slot[p] # "new"
  <2>1. CASE IsFinished(log)
    BY <2>1 DEF CleanStage, CleanBackup, CleanNext, DropJournal, Call, Quiet, Still
  <2>2. CASE pc = "discard"
    BY <1>1, <2>2 DEF IInv, Progress, Unstarted
  <2>3. CASE log = <<>>
    BY <1>1, <2>3, NothingLogged DEF IInv, Explained, CommitIntents, Phases, Over, CleanStage,
       CleanBackup, CleanNext, DropJournal
  <2> QED
    BY <1>1, <2>1, <2>2, <2>3
<1> QED
  BY <1>1, <1>2, <1>3 DEF Backed, AfterStaging

LEMMA RecoveryBacked ==
  ASSUME IInv, Backed, Recover \/ RecoverFinished \/ RecoverStaging \/ RecoverUnfinished
  PROVE  Backed'
<1> SUFFICES ASSUME foreign' = 0 PROVE Backed'
  BY DEF Backed
<1>1. foreign = 0 /\ UNCHANGED <<slot, stage, backup, journal>>
  BY ProcessFrame DEF ProcessOrDeath, Process, Recover, RecoverFinished, RecoverStaging,
     RecoverUnfinished, Log, Quiet, Still, disk, artifacts
<1>2. pc' \in {"down", "drop", "recover", "clean", "undo"} /\ (pc' = "undo" => Recovering')
  BY DEF Recover, RecoverFinished, RecoverStaging, RecoverUnfinished, Log, Step, Leave, IInv,
     Phases, Recovering
<1>3. IsFinished(log) => IsFinished(log')
  <2>1. log' \in {log, Append(log, Finished("aborted"))} /\ Finished("aborted") \in Record
    BY Records DEF Recover, RecoverFinished, RecoverStaging, RecoverUnfinished, Log, Quiet,
       Still, Outcomes
  <2> QED
    BY <2>1, EndStays
<1> QED
  BY <1>1, <1>2, <1>3 DEF Backed, AfterStaging

LEMMA BackedStep == ASSUME IInv, Backed, Staged, [Next]_vars PROVE Backed'
<1>1. CASE Process
  BY <1>1, PreparingBacked, CommitBacked, RollbackBacked, CleaningBacked, RecoveryBacked
  DEF Process
<1>2. CASE Crash
  BY <1>2 DEF Crash, Leave, Still, disk, artifacts, Backed, AfterStaging
<1>3. CASE \E p \in Path : Foreign(p)
  BY <1>3 DEF Foreign, IInv, TypeOK, EnvOK, Backed
<1>4. CASE UNCHANGED vars
  BY <1>4 DEF vars, disk, artifacts, call, env, Backed, Recovering
<1> QED
  BY <1>1, <1>2, <1>3, <1>4 DEF Next, Resolved

-----------------------------------------------------------------------------
(* What recovery answers.                                                  *)

\* A refusal is somebody else's doing.
LEMMA Refuses ==
  ASSUME IInv, Backed, Leave("refused"), Look \/ RecoverPath \/ RecoverFinished
  PROVE  foreign # 0
<1> SUFFICES ASSUME foreign = 0 PROVE FALSE
  OBVIOUS
<1>1. CASE Look \/ RecoverPath
  <2>1. at \in Path /\ pc = "undo" /\ journal /\ ~IsFinished(log)
    BY <1>1, AtPath DEF Look, RecoverPath, IInv, Phases
  <2>2. slot[at] = "new"
    <3>1. CASE Look
      BY <2>1, <3>1 DEF Look, Backed
    <3>2. CASE RecoverPath
      BY <2>1, <3>2 DEF RecoverPath, Backed, Restored
    <3> QED
      BY <1>1, <3>1, <3>2
  <2>3. backup[at] = "bak"
    BY <2>1, <2>2 DEF Backed
  <2> QED
    BY <1>1, <2>2, <2>3 DEF Look, RecoverPath, Step, Leave
<1>2. CASE RecoverFinished
  <2>1. /\ parsed = log /\ IsFinished(log)
        /\ \E p \in Path : slot[p] \notin Expected(p)
    BY <1>2 DEF RecoverFinished, Step, Leave, IInv, Phases
  <2>2. \A p \in Path : slot[p] \in Expected(p)
    BY <2>1 DEF Expected, IInv, Explained, IsFinished, Outcomes, Restored, TypeOK, DiskOK
  <2> QED
    BY <2>1, <2>2
<1> QED
  BY <1>1, <1>2

LEMMA AnswersStep == ASSUME IInv, Backed, Answers, [Next]_vars PROVE Answers'
<1>1. foreign # 0 => foreign' # 0
  <2>1. CASE ProcessOrDeath
    BY <2>1, ProcessFrame
  <2>2. CASE (\E p \in Path : Foreign(p)) \/ UNCHANGED vars
    BY <2>2 DEF Foreign, vars, env, IInv, TypeOK, EnvOK
  <2> QED
    BY <2>1, <2>2 DEF Next, Resolved, ProcessOrDeath
<1>2. CASE Look \/ RecoverPath \/ RecoverFinished
  <2>1. /\ pc # "down"
        /\ Leave("refused") \/ report' = report
    BY <1>2 DEF Look, RecoverPath, RecoverFinished, Step
  <2> QED
    BY <1>1, <1>2, <2>1, Refuses DEF Answers, Leave
<1>3. CASE Recover
  <2>1. /\ log' = log
        /\ \/ ~Replayable(log) /\ Leave("corrupt")
           \/ report' = report /\ Replayable(log)
    <3>1. log = <<>> => Replayable(log)
      BY DEF Replayable
    <3> QED
      BY <1>3, <3>1 DEF Recover, Step
  <2> QED
    BY <1>1, <2>1 DEF Answers, Leave
<1>4. CASE (\E p \in Path : Foreign(p)) \/ UNCHANGED vars
  BY <1>1, <1>4 DEF Foreign, vars, call, Answers
<1>5. CASE ProcessOrDeath /\ ~(Look \/ RecoverPath \/ RecoverFinished \/ Recover)
  <2>1. pc # "down" /\ report' \notin {"refused", "corrupt"} \ {report}
    <3>1. CASE Preflight \/ Project \/ CreateJournal \/ WriteHeader \/ RecordFile
               \/ CollectStaged \/ WritePrepared \/ FinishAborted \/ Drop \/ Abort \/ Commit
      BY <3>1 DEF Preflight, Project, CreateJournal, WriteHeader, RecordFile, CollectStaged,
           WritePrepared, FinishAborted, Drop, Abort, Commit, Call, Log, Step, Leave, Reports
    <3>2. CASE \E p \in Path : Job(p)
      BY <3>2 DEF Job, StartJob, WriteBackup, CreateStage, WriteStage, VerifyArtifacts, FailJob,
           CancelJob, JobStep
    <3>3. CASE Check \/ Intend \/ ReplaceTarget \/ Classify \/ SyncParent \/ CompletePath
               \/ FinishCommit
      BY <3>3 DEF Check, Intend, ReplaceTarget, Classify, SyncParent, CompletePath,
           FinishCommit, Call, Log, Step, Leave, Reports
    <3>4. CASE PassRestored \/ Announce \/ Restore \/ RecordRestore \/ FinishRollback
               \/ RecoverStaging \/ RecoverUnfinished
      BY <3>4 DEF PassRestored, Announce, Restore, RecordRestore, FinishRollback,
           RecoverStaging, RecoverUnfinished, Call, Log, Step, Leave, Reports
    <3>5. CASE CleanStage \/ CleanBackup \/ CleanNext \/ DropJournal \/ Crash
      BY <3>5 DEF CleanStage, CleanBackup, CleanNext, DropJournal, Crash, Call, Step, Leave,
           call, Reports
    <3> QED
      BY <1>5, <3>1, <3>2, <3>3, <3>4, <3>5 DEF ProcessOrDeath, Process
  <2> QED
    BY <1>1, <2>1 DEF Answers
<1> QED
  BY <1>2, <1>3, <1>4, <1>5 DEF Next, Resolved, ProcessOrDeath

\* The invariant with what is known of the records and the artifacts.
Explicable == IInv /\ Recorded /\ Legible /\ Staged /\ Backed /\ Answers

LEMMA ExplicableHolds == Spec => []Explicable
<1>1. Init => Explicable
  <2> SUFFICES ASSUME Init PROVE Recorded /\ Legible /\ Staged /\ Backed /\ Answers
    BY Initially DEF Explicable
  <2>1. /\ log = <<>> /\ pc = "ready" /\ parsed = <<>> /\ job = Idle /\ report = "none"
        /\ journal = FALSE /\ \A p \in Path : slot[p] = "old"
    BY DEF Init
  <2> QED
    BY <2>1 DEF Recorded, Recovering, Legible, Replayable, Staged, Backed, AfterStaging, Answers
<1>2. Explicable /\ [Next]_vars => Explicable'
  BY Inductive, RecordedStep, StagedStep, BackedStep, AnswersStep DEF Explicable
<1> QED
  BY <1>1, <1>2, PTL DEF Spec

(***************************************************************************)
(* Recovery can explain every journal and every disk this engine leaves    *)
(* behind, as long as no restore was interrupted between its announcement  *)
(* and the rename: what it refuses somebody else has changed, and what it  *)
(* calls corrupt announces a restore twice.                                *)
(***************************************************************************)
THEOREM EditIsNeverRefused == Spec => []EditNeverRefuses
<1>1. Explicable => EditNeverRefuses
  BY DEF Explicable, Legible, Answers, EditNeverRefuses
<1> QED
  BY <1>1, ExplicableHolds, PTL

\* The parser takes one announcement of a restore, whatever is around it.
LEMMA TwiceIsRejected ==
  ASSUME NEW j \in Seq(Record), NEW p \in Path, Twice(j, RollbackIntent(p))
  PROVE  ~Replayable(j)
<1> DEFINE r == RollbackIntent(p)
<1> HIDE DEF r
<1>0. PICK m, n \in DOMAIN j : m # n /\ j[m] = r /\ j[n] = r
  BY DEF Twice, r
<1>1. PICK k \in 1..Len(j), l \in 1..Len(j) : k < l /\ j[k] = r /\ j[l] = r
  <2>1. m \in 1..Len(j) /\ n \in 1..Len(j)
    BY <1>0
  <2>2. m < n \/ n < m
    BY <1>0, <2>1
  <2> QED
    BY <1>0, <2>1, <2>2
<1> DEFINE before == SubSeq(j, 1, l - 1)
<1>2. DOMAIN before = 1..(l - 1) /\ before[k] = j[k] /\ k \in 1..(l - 1)
  BY <1>1
<1>3. Has(before, r)
  BY <1>1, <1>2 DEF Has
<1> HIDE DEF before
<1>4. /\ r # Header /\ r # Prepared /\ \A o \in Outcomes : r # Finished(o)
      /\ \A q \in Path : /\ r # PreparedFile(q) /\ r # CommitIntent(q)
                         /\ r # Committed(q) /\ r # RolledBack(q)
  BY DEF r, Header, Prepared, PreparedFile, CommitIntent, Committed, RollbackIntent, RolledBack,
         Finished
<1>5. ~MayFollow(before, r)
  BY <1>3, <1>4 DEF MayFollow
<1> QED
  BY <1>1, <1>5 DEF Replayable, before

\* What the parser of the next process rejects, whatever fails, dies or
\* interferes: the journals in which a restore is announced twice (restore_file
\* of recovery announces without looking at the records), and no others.
THEOREM OneFlawAndNoOther == Spec => [](Replayable(log) <=> AnnouncedOnce)
<1>1. Explicable => (Replayable(log) <=> AnnouncedOnce)
  BY TwiceIsRejected DEF Explicable, Legible, AnnouncedOnce, IInv, TypeOK, LogOK
<1> QED
  BY <1>1, ExplicableHolds, PTL
=============================================================================
