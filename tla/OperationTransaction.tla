------------------------- MODULE OperationTransaction -------------------------
(***************************************************************************)
(* One V3 operation transaction from preparation to the removal of its     *)
(* journal: the call that prepares and commits it, the deaths of its       *)
(* process, the recoveries of later processes, failing system calls, and   *)
(* writers that ignore the advisory root lock.                             *)
(***************************************************************************)
EXTENDS OperationPrepare, OperationCommit, OperationCleanup, OperationRecovery

Init ==
  /\ kind \in [Path -> Kinds]
  /\ slot = [p \in Path |-> Before(p)]
  /\ stage = [p \in Path |-> "none"]
  /\ backup = [p \in Path |-> "none"]
  /\ kept = [p \in Path |-> "none"]
  /\ receipt = "none"
  /\ journal = FALSE /\ log = <<>> /\ poisoned = FALSE
  /\ pc = "ready" /\ at = 0 /\ job = Idle /\ retain = FALSE /\ parsed = <<>>
  /\ report = "none"
  /\ crashes = 0 /\ faults = 0 /\ foreign = 0

\* The process dies between two system calls.  A death inside one is a death
\* before or after it: the reader ignores a torn journal line.
Crash ==
  /\ journal /\ pc # "down"
  /\ crashes < MaxCrashes
  /\ crashes' = crashes + 1
  /\ Leave("none")
  /\ UNCHANGED <<faults, foreign>> /\ Still

\* A rename onto path p is about to follow the last look at it: the race the
\* documentation leaves outside the guarantee.
RaceWindow(p) ==
  at = p /\ kind[p] = "modify" /\ pc \in {"intent", "mutate", "recover_restore"}

\* Some other program replaces or deletes a target while the journal is active.
Foreign(p) ==
  /\ journal /\ ~RaceWindow(p)
  /\ foreign < MaxForeign
  /\ foreign' = foreign + 1
  /\ \E file \in {"ext", "none"} \ {slot[p]} : Becomes(p, file)
  /\ UNCHANGED <<kind, artifacts, journal, log, poisoned, call, crashes, faults>>

Process == Prepare \/ CommitSteps \/ Cleanup \/ Recover

\* The transaction is over.
Over == pc = "down" /\ ~journal
Resolved == Over /\ UNCHANGED vars

Next == Process \/ Crash \/ (\E p \in Path : Foreign(p)) \/ Resolved

Spec == Init /\ [][Next]_vars

\* A running call is scheduled, the caller of a prepared transaction decides or
\* drops it, and a process that finds a journal calls recover.
FairSpec == Spec /\ WF_vars(Process)

-----------------------------------------------------------------------------
\* Control points of one operation record, of one path, and of an unwinding
\* that has come down to path at, or to none; the others ignore at.
PathPoints ==
  {"intents", "staged", "check", "intent", "mutate", "unlink_stage", "sync", "classify",
   "committed", "restore", "unlink_backup", "restored", "rolled_back",
   "recover_restore", "recover_unlink", "recover_verify", "recover_record"}

UnwindPoints == {"drop_receipt", "rollback", "recover_path"}

OtherPoints ==
  {"ready", "header", "staging", "collect", "fail_prepare", "prepare", "prepared",
   "verify", "unchanged", "receipt", "receipt_write", "receipt_discard", "receipt_sync",
   "finish", "clean", "keep", "drop_transitional", "remove_journal", "down", "recover",
   "recover_abort", "recover_receipt"}

ControlPoints == PathPoints \cup UnwindPoints \cup OtherPoints \cup {"operations"}

AtFits(l, i) ==
  /\ l \in PathPoints => i \in Path
  /\ l \in UnwindPoints => i \in 0..N
  /\ l = "operations" => i \in 1..Ops

DiskOK ==
  /\ kind \in [Path -> Kinds]
  /\ slot \in [Path -> {"none", "old", "new", "bak", "ext"}]
  /\ stage \in [Path -> {"none", "partial", "new"}]
  /\ backup \in [Path -> {"none", "partial", "bak"}]
  /\ kept \in [Path -> {"none", "bak"}]
  /\ receipt \in {"none", "torn", "full"}

LogOK == journal \in BOOLEAN /\ poisoned \in BOOLEAN /\ log \in Seq(Record)

CallOK ==
  /\ pc \in ControlPoints /\ at \in Nat /\ AtFits(pc, at)
  /\ job \in [Path -> JobStates]
  /\ retain \in BOOLEAN
  /\ parsed \in Seq(Record)
  /\ report \in Reports

EnvOK ==
  /\ crashes \in 0..MaxCrashes
  /\ faults \in 0..MaxFaults
  /\ foreign \in 0..MaxForeign

\* Type invariant: every variable has its type, and the path index is one of
\* the plan wherever the running call uses it.
TypeOK == DiskOK /\ LogOK /\ CallOK /\ EnvOK

Undisturbed == foreign = 0

(***************************************************************************)
(* The strict parser of the next process accepts whatever prepare, commit, *)
(* rollback or an earlier, interrupted recovery left in the journal.       *)
(***************************************************************************)
JournalReplayable == Replayable(log)

(***************************************************************************)
(* Recovery can explain every state this engine leaves behind: unless      *)
(* somebody else touched a target or a receipt was torn, it neither meets  *)
(* a path it must refuse nor a journal it must reject.                     *)
(***************************************************************************)
RecoveryNeverRefuses ==
  Undisturbed /\ receipt # "torn" => report \notin {"refused", "corrupt"}

(***************************************************************************)
(* The abstract transaction this one implements: it is decided when the    *)
(* record Finished(COMMITTED) is durable and closed when the journal is    *)
(* removed.                                                                *)
(***************************************************************************)
Tree ==
  IF Has(log, FinishedCommitted) \/ (~journal /\ \A p \in Path : MatchesAfter(p))
  THEN "after" ELSE "before"

Found(p) ==
  CASE MatchesAfter(p)  -> "after"
    [] MatchesBefore(p) -> "before"
    [] OTHER            -> "neither"

Atomic == INSTANCE AtomicApply WITH
  tree <- Tree,
  open <- ~Over,
  found <- [p \in Path |-> IF Over THEN Found(p) ELSE "unknown"],
  answer <- IF report \in {"committed", "unchanged"} THEN report ELSE "unsure",
  disturbed <- ~Undisturbed

(***************************************************************************)
(* All or restored: one durable record decides whether every path is in    *)
(* its after state or every path is in its before state, no failure or     *)
(* death reverses or splits that decision, and a call that says which says *)
(* what is on the disk.                                                    *)
(***************************************************************************)
ImplementsAtomicApply == Atomic!Spec

\* Nothing of a transaction is left beside the targets once its journal, the
\* only record of the artifact names, is removed.
NoOrphans == Over => \A p \in Path : stage[p] = "none" /\ backup[p] = "none"

(***************************************************************************)
(* A receipt that outlives the journal describes a commit that happened,   *)
(* with every backup it names in the state directory; without a receipt    *)
(* the state directory holds no backup.                                    *)
(***************************************************************************)
ReceiptBacked ==
  Over =>
    /\ receipt = "none" => \A p \in Path : kept[p] = "none"
    /\ receipt # "none" =>
         /\ receipt = "full"
         /\ report # "unchanged"
         /\ \A p \in Path : kind[p] # "create" => kept[p] = "bak"
         /\ Undisturbed => \A p \in Path : MatchesAfter(p)

(***************************************************************************)
(* The content a path had before the plan exists somewhere on the disk     *)
(* until the commit is durably finished, whatever fails or dies meanwhile. *)
(***************************************************************************)
BeforeSurvives ==
  journal /\ Undisturbed /\ ~Has(log, FinishedCommitted) =>
    \A p \in Path : kind[p] # "create" =>
      slot[p] \in {"old", "bak"} \/ backup[p] = "bak"

(***************************************************************************)
(* Write-ahead: a target differs from what it was only behind the durable  *)
(* intent that says so, a restored one only behind its rollback intent,    *)
(* and paths change in ascending order without a gap.                      *)
(***************************************************************************)
Changed(p) == slot[p] # Before(p) /\ slot[p] # "bak"

WriteAhead ==
  journal /\ Undisturbed =>
    \A p \in Path :
      /\ Changed(p) => Has(log, CommitIntent(p))
      /\ slot[p] = "bak" => Has(log, RollbackIntent(p))
      /\ Changed(p) => \A q \in 1..p-1 : Changed(q)

Ours == foreign' = foreign

(***************************************************************************)
(* The engine never replaces or deletes a file that somebody else put in   *)
(* the place of a target.                                                  *)
(***************************************************************************)
ForeignPreserved ==
  [][\A p \in Path : slot[p] = "ext" /\ Ours => slot'[p] = "ext"]_vars

\* After the Finished record no step of the engine changes a target again.
FinishedIsFinal == [][IsFinished(log) /\ Ours => slot' = slot]_vars

(***************************************************************************)
(* A rollback never turns forward again: once one rollback intent is       *)
(* durable, no step of this or a later process intends or installs a       *)
(* change.                                                                 *)
(***************************************************************************)
RollbackNeverForward ==
  [][RollbackIntents(log) # {} /\ Ours =>
       /\ CommitIntents(log') \subseteq CommitIntents(log)
       /\ \A p \in Path : slot'[p] # slot[p] => slot'[p] \in {"none", "bak"}]_vars

(***************************************************************************)
(* Every journal is resolved: after the last death, failure and torn       *)
(* receipt, repeated recovery comes to the removal of the journal.         *)
(***************************************************************************)
Resolves == journal ~> (~journal \/ receipt = "torn")

(***************************************************************************)
(* What the documentation says of retained commits: a crash anywhere       *)
(* resolves, the receipt's own creation included.                          *)
(***************************************************************************)
AlwaysResolves == journal ~> ~journal
=============================================================================
