---------------------------- MODULE JournalReplay ----------------------------
(***************************************************************************)
(* The strict journal parser as the machine it is: Replay::apply_record of *)
(* operation/recovery_model/parse.rs takes one record after the other      *)
(* through seven phases and fails closed at the first one that is out of   *)
(* place.  The journal it reads is arbitrary, not one the writer produced. *)
(* Start is the phase before the header, Corrupt the one after an error.   *)
(***************************************************************************)
EXTENDS JournalGrammar

CONSTANT MaxLength   \* bound on the length of the journals that are read

ASSUME ReplayAssumption == MaxLength \in Nat

Phases == {"Start", "Operations", "Paths", "Staged", "Prepared", "Commit",
           "Rollback", "Finished", "Corrupt"}

NoPath == 0

VARIABLES
  read,              \* the records consumed so far
  phase,
  operation_count,   \* operation records seen
  path_count,        \* path intents seen
  staged_count,      \* staged records seen
  prepared,
  commit_intents, committed, rollback_intents, rolled_back,
  last_commit_intent, last_rollback_intent

counts == <<operation_count, path_count, staged_count, prepared>>
commits == <<commit_intents, committed, last_commit_intent>>
rollbacks == <<rollback_intents, rolled_back, last_rollback_intent>>
vars == <<read, phase, counts, commits, rollbacks>>

Init ==
  /\ read = <<>>
  /\ phase = "Start"
  /\ operation_count = 0 /\ path_count = 0 /\ staged_count = 0
  /\ prepared = FALSE
  /\ commit_intents = {} /\ committed = {} /\ last_commit_intent = NoPath
  /\ rollback_intents = {} /\ rolled_back = {} /\ last_rollback_intent = NoPath

-----------------------------------------------------------------------------
(* When the parser takes a record.                                         *)

OperationFits(r) ==
  phase = "Operations" /\ r.index = operation_count + 1 /\ r.index <= Ops

\* Mutant of PathIntentFits: the index is not compared.
AnyPathIntentFits(r) ==
  phase = "Paths" \/ (phase = "Operations" /\ operation_count = Ops)

PathIntentFits(r) ==
  /\ phase = "Paths" \/ (phase = "Operations" /\ operation_count = Ops)
  /\ r.index = path_count + 1 /\ r.index <= N

PathStagedFits(r) ==
  /\ phase = "Staged" \/ (phase = "Paths" /\ path_count = N)
  /\ staged_count < path_count /\ r.index = staged_count + 1

PreparedFits ==
  /\ phase = "Staged"
  /\ operation_count = Ops /\ path_count = N /\ staged_count = path_count

\* Mutant of CommitIntentFits: the last intent need not be completed.
EagerCommitIntentFits(r) ==
  /\ phase \in {"Prepared", "Commit"}
  /\ r.index <= path_count
  /\ r.index \notin commit_intents
  /\ last_commit_intent # NoPath => r.index > last_commit_intent

CommitIntentFits(r) ==
  /\ phase \in {"Prepared", "Commit"}
  /\ r.index <= path_count
  /\ r.index \notin commit_intents
  /\ last_commit_intent # NoPath =>
       last_commit_intent \in committed /\ r.index > last_commit_intent

CommittedFits(r) ==
  /\ phase = "Commit"
  /\ r.index \in commit_intents \ committed
  /\ last_commit_intent = r.index

\* Mutant of RollbackIntentFits: the last intent need not be completed.
EagerRollbackIntentFits(r) ==
  /\ phase \in {"Commit", "Rollback"}
  /\ r.index \in commit_intents \ rollback_intents
  /\ last_rollback_intent # NoPath => r.index < last_rollback_intent

RollbackIntentFits(r) ==
  /\ phase \in {"Commit", "Rollback"}
  /\ r.index \in commit_intents \ rollback_intents
  /\ last_rollback_intent # NoPath =>
       last_rollback_intent \in rolled_back /\ r.index < last_rollback_intent

RolledBackFits(r) ==
  /\ phase = "Rollback"
  /\ r.index \in rollback_intents \ rolled_back
  /\ last_rollback_intent = r.index

FinishedFits(r) ==
  /\ phase \notin {"Start", "Finished"}
  /\ \/ r = FinishedCommitted /\ prepared /\ Cardinality(committed) = path_count
                              /\ commit_intents = committed
     \/ r = FinishedAborted /\ commit_intents = {}
     \/ r = FinishedRolledBack /\ prepared /\ commit_intents # {}

Fits(r) ==
  CASE r.type = "Header"         -> phase = "Start"
    [] r.type = "Operation"      -> OperationFits(r)
    [] r.type = "PathIntent"     -> PathIntentFits(r)
    [] r.type = "PathStaged"     -> PathStagedFits(r)
    [] r.type = "Prepared"       -> PreparedFits
    [] r.type = "CommitIntent"   -> CommitIntentFits(r)
    [] r.type = "Committed"      -> CommittedFits(r)
    [] r.type = "RollbackIntent" -> RollbackIntentFits(r)
    [] r.type = "RolledBack"     -> RolledBackFits(r)
    [] OTHER                     -> FinishedFits(r)

-----------------------------------------------------------------------------
(* What the parser does with a record it takes.                            *)

ReadHeader(r) ==
  /\ r = Header
  /\ phase' = "Operations"
  /\ UNCHANGED <<counts, commits, rollbacks>>

ReadOperation(r) ==
  /\ r.type = "Operation"
  /\ operation_count' = operation_count + 1
  /\ UNCHANGED <<phase, path_count, staged_count, prepared, commits, rollbacks>>

ReadPathIntent(r) ==
  /\ r.type = "PathIntent"
  /\ path_count' = path_count + 1
  /\ phase' = "Paths"
  /\ UNCHANGED <<operation_count, staged_count, prepared, commits, rollbacks>>

ReadPathStaged(r) ==
  /\ r.type = "PathStaged"
  /\ staged_count' = staged_count + 1
  /\ phase' = "Staged"
  /\ UNCHANGED <<operation_count, path_count, prepared, commits, rollbacks>>

ReadPrepared(r) ==
  /\ r = Prepared
  /\ prepared' = TRUE
  /\ phase' = "Prepared"
  /\ UNCHANGED <<operation_count, path_count, staged_count, commits, rollbacks>>

ReadCommitIntent(r) ==
  /\ r.type = "CommitIntent"
  /\ commit_intents' = commit_intents \cup {r.index}
  /\ last_commit_intent' = r.index
  /\ phase' = "Commit"
  /\ UNCHANGED <<committed, counts, rollbacks>>

ReadCommitted(r) ==
  /\ r.type = "Committed"
  /\ committed' = committed \cup {r.index}
  /\ UNCHANGED <<phase, commit_intents, last_commit_intent, counts, rollbacks>>

ReadRollbackIntent(r) ==
  /\ r.type = "RollbackIntent"
  /\ rollback_intents' = rollback_intents \cup {r.index}
  /\ last_rollback_intent' = r.index
  /\ phase' = "Rollback"
  /\ UNCHANGED <<rolled_back, counts, commits>>

\* Mutant of ReadRolledBack: the restored path is not noted.
ForgetRolledBack(r) ==
  /\ r.type = "RolledBack"
  /\ UNCHANGED <<phase, rolled_back, rollback_intents, last_rollback_intent, counts, commits>>

ReadRolledBack(r) ==
  /\ r.type = "RolledBack"
  /\ rolled_back' = rolled_back \cup {r.index}
  /\ UNCHANGED <<phase, rollback_intents, last_rollback_intent, counts, commits>>

ReadFinished(r) ==
  /\ r \in Finished
  /\ phase' = "Finished"
  /\ UNCHANGED <<counts, commits, rollbacks>>

\* Any record the current branch does not take is JOURNAL_CORRUPT.
Reject == phase' = "Corrupt" /\ UNCHANGED <<counts, commits, rollbacks>>

Apply(r) ==
  \/ Fits(r) /\ \/ ReadHeader(r)       \/ ReadOperation(r)      \/ ReadPathIntent(r)
                \/ ReadPathStaged(r)   \/ ReadPrepared(r)       \/ ReadCommitIntent(r)
                \/ ReadCommitted(r)    \/ ReadRollbackIntent(r) \/ ReadRolledBack(r)
                \/ ReadFinished(r)
  \/ ~Fits(r) /\ Reject

ReadNext ==
  /\ phase # "Corrupt"
  /\ Len(read) < MaxLength
  /\ \E r \in Record : read' = Append(read, r) /\ Apply(r)

\* The parser has returned: with an error, or at the end of the journal.
Stop == (phase = "Corrupt" \/ Len(read) = MaxLength) /\ UNCHANGED vars

Next == ReadNext \/ Stop

Spec == Init /\ [][Next]_vars

-----------------------------------------------------------------------------
\* Type invariant of the parser.
TypeOK ==
  /\ read \in Seq(Record)
  /\ phase \in Phases
  /\ operation_count \in 0..Ops
  /\ path_count \in 0..N
  /\ staged_count \in 0..N
  /\ prepared \in BOOLEAN
  /\ {commit_intents, committed, rollback_intents, rolled_back} \subseteq SUBSET Path
  /\ {last_commit_intent, last_rollback_intent} \subseteq Path \cup {NoPath}

(***************************************************************************)
(* The phase machine accepts exactly the journals of the grammar: its      *)
(* counters, "latest intent" registers and phases together amount to the   *)
(* order conditions of MayFollow, no weaker and no stronger.               *)
(***************************************************************************)
AcceptsTheGrammar == phase # "Corrupt" <=> Replayable(read)

(***************************************************************************)
(* What recovery is told about an accepted journal is what its records     *)
(* say: the sets it acts on are those of the records read.                 *)
(***************************************************************************)
ReportsTheRecords ==
  phase # "Corrupt" =>
    /\ prepared <=> Has(read, Prepared)
    /\ commit_intents = CommitIntents(read)
    /\ rollback_intents = RollbackIntents(read)
    /\ rolled_back = RolledBackPaths(read)
    /\ staged_count = Cardinality(StagedPaths(read))

(***************************************************************************)
(* An accepted journal always lets recovery go on: the parser takes the    *)
(* record that completes the rollback under way, and when none is, the     *)
(* intent of every intended path below the ones rolled back, so that a     *)
(* recovery that walks the paths downwards never writes a journal its own  *)
(* successor rejects.                                                      *)
(***************************************************************************)
RollbackCanResume ==
  phase \in {"Commit", "Rollback"} =>
    /\ rollback_intents # rolled_back => \E p \in Path : Fits(RolledBack(p))
    /\ rollback_intents = rolled_back =>
         \A p \in commit_intents :
           (\A q \in rollback_intents : p < q) => Fits(RollbackIntent(p))
=============================================================================
