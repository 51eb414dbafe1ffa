------------------------------- MODULE UndoStore -------------------------------
(***************************************************************************)
(* One retained undo receipt (operation/undo): rollback_undo restores the  *)
(* paths of a retained commit from the backups in the state directory,     *)
(* behind a journal of its own; recover completes an interrupted one;      *)
(* discard_undo gives the receipt up.                                      *)
(*                                                                         *)
(* None of these calls undoes anything itself: a system call that fails    *)
(* ends the call with its effect or without it, as the death of the        *)
(* process behind or before it does, so Stop stands for both.  The last    *)
(* look at a target and the system call that relies on it are one step:    *)
(* a writer between the two is the race the documentation leaves open.     *)
(***************************************************************************)
EXTENDS JournalGrammar

CONSTANTS
  MaxStops,     \* bound on deaths and failing system calls
  MaxForeign    \* bound on changes made by anybody else

ASSUME UndoAssumption == {MaxStops, MaxForeign} \subseteq Nat

Kinds == {"create", "modify", "delete"}

VARIABLES
  kind,      \* what the commit did to each path, as the receipt has it
  slot,      \* the target name: "none", "new", "bak" or "ext"
  kept,      \* the backup in the state directory: "none" or "bak"; with the
             \* target "bak" as well, they are two links of one file
  receipt,   \* whether undo-<id>.json exists
  journal,   \* whether active-undo.jsonl exists
  log,       \* its complete records
  pc, at,    \* control point of the running call, and the path it is at
  parsed,    \* the journal as the running recovery parsed it
  report,    \* what the last call returned
  stops, foreign

store == <<kept, receipt>>
call  == <<pc, at, parsed, report>>
env   == <<stops, foreign>>
vars  == <<kind, slot, store, journal, log, call, env>>

Reports == {"none", "restored", "discarded", "kept", "failed", "conflict", "refused", "corrupt"}

-----------------------------------------------------------------------------
(* The evidence of the receipt.                                            *)

\* The committed state, and the one a finished restore must present.
After(p)    == IF kind[p] = "delete" THEN "none" ELSE "new"
Restored(p) == IF kind[p] = "create" THEN "none" ELSE "bak"

\* The target and the retained backup are two links of one file; every other
\* look at either of them is refused then.
Linked(p) == slot[p] = "bak" /\ kept[p] = "bak"

AsCommitted(p) ==
  slot[p] = After(p) /\ (kind[p] # "create" => kept[p] = "bak")
AsRestored(p) == slot[p] = Restored(p) /\ ~Linked(p)

\* The journals recovery/replay.rs accepts: records of a path in either order of
\* the paths, each intent once, each completion behind its intent.
MayFollowUndo(j, r) ==
  \/ j = <<>> /\ r = Header
  \/ /\ j # <<>> /\ ~IsFinished(j)
     /\ \/ \E p \in Path \ RollbackIntents(j) : r = RollbackIntent(p)
        \/ \E p \in RollbackIntents(j) \ RolledBackPaths(j) : r = RolledBack(p)
        \/ r = FinishedRolledBack /\ RolledBackPaths(j) = Path

ReplayableUndo(j) == \A k \in DOMAIN j : MayFollowUndo(SubSeq(j, 1, k - 1), j[k])

-----------------------------------------------------------------------------
(* Control.                                                                *)

Step(l, i) == pc' = l /\ at' = i /\ UNCHANGED <<parsed, report, env>>

Leave(r) == pc' = "down" /\ at' = 0 /\ parsed' = <<>> /\ report' = r /\ UNCHANGED env

Still == UNCHANGED <<kind, slot, store, journal, log>>

Becomes(p, file) == slot' = [slot EXCEPT ![p] = file]
Gone(p)          == kept' = [kept EXCEPT ![p] = "none"]

Log(r) == log' = Append(log, r) /\ UNCHANGED <<kind, slot, store, journal>>

-----------------------------------------------------------------------------
(* rollback_undo.                                                          *)

\* Mutant of RollbackUndo: the retained backups are not compared.
RollbackUnverified ==
  /\ pc = "down" /\ ~journal /\ receipt
  /\ \/ (\A p \in Path : slot[p] = After(p)) /\ Step("create", 0)
     \/ (\E p \in Path : slot[p] # After(p)) /\ Leave("conflict")
  /\ Still

\* The receipt is found and every path and backup compared with it.
RollbackUndo ==
  /\ pc = "down" /\ ~journal /\ receipt
  /\ \/ (\A p \in Path : AsCommitted(p)) /\ Step("create", 0)
     \/ (\E p \in Path : ~AsCommitted(p)) /\ Leave("conflict")
  /\ Still

CreateJournal ==
  /\ pc = "create"
  /\ journal' = TRUE
  /\ Step("header", 0)
  /\ UNCHANGED <<kind, slot, store, log>>

WriteHeader == pc = "header" /\ Log(Header) /\ Step("path", N)

Recovering == parsed # <<>>

Intend ==
  /\ pc = "path" /\ at > 0 /\ ~Recovering
  /\ Log(RollbackIntent(at))
  /\ Step("restore", at)

AllPassed == pc = "path" /\ at = 0 /\ Step("finish", 0) /\ Still

\* restore_path: what somebody else put there is neither removed nor replaced.
RemoveCreated ==
  /\ pc = "restore" /\ kind[at] = "create"
  /\ \/ slot[at] = After(at) /\ Becomes(at, "none") /\ Step("verify", at)
     \/ slot[at] # After(at) /\ UNCHANGED slot /\ Leave("refused")
  /\ UNCHANGED <<kind, store, journal, log>>

\* Mutant of ReplaceChanged: the rename is not preceded by a look at the target.
ReplaceAnything ==
  /\ pc = "restore" /\ kind[at] # "create"
  /\ slot[at] # "none" /\ kept[at] = "bak"
  /\ Becomes(at, "bak") /\ Gone(at) /\ Step("verify", at)
  /\ UNCHANGED <<kind, receipt, journal, log>>

ReplaceChanged ==
  /\ pc = "restore" /\ kind[at] = "modify"
  /\ slot[at] = "new" /\ kept[at] = "bak"
  /\ Becomes(at, "bak") /\ Gone(at) /\ Step("verify", at)
  /\ UNCHANGED <<kind, receipt, journal, log>>

\* link_absent_target_from_backup.
LinkAbsent ==
  /\ pc = "restore" /\ kind[at] # "create"
  /\ slot[at] = "none" /\ kept[at] = "bak"
  /\ Becomes(at, "bak") /\ Step("unlink", at)
  /\ UNCHANGED <<kind, store, journal, log>>

RefuseRestore ==
  /\ pc = "restore" /\ kind[at] # "create"
  /\ kept[at] = "none" \/ slot[at] \notin {"none", After(at)}
  /\ Leave("refused") /\ Still

\* Mutant of Unlink: the two links are not compared again.
UnlinkBlindly ==
  /\ pc = "unlink"
  /\ Gone(at) /\ Step("verify", at)
  /\ UNCHANGED <<kind, slot, receipt, journal, log>>

\* finish_linked_restore.
Unlink ==
  /\ pc = "unlink"
  /\ \/ Linked(at) /\ Gone(at) /\ Step("verify", at)
     \/ ~Linked(at) /\ UNCHANGED kept /\ Leave("refused")
  /\ UNCHANGED <<kind, slot, receipt, journal, log>>

Verify ==
  /\ pc = "verify"
  /\ \/ AsRestored(at) /\ Step("record", at)
     \/ ~AsRestored(at) /\ Leave("refused")
  /\ Still

\* Mutant of Complete: the restored path is not recorded.
CompleteUnrecorded == pc = "record" /\ Still /\ Step("path", at - 1)

Complete == pc = "record" /\ Log(RolledBack(at)) /\ Step("path", at - 1)

\* Mutant of Finish: the receipt is consumed behind the journal.
FinishAndForget == pc = "finish" /\ Log(FinishedRolledBack) /\ Step("drop_journal", 0)

Finish == pc = "finish" /\ Log(FinishedRolledBack) /\ Step("drop_receipt", 0)

\* consume_receipt and the end of discard.
DropReceipt ==
  /\ pc = "drop_receipt"
  /\ receipt' = FALSE
  /\ \/ journal /\ Step("drop_journal", 0)
     \/ ~journal /\ Leave("discarded")
  /\ UNCHANGED <<kind, slot, kept, journal, log>>

DropJournal ==
  /\ pc = "drop_journal"
  /\ journal' = FALSE /\ log' = <<>>
  /\ Leave(IF IsFinished(log) THEN "restored" ELSE "kept")
  /\ UNCHANGED <<kind, slot, store>>

-----------------------------------------------------------------------------
(* recover_undo.                                                           *)

\* The journal is read and parsed; one without any intent is discarded.
Recover ==
  /\ pc = "down" /\ journal
  /\ \/ log = <<>> /\ Step("drop_journal", 0)
     \/ log # <<>> /\ ~ReplayableUndo(log) /\ Leave("corrupt")
     \/ /\ log # <<>> /\ ReplayableUndo(log)
        /\ parsed' = log /\ pc' = "recover" /\ at' = 0 /\ UNCHANGED <<report, env>>
  /\ Still

\* Mutant of RecoverConsumed: a journal without its receipt is corrupt.
RecoverConsumedNever == pc = "recover" /\ ~receipt /\ Leave("corrupt") /\ Still

\* finish_without_receipt: only behind Finished may the receipt be gone.
RecoverConsumed ==
  /\ pc = "recover" /\ ~receipt
  /\ \/ IsFinished(parsed) /\ Step("drop_journal", 0)
     \/ ~IsFinished(parsed) /\ Leave("corrupt")
  /\ Still

RecoverFinished ==
  /\ pc = "recover" /\ receipt /\ IsFinished(parsed)
  /\ \/ (\A p \in Path : AsRestored(p)) /\ Step("drop_receipt", 0)
     \/ (\E p \in Path : ~AsRestored(p)) /\ Leave("refused")
  /\ Still

\* Mutant of RecoverStarted: an intent that is not completed does not count.
RecoverUnlessRestored ==
  /\ pc = "recover" /\ receipt /\ ~IsFinished(parsed)
  /\ \/ RolledBackPaths(parsed) = {} /\ Step("drop_journal", 0)
     \/ RolledBackPaths(parsed) # {} /\ Step("path", N)
  /\ Still

RecoverStarted ==
  /\ pc = "recover" /\ receipt /\ ~IsFinished(parsed)
  /\ \/ RollbackIntents(parsed) = {} /\ Step("drop_journal", 0)
     \/ RollbackIntents(parsed) # {} /\ Step("path", N)
  /\ Still

-----------------------------------------------------------------------------
(* converge_path, from the last path downwards.                            *)

Converging == pc = "path" /\ at > 0 /\ Recovering
Announced  == at \in RollbackIntents(parsed)
Recorded   == at \in RolledBackPaths(parsed)

ResumeLinked ==
  /\ Converging /\ Linked(at) /\ Announced /\ ~Recorded
  /\ Step("unlink", at) /\ Still

PassRestored ==
  /\ Converging /\ AsRestored(at) /\ Recorded
  /\ Step("path", at - 1) /\ Still

RecordRestored ==
  /\ Converging /\ AsRestored(at) /\ Announced /\ ~Recorded
  /\ Step("record", at) /\ Still

\* Mutant of RestoreCommitted: the target is restored without an intent.
RestoreUnannounced ==
  /\ Converging /\ slot[at] = After(at) /\ ~Recorded
  /\ Still
  /\ Step("restore", at)

\* Mutant of RestoreCommitted: the intent is repeated.
RestoreAgain ==
  /\ Converging /\ slot[at] = After(at) /\ ~Recorded
  /\ Log(RollbackIntent(at))
  /\ Step("restore", at)

RestoreCommitted ==
  /\ Converging /\ slot[at] = After(at) /\ ~Recorded
  /\ \/ Announced /\ Still
     \/ ~Announced /\ Log(RollbackIntent(at))
  /\ Step("restore", at)

RefusePath ==
  /\ Converging
  /\ ~(Linked(at) /\ Announced /\ ~Recorded)
  /\ ~(AsRestored(at) /\ Announced)
  /\ ~(slot[at] = After(at) /\ ~Recorded)
  /\ Leave("refused") /\ Still

-----------------------------------------------------------------------------
(* discard_undo: backup after backup, then the receipt, without a journal. *)

DiscardUndo == pc = "down" /\ ~journal /\ receipt /\ Step("discard", 1) /\ Still

\* Mutant of DiscardPath: one path too many.
DiscardPastEnd ==
  /\ pc = "discard"
  /\ LET Onwards == IF at <= N THEN Step("discard", at + 1) ELSE Step("drop_receipt", 0)
     IN \/ kind[at] = "create" /\ UNCHANGED kept /\ Onwards
        \/ kind[at] # "create" /\ kept[at] = "bak" /\ Gone(at) /\ Onwards
        \/ kind[at] # "create" /\ kept[at] = "none" /\ UNCHANGED kept /\ Leave("failed")
  /\ UNCHANGED <<kind, slot, receipt, journal, log>>

DiscardPath ==
  /\ pc = "discard"
  /\ LET Onwards == IF at < N THEN Step("discard", at + 1) ELSE Step("drop_receipt", 0)
     IN \/ kind[at] = "create" /\ UNCHANGED kept /\ Onwards
        \/ kind[at] # "create" /\ kept[at] = "bak" /\ Gone(at) /\ Onwards
        \/ kind[at] # "create" /\ kept[at] = "none" /\ UNCHANGED kept /\ Leave("failed")
  /\ UNCHANGED <<kind, slot, receipt, journal, log>>
-----------------------------------------------------------------------------
(* The environment.                                                        *)

\* A retained commit is over: its journal is gone, its receipt and backups stay.
Init ==
  /\ kind \in [Path -> Kinds]
  /\ slot = [p \in Path |-> After(p)]
  /\ kept = [p \in Path |-> IF kind[p] = "create" THEN "none" ELSE "bak"]
  /\ receipt = TRUE
  /\ journal = FALSE /\ log = <<>>
  /\ pc = "down" /\ at = 0 /\ parsed = <<>> /\ report = "none"
  /\ stops = 0 /\ foreign = 0

\* The process dies, or a system call fails, between two steps.
Stop ==
  /\ pc # "down" /\ stops < MaxStops
  /\ stops' = stops + 1
  /\ pc' = "down" /\ at' = 0 /\ parsed' = <<>> /\ report' = "failed"
  /\ Still /\ UNCHANGED foreign

\* Any other program, or a later transaction, replaces or deletes a target.
Foreign(p) ==
  /\ foreign < MaxForeign
  /\ foreign' = foreign + 1
  /\ \E file \in {"ext", "none"} \ {slot[p]} : Becomes(p, file)
  /\ UNCHANGED <<kind, store, journal, log, call, stops>>

\* The steps of a running call, and the recovery of a journal that was left.
Running ==
  \/ CreateJournal \/ WriteHeader \/ Intend \/ AllPassed
  \/ RemoveCreated \/ ReplaceChanged \/ LinkAbsent \/ RefuseRestore \/ Unlink
  \/ Verify \/ Complete \/ Finish \/ DropReceipt \/ DropJournal
  \/ Recover \/ RecoverConsumed \/ RecoverFinished \/ RecoverStarted
  \/ ResumeLinked \/ PassRestored \/ RecordRestored \/ RestoreCommitted \/ RefusePath
  \/ DiscardPath

\* No call is running and no journal waits for one.
Over == pc = "down" /\ ~journal
Consumed == Over /\ ~receipt /\ UNCHANGED vars

Next ==
  Running \/ RollbackUndo \/ DiscardUndo \/ Stop \/ (\E p \in Path : Foreign(p)) \/ Consumed

\* A running call is scheduled, and a process that finds the journal calls
\* recover; nobody has to ask for an undo.
Spec == Init /\ [][Next]_vars /\ WF_vars(Running)

-----------------------------------------------------------------------------
(* Properties.                                                             *)

PathPoints == {"restore", "unlink", "verify", "record", "discard"}
CallPoints ==
  {"down", "create", "header", "finish", "drop_receipt", "drop_journal", "recover"}

DiskOK ==
  /\ kind \in [Path -> Kinds]
  /\ slot \in [Path -> {"none", "new", "bak", "ext"}]
  /\ kept \in [Path -> {"none", "bak"}]
  /\ receipt \in BOOLEAN /\ journal \in BOOLEAN
  /\ log \in Seq(Record)

CallOK ==
  /\ parsed \in Seq(Record)
  /\ \/ pc \in CallPoints /\ at = 0
     \/ pc = "path" /\ at \in 0..N
     \/ pc \in PathPoints /\ at \in Path
  /\ report \in Reports

EnvOK == stops \in 0..MaxStops /\ foreign \in 0..MaxForeign

TypeOK == DiskOK /\ CallOK /\ EnvOK

(***************************************************************************)
(* The abstract undo this one implements: it is decided when the record    *)
(* Finished is durable and closed when the journal is removed.             *)
(***************************************************************************)
Tree ==
  IF IsFinished(log) \/ (~journal /\ \A p \in Path : slot[p] = Restored(p))
  THEN "restored" ELSE "committed"

Held ==
  CASE receipt /\ (journal \/ \A p \in Path : kind[p] # "create" => kept[p] = "bak") -> "whole"
    [] ~receipt /\ (journal \/ \A p \in Path : kept[p] = "none") -> "spent"
    [] OTHER -> IF receipt THEN "broken" ELSE "leaked"

Found(p) ==
  CASE slot[p] = After(p) -> "committed"
    [] AsRestored(p)      -> "restored"
    [] OTHER              -> "neither"

Answer == IF report \in {"restored", "discarded"} THEN report ELSE "unsure"

Exact == INSTANCE ExactUndo WITH
  tree <- Tree,
  open <- journal,
  held <- Held,
  found <- [p \in Path |-> IF journal THEN "unknown" ELSE Found(p)],
  answer <- Answer,
  disturbed <- foreign > 0

(***************************************************************************)
(* All or nothing, and at most once: wherever calls stop and however often *)
(* they are repeated, an undo that is not finished changes nothing in the  *)
(* end, one that is finished has restored every path and spent the receipt *)
(* and every backup, and none begins from a receipt that has lost one.     *)
(***************************************************************************)
ImplementsExactUndo == Exact!Spec

\* A call refuses to go on, or finds a corrupt journal, only after a change of
\* somebody else: no death and no failed call leaves recovery a state it does
\* not know, the two links of a half installed backup included.
UndoNeverRefuses == foreign = 0 => report \notin {"refused", "corrupt"}

\* The journal is one the next recovery parses, whatever calls wrote it.
JournalReadable == ReplayableUndo(log)

\* A backup is back in its target only behind its durable intent, and after the
\* journal is gone only if the receipt is gone, too.
IntentBeforeRestore ==
  \A p \in Path : slot[p] = "bak" =>
    IF journal THEN p \in RollbackIntents(log) ELSE ~receipt

\* An undo never loses the only copy of the content before the commit: a backup
\* disappears by becoming the target, or because its receipt is given up.
BackupBecomesTarget ==
  [][\A p \in Path : kept'[p] # kept[p] => slot'[p] = "bak" \/ pc = "discard"]_vars

\* What somebody else put in a target's place is never removed or replaced.
ForeignPreserved ==
  [][\A p \in Path : slot[p] = "ext" /\ foreign' = foreign => slot'[p] = "ext"]_vars

\* An undo with a durable intent is seen through: its receipt goes only behind
\* Finished, and the journal only behind the receipt.
NeverAbandoned ==
  [][/\ journal /\ ~journal' => RollbackIntents(log) = {} \/ ~receipt
     /\ journal /\ receipt /\ ~receipt' => IsFinished(log)]_vars

\* As long as recovery is called and nobody else interferes, an interrupted undo
\* is resolved.
UndoResolves == journal ~> (~journal \/ foreign > 0)
=============================================================================
