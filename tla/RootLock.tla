-------------------------------- MODULE RootLock --------------------------------
(***************************************************************************)
(* What keeps the calls of several processes on one root apart: the        *)
(* advisory lock on the file "lock" of the control directory, and the look *)
(* for journals that every call takes behind it (transaction/lock.rs,      *)
(* operation/pending.rs, Worktree::recover, the undo sessions).            *)
(*                                                                         *)
(* Three implementations take the lock.  Preparation and the recovery of   *)
(* edit journals hold it in a LockGuard, which unlocks it; recovery of     *)
(* operation and undo journals, and the undo sessions, hold the plain      *)
(* file, whose closing unlocks it only if no duplicate of the handle is    *)
(* left.  What a call does to its journal is one step here: the other      *)
(* modules have the details.                                               *)
(***************************************************************************)
EXTENDS Naturals, Sequences

CONSTANT Caller    \* processes that use the root, one call each at a time

VARIABLES
  control,   \* whether the control directory exists
  session,   \* processes with an open handle on the locked lock file
  dup,       \* a child process inherited a duplicate of such a handle
  releasing, \* how the last session ended: "unlock", "close" or "death"
  journals,  \* the journals in the control directory
  pc, kind,  \* control point and kind of each process's call
  look,      \* the journal it opens next, as an index into Order
  seen,      \* the journals it found
  own,       \* the journal it works on
  answer,    \* what its last call returned
  since      \* journals that were there when its call began, and all the time since

lockState == <<control, session, dup, releasing>>
calls     == <<pc, kind, look, seen, own, answer>>
vars      == <<lockState, journals, calls, since>>

\* active.jsonl, active-v3.jsonl, the active-v2.jsonl of an earlier release, and
\* active-undo.jsonl, in the order in which they are opened.
Order   == <<"edit", "v3", "v2", "undo">>
Journal == {"edit", "v3", "v2", "undo"}

\* prepare, prepare_plan, a rollback of the undo store, its other calls, and
\* recover with its two halves.
Prepares == {"edit", "operation"}
Sessions == {"undo", "inspect"}
Recovers == {"recover", "recover_edit"}
Kinds    == Prepares \cup Sessions \cup Recovers

\* Calls of transaction::acquire: they create the control directory and hold a LockGuard.
Guarded == Prepares \cup {"recover_edit"}

Creates == [edit |-> "edit", operation |-> "v3", undo |-> "undo"]

-----------------------------------------------------------------------------
(* The lock.                                                               *)

Locked == session # {} \/ dup

\* LockGuard::drop: the description is unlocked, whoever has a handle on it.
Unlock(p) == session' = session \ {p} /\ dup' = FALSE /\ releasing' = "unlock"

\* The handle is closed: a duplicate keeps the description, and the lock.
Close(p, how) == session' = session \ {p} /\ UNCHANGED dup /\ releasing' = how

\* Mutant of Release: LockGuard without its Drop.
CloseOnly(p) == Close(p, IF kind[p] \in Guarded THEN "unlock" ELSE "close")

Release(p) == IF kind[p] \in Guarded THEN Unlock(p) ELSE Close(p, "close")

-----------------------------------------------------------------------------
(* Control.                                                                *)

Goto(p, l) == pc' = [pc EXCEPT ![p] = l]

Answer(p, a) ==
  /\ Goto(p, "idle")
  /\ answer' = [answer EXCEPT ![p] = a]
  /\ own' = [own EXCEPT ![p] = "none"]
  /\ look' = [look EXCEPT ![p] = 1] /\ seen' = [seen EXCEPT ![p] = {}]
  /\ kind' = [kind EXCEPT ![p] = "inspect"]

\* The call returns, and with it the lock.
Return(p, a) == Answer(p, a) /\ Release(p) /\ UNCHANGED control

Begin(p) ==
  /\ pc[p] = "idle" /\ Goto(p, "lock")
  /\ \E k \in Kinds \ {"recover_edit"} : kind' = [kind EXCEPT ![p] = k]
  /\ answer' = [answer EXCEPT ![p] = "none"]
  /\ since' = [since EXCEPT ![p] = journals]
  /\ UNCHANGED <<lockState, journals, look, seen, own>>

\* The second half of recover begins: everything is forgotten, the lock too.
RecoverEdit(p) ==
  /\ Goto(p, "lock")
  /\ kind' = [kind EXCEPT ![p] = "recover_edit"]
  /\ UNCHANGED <<journals, look, seen, own, answer, since>>

-----------------------------------------------------------------------------
(* Taking the lock.                                                        *)

\* Without a control directory there is no journal and no receipt.
NoControl(p) ==
  /\ pc[p] = "lock" /\ ~control /\ kind[p] \notin Guarded
  /\ IF kind[p] = "recover" THEN RecoverEdit(p)
     ELSE Answer(p, "nothing") /\ UNCHANGED <<journals, since>>
  /\ UNCHANGED lockState

OpenControl(p) ==
  /\ pc[p] = "lock" /\ (control \/ kind[p] \in Guarded)
  /\ control' = TRUE

Busy(p) ==
  /\ OpenControl(p) /\ Locked
  /\ Answer(p, "busy")
  /\ UNCHANGED <<session, dup, releasing, journals, since>>

\* Mutant of Lock: the error of try_lock is dropped.
LockAnyway(p) ==
  /\ OpenControl(p)
  /\ session' = session \cup {p}
  /\ Goto(p, "look") /\ look' = [look EXCEPT ![p] = 1] /\ seen' = [seen EXCEPT ![p] = {}]
  /\ UNCHANGED <<dup, releasing, journals, kind, own, answer, since>>

Lock(p) ==
  /\ OpenControl(p) /\ ~Locked
  /\ session' = session \cup {p}
  /\ Goto(p, "look") /\ look' = [look EXCEPT ![p] = 1] /\ seen' = [seen EXCEPT ![p] = {}]
  /\ UNCHANGED <<dup, releasing, journals, kind, own, answer, since>>

-----------------------------------------------------------------------------
(* Looking for journals, one file after the other.                         *)

\* Mutant of Wanted: the journal of an earlier release is not asked for.
WantedCurrent(p) == IF kind[p] = "recover_edit" THEN {"edit"} ELSE Journal \ {"v2"}

Wanted(p) == IF kind[p] = "recover_edit" THEN {"edit"} ELSE Journal

Look(p) ==
  /\ pc[p] = "look" /\ look[p] \in DOMAIN Order
  /\ seen' = [seen EXCEPT ![p] = @ \cup ({Order[look[p]]} \cap journals \cap Wanted(p))]
  /\ look' = [look EXCEPT ![p] = @ + 1]
  /\ UNCHANGED <<lockState, journals, pc, kind, own, answer, since>>

Looked(p) == pc[p] = "look" /\ look[p] \notin DOMAIN Order

\* ensure_no_pending, and prepare_transaction: nothing may be pending.
RefusePending(p) ==
  /\ Looked(p) /\ kind[p] \in Prepares \cup Sessions /\ seen[p] # {}
  /\ Return(p, IF "edit" \notin seen[p] /\ {"v2", "v3"} \subseteq seen[p]
               THEN "corrupt" ELSE "pending")
  /\ UNCHANGED <<journals, since>>

\* The plan or the receipt may be rejected before anything is created; the
\* calls that read or discard receipts have no journal.
Reject(p) ==
  /\ Looked(p) /\ kind[p] \in Prepares \cup Sessions /\ seen[p] = {}
  /\ Return(p, "ended")
  /\ UNCHANGED <<journals, since>>

\* create_journal, create_operation_journal or create_undo_journal: exclusive.
Create(p) ==
  /\ Looked(p) /\ kind[p] \in DOMAIN Creates /\ seen[p] = {}
  /\ Creates[kind[p]] \notin journals
  /\ journals' = journals \cup {Creates[kind[p]]}
  /\ own' = [own EXCEPT ![p] = Creates[kind[p]]] /\ Goto(p, "work")
  /\ UNCHANGED <<lockState, kind, look, seen, answer, since>>

\* recover has found what it is looking for: one journal, and no other.
Choose(p) ==
  /\ Looked(p) /\ kind[p] \in Recovers
  /\ seen[p] \cap (IF kind[p] = "recover" THEN Journal \ {"edit"} ELSE {"edit"}) # {}
  /\ IF \E j \in seen[p] : seen[p] = {j}
     THEN /\ \E j \in seen[p] : own' = [own EXCEPT ![p] = j]
          /\ Goto(p, "work")
          /\ UNCHANGED <<lockState, kind, look, seen, answer>>
     ELSE Return(p, "corrupt")
  /\ UNCHANGED <<journals, since>>

\* recover_operation_transaction returns None, and recover_transaction is called.
NextHalf(p) ==
  /\ Looked(p) /\ kind[p] = "recover" /\ seen[p] \subseteq {"edit"}
  /\ RecoverEdit(p)
  /\ Close(p, "close") /\ UNCHANGED control

NoPending(p) ==
  /\ Looked(p) /\ kind[p] = "recover_edit" /\ seen[p] = {}
  /\ Return(p, "no_pending")
  /\ UNCHANGED <<journals, since>>

-----------------------------------------------------------------------------
(* The call works on its journal; in the end it removes it, or it fails or *)
(* is dropped and leaves it.                                               *)

Finish(p) ==
  /\ pc[p] = "work"
  /\ journals' = journals \ {own[p]}
  /\ since' = [q \in Caller |-> since[q] \ {own[p]}]
  /\ Return(p, "ended")

Abandon(p) == pc[p] = "work" /\ Return(p, "failed") /\ UNCHANGED <<journals, since>>

-----------------------------------------------------------------------------
(* Processes die, and children inherit handles.                            *)

Die(p) ==
  /\ pc[p] # "idle"
  /\ Answer(p, "none")
  /\ IF p \in session THEN Close(p, "death") ELSE UNCHANGED <<session, dup, releasing>>
  /\ UNCHANGED <<control, journals, since>>

Duplicate ==
  /\ session # {} /\ ~dup /\ dup' = TRUE
  /\ UNCHANGED <<control, session, releasing, journals, calls, since>>

CloseDuplicate ==
  /\ dup /\ dup' = FALSE
  /\ UNCHANGED <<control, session, releasing, journals, calls, since>>

\* An earlier release may have left a journal of its own.
Init ==
  /\ journals \in {{}, {"v2"}}
  /\ control = (journals # {})
  /\ session = {} /\ dup = FALSE /\ releasing = "unlock"
  /\ pc = [p \in Caller |-> "idle"] /\ kind = [p \in Caller |-> "inspect"]
  /\ look = [p \in Caller |-> 1] /\ seen = [p \in Caller |-> {}]
  /\ own = [p \in Caller |-> "none"] /\ answer = [p \in Caller |-> "none"]
  /\ since = [p \in Caller |-> {}]

CallStep(p) ==
  \/ Begin(p) \/ NoControl(p) \/ Busy(p) \/ Lock(p) \/ Look(p)
  \/ RefusePending(p) \/ Reject(p) \/ Create(p)
  \/ Choose(p) \/ NextHalf(p) \/ NoPending(p)
  \/ Finish(p) \/ Abandon(p) \/ Die(p)

Next == (\E p \in Caller : CallStep(p)) \/ Duplicate \/ CloseDuplicate

Spec == Init /\ [][Next]_vars

-----------------------------------------------------------------------------
(* Properties.                                                             *)

Answers == {"none", "nothing", "busy", "pending", "corrupt", "no_pending", "ended", "failed"}

\* Type invariant: a call that works on a journal has one, the others have none.
TypeOK ==
  /\ control \in BOOLEAN /\ session \subseteq Caller /\ dup \in BOOLEAN
  /\ releasing \in {"unlock", "close", "death"}
  /\ journals \subseteq Journal
  /\ pc \in [Caller -> {"idle", "lock", "look", "work"}]
  /\ kind \in [Caller -> Kinds]
  /\ look \in [Caller -> 1..5]
  /\ seen \in [Caller -> SUBSET Journal]
  /\ own \in [Caller -> Journal \cup {"none"}]
  /\ answer \in [Caller -> Answers]
  /\ since \in [Caller -> SUBSET Journal]
  /\ \A p \in Caller : pc[p] = "work" <=> own[p] # "none"

(***************************************************************************)
(* One transaction at a time: there is never more than one journal, so     *)
(* that no recovery meets two of them, and a call that works on a journal  *)
(* still finds it there and is the only call at work.                      *)
(***************************************************************************)
OneTransaction ==
  /\ \A j, k \in journals : j = k
  /\ \A p \in Caller :
       pc[p] = "work" => own[p] \in journals /\ \A q \in Caller : pc[q] = "work" => q = p

(***************************************************************************)
(* recover gives the root back between its two halves.  Nevertheless a     *)
(* journal that was there when it began, and still is, is not overlooked:  *)
(* it never answers NO_PENDING_TRANSACTION.                                *)
(***************************************************************************)
NothingOverlooked == \A p \in Caller : answer[p] = "no_pending" => since[p] = {}

(***************************************************************************)
(* The test dropping_a_prepared_transaction_unlocks_even_with_a_live_-     *)
(* duplicate, for every call that holds a LockGuard: when it has returned  *)
(* in an orderly way, the root is not left locked by a handle that a child *)
(* process inherited.                                                      *)
(***************************************************************************)
NotLeftLocked == dup /\ session = {} => releasing # "unlock"
=============================================================================
