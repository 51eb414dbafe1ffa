---------------------------- MODULE RootLockProofs ----------------------------
(***************************************************************************)
(* One transaction at a time, nothing overlooked and nothing left locked,  *)
(* for any number of processes.                                            *)
(***************************************************************************)
EXTENDS RootLock, TLAPS

\* Who is behind the lock, and that a journal is in a control directory.
Held ==
  /\ \A p \in Caller : p \in session <=> pc[p] \in {"look", "work"}
  /\ \A p, q \in session : p = q
  /\ session # {} \/ journals # {} => control

\* A call has found what there is among the journals it has asked for.
Found(p) ==
  \A j \in Journal :
    j \in seen[p] <=> /\ j \in journals \cap Wanted(p)
                      /\ \E n \in 1..look[p]-1 : Order[n] = j

Looking == \A p \in Caller : pc[p] = "look" => Found(p)

Waiting ==
  /\ \A p \in Caller : since[p] \subseteq journals
  /\ \A p \in Caller : kind[p] = "recover_edit" => since[p] \subseteq {"edit"}

IInv == TypeOK /\ Held /\ Looking /\ Waiting /\ OneTransaction /\ NothingOverlooked

-----------------------------------------------------------------------------
LEMMA Orders ==
  /\ DOMAIN Order = 1..4
  /\ Order[1] = "edit" /\ Order[2] = "v3" /\ Order[3] = "v2" /\ Order[4] = "undo"
  /\ \A n \in DOMAIN Order : Order[n] \in Journal
  /\ \A j \in Journal : \E n \in 1..4 : Order[n] = j
BY DEF Order, Journal

\* A call that has asked for all of them knows all of them.
LEMMA LookedIsAll ==
  ASSUME TypeOK, Looking, NEW p \in Caller, Looked(p)
  PROVE  seen[p] = journals \cap Wanted(p)
<1>1. look[p] = 5
  BY Orders DEF TypeOK, Looked
<1> QED
  BY <1>1, Orders DEF TypeOK, Looking, Found, Looked

LEMMA Initially == Init => IInv
<1> SUFFICES ASSUME Init PROVE IInv
  OBVIOUS
<1>1. TypeOK
  <2>1. /\ control \in BOOLEAN /\ session \subseteq Caller /\ dup \in BOOLEAN
        /\ releasing \in {"unlock", "close", "death"} /\ journals \subseteq Journal
    BY DEF Init, Journal
  <2>2. "inspect" \in Kinds /\ "none" \in Answers
    BY DEF Kinds, Sessions, Answers
  <2> QED
    BY <2>1, <2>2 DEF Init, TypeOK
<1>2. Held /\ Looking
  BY DEF Init, Held, Looking
<1>3. Waiting
  BY DEF Init, Waiting
<1>4. OneTransaction
  BY DEF Init, OneTransaction
<1>5. NothingOverlooked
  BY DEF Init, NothingOverlooked
<1> QED
  BY <1>1, <1>2, <1>3, <1>4, <1>5 DEF IInv

-----------------------------------------------------------------------------
(* Calls that return, and that move on without touching a journal.         *)

\* p goes home, with the lock or without.
GoesHome(p, a) ==
  /\ Answer(p, a)
  /\ session' = session \ {p}
  /\ UNCHANGED journals

LEMMA HomeStep ==
  ASSUME IInv, NEW p \in Caller, NEW a \in Answers, GoesHome(p, a),
         control' \in BOOLEAN, control => control', dup' \in BOOLEAN,
         releasing' \in {"unlock", "close", "death"},
         UNCHANGED since, a = "no_pending" => since[p] = {}
  PROVE  IInv'
<1>1. /\ pc' = [pc EXCEPT ![p] = "idle"] /\ answer' = [answer EXCEPT ![p] = a]
      /\ own' = [own EXCEPT ![p] = "none"] /\ look' = [look EXCEPT ![p] = 1]
      /\ seen' = [seen EXCEPT ![p] = {}] /\ kind' = [kind EXCEPT ![p] = "inspect"]
      /\ session' = session \ {p} /\ journals' = journals /\ since' = since
  BY DEF GoesHome, Answer, Goto
<1>2. TypeOK'
  BY <1>1 DEF IInv, TypeOK, Kinds, Prepares, Sessions, Recovers
<1>3. Held'
  BY <1>1 DEF IInv, TypeOK, Held
<1>4. Looking'
  BY <1>1 DEF IInv, TypeOK, Looking, Found, Wanted
<1>5. Waiting' /\ NothingOverlooked'
  BY <1>1 DEF IInv, TypeOK, Waiting, NothingOverlooked
<1>6. OneTransaction'
  BY <1>1 DEF IInv, TypeOK, OneTransaction
<1> QED
  BY <1>2, <1>3, <1>4, <1>5, <1>6 DEF IInv

LEMMA ReturnStep ==
  ASSUME IInv, NEW p \in Caller, NEW a \in Answers, Return(p, a), UNCHANGED <<journals, since>>,
         a = "no_pending" => since[p] = {}
  PROVE  IInv'
<1>1. /\ GoesHome(p, a) /\ control' = control
      /\ dup' \in BOOLEAN /\ releasing' \in {"unlock", "close", "death"}
  BY DEF IInv, TypeOK, Return, Release, Unlock, Close, GoesHome
<1> QED
  BY <1>1, HomeStep DEF IInv, TypeOK

LEMMA BeginStep == ASSUME IInv, NEW p \in Caller, Begin(p) PROVE IInv'
<1>1. PICK k \in Kinds \ {"recover_edit"} : kind' = [kind EXCEPT ![p] = k]
  BY DEF Begin
<1>2. /\ pc[p] = "idle" /\ pc' = [pc EXCEPT ![p] = "lock"]
      /\ answer' = [answer EXCEPT ![p] = "none"] /\ since' = [since EXCEPT ![p] = journals]
      /\ UNCHANGED <<control, session, dup, releasing, journals, look, seen, own>>
  BY DEF Begin, Goto, lockState
<1>3. TypeOK'
  BY <1>1, <1>2 DEF IInv, TypeOK, Answers
<1>4. Held' /\ OneTransaction'
  BY <1>2 DEF IInv, TypeOK, Held, OneTransaction
<1>5. Looking'
  BY <1>1, <1>2 DEF IInv, TypeOK, Looking, Found, Wanted
<1>6. Waiting' /\ NothingOverlooked'
  BY <1>1, <1>2 DEF IInv, TypeOK, Waiting, NothingOverlooked
<1> QED
  BY <1>3, <1>4, <1>5, <1>6 DEF IInv

\* recover goes on to its second half.
LEMMA SecondHalf ==
  ASSUME IInv, NEW p \in Caller, RecoverEdit(p), pc[p] \in {"lock", "look"},
         session' = session \ {p}, UNCHANGED <<control, dup>>,
         releasing' \in {"unlock", "close", "death"}, journals \subseteq {"edit"}
  PROVE  IInv'
<1>1. /\ pc' = [pc EXCEPT ![p] = "lock"] /\ kind' = [kind EXCEPT ![p] = "recover_edit"]
      /\ UNCHANGED <<journals, look, seen, own, answer, since>>
  BY DEF RecoverEdit, Goto
<1>2. TypeOK'
  BY <1>1 DEF IInv, TypeOK, Kinds, Recovers
<1>3. Held' /\ OneTransaction'
  BY <1>1 DEF IInv, TypeOK, Held, OneTransaction
<1>4. Looking'
  BY <1>1 DEF IInv, TypeOK, Looking, Found, Wanted
<1>5. Waiting' /\ NothingOverlooked'
  BY <1>1 DEF IInv, TypeOK, Waiting, NothingOverlooked
<1> QED
  BY <1>2, <1>3, <1>4, <1>5 DEF IInv

LEMMA NoControlStep == ASSUME IInv, NEW p \in Caller, NoControl(p) PROVE IInv'
<1>1. /\ journals = {} /\ p \notin session /\ pc[p] = "lock"
      /\ UNCHANGED <<control, session, dup, releasing>>
  BY DEF IInv, Held, NoControl, lockState
<1>2. session' = session \ {p}
  BY <1>1
<1>3. CASE kind[p] = "recover"
  <2>1. RecoverEdit(p)
    BY <1>3 DEF NoControl
  <2> QED
    BY <2>1, <1>1, <1>2, SecondHalf DEF IInv, TypeOK
<1>4. CASE kind[p] # "recover"
  <2>1. Answer(p, "nothing") /\ UNCHANGED <<journals, since>>
    BY <1>4 DEF NoControl
  <2>2. GoesHome(p, "nothing")
    BY <2>1, <1>2 DEF GoesHome
  <2>3. "nothing" \in Answers
    BY DEF Answers
  <2> QED
    BY <2>1, <2>2, <2>3, <1>1, HomeStep DEF IInv, TypeOK
<1> QED
  BY <1>3, <1>4

LEMMA BusyStep == ASSUME IInv, NEW p \in Caller, Busy(p) PROVE IInv'
<1>1. /\ p \notin session /\ control' = TRUE /\ Answer(p, "busy")
      /\ UNCHANGED <<session, dup, releasing, journals, since>>
  BY DEF IInv, Held, Busy, OpenControl
<1>2. GoesHome(p, "busy") /\ "busy" \in Answers
  BY <1>1 DEF GoesHome, Answers
<1> QED
  BY <1>1, <1>2, HomeStep DEF IInv, TypeOK

LEMMA LockStep == ASSUME IInv, NEW p \in Caller, Lock(p) PROVE IInv'
<1>1. /\ pc[p] = "lock" /\ control' = TRUE /\ session = {} /\ session' = {p}
      /\ pc' = [pc EXCEPT ![p] = "look"] /\ look' = [look EXCEPT ![p] = 1]
      /\ seen' = [seen EXCEPT ![p] = {}]
      /\ UNCHANGED <<dup, releasing, journals, kind, own, answer, since>>
  BY DEF Lock, OpenControl, Locked, Goto
<1>2. TypeOK'
  BY <1>1 DEF IInv, TypeOK
<1>3. Held' /\ OneTransaction'
  BY <1>1 DEF IInv, TypeOK, Held, OneTransaction
<1>4. Looking'
  BY <1>1 DEF IInv, TypeOK, Held, Looking, Found
<1>5. Waiting' /\ NothingOverlooked'
  BY <1>1 DEF IInv, Waiting, NothingOverlooked
<1> QED
  BY <1>2, <1>3, <1>4, <1>5 DEF IInv

LEMMA LookStep == ASSUME IInv, NEW p \in Caller, Look(p) PROVE IInv'
<1>1. /\ pc[p] = "look" /\ look[p] \in 1..4
      /\ seen' = [seen EXCEPT ![p] = @ \cup ({Order[look[p]]} \cap journals \cap Wanted(p))]
      /\ look' = [look EXCEPT ![p] = @ + 1]
      /\ UNCHANGED <<control, session, dup, releasing, journals, pc, kind, own, answer, since>>
  BY Orders DEF Look, lockState
<1>2. TypeOK'
  BY <1>1, Orders DEF IInv, TypeOK
<1>3. Held' /\ OneTransaction'
  BY <1>1 DEF IInv, TypeOK, Held, OneTransaction
<1>4. Looking'
  <2>1. ASSUME NEW q \in Caller, q # p, pc[q] = "look" PROVE Found(q)'
    BY <1>1, <2>1 DEF IInv, TypeOK, Looking, Found, Wanted
  <2>2. ASSUME NEW j \in Journal
        PROVE  j \in seen'[p] <=> /\ j \in journals \cap Wanted(p)
                                  /\ \E n \in 1..look'[p]-1 : Order[n] = j
    <3>1. 1..look'[p]-1 = (1..look[p]-1) \cup {look[p]}
      BY <1>1 DEF IInv, TypeOK
    <3>2. j \in seen'[p] <=> j \in seen[p] \/ (j = Order[look[p]] /\ j \in journals \cap Wanted(p))
      BY <1>1 DEF IInv, TypeOK
    <3> QED
      BY <1>1, <3>1, <3>2 DEF IInv, Looking, Found
  <2>3. Found(p)'
    BY <2>2, <1>1 DEF Found, Wanted
  <2> QED
    BY <2>1, <2>3, <1>1 DEF Looking
<1>5. Waiting' /\ NothingOverlooked'
  BY <1>1 DEF IInv, Waiting, NothingOverlooked
<1> QED
  BY <1>2, <1>3, <1>4, <1>5 DEF IInv

-----------------------------------------------------------------------------
(* Calls that have looked.                                                 *)

LEMMA RefuseStep == ASSUME IInv, NEW p \in Caller, RefusePending(p) PROVE IInv'
<1>1. "corrupt" \in Answers /\ "pending" \in Answers
  BY DEF Answers
<1> QED
  BY <1>1, ReturnStep DEF RefusePending

LEMMA RejectStep == ASSUME IInv, NEW p \in Caller, Reject(p) PROVE IInv'
<1>1. "ended" \in Answers
  BY DEF Answers
<1> QED
  BY <1>1, ReturnStep DEF Reject

LEMMA CreateStep == ASSUME IInv, NEW p \in Caller, Create(p) PROVE IInv'
<1> DEFINE j == Creates[kind[p]]
<1>1. /\ pc[p] = "look" /\ kind[p] \in {"edit", "operation", "undo"}
      /\ journals' = journals \cup {j} /\ own' = [own EXCEPT ![p] = j]
      /\ pc' = [pc EXCEPT ![p] = "work"]
      /\ UNCHANGED <<control, session, dup, releasing, kind, look, seen, answer, since>>
  BY DEF Create, Looked, Goto, lockState, Creates
<1>2. journals = {}
  <2>1. Wanted(p) = Journal
    BY <1>1 DEF Wanted
  <2> QED
    BY <2>1, LookedIsAll DEF IInv, TypeOK, Create
<1>3. j \in Journal /\ j # "none"
  BY <1>1 DEF Creates, Journal
<1>4. session = {p}
  BY <1>1 DEF IInv, TypeOK, Held
<1>5. TypeOK'
  BY <1>1, <1>3 DEF IInv, TypeOK
<1>6. Held'
  BY <1>1, <1>4 DEF IInv, TypeOK, Held
<1>7. Looking'
  BY <1>1, <1>4 DEF IInv, TypeOK, Held, Looking
<1>8. Waiting' /\ NothingOverlooked'
  BY <1>1 DEF IInv, Waiting, NothingOverlooked
<1>9. OneTransaction'
  BY <1>1, <1>2, <1>4 DEF IInv, TypeOK, Held, OneTransaction
<1> QED
  BY <1>5, <1>6, <1>7, <1>8, <1>9 DEF IInv

LEMMA ChooseStep == ASSUME IInv, NEW p \in Caller, Choose(p) PROVE IInv'
<1>1. CASE ~\E j \in seen[p] : seen[p] = {j}
  <2>1. Return(p, "corrupt") /\ UNCHANGED <<journals, since>>
    BY <1>1 DEF Choose
  <2>2. "corrupt" \in Answers
    BY DEF Answers
  <2> QED
    BY <2>1, <2>2, ReturnStep
<1>2. CASE \E j \in seen[p] : seen[p] = {j}
  <2>1. PICK j \in seen[p] : own' = [own EXCEPT ![p] = j]
    BY <1>2 DEF Choose
  <2>2. /\ pc[p] = "look" /\ pc' = [pc EXCEPT ![p] = "work"]
        /\ UNCHANGED <<control, session, dup, releasing, journals, kind, look, seen, answer, since>>
    BY <1>2 DEF Choose, Looked, Goto, lockState
  <2>3. j \in journals /\ j \in Journal /\ j # "none"
    BY <2>1, LookedIsAll DEF IInv, TypeOK, Choose, Journal
  <2>4. session = {p}
    BY <2>2 DEF IInv, TypeOK, Held
  <2>5. TypeOK'
    BY <2>1, <2>2, <2>3 DEF IInv, TypeOK
  <2>6. Held'
    BY <2>2, <2>4 DEF IInv, TypeOK, Held
  <2>7. Looking'
    BY <2>2, <2>4 DEF IInv, TypeOK, Held, Looking
  <2>8. Waiting' /\ NothingOverlooked'
    BY <2>2 DEF IInv, Waiting, NothingOverlooked
  <2>9. OneTransaction'
    BY <2>1, <2>2, <2>3, <2>4 DEF IInv, TypeOK, Held, OneTransaction
  <2> QED
    BY <2>5, <2>6, <2>7, <2>8, <2>9 DEF IInv
<1> QED
  BY <1>1, <1>2

LEMMA NextHalfStep == ASSUME IInv, NEW p \in Caller, NextHalf(p) PROVE IInv'
<1>1. /\ RecoverEdit(p) /\ pc[p] = "look" /\ session' = session \ {p}
      /\ releasing' = "close" /\ UNCHANGED <<control, dup>>
  BY DEF NextHalf, Looked, Close
<1>2. Wanted(p) = Journal
  BY DEF NextHalf, Wanted
<1>3. journals \subseteq {"edit"}
  BY <1>2, LookedIsAll DEF NextHalf, IInv, TypeOK
<1> QED
  BY <1>1, <1>3, SecondHalf

LEMMA NoPendingStep == ASSUME IInv, NEW p \in Caller, NoPending(p) PROVE IInv'
<1>1. "edit" \notin journals
  BY LookedIsAll DEF NoPending, IInv, Wanted
<1>2. since[p] = {}
  BY <1>1 DEF NoPending, IInv, Waiting
<1>3. "no_pending" \in Answers
  BY DEF Answers
<1> QED
  BY <1>2, <1>3, ReturnStep DEF NoPending

-----------------------------------------------------------------------------
(* Calls at work, deaths and inherited handles.                            *)

LEMMA FinishStep == ASSUME IInv, NEW p \in Caller, Finish(p) PROVE IInv'
<1>1. /\ pc[p] = "work" /\ journals' = journals \ {own[p]}
      /\ since' = [q \in Caller |-> since[q] \ {own[p]}] /\ control' = control
      /\ pc' = [pc EXCEPT ![p] = "idle"] /\ answer' = [answer EXCEPT ![p] = "ended"]
      /\ own' = [own EXCEPT ![p] = "none"] /\ look' = [look EXCEPT ![p] = 1]
      /\ seen' = [seen EXCEPT ![p] = {}] /\ kind' = [kind EXCEPT ![p] = "inspect"]
  BY DEF Finish, Return, Answer, Goto
<1>2. /\ session' = session \ {p} /\ dup' \in BOOLEAN
      /\ releasing' \in {"unlock", "close", "death"}
  BY DEF IInv, TypeOK, Finish, Return, Release, Unlock, Close
<1>3. session = {p}
  BY <1>1 DEF IInv, TypeOK, Held
<1>4. TypeOK'
  BY <1>1, <1>2 DEF IInv, TypeOK, Answers, Kinds, Sessions
<1>5. Held'
  BY <1>1, <1>2, <1>3 DEF IInv, TypeOK, Held
<1>6. Looking'
  BY <1>1, <1>3 DEF IInv, TypeOK, Held, Looking
<1>7. Waiting' /\ NothingOverlooked'
  BY <1>1 DEF IInv, TypeOK, Waiting, NothingOverlooked
<1>8. OneTransaction'
  BY <1>1, <1>3 DEF IInv, TypeOK, Held, OneTransaction
<1> QED
  BY <1>4, <1>5, <1>6, <1>7, <1>8 DEF IInv

LEMMA AbandonStep == ASSUME IInv, NEW p \in Caller, Abandon(p) PROVE IInv'
<1>1. "failed" \in Answers
  BY DEF Answers
<1> QED
  BY <1>1, ReturnStep DEF Abandon

LEMMA DieStep == ASSUME IInv, NEW p \in Caller, Die(p) PROVE IInv'
<1>1. /\ Answer(p, "none") /\ UNCHANGED <<control, journals, since>>
      /\ session' = session \ {p} /\ dup' = dup
      /\ releasing' \in {"unlock", "close", "death"}
  BY DEF IInv, TypeOK, Die, Close
<1>2. GoesHome(p, "none") /\ "none" \in Answers
  BY <1>1 DEF GoesHome, Answers
<1> QED
  BY <1>1, <1>2, HomeStep DEF IInv, TypeOK

LEMMA HandleStep ==
  ASSUME IInv, Duplicate \/ CloseDuplicate \/ UNCHANGED vars
  PROVE  IInv'
<1>1. /\ UNCHANGED <<control, session, releasing, journals, since>>
      /\ UNCHANGED <<pc, kind, look, seen, own, answer>>
      /\ dup' \in BOOLEAN
  BY DEF IInv, TypeOK, Duplicate, CloseDuplicate, vars, lockState, calls
<1>2. TypeOK'
  BY <1>1 DEF IInv, TypeOK
<1>3. Held' /\ OneTransaction'
  BY <1>1 DEF IInv, Held, OneTransaction
<1>4. Looking'
  BY <1>1 DEF IInv, Looking, Found, Wanted
<1>5. Waiting' /\ NothingOverlooked'
  BY <1>1 DEF IInv, Waiting, NothingOverlooked
<1> QED
  BY <1>2, <1>3, <1>4, <1>5 DEF IInv

-----------------------------------------------------------------------------

LEMMA Inductive == Spec => []IInv
<1>1. ASSUME IInv, [Next]_vars PROVE IInv'
  <2>1. ASSUME NEW p \in Caller, CallStep(p) PROVE IInv'
    BY <1>1, <2>1, BeginStep, NoControlStep, BusyStep, LockStep, LookStep, RefuseStep, RejectStep,
       CreateStep, ChooseStep, NextHalfStep, NoPendingStep, FinishStep, AbandonStep, DieStep
       DEF CallStep
  <2> QED
    BY <1>1, <2>1, HandleStep DEF Next
<1> QED
  BY Initially, <1>1, PTL DEF Spec

\* A call is at work exactly if it has a journal, for any number of processes.
THEOREM RootLockTypeOK == Spec => []TypeOK
<1>1. IInv => TypeOK
  BY DEF IInv
<1> QED
  BY <1>1, Inductive, PTL

(***************************************************************************)
(* However many processes call whatever they like, die and leave handles   *)
(* behind: never two journals, never two calls at work.                    *)
(***************************************************************************)
THEOREM OneTransactionAtATime == Spec => []OneTransaction
<1>1. IInv => OneTransaction
  BY DEF IInv
<1> QED
  BY <1>1, Inductive, PTL

(***************************************************************************)
(* recover does not answer that there is nothing to recover while a        *)
(* journal has been there since it began, although it gives the root back  *)
(* between its two looks.                                                  *)
(***************************************************************************)
THEOREM RecoverOverlooksNothing == Spec => []NothingOverlooked
<1>1. IInv => NothingOverlooked
  BY DEF IInv
<1> QED
  BY <1>1, Inductive, PTL

\* A call with a LockGuard leaves the root unlocked, whoever inherited its handle.
THEOREM GuardUnlocks == Spec => []NotLeftLocked
<1>1. Init => NotLeftLocked
  BY DEF Init, NotLeftLocked
<1>2. ASSUME NotLeftLocked, [Next]_vars PROVE NotLeftLocked'
  <2>1. ASSUME NEW p \in Caller, CallStep(p) PROVE NotLeftLocked'
    BY <1>2, <2>1
       DEF CallStep, NotLeftLocked, lockState, Begin, NoControl, Busy, OpenControl, Lock, Look,
           RefusePending, Reject, Create, Choose, NextHalf, NoPending, Finish, Abandon, Die,
           Return, Release, Unlock, Close
  <2> QED
    BY <1>2, <2>1 DEF Next, NotLeftLocked, Duplicate, CloseDuplicate, vars, lockState
<1> QED
  BY <1>1, <1>2, PTL DEF Spec
=============================================================================
