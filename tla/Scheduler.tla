------------------------------ MODULE Scheduler ------------------------------
(***************************************************************************)
(* The bounded worker pool of src/scheduler.rs: map_ordered runs one job   *)
(* per input on scoped threads.  Workers pop jobs from the front of one    *)
(* queue under its lock, test the cancellation flag under the same lock,   *)
(* store an outcome by input index and, after a failure, raise the flag.   *)
(* The caller joins every worker and then reads the results in input       *)
(* order; the stager (operation/stage.rs, collect) reports the first       *)
(* failed one.                                                             *)
(*                                                                         *)
(* Jobs are numbered from 1 (the code counts from 0).  Which jobs fail is  *)
(* a property of the inputs, so it is chosen once, in Init: the pool must  *)
(* give the same answer whatever the threads do with it.                   *)
(***************************************************************************)
EXTENDS Naturals, FiniteSets

CONSTANTS JobCount,    \* number of inputs
          Requested,   \* the caller's worker request
          HardMax      \* HARD_MAX_WORKERS

ASSUME SchedulerAssumption ==
  /\ JobCount \in Nat
  /\ Requested \in Nat
  /\ HardMax \in Nat \ {0}

Job == 1..JobCount

AtMost(a, b) == IF a <= b THEN a ELSE b

\* The request clamped to 1..HardMax, and never more workers than jobs.
WorkerCount ==
  IF JobCount = 0 THEN 0
  ELSE AtMost(AtMost(IF Requested = 0 THEN 1 ELSE Requested, HardMax), JobCount)

Worker == 1..WorkerCount

None == 0
Outcome == {"ok", "error", "panic"}

VARIABLES
  verdict,     \* what the operation does on each input
  next,        \* front of the queue: jobs next..JobCount are still queued
  cancelled,   \* the cancellation flag
  results,     \* "none" until a worker stores the outcome of the job
  pc,          \* control point of each worker
  job          \* the job a worker holds

vars == <<verdict, next, cancelled, results, pc, job>>

Init ==
  /\ verdict \in [Job -> Outcome]
  /\ next = 1
  /\ cancelled = FALSE
  /\ results = [j \in Job |-> "none"]
  /\ pc = [w \in Worker |-> "admit"]
  /\ job = [w \in Worker |-> None]

\* The worker finds the flag raised, or the queue empty, and returns.
Leave(w) ==
  /\ pc[w] = "admit"
  /\ cancelled \/ next > JobCount
  /\ pc' = [pc EXCEPT ![w] = "joined"]
  /\ UNCHANGED <<verdict, next, cancelled, results, job>>

\* Mutants of Admit: jobs popped from the back, a job read but not popped, and
\* a queue that ends one job too late.
AdmitFromBack(w) ==
  /\ pc[w] = "admit" /\ ~cancelled /\ next <= JobCount
  /\ job' = [job EXCEPT ![w] = JobCount - next + 1]
  /\ next' = next + 1
  /\ pc' = [pc EXCEPT ![w] = "store"]
  /\ UNCHANGED <<verdict, cancelled, results>>

AdmitWithoutPop(w) ==
  /\ pc[w] = "admit" /\ ~cancelled /\ next <= JobCount
  /\ job' = [job EXCEPT ![w] = next]
  /\ pc' = [pc EXCEPT ![w] = "store"]
  /\ UNCHANGED <<verdict, next, cancelled, results>>

AdmitPastEnd(w) ==
  /\ pc[w] = "admit" /\ ~cancelled /\ next <= JobCount + 1
  /\ job' = [job EXCEPT ![w] = next]
  /\ next' = next + 1
  /\ pc' = [pc EXCEPT ![w] = "store"]
  /\ UNCHANGED <<verdict, cancelled, results>>

\* The worker pops the front job; the flag is read under the queue lock.
Admit(w) ==
  /\ pc[w] = "admit"
  /\ ~cancelled
  /\ next <= JobCount
  /\ job' = [job EXCEPT ![w] = next]
  /\ next' = next + 1
  /\ pc' = [pc EXCEPT ![w] = "store"]
  /\ UNCHANGED <<verdict, cancelled, results>>

\* run_job has returned or was caught panicking; its outcome is stored.
Store(w) ==
  /\ pc[w] = "store"
  /\ results' = [results EXCEPT ![job[w]] = verdict[job[w]]]
  /\ pc' = [pc EXCEPT ![w] = IF verdict[job[w]] = "ok" THEN "admit" ELSE "cancel"]
  /\ UNCHANGED <<verdict, next, cancelled, job>>

\* Mutant of Cancel: the worker never returns to the queue.
CancelAndStay(w) ==
  /\ pc[w] = "cancel"
  /\ cancelled' = TRUE
  /\ UNCHANGED <<verdict, next, results, pc, job>>

\* A failed job raises the flag after its outcome became visible.
Cancel(w) ==
  /\ pc[w] = "cancel"
  /\ cancelled' = TRUE
  /\ pc' = [pc EXCEPT ![w] = "admit"]
  /\ UNCHANGED <<verdict, next, results, job>>

Joined == \A w \in Worker : pc[w] = "joined"

\* map_ordered has returned: nothing happens any more.
Returned == Joined /\ UNCHANGED vars

Next ==
  \/ \E w \in Worker : Leave(w) \/ Admit(w) \/ Store(w) \/ Cancel(w)
  \/ Returned

\* Every started thread is scheduled until the scope has joined it.
Spec == Init /\ [][Next]_vars /\ \A w \in Worker :
                  WF_vars(Leave(w) \/ Admit(w) \/ Store(w) \/ Cancel(w))

-----------------------------------------------------------------------------
Failed(o) == o \in {"error", "panic"}

\* Type invariant: every queue position, outcome and control point is in range.
TypeOK ==
  /\ verdict \in [Job -> Outcome]
  /\ next \in 1..JobCount + 1
  /\ cancelled \in BOOLEAN
  /\ results \in [Job -> Outcome \cup {"none"}]
  /\ pc \in [Worker -> {"admit", "store", "cancel", "joined"}]
  /\ job \in [Worker -> Job \cup {None}]

\* The index the caller reports: the first failed result in input order.
Primary(j) ==
  /\ Failed(results[j])
  /\ \A i \in 1..j-1 : ~Failed(results[i])

\* The input that would fail first if the jobs ran one after the other.
FirstFailure(j) ==
  /\ Failed(verdict[j])
  /\ \A i \in 1..j-1 : ~Failed(verdict[i])

(***************************************************************************)
(* Worker completion order never affects the reported error: once all      *)
(* workers are joined, the error collect selects is that of the first      *)
(* failing input, however the threads interleaved and whichever of them    *)
(* cancelled the rest.                                                     *)
(***************************************************************************)
PrimaryIsFirstFailure ==
  Joined => \A j \in Job : Primary(j) <=> FirstFailure(j)

(***************************************************************************)
(* Nothing is lost or repeated: a result missing after the join belongs to *)
(* a job behind a failed one, and a job in some worker's hands has not     *)
(* been stored yet and is held by that worker alone.                       *)
(***************************************************************************)
AdmittedOnce ==
  /\ Joined => \A j \in Job : results[j] = "none" =>
                 \E i \in 1..j-1 : Failed(results[i])
  /\ \A w \in Worker : pc[w] = "store" =>
       /\ results[job[w]] = "none"
       /\ \A v \in Worker \ {w} : pc[v] = "store" => job[v] # job[w]

(***************************************************************************)
(* The scope always ends: after a failure as after an empty queue, every   *)
(* worker comes back to the queue once more and returns.                   *)
(***************************************************************************)
EventuallyJoined == <>Joined

=============================================================================
