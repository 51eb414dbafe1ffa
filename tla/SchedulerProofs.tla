--------------------------- MODULE SchedulerProofs ---------------------------
(***************************************************************************)
(* For every number of jobs and workers: the error reported to the caller  *)
(* does not depend on how the worker threads interleave.                   *)
(***************************************************************************)
EXTENDS Scheduler, TLAPS

(***************************************************************************)
(* The inductive invariant.  The admitted jobs are exactly 1..next-1; each *)
(* of them is in one worker's hands or has its true outcome stored; the    *)
(* flag and the join both have a reason.                                   *)
(***************************************************************************)
Stored == \A j \in Job : results[j] # "none" => results[j] = verdict[j] /\ j < next

Held ==
  /\ \A w \in Worker : pc[w] = "store" =>
       job[w] \in Job /\ job[w] < next /\ results[job[w]] = "none"
  /\ \A v, w \in Worker : pc[v] = "store" /\ pc[w] = "store" /\ v # w => job[v] # job[w]
  /\ \A j \in Job : j < next /\ results[j] = "none" =>
       \E w \in Worker : pc[w] = "store" /\ job[w] = j

SomeFailed == \E j \in Job : Failed(results[j])

Reasons ==
  /\ cancelled => SomeFailed
  /\ \A w \in Worker : pc[w] = "cancel" => SomeFailed
  /\ \A w \in Worker : pc[w] = "joined" => cancelled \/ next > JobCount

IInv == TypeOK /\ Stored /\ Held /\ Reasons

LEMMA WorkerNat == WorkerCount \in Nat /\ (JobCount > 0 => 1 \in Worker)
  BY SchedulerAssumption DEF WorkerCount, AtMost, Worker

LEMMA InitIInv == Init => IInv
<1> SUFFICES ASSUME Init PROVE IInv
  OBVIOUS
<1> USE SchedulerAssumption DEF Init
<1>1. TypeOK
  <2>1. next \in 1..JobCount + 1
    OBVIOUS
  <2>2. results \in [Job -> Outcome \cup {"none"}]
    OBVIOUS
  <2>3. job \in [Worker -> Job \cup {None}]
    OBVIOUS
  <2> QED BY <2>1, <2>2, <2>3 DEF TypeOK
<1>2. Stored
  BY DEF Stored
<1>3. Held
  BY DEF Held, Job
<1>4. Reasons
  BY DEF Reasons
<1> QED BY <1>1, <1>2, <1>3, <1>4 DEF IInv

LEMMA StepIInv == IInv /\ [Next]_vars => IInv'
<1> SUFFICES ASSUME IInv, [Next]_vars PROVE IInv'
  OBVIOUS
<1> USE SchedulerAssumption
<1>1. ASSUME NEW w \in Worker, Leave(w) PROVE IInv'
  <2>1. TypeOK'
    BY <1>1 DEF IInv, TypeOK, Leave
  <2>2. Stored'
    BY <1>1 DEF IInv, TypeOK, Stored, Leave
  <2>3. Held'
    BY <1>1 DEF IInv, TypeOK, Held, Leave
  <2>4. Reasons'
    BY <1>1 DEF IInv, TypeOK, Reasons, SomeFailed, Leave
  <2> QED BY <2>1, <2>2, <2>3, <2>4 DEF IInv
<1>2. ASSUME NEW w \in Worker, Admit(w) PROVE IInv'
  <2>0. next \in Job /\ next' = next + 1 /\ results' = results /\ verdict' = verdict
        /\ next \in Nat /\ results[next] = "none"
    BY <1>2 DEF IInv, TypeOK, Stored, Admit, Job
  <2>1. TypeOK'
    BY <1>2, <2>0 DEF IInv, TypeOK, Admit, Job
  <2>2. Stored'
    BY <1>2, <2>0 DEF IInv, TypeOK, Stored, Job
  <2>3. Held'
    <3>1. ASSUME NEW v \in Worker, pc'[v] = "store"
          PROVE job'[v] \in Job /\ job'[v] < next' /\ results'[job'[v]] = "none"
      BY <1>2, <2>0, <3>1 DEF IInv, TypeOK, Held, Admit, Job
    <3>2. ASSUME NEW v \in Worker, NEW u \in Worker,
                 pc'[v] = "store", pc'[u] = "store", v # u
          PROVE job'[v] # job'[u]
      BY <1>2, <2>0, <3>2 DEF IInv, TypeOK, Held, Admit, Job
    <3>3. ASSUME NEW j \in Job, j < next', results'[j] = "none"
          PROVE \E v \in Worker : pc'[v] = "store" /\ job'[v] = j
      <4>1. CASE j = next
        BY <4>1, <1>2 DEF IInv, TypeOK, Admit
      <4>2. CASE j < next
        <5>1. PICK v \in Worker : pc[v] = "store" /\ job[v] = j
          BY <4>2, <3>3, <2>0 DEF IInv, Held
        <5>2. v # w
          BY <5>1, <1>2 DEF Admit
        <5> QED BY <5>1, <5>2, <1>2 DEF IInv, TypeOK, Admit
      <4> QED BY <4>1, <4>2, <3>3, <2>0 DEF Job
    <3> QED BY <3>1, <3>2, <3>3 DEF Held
  <2>4. Reasons'
    BY <1>2 DEF IInv, TypeOK, Reasons, SomeFailed, Admit
  <2> QED BY <2>1, <2>2, <2>3, <2>4 DEF IInv
<1>3. ASSUME NEW w \in Worker, Store(w) PROVE IInv'
  <2>0. /\ job[w] \in Job /\ job[w] < next /\ job' = job /\ next' = next
        /\ verdict' = verdict /\ cancelled' = cancelled
        /\ results' = [results EXCEPT ![job[w]] = verdict[job[w]]]
        /\ verdict[job[w]] \in Outcome
    BY <1>3 DEF IInv, TypeOK, Held, Store
  <2>1. TypeOK'
    BY <1>3, <2>0 DEF IInv, TypeOK, Store
  <2>2. Stored'
    BY <1>3, <2>0 DEF IInv, TypeOK, Stored, Store
  <2>3. Held'
    <3>1. ASSUME NEW v \in Worker, pc'[v] = "store" PROVE v # w /\ pc[v] = "store"
      BY <1>3, <3>1 DEF IInv, TypeOK, Store
    <3>2. ASSUME NEW j \in Job, j < next', results'[j] = "none"
          PROVE \E v \in Worker : pc'[v] = "store" /\ job'[v] = j
      <4>1. j # job[w] /\ results[j] = "none"
        BY <2>0, <3>2 DEF IInv, TypeOK, Outcome
      <4>2. PICK v \in Worker : pc[v] = "store" /\ job[v] = j
        BY <4>1, <3>2, <2>0 DEF IInv, Held
      <4> QED BY <4>1, <4>2, <1>3, <2>0 DEF IInv, TypeOK, Store
    <3>3. ASSUME NEW v \in Worker, pc'[v] = "store"
          PROVE job'[v] \in Job /\ job'[v] < next' /\ results'[job'[v]] = "none"
      <4>1. v # w /\ pc[v] = "store"
        BY <3>1, <3>3
      <4>2. job[v] # job[w] /\ job[v] \in Job /\ job[v] < next /\ results[job[v]] = "none"
        BY <4>1, <1>3 DEF IInv, Held, Store
      <4> QED BY <4>2, <2>0 DEF IInv, TypeOK
    <3>4. ASSUME NEW v \in Worker, NEW u \in Worker,
                 pc'[v] = "store", pc'[u] = "store", v # u
          PROVE job'[v] # job'[u]
      BY <3>1, <3>4, <2>0 DEF IInv, Held
    <3> QED BY <3>2, <3>3, <3>4 DEF Held
  <2>4. Reasons'
    <3>1. SomeFailed => SomeFailed'
      <4> SUFFICES ASSUME NEW j \in Job, Failed(results[j]) PROVE Failed(results'[j])
        BY DEF SomeFailed
      <4>1. j # job[w]
        BY <1>3 DEF IInv, Held, Failed, Store
      <4> QED BY <4>1, <2>0 DEF IInv, TypeOK
    <3>2. verdict[job[w]] # "ok" => SomeFailed'
      BY <2>0 DEF SomeFailed, Failed, Outcome, IInv, TypeOK
    <3> QED BY <3>1, <3>2, <1>3, <2>0 DEF IInv, TypeOK, Reasons, Store
  <2> QED BY <2>1, <2>2, <2>3, <2>4 DEF IInv
<1>4. ASSUME NEW w \in Worker, Cancel(w) PROVE IInv'
  <2>1. TypeOK'
    BY <1>4 DEF IInv, TypeOK, Cancel
  <2>2. Stored'
    BY <1>4 DEF IInv, TypeOK, Stored, Cancel
  <2>3. Held'
    BY <1>4 DEF IInv, TypeOK, Held, Cancel
  <2>4. Reasons'
    BY <1>4 DEF IInv, TypeOK, Reasons, SomeFailed, Cancel
  <2> QED BY <2>1, <2>2, <2>3, <2>4 DEF IInv
<1>5. CASE UNCHANGED vars
  BY <1>5 DEF IInv, TypeOK, Stored, Held, Reasons, SomeFailed, vars
<1> QED BY <1>1, <1>2, <1>3, <1>4, <1>5 DEF Next, Returned

LEMMA IInvSelectsFirst == IInv => PrimaryIsFirstFailure
<1> SUFFICES ASSUME IInv, Joined, NEW j \in Job
             PROVE Primary(j) <=> FirstFailure(j)
  BY DEF PrimaryIsFirstFailure
<1> USE SchedulerAssumption
<1>1. 1 \in Worker
  BY WorkerNat DEF Job
<1>2. cancelled \/ next > JobCount
  BY <1>1 DEF IInv, Reasons, Joined
<1>3. ASSUME NEW i \in Job, i < next PROVE results[i] = verdict[i]
  BY <1>3 DEF IInv, Stored, Held, Joined
<1>4. ASSUME NEW i \in Job, Failed(results[i]) PROVE i < next /\ Failed(verdict[i])
  BY <1>4 DEF IInv, Stored, Failed
<1>5. next \in Nat
  BY DEF IInv, TypeOK
<1>6. ASSUME Primary(j) PROVE FirstFailure(j)
  <2>1. j < next /\ Failed(verdict[j])
    BY <1>4, <1>6 DEF Primary
  <2>2. ASSUME NEW i \in 1..j-1 PROVE ~Failed(verdict[i])
    BY <1>3, <1>5, <1>6, <2>1, <2>2 DEF Primary, Job
  <2> QED BY <2>1, <2>2 DEF FirstFailure
<1>7. ASSUME FirstFailure(j) PROVE Primary(j)
  <2>1. j < next
    <3>1. CASE next > JobCount
      BY <3>1, <1>5 DEF Job
    <3>2. CASE cancelled
      <4>1. PICK i \in Job : Failed(results[i])
        BY <3>2 DEF IInv, Reasons, SomeFailed
      <4>2. i < next /\ Failed(verdict[i])
        BY <4>1, <1>4
      <4>3. ~(i < j)
        BY <4>2, <1>7 DEF FirstFailure, Job
      <4> QED BY <4>2, <4>3, <1>5 DEF Job
    <3> QED BY <1>2, <3>1, <3>2
  <2>2. Failed(results[j])
    BY <2>1, <1>3, <1>7 DEF FirstFailure
  <2>3. ASSUME NEW i \in 1..j-1 PROVE ~Failed(results[i])
    BY <2>1, <2>3, <1>3, <1>5, <1>7 DEF FirstFailure, Job
  <2> QED BY <2>2, <2>3 DEF Primary
<1> QED BY <1>6, <1>7

\* Type correctness of the worker pool, for any number of jobs and workers.
THEOREM SchedulerTypeOK == Spec => []TypeOK
<1>1. IInv => TypeOK
  BY DEF IInv
<1> QED BY InitIInv, StepIInv, <1>1, PTL DEF Spec

(***************************************************************************)
(* map_ordered's promise to collect: the first failed result is the first  *)
(* failing input, for every job count, worker count and interleaving.      *)
(***************************************************************************)
THEOREM ReportedErrorIsDeterministic == Spec => []PrimaryIsFirstFailure
  BY InitIInv, StepIInv, IInvSelectsFirst, PTL DEF Spec

(***************************************************************************)
(* No job is lost or run twice: what is missing after the join lies behind *)
(* a failed job, and no two workers ever hold the same job.                *)
(***************************************************************************)
THEOREM EveryJobAdmittedOnce == Spec => []AdmittedOnce
<1>1. IInv => AdmittedOnce
  <2> SUFFICES ASSUME IInv PROVE AdmittedOnce
    OBVIOUS
  <2> USE SchedulerAssumption
  <2>1. ASSUME Joined, NEW j \in Job, results[j] = "none"
        PROVE \E i \in 1..j-1 : Failed(results[i])
    <3>1. 1 \in Worker
      BY WorkerNat DEF Job
    <3>2. cancelled \/ next > JobCount
      BY <2>1, <3>1 DEF IInv, Reasons, Joined
    <3>3. ~(j < next)
      BY <2>1 DEF IInv, Held, Joined
    <3>4. PICK i \in Job : Failed(results[i])
      BY <3>2, <3>3 DEF IInv, TypeOK, Reasons, SomeFailed, Job
    <3>5. i < next
      BY <3>4 DEF IInv, Stored, Failed
    <3> QED BY <3>3, <3>4, <3>5 DEF IInv, TypeOK, Job
  <2>2. ASSUME NEW w \in Worker, pc[w] = "store"
        PROVE /\ results[job[w]] = "none"
              /\ \A v \in Worker \ {w} : pc[v] = "store" => job[v] # job[w]
    BY <2>2 DEF IInv, Held
  <2> QED BY <2>1, <2>2 DEF AdmittedOnce
<1> QED BY InitIInv, StepIInv, <1>1, PTL DEF Spec
=============================================================================
