--------------------------- MODULE PlanCompileProofs ---------------------------
(***************************************************************************)
(* The compiler accepts exactly the legal plans, and what it makes of them *)
(* is what carrying them out by hand would make, for any number of paths   *)
(* and plans of any length.                                                *)
(***************************************************************************)
EXTENDS PlanCompile, WellFoundedInduction, TLAPS

TablesOK ==
  /\ plan \in Seq(Op) /\ next \in 1..Len(plan)+1
  /\ inputs \in [Path -> 0..Len(plan)] /\ outputs \in [Path -> 0..Len(plan)]
  /\ disk \in [Path -> Slot]
  /\ pc \in {"register", "snapshot", "assemble", "projected", "rejected"}
  /\ verdict \in Errors \cup {"none"}

\* The tables are the roles of the operations registered so far, and nothing else.
Registered ==
  /\ \A i \in 1..next-1 :
       /\ plan[i].from # 0 => inputs[plan[i].from] = i
       /\ plan[i].to # 0 => outputs[plan[i].to] = i
  /\ \A p \in Path :
       /\ inputs[p] # 0 => inputs[p] < next /\ plan[inputs[p]].from = p
       /\ outputs[p] # 0 => outputs[p] < next /\ plan[outputs[p]].to = p

RolesFit == \A p \in Path : inputs[p] # 0 /\ outputs[p] # 0 => Allowed(inputs[p], outputs[p])

\* What has been checked when a control point is reached.
Checked ==
  /\ pc \in {"snapshot", "assemble", "projected"} \/ verdict = "too_large" =>
       next = Len(plan) + 1 /\ RolesFit
  /\ Accepted =>
       /\ disk \in [Path -> Slot \ {"unread"}]
       /\ \A p \in Path : Touched(p) => Error(p, disk[p]) = "none"

Closed == verdict # "none" <=> pc = "rejected"

RefusedRightly == Refused => \A d \in Disks : ~Legal(d)

IInv == TablesOK /\ Registered /\ Checked /\ Closed /\ RefusedRightly

-----------------------------------------------------------------------------
\* What an element of a plan is.
LEMMA Operation ==
  ASSUME TablesOK, NEW i \in DOMAIN plan
  PROVE  /\ i \in 1..Len(plan)
         /\ plan[i].from \in 0..P /\ plan[i].to \in 0..P
         /\ plan[i].from # 0 => plan[i].from \in Path
         /\ plan[i].to # 0 => plan[i].to \in Path
         /\ plan[i].kind \in {"modify", "create", "delete", "rename"}
         /\ plan[i].from = 0 <=> plan[i].kind = "create"
         /\ plan[i].to = 0 <=> plan[i].kind = "delete"
         /\ plan[i].kind = "modify" => plan[i].from = plan[i].to
<1>1. plan[i] \in Op /\ i \in 1..Len(plan)
  BY DEF TablesOK
<1>2. /\ plan[i].from \in 0..P /\ plan[i].to \in 0..P
      /\ plan[i].kind \in {"modify", "create", "delete", "rename"}
      /\ plan[i].from = 0 <=> plan[i].kind = "create"
      /\ plan[i].to = 0 <=> plan[i].kind = "delete"
      /\ plan[i].kind = "modify" => plan[i].from = plan[i].to
  BY <1>1 DEF Op
<1> QED
  BY <1>1, <1>2, PlanAssumption DEF Path

LEMMA Initially == Init => IInv
<1> SUFFICES ASSUME Init PROVE IInv
  OBVIOUS
<1>1. plan \in Seq(Op)
  BY PlanAssumption DEF Init
<1>2. Len(plan) \in Nat
  BY <1>1
<1> QED
  BY <1>1, <1>2 DEF Init, IInv, TablesOK, Registered, Checked, Closed, RefusedRightly, Refused,
     Accepted, Slot, Errors

\* Two operations with one role at one path make no legal plan.
LEMMA ClashIsIllegal ==
  ASSUME TablesOK, Registered, next \in DOMAIN plan, Clash(plan[next]), NEW d
  PROVE  ~Legal(d)
<1>1. next \in 1..Len(plan) /\ plan[next].from \in 0..P /\ plan[next].to \in 0..P
  BY Operation
<1>2. CASE plan[next].from # 0 /\ inputs[plan[next].from] # 0
  <2> DEFINE i == inputs[plan[next].from]
  <2>1. i \in 1..Len(plan) /\ i < next /\ plan[i].from = plan[next].from
    BY <1>1, <1>2, Operation DEF TablesOK, Registered
  <2> QED
    BY <2>1, <1>1, <1>2 DEF Legal, TablesOK
<1>3. CASE plan[next].to # 0 /\ outputs[plan[next].to] # 0
  <2> DEFINE i == outputs[plan[next].to]
  <2>1. i \in 1..Len(plan) /\ i < next /\ plan[i].to = plan[next].to
    BY <1>1, <1>3, Operation DEF TablesOK, Registered
  <2> QED
    BY <2>1, <1>1, <1>3 DEF Legal, TablesOK
<1> QED
  BY <1>2, <1>3 DEF Clash

LEMMA RegisterStep == ASSUME IInv, Register PROVE IInv'
<1>1. next \in 1..Len(plan) /\ Len(plan) \in Nat /\ pc = "register" /\ verdict = "none"
  BY DEF IInv, TablesOK, Closed, Register
<1>2. CASE Clash(plan[next])
  <2>1. \A d : ~Legal(d)
    BY <1>2, ClashIsIllegal DEF IInv, Register
  <2>2. pc' = "rejected" /\ verdict' = "invalid_plan"
        /\ UNCHANGED <<plan, next, inputs, outputs, disk>>
    BY <1>2 DEF Register, Fail
  <2>3. \A d : Legal(d)' <=> Legal(d)
    BY <2>2 DEF Legal, Vacated
  <2>4. RefusedRightly'
    BY <2>1, <2>2 DEF RefusedRightly, Legal, Vacated
  <2> QED
    BY <1>1, <2>2, <2>4 DEF IInv, TablesOK, Registered, Checked, Closed, Accepted, Errors
<1>3. CASE ~Clash(plan[next])
  <2> DEFINE op == plan[next]
  <2>1. /\ inputs' = Put(inputs, op.from, next) /\ outputs' = Put(outputs, op.to, next)
        /\ next' = next + 1 /\ UNCHANGED <<pc, verdict, plan, disk>>
    BY <1>3 DEF Register
  <2>2. op.from \in 0..P /\ op.to \in 0..P
        /\ (op.from # 0 => op.from \in Path) /\ (op.to # 0 => op.to \in Path)
    BY Operation DEF IInv, Register
  <2>3. TablesOK'
    <3>1. next \in 0..Len(plan) /\ next + 1 \in 1..Len(plan)+1
      BY <1>1
    <3>2. inputs \in [Path -> 0..Len(plan)] /\ outputs \in [Path -> 0..Len(plan)]
      BY DEF IInv, TablesOK
    <3>3. inputs' \in [Path -> 0..Len(plan)] /\ outputs' \in [Path -> 0..Len(plan)]
      BY <2>1, <2>2, <3>1, <3>2 DEF Put
    <3> QED
      BY <1>1, <2>1, <3>1, <3>3 DEF IInv, TablesOK
  <2>4. Registered'
    <3>1. ASSUME NEW i \in 1..next'-1 PROVE plan'[i].from # 0 => inputs'[plan'[i].from] = i
      <4>1. i \in 1..next /\ i \in DOMAIN plan
        BY <1>1, <2>1 DEF IInv, TablesOK
      <4>2. CASE i = next
        BY <4>2, <2>1, <2>2 DEF Put, IInv, TablesOK
      <4>3. CASE i < next
        <5>1. plan[i].from # 0 => inputs[plan[i].from] = i /\ plan[i].from \in Path
          BY <4>1, <4>3, Operation DEF IInv, Registered, TablesOK
        <5> QED
          BY <5>1, <4>1, <4>3, <2>1, <2>2, <1>3, <1>1 DEF Put, Clash, IInv, TablesOK
      <4> QED
        BY <4>1, <4>2, <4>3, <1>1
    <3>2. ASSUME NEW i \in 1..next'-1 PROVE plan'[i].to # 0 => outputs'[plan'[i].to] = i
      <4>1. i \in 1..next /\ i \in DOMAIN plan
        BY <1>1, <2>1 DEF IInv, TablesOK
      <4>2. CASE i = next
        BY <4>2, <2>1, <2>2 DEF Put, IInv, TablesOK
      <4>3. CASE i < next
        <5>1. plan[i].to # 0 => outputs[plan[i].to] = i /\ plan[i].to \in Path
          BY <4>1, <4>3, Operation DEF IInv, Registered, TablesOK
        <5> QED
          BY <5>1, <4>1, <4>3, <2>1, <2>2, <1>3, <1>1 DEF Put, Clash, IInv, TablesOK
      <4> QED
        BY <4>1, <4>2, <4>3, <1>1
    <3>3. ASSUME NEW p \in Path
          PROVE  /\ inputs'[p] # 0 => inputs'[p] < next' /\ plan'[inputs'[p]].from = p
                 /\ outputs'[p] # 0 => outputs'[p] < next' /\ plan'[outputs'[p]].to = p
      BY <1>1, <2>1, <2>2 DEF Put, IInv, TablesOK, Registered
    <3> QED
      BY <3>1, <3>2, <3>3 DEF Registered
  <2>5. Checked' /\ Closed' /\ RefusedRightly'
    BY <1>1, <2>1 DEF Checked, Closed, RefusedRightly, Refused, Accepted
  <2> QED
    BY <2>3, <2>4, <2>5 DEF IInv
<1> QED
  BY <1>2, <1>3

\* A path whose two roles do not fit makes no legal plan.
LEMMA MisfitIsIllegal ==
  ASSUME TablesOK, Registered, NEW p \in Path, inputs[p] # 0, outputs[p] # 0,
         ~Allowed(inputs[p], outputs[p]), NEW d
  PROVE  ~Legal(d)
<1> DEFINE i == inputs[p]  j == outputs[p]
<1>1. /\ i \in DOMAIN plan /\ j \in DOMAIN plan
      /\ plan[i].from = p /\ plan[j].to = p /\ p # 0
  BY PlanAssumption DEF TablesOK, Registered, Path
<1>2. SUFFICES ASSUME Legal(d) PROVE FALSE
  OBVIOUS
<1>3. d[p] = "planned"
  BY <1>1, <1>2 DEF Legal
<1>4. CASE plan[j].kind = "modify"
  <2>1. plan[j].from = p
    BY <1>1, <1>4, Operation
  <2>2. i = j
    BY <2>1, <1>1, <1>2 DEF Legal
  <2> QED
    BY <1>4, <2>2 DEF Allowed
<1>5. CASE plan[j].kind \in {"create", "rename"}
  <2>1. plan[j].kind = "rename" /\ Vacated(p)
    BY <1>1, <1>2, <1>3, <1>5 DEF Legal
  <2>2. PICK k \in DOMAIN plan : plan[k].kind = "rename" /\ plan[k].from = p
    BY <2>1 DEF Vacated
  <2>3. k = i
    BY <2>2, <1>1, <1>2 DEF Legal
  <2> QED
    BY <2>1, <2>2, <2>3 DEF Allowed
<1> QED
  BY <1>1, <1>4, <1>5, Operation

LEMMA ValidateStep == ASSUME IInv, Validate PROVE IInv'
<1>1. /\ next = Len(plan) + 1 /\ Len(plan) \in Nat /\ pc = "register" /\ verdict = "none"
      /\ UNCHANGED <<plan, next, inputs, outputs, disk>>
  BY DEF IInv, TablesOK, Closed, Validate
<1>2. CASE RolesFit
  <2>1. pc' = "snapshot" /\ verdict' = "none"
    BY <1>1, <1>2 DEF Validate, RolesFit, Goto
  <2>2. RolesFit'
    BY <1>1, <1>2 DEF RolesFit, Allowed
  <2> QED
    BY <1>1, <2>1, <2>2 DEF IInv, TablesOK, Registered, Checked, Closed, RefusedRightly, Refused,
       Accepted
<1>3. CASE ~RolesFit
  <2>1. pc' = "rejected" /\ verdict' = "invalid_plan"
    BY <1>3 DEF Validate, RolesFit, Fail
  <2>2. \A d : ~Legal(d)
    BY <1>3, MisfitIsIllegal DEF IInv, RolesFit
  <2>3. RefusedRightly'
    BY <1>1, <2>2 DEF RefusedRightly, Legal, Vacated
  <2> QED
    BY <1>1, <2>1, <2>3 DEF IInv, TablesOK, Registered, Checked, Closed, Accepted, Errors
<1> QED
  BY <1>2, <1>3

\* A path whose snapshot is an error is not as a legal plan needs it.
LEMMA ErrorIsIllegal ==
  ASSUME TablesOK, Registered, next = Len(plan) + 1, NEW p \in Path, Touched(p),
         NEW d, Error(p, d[p]) # "none"
  PROVE  ~Legal(d)
<1>0. p # 0
  BY PlanAssumption DEF Path
<1>1. CASE inputs[p] # 0
  <2>1. inputs[p] \in DOMAIN plan /\ plan[inputs[p]].from = p
    BY <1>1 DEF TablesOK, Registered
  <2>2. d[p] # "planned"
    BY <1>1 DEF Error
  <2> QED
    BY <2>1, <2>2, <1>0 DEF Legal
<1>2. CASE inputs[p] = 0
  <2> DEFINE j == outputs[p]
  <2>1. j \in DOMAIN plan /\ plan[j].to = p
    BY <1>2 DEF TablesOK, Registered, Touched
  <2>2. d[p] # "absent"
    BY <1>2 DEF Error
  <2>3. \A k \in DOMAIN plan : plan[k].from # p
    BY <1>0, <1>2 DEF TablesOK, Registered
  <2>4. plan[j].kind \in {"create", "rename"}
    BY <2>1, <2>3, <1>0, Operation
  <2> QED
    BY <2>1, <2>2, <2>3, <2>4 DEF Legal, Vacated
<1> QED
  BY <1>1, <1>2

LEMMA SnapshotStep == ASSUME IInv, Snapshot PROVE IInv'
<1>1. /\ next = Len(plan) + 1 /\ RolesFit /\ verdict = "none"
      /\ disk' \in [Path -> Slot \ {"unread"}]
      /\ UNCHANGED <<plan, next, inputs, outputs>>
  BY DEF IInv, Checked, Closed, Snapshot
<1>2. Registered' /\ RolesFit'
  BY <1>1 DEF IInv, Registered, RolesFit, Allowed
<1>3. CASE (\A p \in Path : Touched(p) => Error(p, disk'[p]) = "none") /\ Goto("assemble")
  <2>1. \A p \in Path : Touched(p)' => Error(p, disk[p])' = "none"
    BY <1>1, <1>3 DEF Touched, Error
  <2>2. pc' = "assemble" /\ verdict' = "none"
    BY <1>1, <1>3 DEF Goto
  <2> QED
    BY <1>1, <1>2, <2>1, <2>2
       DEF IInv, TablesOK, Checked, Closed, RefusedRightly, Refused, Accepted, Slot
<1>4. CASE \E p \in Path :
             /\ Touched(p) /\ Error(p, disk'[p]) # "none"
             /\ \A q \in 1..p-1 : Touched(q) => Error(q, disk'[q]) = "none"
             /\ Fail(Error(p, disk'[p]))
  <2>1. PICK p \in Path : Touched(p) /\ Error(p, disk'[p]) # "none" /\ Fail(Error(p, disk'[p]))
    BY <1>4
  <2>2. pc' = "rejected" /\ verdict' = Error(p, disk'[p])
    BY <2>1 DEF Fail
  <2>3. Error(p, disk'[p]) \in Errors \ {"too_large"}
    BY <2>1 DEF Error, Errors
  <2>4. \A d \in Disks' : ~Legal(d)'
    <3>1. ASSUME NEW d \in Disks' PROVE ~Legal(d)
      <4>1. d[p] = disk'[p]
        BY <1>1, <3>1 DEF Disks
      <4> QED
        BY <4>1, <2>1, <1>1, ErrorIsIllegal DEF IInv
    <3> QED
      BY <3>1, <1>1 DEF Legal, Vacated
  <2> QED
    BY <1>1, <1>2, <2>2, <2>3, <2>4
       DEF IInv, TablesOK, Checked, Closed, RefusedRightly, Accepted, Slot, Errors
<1> QED
  BY <1>3, <1>4 DEF Snapshot

LEMMA AssembleStep == ASSUME IInv, Assemble PROVE IInv'
<1>1. /\ UNCHANGED <<plan, next, inputs, outputs, disk>> /\ pc = "assemble" /\ verdict = "none"
      /\ (pc' = "projected" /\ verdict' = "none") \/ (pc' = "rejected" /\ verdict' = "too_large")
  BY DEF IInv, Closed, Assemble, Goto, Fail
<1>2. RolesFit' <=> RolesFit
  BY <1>1 DEF RolesFit, Allowed
<1>3. \A p \in Path : (Touched(p)' <=> Touched(p)) /\ Error(p, disk[p])' = Error(p, disk[p])
  BY <1>1 DEF Touched, Error
<1> QED
  BY <1>1, <1>2, <1>3
     DEF IInv, TablesOK, Registered, Checked, Closed, RefusedRightly, Refused, Accepted, Errors

LEMMA StutterStep == ASSUME IInv, UNCHANGED vars PROVE IInv'
<1>1. UNCHANGED <<plan, next, inputs, outputs, disk, pc, verdict>>
  BY DEF vars
<1>2. Registered' /\ RolesFit' = RolesFit
  BY <1>1 DEF IInv, Registered, RolesFit, Allowed
<1>3. \A p \in Path : Touched(p)' = Touched(p) /\ Error(p, disk[p])' = Error(p, disk[p])
  BY <1>1 DEF Touched, Error
<1>4. RefusedRightly'
  BY <1>1 DEF IInv, RefusedRightly, Refused, Disks, Legal, Vacated
<1> QED
  BY <1>1, <1>2, <1>3, <1>4 DEF IInv, TablesOK, Checked, Closed, Accepted

LEMMA Inductive == Spec => []IInv
<1>1. IInv /\ [Next]_vars => IInv'
  BY RegisterStep, ValidateStep, SnapshotStep, AssembleStep, StutterStep DEF Next, Done
<1> QED
  BY Initially, <1>1, PTL DEF Spec

\* What Checked says of the tables makes the plan legal on the disk.
LEMMA AcceptedIsLegal == ASSUME IInv, Accepted PROVE Legal(disk)
<1>1. /\ next = Len(plan) + 1 /\ RolesFit /\ disk \in [Path -> Slot \ {"unread"}]
      /\ \A p \in Path : Touched(p) => Error(p, disk[p]) = "none"
  BY DEF IInv, Checked, Accepted
<1>2. \A i \in DOMAIN plan : plan[i].from # 0 => inputs[plan[i].from] = i /\ plan[i].from \in Path
  BY <1>1, Operation DEF IInv, Registered, TablesOK
<1>3. \A i \in DOMAIN plan : plan[i].to # 0 => outputs[plan[i].to] = i /\ plan[i].to \in Path
  BY <1>1, Operation DEF IInv, Registered, TablesOK
<1>4. \A i \in DOMAIN plan : i # 0
  BY DEF IInv, TablesOK
<1>5. ASSUME NEW i \in DOMAIN plan, plan[i].from # 0 PROVE disk[plan[i].from] = "planned"
  BY <1>1, <1>2, <1>4, <1>5 DEF Touched, Error, Slot
<1>6. ASSUME NEW i \in DOMAIN plan, plan[i].kind \in {"create", "rename"},
             disk[plan[i].to] # "absent"
      PROVE  plan[i].kind = "rename" /\ Vacated(plan[i].to)
  <2> DEFINE p == plan[i].to
  <2>1. p # 0
    BY <1>6, Operation DEF IInv
  <2>2. outputs[p] = i /\ p \in Path
    BY <1>3, <2>1
  <2>3. inputs[p] # 0
    BY <1>1, <1>4, <1>6, <2>2 DEF Touched, Error
  <2>4. inputs[p] \in DOMAIN plan /\ plan[inputs[p]].from = p
    BY <1>1, <2>2, <2>3 DEF IInv, TablesOK, Registered
  <2>5. Allowed(inputs[p], i)
    BY <1>1, <1>4, <2>2, <2>3 DEF RolesFit
  <2> QED
    BY <2>4, <2>5, <1>6 DEF Allowed, Vacated
<1>7. ASSUME NEW i \in DOMAIN plan, NEW j \in DOMAIN plan, i # j
      PROVE  /\ plan[i].from = plan[j].from => plan[i].from = 0
             /\ plan[i].to = plan[j].to => plan[i].to = 0
  BY <1>2, <1>3, <1>7
<1> QED
  BY <1>5, <1>6, <1>7 DEF Legal

(***************************************************************************)
(* Plans of any length over any number of paths: what the compiler accepts *)
(* can be carried out on the disk it found, and what it refuses cannot be  *)
(* carried out on any disk it may have found.                              *)
(***************************************************************************)
THEOREM CompilerAcceptsTheLegal == Spec => []AcceptsTheLegal
<1>1. IInv => AcceptsTheLegal
  BY AcceptedIsLegal DEF AcceptsTheLegal, IInv, RefusedRightly
<1> QED
  BY <1>1, Inductive, PTL

-----------------------------------------------------------------------------
(* Induction.  What is said of every number of steps is said of the least  *)
(* one for which it fails.                                                 *)

LEMMA LeastElement ==
  ASSUME NEW T, T \subseteq Nat, T # {}
  PROVE  \E n \in T : \A m \in T : n <= m
<1>1. PICK n \in T : \A m \in T : <<m, n>> \notin OpToRel(<, Nat)
  BY NatLessThanWellFounded, WFMin, Zenon
<1>2. ASSUME NEW m \in T, m < n PROVE FALSE
  <2>1. <<m, n>> \in {ss \in Nat \X Nat : ss[1] < ss[2]}
    BY <1>2
  <2> QED
    BY <1>1, <2>1 DEF OpToRel
<1> QED
  BY <1>2

\* What holds at first and from each number to the next holds up to L.
LEMMA UpTo ==
  ASSUME NEW L \in Nat, NEW T, 0 \in T, \A n \in 1..L : n - 1 \in T => n \in T
  PROVE  \A n \in 0..L : n \in T
<1> DEFINE rest == {n \in 0..L : n \notin T}
<1>1. SUFFICES ASSUME rest # {} PROVE FALSE
  OBVIOUS
<1>2. rest \subseteq Nat
  OBVIOUS
<1>3. PICK n \in rest : \A m \in rest : n <= m
  <2> HIDE DEF rest
  <2> QED
    BY <1>1, <1>2, LeastElement
<1>4. n \in 1..L /\ n - 1 \notin rest /\ n - 1 \in 0..L
  BY <1>3
<1> QED
  BY <1>3, <1>4

\* Tree f[k] is what step k makes of tree f[k-1].
Run(f, n, a, step) == f[0] = a /\ \A k \in 1..n : f[k] = step[k][f[k-1]]

\* Steps can be carried out one after another.
LEMMA Iterated ==
  ASSUME NEW L \in Nat, NEW S, NEW a \in S, NEW step \in [1..L -> [S -> S]]
  PROVE  \E f \in [0..L -> S] : Run(f, L, a, step)
<1> DEFINE R(f, n) == f \in [0..n -> S] /\ Run(f, n, a, step)
           T == {n \in 0..L : \E f : R(f, n)}
<1>1. 0 \in T
  <2> DEFINE f == [k \in 0..0 |-> a]
  <2>1. f \in [0..0 -> S] /\ f[0] = a
    OBVIOUS
  <2>2. R(f, 0)
    BY <2>1 DEF Run
  <2> HIDE DEF R, f
  <2> QED
    BY <2>2
<1>2. ASSUME NEW n \in 1..L, n - 1 \in T PROVE n \in T
  <2>1. PICK f : R(f, n - 1)
    BY <1>2
  <2>2. f \in [0..(n-1) -> S]
    BY <2>1
  <2> DEFINE x == step[n][f[n-1]]
             g == [k \in 0..n |-> IF k = n THEN x ELSE f[k]]
  <2>3. step[n] \in [S -> S] /\ f[n-1] \in S
    BY <2>2
  <2>4. x \in S
    BY <2>3
  <2>5. g \in [0..n -> S]
    <3> HIDE DEF x
    <3>1. ASSUME NEW k \in 0..n PROVE (IF k = n THEN x ELSE f[k]) \in S
      BY <2>2, <2>4
    <3> QED
      BY <3>1
  <2>6. g[n] = x /\ \A k \in 0..n-1 : g[k] = f[k]
    <3> HIDE DEF x
    <3> QED
      OBVIOUS
  <2>7. \A k \in 1..n : g[k] = step[k][g[k-1]]
    <3> HIDE DEF g
    <3>1. ASSUME NEW k \in 1..n PROVE g[k] = step[k][g[k-1]]
      <4>1. CASE k = n
        BY <4>1, <2>6
      <4>2. CASE k # n
        <5>1. k \in 1..n-1 /\ k \in 0..n-1 /\ k-1 \in 0..n-1
          BY <4>2
        <5> QED
          BY <5>1, <2>1, <2>6 DEF Run
      <4> QED
        BY <4>1, <4>2
    <3> QED
      BY <3>1
  <2>8. R(g, n)
    <3> HIDE DEF g
    <3> QED
      BY <2>1, <2>5, <2>6, <2>7 DEF Run
  <2> HIDE DEF R, g
  <2> QED
    BY <2>8
<1> HIDE DEF R
<1>3. L \in T
  <2> HIDE DEF T
  <2>1. \A n \in 0..L : n \in T
    BY <1>1, <1>2, UpTo
  <2> QED
    BY <2>1
<1>4. PICK f : R(f, L)
  BY <1>3
<1> QED
  BY <1>4 DEF R

-----------------------------------------------------------------------------
(* The two computations of CompiledAsByHand are what their equations say.  *)

Count == Len(plan)

Trees == [Path -> Content]

LEMMA Counted ==
  ASSUME TablesOK
  PROVE  /\ Count \in Nat /\ DOMAIN plan = 1..Count /\ P \in Nat
         /\ inputs \in [Path -> 0..Count] /\ outputs \in [Path -> 0..Count]
         /\ disk \in [Path -> Slot]
  BY PlanAssumption DEF TablesOK, Count

LEMMA TreeTypes ==
  ASSUME TablesOK
  PROVE  /\ Stuck \in Trees /\ OnDisk \in Trees
         /\ \A p \in Path : Stuck[p].by = Count + 1
         /\ \A i \in 1..Count : Result(i) \in Content
         /\ \A k \in 1..Count, t \in Trees : Take(k, t) \in Trees /\ Place(k, t) \in Trees
<1>1. Count \in Nat /\ P \in Nat /\ DOMAIN plan = 1..Count
  BY Counted
<1>2. Stuck \in Trees /\ \A p \in Path : Stuck[p].by = Count + 1
  BY <1>1 DEF Stuck, Trees, Content, Count
<1>3. Absent \in Content /\ \A p \in Path : Found(p) \in Content
  BY <1>1 DEF Absent, Found, Content, Path
<1>4. OnDisk \in Trees
  BY <1>3 DEF OnDisk, Trees
<1>5. ASSUME NEW i \in 1..Count PROVE Result(i) \in Content
  <2>1. i \in Nat /\ plan[i].from \in 0..P
    BY <1>1, Operation
  <2> QED
    BY <2>1, <1>1 DEF Result, Written, Found, Content
<1>6. ASSUME NEW k \in 1..Count, NEW t \in Trees
      PROVE  Take(k, t) \in Trees /\ Place(k, t) \in Trees
  BY <1>2, <1>3, <1>5 DEF Take, Place, Trees
<1> QED
  BY <1>2, <1>4, <1>5, <1>6

LEMMA TakenStepwise ==
  ASSUME TablesOK
  PROVE  /\ Taken[0] = OnDisk
         /\ \A k \in 1..Count : Taken[k] = Take(k, Taken[k-1])
         /\ \A k \in 0..Count : Taken[k] \in Trees
<1> DEFINE take == [k \in 1..Count |-> [t \in Trees |-> Take(k, t)]]
<1>1. Count \in Nat /\ OnDisk \in Trees
  BY Counted, TreeTypes
<1>2. take \in [1..Count -> [Trees -> Trees]]
  BY TreeTypes
<1>3. PICK f \in [0..Count -> Trees] : Run(f, Count, OnDisk, take)
  <2> HIDE DEF take
  <2> QED
    BY <1>1, <1>2, Iterated
<1>4. ASSUME NEW k \in 0..Count PROVE f[k] = IF k = 0 THEN OnDisk ELSE Take(k, f[k-1])
  <2>1. CASE k = 0
    BY <1>3, <2>1 DEF Run
  <2>2. CASE k # 0
    <3>1. k \in 1..Count /\ k - 1 \in 0..Count
      BY <1>1, <2>2
    <3>2. f[k-1] \in Trees /\ f[k] = take[k][f[k-1]]
      BY <1>3, <3>1 DEF Run
    <3>3. take[k][f[k-1]] = Take(k, f[k-1])
      BY <3>1, <3>2
    <3> QED
      BY <2>2, <3>2, <3>3
  <2> QED
    BY <2>1, <2>2
<1>5. f = [k \in 0..Count |-> IF k = 0 THEN OnDisk ELSE Take(k, f[k-1])]
  BY <1>3, <1>4, Zenon
<1>6. Taken = [k \in 0..Count |-> IF k = 0 THEN OnDisk ELSE Take(k, Taken[k-1])]
  BY <1>5, Zenon DEF Taken, Count
<1>7. Taken[0] = OnDisk /\ \A k \in 1..Count : Taken[k] = Take(k, Taken[k-1])
  <2> DEFINE F == Taken
  <2>1. F = [k \in 0..Count |-> IF k = 0 THEN OnDisk ELSE Take(k, F[k-1])]
    BY <1>6
  <2> HIDE DEF F
  <2>2. F[0] = OnDisk /\ \A k \in 1..Count : F[k] = Take(k, F[k-1])
    BY <1>1, <2>1
  <2> QED
    BY <2>2 DEF F
<1>8. \A k \in 0..Count : Taken[k] \in Trees
  <2> DEFINE T == {k \in 0..Count : Taken[k] \in Trees}
  <2>1. 0 \in T
    BY <1>1, <1>7, TreeTypes
  <2>2. \A k \in 1..Count : k - 1 \in T => k \in T
    BY <1>1, <1>7, TreeTypes
  <2> HIDE DEF T
  <2>3. \A k \in 0..Count : k \in T
    BY <1>1, <2>1, <2>2, UpTo
  <2> QED
    BY <2>3 DEF T
<1> QED
  BY <1>7, <1>8

LEMMA PlacedStepwise ==
  ASSUME TablesOK
  PROVE  /\ Placed[0] = Taken[Count]
         /\ \A k \in 1..Count : Placed[k] = Place(k, Placed[k-1])
<1> DEFINE put == [k \in 1..Count |-> [t \in Trees |-> Place(k, t)]]
<1>1. Count \in Nat /\ Count \in 0..Count /\ Taken[Count] \in Trees
  BY Counted, TakenStepwise
<1>2. put \in [1..Count -> [Trees -> Trees]]
  BY TreeTypes
<1>3. PICK f \in [0..Count -> Trees] : Run(f, Count, Taken[Count], put)
  <2> HIDE DEF put
  <2> QED
    BY <1>1, <1>2, Iterated
<1>4. ASSUME NEW k \in 0..Count PROVE f[k] = IF k = 0 THEN Taken[Count] ELSE Place(k, f[k-1])
  <2>1. CASE k = 0
    BY <1>3, <2>1 DEF Run
  <2>2. CASE k # 0
    <3>1. k \in 1..Count /\ k - 1 \in 0..Count
      BY <1>1, <2>2
    <3>2. f[k-1] \in Trees /\ f[k] = put[k][f[k-1]]
      BY <1>3, <3>1 DEF Run
    <3>3. put[k][f[k-1]] = Place(k, f[k-1])
      BY <3>1, <3>2
    <3> QED
      BY <2>2, <3>2, <3>3
  <2> QED
    BY <2>1, <2>2
<1>5. f = [k \in 0..Count |-> IF k = 0 THEN Taken[Count] ELSE Place(k, f[k-1])]
  BY <1>3, <1>4, Zenon
<1>6. Placed = [k \in 0..Count |-> IF k = 0 THEN Taken[Count] ELSE Place(k, Placed[k-1])]
  BY <1>5, Zenon DEF Placed, Count
<1> DEFINE F == Placed
<1>7. F = [k \in 0..Count |-> IF k = 0 THEN Taken[Count] ELSE Place(k, F[k-1])]
  BY <1>6
<1> HIDE DEF F
<1>8. F[0] = Taken[Count] /\ \A k \in 1..Count : F[k] = Place(k, F[k-1])
  BY <1>1, <1>7
<1> QED
  BY <1>8 DEF F

-----------------------------------------------------------------------------
(* What is at each path while the plan is carried out by hand.             *)

\* The tables of a plan that has been accepted.
Settled ==
  /\ TablesOK
  /\ \A i \in 1..Count : /\ plan[i].from # 0 => inputs[plan[i].from] = i
                         /\ plan[i].to # 0 => outputs[plan[i].to] = i
  /\ \A p \in Path : /\ inputs[p] # 0 => plan[inputs[p]].from = p
                     /\ outputs[p] # 0 => plan[outputs[p]].to = p
  /\ \A p \in Path : /\ disk[p] # "unread"
                     /\ Touched(p) => Error(p, disk[p]) = "none"

\* Operations 1..k have taken their files away,
Cleared(k) == [p \in Path |-> IF inputs[p] \in 1..k THEN Absent ELSE OnDisk[p]]

\* and now operations 1..k have put theirs in place.
Filled(k) ==
  [p \in Path |-> IF outputs[p] \in 1..k THEN Result(outputs[p]) ELSE Cleared(Count)[p]]

LEMMA AcceptedIsSettled == ASSUME IInv, Accepted PROVE Settled
<1>1. next - 1 = Count /\ TablesOK
  BY Counted DEF IInv, Checked, Accepted, Count, TablesOK
<1>2. Registered /\ Checked
  BY DEF IInv
<1> QED
  BY <1>1, <1>2 DEF Settled, Registered, Checked, Accepted

\* What the snapshots found where the plan takes or puts something.
LEMMA FoundThere ==
  ASSUME Settled, NEW p \in Path
  PROVE  /\ OnDisk[p].by = 0 /\ Absent.by = 0
         /\ inputs[p] # 0 => OnDisk[p] = Found(p) /\ OnDisk[p] # Absent
         /\ inputs[p] = 0 /\ outputs[p] # 0 => OnDisk[p] = Absent
<1>1. p # 0 /\ disk[p] \in {"absent", "planned", "other"}
  BY Counted DEF Settled, Path, Slot
<1>2. OnDisk[p] = IF disk[p] = "absent" THEN Absent ELSE Found(p)
  BY DEF OnDisk
<1>3. Found(p) # Absent /\ Found(p).by = 0 /\ Absent.by = 0
  BY <1>1 DEF Found, Absent
<1>4. /\ inputs[p] # 0 => disk[p] # "absent"
      /\ inputs[p] = 0 /\ outputs[p] # 0 => disk[p] = "absent"
  BY <1>1 DEF Settled, Touched, Error
<1> QED
  BY <1>2, <1>3, <1>4

LEMMA Clears == ASSUME Settled PROVE \A k \in 0..Count : Taken[k] = Cleared(k)
<1> DEFINE T == {k \in 0..Count : Taken[k] = Cleared(k)}
<1>1. /\ TablesOK /\ Count \in Nat /\ DOMAIN plan = 1..Count
      /\ inputs \in [Path -> 0..Count]
  BY Counted DEF Settled
<1>2. 0 \in T
  <2>1. Cleared(0) = [p \in Path |-> OnDisk[p]]
    BY <1>1 DEF Cleared
  <2>2. [p \in Path |-> OnDisk[p]] = OnDisk
    BY DEF OnDisk
  <2> QED
    BY <2>1, <2>2, <1>1, TakenStepwise
<1>3. ASSUME NEW k \in 1..Count, k - 1 \in T PROVE k \in T
  <2> DEFINE t == Cleared(k - 1)  q == plan[k].from
  <2>1. k \in 0..Count /\ k - 1 \in 0..Count /\ k \in DOMAIN plan
    BY <1>1
  <2>2. Taken[k] = Take(k, t)
    BY <1>1, <1>3, TakenStepwise
  <2>3. Take(k, t) = Cleared(k)
    <3>1. CASE q = 0
      <4>1. \A p \in Path : inputs[p] # k
        BY <1>1, <3>1, Counted DEF Settled, Path
      <4>2. \A p \in Path : inputs[p] \in 1..k <=> inputs[p] \in 1..k-1
        BY <1>1, <4>1
      <4> QED
        BY <3>1, <4>2 DEF Take, Cleared
    <3>2. CASE q # 0
      <4>1. q \in Path /\ inputs[q] = k
        BY <1>1, <2>1, <3>2, Operation DEF Settled
      <4>2. \A p \in Path : inputs[p] = k => p = q
        BY <1>1 DEF Settled
      <4>3. \A p \in Path : inputs[p] \in 1..k <=> inputs[p] \in 1..k-1 \/ p = q
        BY <1>1, <4>1, <4>2
      <4>4. t[q] = OnDisk[q] /\ inputs[q] # 0
        BY <1>1, <4>1 DEF Cleared
      <4>5. t[q] # Absent /\ t[q].by # Count + 1
        BY <1>1, <4>1, <4>4, FoundThere
      <4>6. t # Stuck
        BY <1>1, <4>1, <4>5, TreeTypes
      <4>7. Take(k, t) = [t EXCEPT ![q] = Absent]
        BY <3>2, <4>5, <4>6 DEF Take
      <4>8. [t EXCEPT ![q] = Absent] = Cleared(k)
        BY <4>1, <4>3 DEF Cleared
      <4> QED
        BY <4>7, <4>8
    <3> QED
      BY <3>1, <3>2
  <2> QED
    BY <2>1, <2>2, <2>3
<1> HIDE DEF T
<1>4. \A k \in 0..Count : k \in T
  BY <1>1, <1>2, <1>3, UpTo
<1> QED
  BY <1>4 DEF T

LEMMA Fills == ASSUME Settled PROVE \A k \in 0..Count : Placed[k] = Filled(k)
<1> DEFINE T == {k \in 0..Count : Placed[k] = Filled(k)}
<1>1. /\ TablesOK /\ Count \in Nat /\ Count \in 0..Count /\ DOMAIN plan = 1..Count
      /\ inputs \in [Path -> 0..Count] /\ outputs \in [Path -> 0..Count]
  BY Counted DEF Settled
<1>2. 0 \in T
  <2>1. Filled(0) = [p \in Path |-> Cleared(Count)[p]]
    BY <1>1 DEF Filled
  <2>2. [p \in Path |-> Cleared(Count)[p]] = Cleared(Count)
    BY DEF Cleared
  <2> QED
    BY <2>1, <2>2, <1>1, PlacedStepwise, Clears
<1>3. ASSUME NEW k \in 1..Count, k - 1 \in T PROVE k \in T
  <2> DEFINE t == Filled(k - 1)  q == plan[k].to
  <2>1. k \in 0..Count /\ k - 1 \in 0..Count /\ k \in DOMAIN plan
    BY <1>1
  <2>2. Placed[k] = Place(k, t)
    BY <1>1, <1>3, PlacedStepwise
  <2>3. Place(k, t) = Filled(k)
    <3>1. CASE q = 0
      <4>1. \A p \in Path : outputs[p] # k
        BY <1>1, <3>1, Counted DEF Settled, Path
      <4>2. \A p \in Path : outputs[p] \in 1..k <=> outputs[p] \in 1..k-1
        BY <1>1, <4>1
      <4> QED
        BY <3>1, <4>2 DEF Place, Filled
    <3>2. CASE q # 0
      <4>1. q \in Path /\ outputs[q] = k
        BY <1>1, <2>1, <3>2, Operation DEF Settled
      <4>2. \A p \in Path : outputs[p] = k => p = q
        BY <1>1 DEF Settled
      <4>3. \A p \in Path : outputs[p] \in 1..k <=> outputs[p] \in 1..k-1 \/ p = q
        BY <1>1, <4>1, <4>2
      <4>4. t[q] = Cleared(Count)[q]
        BY <1>1, <4>1 DEF Filled
      <4>5. t[q] = Absent
        <5>1. CASE inputs[q] = 0
          BY <1>1, <4>1, <4>4, <5>1, FoundThere DEF Cleared
        <5>2. CASE inputs[q] # 0
          BY <1>1, <4>1, <4>4, <5>2 DEF Cleared
        <5> QED
          BY <5>1, <5>2
      <4>6. t # Stuck
        BY <1>1, <4>1, <4>5, FoundThere, TreeTypes
      <4>7. Place(k, t) = [t EXCEPT ![q] = Result(k)]
        BY <3>2, <4>5, <4>6 DEF Place
      <4>8. [t EXCEPT ![q] = Result(k)] = Filled(k)
        BY <4>1, <4>3 DEF Filled
      <4> QED
        BY <4>7, <4>8
    <3> QED
      BY <3>1, <3>2
  <2> QED
    BY <2>1, <2>2, <2>3
<1> HIDE DEF T
<1>4. \A k \in 0..Count : k \in T
  BY <1>1, <1>2, <1>3, UpTo
<1> QED
  BY <1>4 DEF T

-----------------------------------------------------------------------------
(* What the compiler leaves is what was done by hand.                      *)

\* The contents and the report are as assemble wrote them.
Assembled ==
  pc = "projected" =>
    /\ after = [p \in Path |-> IF Touched(p) THEN After(p) ELSE Absent]
    /\ \A i \in DOMAIN plan :
         /\ plan[i].from # 0 => changes[i].before = Found(plan[i].from)
         /\ plan[i].to # 0 => changes[i].after = after[plan[i].to]

LEMMA AssembledInductive == Spec => []Assembled
<1>1. Init => Assembled
  BY DEF Init, Assembled
<1>2. ASSUME Assembled, Assemble PROVE Assembled'
  <2>1. /\ UNCHANGED <<plan, inputs, outputs>> /\ pc = "assemble"
        /\ \/ /\ after' = [p \in Path |-> IF Touched(p) THEN After(p) ELSE Absent]
              /\ changes' = [i \in DOMAIN plan |-> Change(i)]
           \/ pc' = "rejected"
    BY <1>2 DEF Assemble, Fail
  <2>2. \A p \in Path : Touched(p)' = Touched(p) /\ After(p)' = After(p)
    BY <2>1 DEF Touched, After
  <2> QED
    BY <2>1, <2>2 DEF Assembled, Change
<1>3. ASSUME Register \/ Validate \/ Snapshot PROVE pc' # "projected"
  BY <1>3 DEF Register, Validate, Snapshot, Fail, Goto, Error
<1>4. ASSUME Assembled, UNCHANGED vars PROVE Assembled'
  BY <1>4 DEF vars, Assembled, Touched, After
<1>5. Assembled /\ [Next]_vars => Assembled'
  BY <1>2, <1>3, <1>4 DEF Next, Done, Assembled
<1> QED
  BY <1>1, <1>5, PTL DEF Spec

LEMMA AssembledByHand == ASSUME IInv, Assembled PROVE CompiledAsByHand
<1> SUFFICES ASSUME pc = "projected"
             PROVE  /\ \A p \in Path : (IF Touched(p) THEN after[p] ELSE OnDisk[p])
                                         = Placed[Len(plan)][p]
                    /\ \A i \in DOMAIN plan :
                         /\ plan[i].from # 0 => changes[i].before = OnDisk[plan[i].from]
                         /\ plan[i].to # 0 => changes[i].after = Placed[Len(plan)][plan[i].to]
  BY DEF CompiledAsByHand
<1>1. Settled
  BY AcceptedIsSettled DEF Accepted
<1>2. /\ TablesOK /\ Count \in Nat /\ Count \in 0..Count /\ DOMAIN plan = 1..Count
      /\ inputs \in [Path -> 0..Count] /\ outputs \in [Path -> 0..Count]
  BY <1>1, Counted DEF Settled
<1>3. Placed[Len(plan)] = Filled(Count)
  BY <1>1, <1>2, Fills DEF Count
<1>4. ASSUME NEW p \in Path
      PROVE  (IF Touched(p) THEN after[p] ELSE OnDisk[p]) = Filled(Count)[p]
  <2>1. Touched(p) => after[p] = After(p)
    BY DEF Assembled
  <2>2. CASE outputs[p] # 0
    <3>1. outputs[p] \in 1..Count /\ Touched(p)
      BY <1>2, <2>2 DEF Touched
    <3>2. After(p) = Result(outputs[p])
      BY <2>2 DEF After, Result
    <3> QED
      BY <2>1, <3>1, <3>2 DEF Filled
  <2>3. CASE outputs[p] = 0
    <3>1. outputs[p] \notin 1..Count
      BY <1>2, <2>3
    <3>2. Filled(Count)[p] = IF inputs[p] \in 1..Count THEN Absent ELSE OnDisk[p]
      BY <3>1 DEF Filled, Cleared
    <3>3. Touched(p) <=> inputs[p] \in 1..Count
      BY <1>2, <2>3 DEF Touched
    <3> QED
      BY <2>1, <2>3, <3>2, <3>3 DEF After
  <2> QED
    BY <2>2, <2>3
<1>5. ASSUME NEW i \in DOMAIN plan, plan[i].from # 0
      PROVE  changes[i].before = OnDisk[plan[i].from]
  <2>1. plan[i].from \in Path /\ inputs[plan[i].from] # 0
    BY <1>1, <1>2, <1>5, Operation DEF Settled
  <2> QED
    BY <1>1, <1>5, <2>1, FoundThere DEF Assembled
<1>6. ASSUME NEW i \in DOMAIN plan, plan[i].to # 0
      PROVE  changes[i].after = Filled(Count)[plan[i].to]
  <2>1. plan[i].to \in Path /\ Touched(plan[i].to)
    BY <1>1, <1>2, <1>6, Operation DEF Settled, Touched
  <2> QED
    BY <1>4, <1>6, <2>1 DEF Assembled
<1> QED
  BY <1>3, <1>4, <1>5, <1>6

(***************************************************************************)
(* Plans of any length over any number of paths, their chains, swaps and   *)
(* cycles however they meet: what the compiler leaves at every path is     *)
(* what carrying out the operations one by one would leave there, and the  *)
(* report says what each of them took and made.                            *)
(***************************************************************************)
THEOREM CompiledIsByHand == Spec => []CompiledAsByHand
  BY Inductive, AssembledInductive, AssembledByHand, PTL

-----------------------------------------------------------------------------
(* Types.                                                                  *)

ContentsOK ==
  /\ plan \in Plans
  /\ after \in [Path -> Content]
  /\ changes \in Seq([before : Content, after : Content])

LEMMA TableIsSequence == ASSUME NEW n \in Nat, NEW S, NEW f \in [1..n -> S] PROVE f \in Seq(S)
  OBVIOUS

LEMMA ContentsKept == ASSUME IInv, ContentsOK, Assemble PROVE ContentsOK'
<1>1. /\ TablesOK /\ DOMAIN plan = 1..Count /\ Count \in Nat /\ P \in Nat
      /\ outputs \in [Path -> 0..Count] /\ plan' = plan
  BY Counted DEF IInv, Assemble
<1>2. Absent \in Content /\ \A p \in Path : Found(p) \in Content
  BY <1>1 DEF Absent, Found, Content, Path
<1>3. CASE UNCHANGED <<after, changes>>
  BY <1>1, <1>3 DEF ContentsOK
<1>4. CASE /\ after' = [p \in Path |-> IF Touched(p) THEN After(p) ELSE Absent]
           /\ changes' = [i \in DOMAIN plan |-> Change(i)]
  <2>1. ASSUME NEW p \in Path PROVE After(p) \in Content
    <3>1. CASE outputs[p] = 0
      BY <1>2, <3>1 DEF After
    <3>2. CASE outputs[p] # 0
      <4>1. After(p) = Result(outputs[p]) /\ outputs[p] \in 1..Count
        BY <1>1, <3>2 DEF After, Result
      <4> QED
        BY <1>1, <4>1, TreeTypes
    <3> QED
      BY <3>1, <3>2
  <2>2. after' \in [Path -> Content]
    BY <1>2, <1>4, <2>1
  <2>3. ASSUME NEW i \in 1..Count PROVE Change(i) \in [before : Content, after : Content]
    <3>1. /\ plan[i].from # 0 => plan[i].from \in Path
          /\ plan[i].to # 0 => plan[i].to \in Path
      BY <1>1, Operation
    <3> QED
      BY <1>2, <2>2, <3>1 DEF Change
  <2>4. changes' \in [1..Count -> [before : Content, after : Content]]
    BY <1>1, <1>4, <2>3
  <2>5. changes' \in Seq([before : Content, after : Content])
    BY <1>1, <2>4, TableIsSequence
  <2> QED
    BY <1>1, <2>2, <2>5 DEF ContentsOK
<1> QED
  BY <1>3, <1>4 DEF Assemble

\* The compiler's state has its type, for plans of any length.
THEOREM CompilerTypeOK == Spec => []TypeOK
<1>1. Init => ContentsOK
  BY PlanAssumption DEF Init, ContentsOK, Absent, Content
<1>2. ASSUME IInv, ContentsOK, [Next]_vars PROVE ContentsOK'
  <2>1. Assemble \/ UNCHANGED <<plan, after, changes>>
    BY <1>2 DEF Next, Done, vars, Register, Validate, Snapshot
  <2> QED
    BY <1>2, <2>1, ContentsKept DEF ContentsOK
<1>3. IInv /\ ContentsOK => TypeOK
  BY DEF IInv, TablesOK, ContentsOK, TypeOK
<1> QED
  BY <1>1, <1>2, <1>3, Inductive, PTL DEF Spec
=============================================================================
