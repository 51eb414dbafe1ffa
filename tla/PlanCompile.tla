------------------------------ MODULE PlanCompile ------------------------------
(***************************************************************************)
(* From the operations of a plan to one transition per path (plan/compile) *)
(* and on to the content each path is to have (operation/projection): the  *)
(* read-only half of preparation, which settles what the transaction of    *)
(* OperationTransaction then does to each slot.                            *)
(*                                                                         *)
(* An operation consumes its path "from" and produces its path "to".       *)
(* Content is what it was made of: the file found at path "base", last     *)
(* written by operation "by"; edits, bytes, hashes and permissions follow  *)
(* that.  Paths are their portable keys: the contract of the plan          *)
(* (weavatrix-refactor-plan) admits no two spellings of one.               *)
(***************************************************************************)
EXTENDS Naturals, Sequences

CONSTANTS
  P,        \* paths 1..P; 0 is no path
  Plans     \* plans to compile

Path == 1..P

Op ==
  {op \in [kind : {"modify", "create", "delete", "rename"}, from : 0..P, to : 0..P] :
     /\ op.from = 0 <=> op.kind = "create"
     /\ op.to = 0 <=> op.kind = "delete"
     /\ op.kind = "modify" => op.from = op.to}

ASSUME PlanAssumption == P \in Nat /\ Plans \subseteq Seq(Op)

VARIABLES
  plan,
  next,     \* the operation to be registered next
  inputs,   \* for each path, the operation that consumes it, or 0
  outputs,  \* for each path, the operation that produces it, or 0
  disk,     \* what the snapshot of each path finds
  after,    \* for each path, the content it is to have
  changes,  \* for each operation, the content it takes and the content it makes
  pc, verdict

vars == <<plan, next, inputs, outputs, disk, after, changes, pc, verdict>>

\* A path is absent, has the content the plan names, or another.
Slot == {"unread", "absent", "planned", "other"}

Absent     == [base |-> 0, by |-> 0]
Written(i) == [base |-> 0, by |-> i]
Found(p)   == [base |-> p, by |-> 0]
Content    == [base : 0..P, by : Nat]

Touched(p) == inputs[p] # 0 \/ outputs[p] # 0

Goto(l) == pc' = l /\ UNCHANGED verdict
Fail(v) == pc' = "rejected" /\ verdict' = v

-----------------------------------------------------------------------------
(* Compiler::register: insert_input, then insert_output.                   *)

Clash(op) ==
  \/ op.from # 0 /\ inputs[op.from] # 0
  \/ op.to # 0 /\ outputs[op.to] # 0

Put(map, p, i) == IF p = 0 THEN map ELSE [map EXCEPT ![p] = i]

Register ==
  /\ pc = "register" /\ next \in DOMAIN plan
  /\ IF Clash(plan[next])
     THEN Fail("invalid_plan") /\ UNCHANGED <<next, inputs, outputs>>
     ELSE /\ inputs' = Put(inputs, plan[next].from, next)
          /\ outputs' = Put(outputs, plan[next].to, next)
          /\ next' = next + 1
          /\ UNCHANGED <<pc, verdict>>
  /\ UNCHANGED <<plan, disk, after, changes>>

-----------------------------------------------------------------------------
(* Compiler::finish.                                                       *)

\* Mutant of Allowed: a path that is taken away may be made anew.
AllowedAnyway(i, j) ==
  \/ plan[i].kind = "modify" /\ plan[j].kind = "modify" /\ i = j
  \/ plan[i].kind \in {"rename", "delete"} /\ plan[j].kind = "rename"

\* validate_cross_roles: operation i consumes what operation j produces.
Allowed(i, j) ==
  \/ plan[i].kind = "modify" /\ plan[j].kind = "modify" /\ i = j
  \/ plan[i].kind = "rename" /\ plan[j].kind = "rename"

Validate ==
  /\ pc = "register" /\ next \notin DOMAIN plan
  /\ IF \A p \in Path : inputs[p] # 0 /\ outputs[p] # 0 => Allowed(inputs[p], outputs[p])
     THEN Goto("snapshot")
     ELSE Fail("invalid_plan")
  /\ UNCHANGED <<plan, next, inputs, outputs, disk, after, changes>>

-----------------------------------------------------------------------------
(* snapshot of each touched path, on the worker pool of Scheduler, and     *)
(* collect: the error of the lowest failing path.                          *)

Error(p, file) ==
  CASE inputs[p] = 0 /\ file # "absent" -> "path_exists"
    [] inputs[p] # 0 /\ file = "absent" -> "path_missing"
    [] inputs[p] # 0 /\ file = "other"  -> "hash_mismatch"
    [] OTHER                            -> "none"

Errors == {"invalid_plan", "path_exists", "path_missing", "hash_mismatch", "too_large"}

Snapshot ==
  /\ pc = "snapshot"
  /\ disk' \in [Path -> Slot \ {"unread"}]
  /\ \/ /\ \A p \in Path : Touched(p) => Error(p, disk'[p]) = "none"
        /\ Goto("assemble")
     \/ \E p \in Path :
          /\ Touched(p) /\ Error(p, disk'[p]) # "none"
          /\ \A q \in 1..p-1 : Touched(q) => Error(q, disk'[q]) = "none"
          /\ Fail(Error(p, disk'[p]))
  /\ UNCHANGED <<plan, next, inputs, outputs, after, changes>>

-----------------------------------------------------------------------------
(* assemble: project_after of every path.                                  *)

\* Mutant of After: a rename takes the content its own path had.
AfterOwn(p) ==
  LET i == outputs[p] IN
  IF i = 0 THEN Absent
  ELSE IF plan[i].kind = "create" THEN Written(i)
  ELSE [Found(IF inputs[p] # 0 THEN p ELSE plan[i].from) EXCEPT !.by = i]

\* A rename takes the content its source had, whatever becomes of that path.
After(p) ==
  LET i == outputs[p] IN
  IF i = 0 THEN Absent
  ELSE IF plan[i].kind = "create" THEN Written(i)
  ELSE [Found(plan[i].from) EXCEPT !.by = i]

\* changes: what the report says of operation i.
Change(i) ==
  [before |-> IF plan[i].from = 0 THEN Absent ELSE Found(plan[i].from),
   after  |-> IF plan[i].to = 0 THEN Absent ELSE after'[plan[i].to]]

\* Unless an output is too large, or its edits do not fit.
Assemble ==
  /\ pc = "assemble"
  /\ \/ /\ after' = [p \in Path |-> IF Touched(p) THEN After(p) ELSE Absent]
        /\ changes' = [i \in DOMAIN plan |-> Change(i)]
        /\ Goto("projected")
     \/ UNCHANGED <<after, changes>> /\ Fail("too_large")
  /\ UNCHANGED <<plan, next, inputs, outputs, disk>>

-----------------------------------------------------------------------------

Init ==
  /\ plan \in Plans /\ next = 1
  /\ inputs = [p \in Path |-> 0] /\ outputs = [p \in Path |-> 0]
  /\ disk = [p \in Path |-> "unread"] /\ after = [p \in Path |-> Absent]
  /\ changes = <<>>
  /\ pc = "register" /\ verdict = "none"

Done == pc \in {"projected", "rejected"} /\ UNCHANGED vars

Next == Register \/ Validate \/ Snapshot \/ Assemble \/ Done

Spec == Init /\ [][Next]_vars

-----------------------------------------------------------------------------
(* Properties.                                                             *)

TypeOK ==
  /\ plan \in Plans /\ next \in 1..Len(plan)+1
  /\ inputs \in [Path -> 0..Len(plan)] /\ outputs \in [Path -> 0..Len(plan)]
  /\ disk \in [Path -> Slot] /\ after \in [Path -> Content]
  /\ changes \in Seq([before : Content, after : Content])
  /\ pc \in {"register", "snapshot", "assemble", "projected", "rejected"}
  /\ verdict \in Errors \cup {"none"}

(***************************************************************************)
(* What the README asks of a plan: sources exist with the content the plan *)
(* names, each path is consumed and produced by one operation at most, and *)
(* "create and rename destinations must be absent unless the destination   *)
(* is consumed by another rename in the same chain or cycle".  A rename    *)
(* onto itself would count as vacating its destination, here as in the     *)
(* tables of the compiler; the contract crate decides on such an operation *)
(* before the compiler sees the plan.                                      *)
(***************************************************************************)
Vacated(p) == \E j \in DOMAIN plan : plan[j].kind = "rename" /\ plan[j].from = p

Legal(d) ==
  /\ \A i \in DOMAIN plan :
       /\ plan[i].from # 0 => d[plan[i].from] = "planned"
       /\ plan[i].kind \in {"create", "rename"} =>
            d[plan[i].to] = "absent" \/ (plan[i].kind = "rename" /\ Vacated(plan[i].to))
  /\ \A i, j \in DOMAIN plan : i # j =>
       /\ plan[i].from = plan[j].from => plan[i].from = 0
       /\ plan[i].to = plan[j].to => plan[i].to = 0

\* The disks the run may be about.
Disks == {d \in [Path -> Slot \ {"unread"}] : \A p \in Path : disk[p] \in {"unread", d[p]}}

Accepted == pc \in {"assemble", "projected"} \/ verdict = "too_large"
Refused  == verdict \notin {"none", "too_large"}

(***************************************************************************)
(* The compiler, which looks at one operation and then at one path at a    *)
(* time, accepts the legal plans and no other, whatever the order of the   *)
(* operations and however their roles meet.                                *)
(***************************************************************************)
AcceptsTheLegal ==
  /\ Accepted => Legal(disk)
  /\ Refused => \A d \in Disks : ~Legal(d)

(***************************************************************************)
(* The plan carried out by hand: every operation in turn takes its file    *)
(* away, then every operation in turn puts its own in place, and none may  *)
(* find nothing to take or something in its way.                           *)
(***************************************************************************)
Stuck == [p \in Path |-> [base |-> 0, by |-> Len(plan) + 1]]

OnDisk == [p \in Path |-> IF disk[p] = "absent" THEN Absent ELSE Found(p)]

Result(i) == IF plan[i].kind = "create" THEN Written(i) ELSE [Found(plan[i].from) EXCEPT !.by = i]

\* Operation k takes its file away from tree t,
Take(k, t) ==
  IF t = Stuck \/ plan[k].from = 0 THEN t
  ELSE IF t[plan[k].from] = Absent THEN Stuck
  ELSE [t EXCEPT ![plan[k].from] = Absent]

\* and puts its own in place.
Place(k, t) ==
  IF t = Stuck \/ plan[k].to = 0 THEN t
  ELSE IF t[plan[k].to] # Absent THEN Stuck
  ELSE [t EXCEPT ![plan[k].to] = Result(k)]

Taken[k \in 0..Len(plan)] ==
  IF k = 0 THEN OnDisk ELSE Take(k, Taken[k-1])

Placed[k \in 0..Len(plan)] ==
  IF k = 0 THEN Taken[Len(plan)] ELSE Place(k, Placed[k-1])

(***************************************************************************)
(* Chains, swaps and cycles: what the transitions leave at every path is   *)
(* what carrying out the operations by hand would leave there, and the     *)
(* report says of every operation what it took and what is there then.     *)
(***************************************************************************)
CompiledAsByHand ==
  pc = "projected" =>
    /\ \A p \in Path : (IF Touched(p) THEN after[p] ELSE OnDisk[p]) = Placed[Len(plan)][p]
    /\ \A i \in DOMAIN plan :
         /\ plan[i].from # 0 => changes[i].before = OnDisk[plan[i].from]
         /\ plan[i].to # 0 => changes[i].after = Placed[Len(plan)][plan[i].to]
=============================================================================
