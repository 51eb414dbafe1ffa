------------------------------ MODULE AtomicApply ------------------------------
(***************************************************************************)
(* What a transaction promises, whichever engine runs it: it is applied or *)
(* it is not, as a whole.  The decision is one step.  Until the            *)
(* transaction is closed nobody may rely on what the paths hold; once it   *)
(* is closed, every path is found as the decision says, and the caller, if *)
(* it is told anything, is told that decision.                             *)
(*                                                                         *)
(* The promise lasts until somebody else changes one of the paths.         *)
(***************************************************************************)
CONSTANT Path

VARIABLES
  tree,       \* the decision: "before" (restored, or never changed) or "after"
  open,       \* the transaction is under way, or a journal of it is pending
  found,      \* what is found at each path, "unknown" as long as it is open
  answer,     \* what the caller was told: "unsure", "committed" or "unchanged"
  disturbed   \* somebody else changed a path

vars == <<tree, open, found, answer, disturbed>>

Verdict == IF tree = "after" THEN "committed" ELSE "unchanged"

Init ==
  /\ tree = "before" /\ open = TRUE
  /\ found = [p \in Path |-> "unknown"]
  /\ answer = "unsure"
  /\ disturbed = FALSE

\* The point of no return.
Decide ==
  /\ open /\ tree = "before"
  /\ tree' = "after"
  /\ UNCHANGED <<open, found, answer, disturbed>>

Close ==
  /\ open
  /\ open' = FALSE
  /\ found' = [p \in Path |-> tree]
  /\ answer' \in {"unsure", Verdict}
  /\ UNCHANGED <<tree, disturbed>>

\* From here on nothing is promised.
Disturb == disturbed' = TRUE

Next == Decide \/ Close \/ Disturb

Spec == Init /\ [][Next]_vars
=============================================================================
