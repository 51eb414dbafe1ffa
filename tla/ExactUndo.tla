------------------------------- MODULE ExactUndo -------------------------------
(***************************************************************************)
(* What the undo of one retained commit promises.  Its receipt is redeemed *)
(* at most once, and only while all of it is there; the paths are restored *)
(* as a whole or not at all, by one decision that is never taken back; an  *)
(* undo given up before that decision leaves the receipt as it was; and a  *)
(* caller that is told "restored" finds every path so and nothing left in  *)
(* the store.  Who discards the receipt gives up the undo, and who is      *)
(* interrupted at it may leave a receipt that can no longer be redeemed.   *)
(*                                                                         *)
(* The promise lasts until somebody else changes one of the paths.         *)
(***************************************************************************)
CONSTANT Path

VARIABLES
  tree,       \* the decision: "committed", or "restored"
  open,       \* an undo is under way, or a journal of it is pending
  held,       \* the receipt: "whole", "broken" (backups are missing) or "spent"
  found,      \* what is found at each path, "unknown" as long as it is open
  answer,     \* what the caller was told: "unsure", "restored" or "discarded"
  disturbed   \* somebody else changed a path

vars == <<tree, open, held, found, answer, disturbed>>

Init ==
  /\ tree = "committed" /\ open = FALSE /\ held = "whole"
  /\ found = [p \in Path |-> "committed"]
  /\ answer = "unsure"
  /\ disturbed = FALSE

Begin ==
  /\ ~open /\ held = "whole"
  /\ open' = TRUE
  /\ found' = [p \in Path |-> "unknown"]
  /\ UNCHANGED <<tree, held, answer, disturbed>>

Abandon ==
  /\ open /\ tree = "committed" /\ held = "whole"
  /\ open' = FALSE
  /\ found' = [p \in Path |-> "committed"]
  /\ UNCHANGED <<tree, held, answer, disturbed>>

\* The point of no return.
Decide ==
  /\ open /\ tree = "committed" /\ held = "whole"
  /\ tree' = "restored"
  /\ UNCHANGED <<open, held, found, answer, disturbed>>

Consume ==
  /\ open /\ tree = "restored" /\ held = "whole"
  /\ held' = "spent"
  /\ UNCHANGED <<tree, open, found, answer, disturbed>>

Close ==
  /\ open /\ tree = "restored" /\ held = "spent"
  /\ open' = FALSE
  /\ found' = [p \in Path |-> "restored"]
  /\ answer' = "restored"
  /\ UNCHANGED <<tree, held, disturbed>>

Break ==
  /\ ~open /\ held = "whole"
  /\ held' = "broken"
  /\ UNCHANGED <<tree, open, found, answer, disturbed>>

Discard ==
  /\ ~open /\ held \in {"whole", "broken"}
  /\ held' = "spent" /\ answer' = "discarded"
  /\ UNCHANGED <<tree, open, found, disturbed>>

\* From here on nothing is promised.
Disturb == disturbed' = TRUE

Next == Begin \/ Abandon \/ Decide \/ Consume \/ Close \/ Break \/ Discard \/ Disturb

Spec == Init /\ [][Next]_vars
=============================================================================
