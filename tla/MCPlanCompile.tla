---------------------------- MODULE MCPlanCompile ----------------------------
(***************************************************************************)
(* PlanCompile for TLC: every plan of up to MaxOps operations.             *)
(***************************************************************************)
EXTENDS PlanCompile

CONSTANT MaxOps

ShortPlans == UNION {[1..n -> Op] : n \in 1..MaxOps}
=============================================================================
