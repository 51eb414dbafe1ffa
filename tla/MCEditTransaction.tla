-------------------------- MODULE MCEditTransaction --------------------------
(***************************************************************************)
(* EditTransaction for TLC.                                                *)
(***************************************************************************)
EXTENDS EditTransaction
=============================================================================
