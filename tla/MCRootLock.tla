------------------------------ MODULE MCRootLock ------------------------------
(***************************************************************************)
(* RootLock for TLC.  The processes are interchangeable.                   *)
(***************************************************************************)
EXTENDS RootLock, TLC

Symmetry == Permutations(Caller)
=============================================================================
