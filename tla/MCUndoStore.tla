----------------------------- MODULE MCUndoStore -----------------------------
(***************************************************************************)
(* UndoStore for TLC.                                                      *)
(***************************************************************************)
EXTENDS UndoStore
=============================================================================
