--------------------------- MODULE MCJournalReplay ---------------------------
(***************************************************************************)
(* JournalReplay for TLC: every sequence of records up to MaxLength is     *)
(* read until it is rejected.  With two paths and one operation the        *)
(* longest accepted journal has 16 records, so 17 covers every one of them *)
(* and every way to continue it.                                           *)
(***************************************************************************)
EXTENDS JournalReplay
=============================================================================
