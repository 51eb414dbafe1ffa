----------------------------- MODULE MCScheduler -----------------------------
(***************************************************************************)
(* Scheduler for TLC: four jobs, a request of three workers.               *)
(***************************************************************************)
EXTENDS Scheduler
=============================================================================
