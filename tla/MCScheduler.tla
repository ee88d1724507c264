----------------------------- MODULE MCScheduler -----------------------------
(* The scheduler with a few thread slots and up to two isolated processes. *)
EXTENDS Scheduler
=============================================================================
