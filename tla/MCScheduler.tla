----------------------------- MODULE MCScheduler -----------------------------
(* A small instance of Scheduler for TLC. *)
EXTENDS Scheduler
CONSTANTS r1, w1, w2
TwoWorkers == {w1, w2}
=============================================================================
