---------------------------- MODULE MCScheduler ----------------------------
(* The kernel thread, the idle thread and the threads they start.          *)
EXTENDS Scheduler

CONSTANTS a, b

TwoUsers == {a, b}
=============================================================================
