---------------------------- MODULE MCCycleLoop ----------------------------
(* A loop and a one-shot, for TLC. *)
EXTENDS CycleLoop

CONSTANTS loop, oneshot
=============================================================================
