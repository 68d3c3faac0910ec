--------------------------- MODULE MCLoopProcess ---------------------------
(* A small instance of LoopProcess for TLC. *)
EXTENDS LoopProcess

CONSTANTS t1, t2, p1, p2, p3
=============================================================================
