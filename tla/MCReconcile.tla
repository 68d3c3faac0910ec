---------------------------- MODULE MCReconcile -----------------------------
(* Plain orders and brackets, for TLC. *)
EXTENDS Reconcile

CONSTANTS loop, dashboard

MCLegSets == {{}, LegNames}
=============================================================================
