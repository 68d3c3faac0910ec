---------------------------- MODULE MCSessionDay ----------------------------
(* Small days of SessionDay for TLC. *)
EXTENDS SessionDay

BarOf(l, c, h) == [h |-> h, l |-> l, c |-> c]

\* Quiet, broken out to either side, and a wick to either side and back.
MCShapes == {BarOf(200, 200, 201), BarOf(201, 202, 204), BarOf(197, 199, 200),
             BarOf(200, 201, 203), BarOf(198, 200, 201)}
=============================================================================
