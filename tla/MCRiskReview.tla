---------------------------- MODULE MCRiskReview ----------------------------
(* Small instances of RiskReview for TLC. *)
EXTENDS RiskReview, TLC

CONSTANTS a, b

\* Orders in a: every way a number can be missing, zero or wrong way round.
OrdersInA ==
    [action : {"buy", "sell", "other"}, symbol : {a}, qty : {NaN, 0, 1, 2, 3},
     price : {NaN, 1, 2}, stop : {None, NaN, 1, 2, 3}, target : {None, 1, 3}]

Book(qa, qb) == (a :> qa) @@ (b :> qb)

\* A book of a and b, marked at 1 or 2 a share, before or after losses and
\* trades; open, not halted, one order short of no rate limit.
StatesOfAB ==
    {[open |-> TRUE, kill |-> FALSE, halted |-> FALSE, pl |-> pl,
      qty |-> Book(qa, qb), value |-> Book(m * qa, m * qb),
      lastHour |-> 0, today |-> 0, thisCycle |-> 0, traded |-> traded] :
         qa \in -3 .. 4, qb \in {0, 2}, m \in 1 .. 2, pl \in {0, -2, Unknown},
         traded \in {{}, {a}}}
=============================================================================
