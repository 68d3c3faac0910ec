---------------------------- MODULE MCOrderGate ----------------------------
(* Small instances of OrderGate for TLC. *)
EXTENDS OrderGate, TLC

\* The names differ in nothing.
Names == Permutations(Symbols)

Order(action, symbol, qty, stop, target) ==
    [action |-> action, symbol |-> symbol, qty |-> qty, price |-> 1,
     stop |-> stop, target |-> target]

\* For the rate limits: one share in, one share out, in every name.
OneShareProposals ==
    {Order(a, y, 1, None, None) : a \in {"buy", "sell"}, y \in Symbols}

\* For the book: sizes that fill the cap, halve a position or reverse it; an
\* entry may come with a target, and the sale of a share with a stop.
BookProposals ==
    {Order(a, y, q, None, None) : a \in {"buy", "sell"}, y \in Symbols, q \in 1 .. 2}
      \cup {Order("buy", y, 2, None, 2) : y \in Symbols}
      \cup {Order("sell", y, 1, 2, None) : y \in Symbols}

Loss == -(MaxDailyLoss + 1)
AllReports == {0, Loss, Unknown}
FlatReports == {0}
=============================================================================
