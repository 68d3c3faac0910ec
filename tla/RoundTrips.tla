----------------------------- MODULE RoundTrips -----------------------------
(***************************************************************************)
(* evaluate._match_round_trips: sells matched first in, first out against  *)
(* the earlier buys of one symbol.  A fill is [row, action, qty], a lot    *)
(* what is left of a buy, a trip the part of a sell that one lot covers.   *)
(* Prices and times ride along with the rows and are left out.             *)
(***************************************************************************)
EXTENDS Integers, SequencesExt

\* Mutant: a lot is gone once a sell has touched it.
TakeLotWhole(book, lot) ==
    LET matched == IF book.remaining < lot.qty THEN book.remaining ELSE lot.qty
        trip    == [buy |-> lot.row, sell |-> book.sell, qty |-> matched]
    IN [book EXCEPT
            !.remaining = @ - matched,
            !.trips = IF matched > 0 THEN Append(@, trip) ELSE @,
            !.lots = IF matched = 0 THEN Append(@, lot) ELSE @]

\* One pass of the while loop: the oldest lot left gives what it can.
TakeLot(book, lot) ==
    LET matched == IF book.remaining < lot.qty THEN book.remaining ELSE lot.qty
        trip    == [buy |-> lot.row, sell |-> book.sell, qty |-> matched]
        rest    == [lot EXCEPT !.qty = @ - matched]
    IN [book EXCEPT
            !.remaining = @ - matched,
            !.trips = IF matched > 0 THEN Append(@, trip) ELSE @,
            !.lots = IF rest.qty > 0 THEN Append(@, rest) ELSE @]

\* A sell eats the queue of lots from its front; what no lot covers is skipped.
MatchSell(book, fill) ==
    FoldLeft(TakeLot,
             [book EXCEPT !.lots = <<>>, !.sell = fill.row, !.remaining = fill.qty],
             book.lots)

\* One fill of the for loop.
MatchFill(book, fill) ==
    IF fill.qty <= 0 THEN book
    ELSE IF fill.action = "buy"
         THEN [book EXCEPT !.lots = Append(@, [row |-> fill.row, qty |-> fill.qty])]
         ELSE MatchSell(book, fill)

\* The lots left open and the round trips, of a sequence of fills.
MatchRoundTrips(fills) ==
    FoldLeft(MatchFill,
             [lots |-> <<>>, trips |-> <<>>, sell |-> 0, remaining |-> 0], fills)

QtyOf(s) == [k \in DOMAIN s |-> s[k].qty]

OpenAtEnd(fills) == SumFunction(QtyOf(MatchRoundTrips(fills).lots))

Sells(fills) ==
    [k \in DOMAIN fills |-> IF fills[k].action = "sell" THEN fills[k].qty ELSE 0]

\* Shares of sells that met no lot: they are in no trip.
Skipped(fills) ==
    SumFunction(Sells(fills)) - SumFunction(QtyOf(MatchRoundTrips(fills).trips))

\* What was sold of the buy of a row, and what is left of it.
Sold(book, row) ==
    MapThenSumSet(LAMBDA k : book.trips[k].qty,
                  {k \in DOMAIN book.trips : book.trips[k].buy = row})
Left(book, row) ==
    MapThenSumSet(LAMBDA k : book.lots[k].qty,
                  {k \in DOMAIN book.lots : book.lots[k].row = row})
=============================================================================
