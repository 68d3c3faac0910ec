---------------------------- MODULE OpeningRange ----------------------------
(***************************************************************************)
(* scanner.py: what a day's five-minute bars say of a symbol.  Bars are a  *)
(* function from the slots that have one (a symbol that does not trade for *)
(* five minutes has none) to their high, low and close; slot 0 begins at   *)
(* the open, and slot t is over at t + 1.                                  *)
(***************************************************************************)
EXTENDS Integers, FiniteSets, FiniteSetsExt, Functions

CONSTANTS
    RangeBars,   \* bars of the opening range
    PeriodBars   \* bars of a period of the regime filter

Bar == [h : Int, l : Int, c : Int]

None == "none"

Highest(bars, slots) == Max({bars[t].h : t \in slots})
Lowest(bars, slots) == Min({bars[t].l : t \in slots})

\* The bars of these slots have all traded.
Traded(bars, slots) == slots \subseteq DOMAIN bars

RangeSlots == 0 .. RangeBars - 1

\* _opening_range: whether there is one, its high and its low.
HasRange(bars) == Traded(bars, RangeSlots)
RangeHigh(bars) == Highest(bars, RangeSlots)
RangeLow(bars) == Lowest(bars, RangeSlots)

\* Mutant: the bar that is still forming counts.
ClosedAndForming(bars, now) == Restrict(bars, {t \in DOMAIN bars : t <= now})

\* _closed_bars
ClosedBars(bars, now) == Restrict(bars, {t \in DOMAIN bars : t + 1 <= now})

LastSlot(bars) == Max(DOMAIN bars)

\* compute_row: or_pos, from the last closed bar after the range.
Position(bars, now) ==
    LET after == {t \in DOMAIN ClosedBars(bars, now) : t >= RangeBars}
        close == bars[Max(after)].c
    IN  IF ~HasRange(bars) \/ after = {} THEN None
        ELSE IF close > RangeHigh(bars) THEN "above"
        ELSE IF close < RangeLow(bars) THEN "below"
        ELSE "inside"

\* classify_regime: the periods all of whose bars there are, by number.
PeriodSlots(k) == PeriodBars * k .. PeriodBars * k + PeriodBars - 1
CompletePeriods(bars) ==
    {k \in {t \div PeriodBars : t \in DOMAIN bars} : Traded(bars, PeriodSlots(k))}

\* Twice the middle of the session, as bars have no halves.
Midpoint(bars) == Highest(bars, DOMAIN bars) + Lowest(bars, DOMAIN bars)

ClassifyRegime(bars, now) ==
    LET closed == ClosedBars(bars, now)
        complete == CompletePeriods(closed)
        last == PeriodSlots(Max(complete))
        before == PeriodSlots(Max(complete \ {Max(complete)}))
        close == bars[Max(last)].c
    IN  IF Cardinality(complete) < 2 THEN None
        ELSE IF 2 * close > Midpoint(closed) /\ Highest(bars, last) >= Highest(bars, before)
             THEN "up"
        ELSE IF 2 * close < Midpoint(closed) /\ Lowest(bars, last) <= Lowest(bars, before)
             THEN "down"
        ELSE "chop"
=============================================================================
