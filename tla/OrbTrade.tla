------------------------------ MODULE OrbTrade ------------------------------
(***************************************************************************)
(* backtest.py: the trade of one symbol and one day that the playbook of   *)
(* the opening range would have made.  Prices that may fall on a half (the *)
(* middle of the range, the target) are written twice over.                *)
(***************************************************************************)
EXTENDS OpeningRange

CONSTANTS
    EntryEnd,       \* slot of PRIMARY_ENTRY_END
    Flatten,        \* slot of FLATTEN_START
    MinHeight,      \* MIN_RANGE_HEIGHT_PCT, in hundredths of a percent
    MaxHeight       \* MAX_RANGE_HEIGHT_PCT

\* _compute_orb: none, too flat or too wide a range is no setup.
HasSetup(bars) ==
    /\ HasRange(bars)
    /\ LET height == RangeHigh(bars) - RangeLow(bars)
           twiceMid == RangeHigh(bars) + RangeLow(bars)
       IN  20000 * height \in MinHeight * twiceMid .. MaxHeight * twiceMid

\* Mutant: a close on the edge of the range is a breakout.
Touches(bars, t, direction) ==
    IF direction = "long" THEN bars[t].c >= RangeHigh(bars) ELSE bars[t].c <= RangeLow(bars)
Breaks(bars, t, direction) ==
    IF direction = "long" THEN bars[t].c > RangeHigh(bars) ELSE bars[t].c < RangeLow(bars)

\* _find_entry_bar: the slots it could be, and the first of them.
EntrySlots(bars, direction) ==
    {t \in DOMAIN bars : t \in RangeBars .. EntryEnd - 1 /\ Breaks(bars, t, direction)}
Entry(bars, direction) == Min(EntrySlots(bars, direction))

\* The stop and the target of a trade entered at the close of bar t.
TwiceStop(bars) == RangeHigh(bars) + RangeLow(bars)
TwiceTarget(bars, t, direction) ==
    LET reach == 3 * (RangeHigh(bars) - RangeLow(bars))
    IN  IF direction = "long" THEN 2 * bars[t].c + reach ELSE 2 * bars[t].c - reach

Reaches(bar, direction, twiceTarget) ==
    IF direction = "long" THEN 2 * bar.h >= twiceTarget ELSE 2 * bar.l <= twiceTarget

\* Mutant: a short is stopped out where a long would be.
StoppedAsLong(bar, direction, twiceStop) == 2 * bar.l <= twiceStop
Stopped(bar, direction, twiceStop) ==
    IF direction = "long" THEN 2 * bar.l <= twiceStop ELSE 2 * bar.h >= twiceStop

\* _simulate_trade: the bars after the entry that end the trade; the first of
\* them does, for the first reason that applies.
ExitSlots(bars, entry, direction) ==
    {t \in DOMAIN bars :
        /\ t > entry
        /\ \/ Reaches(bars[t], direction, TwiceTarget(bars, entry, direction))
           \/ Stopped(bars[t], direction, TwiceStop(bars))
           \/ t >= Flatten}

\* Mutant: who is stopped out sells at the close.
TwiceExitAtClose(bars, entry, t, direction) ==
    IF Reaches(bars[t], direction, TwiceTarget(bars, entry, direction))
    THEN TwiceTarget(bars, entry, direction)
    ELSE 2 * bars[t].c
TwiceExit(bars, entry, t, direction) ==
    IF Reaches(bars[t], direction, TwiceTarget(bars, entry, direction))
    THEN TwiceTarget(bars, entry, direction)
    ELSE IF Stopped(bars[t], direction, TwiceStop(bars)) THEN TwiceStop(bars)
    ELSE 2 * bars[t].c

\* Twice pnl and twice risk, for the exit price twice over.
TwiceGain(bars, entry, twiceExit, direction) ==
    IF direction = "long" THEN twiceExit - 2 * bars[entry].c ELSE 2 * bars[entry].c - twiceExit
TwiceRisk(bars, entry) ==
    LET gap == 2 * bars[entry].c - TwiceStop(bars) IN IF gap < 0 THEN -gap ELSE gap

\* The trade of _simulate_trade; one that no bar ends is flat at its entry.
Simulate(bars, entry, direction) ==
    LET exits == ExitSlots(bars, entry, direction)
        twiceExit == IF exits = {} THEN 2 * bars[entry].c
                     ELSE TwiceExit(bars, entry, Min(exits), direction)
    IN  [direction |-> direction,
         entry |-> entry,
         exit |-> IF exits = {} THEN entry ELSE Min(exits),
         pnl |-> TwiceGain(bars, entry, twiceExit, direction),
         risk |-> TwiceRisk(bars, entry)]

Directions(regime) ==
    IF regime = "up" THEN {"long"} ELSE IF regime = "down" THEN {"short"} ELSE {}

\* _trade_for_day: the set of its trade, or of none.
TradesForDay(bars, regime) ==
    {Simulate(bars, Entry(bars, d), d) :
        d \in {e \in Directions(regime) : HasSetup(bars) /\ EntrySlots(bars, e) # {}}}

\* backtest_orb for QQQ itself: the regime is the one its day ends with.
Backtest(bars, end) == TradesForDay(bars, ClassifyRegime(bars, end))
=============================================================================
