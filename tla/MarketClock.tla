---------------------------- MODULE MarketClock ----------------------------
(***************************************************************************)
(* broker.weekday_rth_clock: what the clock says when no broker does.      *)
(* Times are slots counted from a Monday's midnight; a day has Day of      *)
(* them, and the session runs from OpenSlot to CloseSlot.                  *)
(***************************************************************************)
EXTENDS Naturals

CONSTANTS Day, OpenSlot, CloseSlot

ASSUME ClockAssumption ==
    /\ {Day, OpenSlot, CloseSlot} \subseteq Nat
    /\ 0 < OpenSlot /\ OpenSlot < CloseSlot /\ CloseSlot < Day

DayOf(t) == t \div Day
SlotOf(t) == t % Day
Weekday(d) == d % 7 < 5

InSession(t) == Weekday(DayOf(t)) /\ SlotOf(t) \in OpenSlot .. CloseSlot - 1

OpenOn(d) == d * Day + OpenSlot
CloseOn(d) == d * Day + CloseSlot

\* Mutant: the day after, weekend or not.
Tomorrow(d) == d + 1

\* _next_open_after, skipping today: the next day that is no weekend.
NextTradingDay(d) == CHOOSE n \in d + 1 .. d + 3 :
                         Weekday(n) /\ \A e \in d + 1 .. n - 1 : ~Weekday(e)

\* next_open and next_close of the fallback clock.
NextOpen(t) ==
    IF Weekday(DayOf(t)) /\ SlotOf(t) < OpenSlot THEN OpenOn(DayOf(t))
    ELSE OpenOn(NextTradingDay(DayOf(t)))
NextClose(t) ==
    IF Weekday(DayOf(t)) /\ SlotOf(t) < CloseSlot THEN CloseOn(DayOf(t))
    ELSE CloseOn(NextTradingDay(DayOf(t)))
=============================================================================
