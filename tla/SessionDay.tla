----------------------------- MODULE SessionDay -----------------------------
(***************************************************************************)
(* A day of one symbol as its bars come in: the last one still forming,    *)
(* some of them missing, the scanner looking on as each closes and the     *)
(* backtest looking back.                                                  *)
(***************************************************************************)
EXTENDS OrbTrade

CONSTANTS
    Slots,    \* slots of the session
    Shapes,   \* bound: the bars there may be
    Mirror    \* twice the price the mirror image of a day is taken at

ASSUME DayAssumption ==
    /\ {RangeBars, PeriodBars} \subseteq Nat \ {0}
    /\ {Slots, EntryEnd, Flatten, MinHeight, MaxHeight} \subseteq Nat
    /\ MinHeight > 0
    /\ Shapes \subseteq Bar
    /\ \A b \in Shapes : b.l > 0 /\ b.l <= b.c /\ b.c <= b.h
    /\ Mirror \in Int

NoSlot == -1

VARIABLES
    bars,    \* the bars there are, the forming one included
    now,     \* the slot it is
    signal   \* History: the bar at which the scanner first showed a breakout

vars == <<bars, now, signal>>

Sides == {"long", "short"}

Init ==
    /\ bars = [t \in {} |-> [h |-> 0, l |-> 0, c |-> 0]]
    /\ now = 0
    /\ signal = [d \in Sides |-> NoSlot]

\* The first trade of a slot, and with it its bar.
BarBegins ==
    /\ now < Slots
    /\ now \notin DOMAIN bars
    /\ \E b \in Shapes : bars' = [t \in DOMAIN bars \cup {now} |-> IF t = now THEN b ELSE bars[t]]
    /\ UNCHANGED <<now, signal>>

\* Another trade: the high and the low only widen.
BarForms ==
    /\ now \in DOMAIN bars
    /\ \E b \in Shapes :
          /\ b.h >= bars[now].h /\ b.l <= bars[now].l
          /\ bars' = [bars EXCEPT ![now] = b]
    /\ UNCHANGED <<now, signal>>

Shows(position, d) == position = IF d = "long" THEN "above" ELSE "below"

\* The slot is over, and a cycle scans, as one does every five minutes where
\* TRADER_CYCLE_MINUTES is left at its default (config.py:85 allows 1 to 60).
BarCloses ==
    /\ now < Slots
    /\ now' = now + 1
    /\ signal' = [d \in Sides |->
                     IF /\ signal[d] = NoSlot
                        /\ Shows(Position(bars, now + 1), d)
                        /\ Max(DOMAIN bars) < EntryEnd
                     THEN Max(DOMAIN bars) ELSE signal[d]]
    /\ UNCHANGED bars

Next == BarBegins \/ BarForms \/ BarCloses

Spec == Init /\ [][Next]_vars

-----------------------------------------------------------------------------
Closed == ClosedBars(bars, now)

\* The shape of the day.
TypeOK ==
    /\ DOMAIN bars \subseteq 0 .. Slots - 1
    /\ \A t \in DOMAIN bars : bars[t] \in Shapes /\ t <= now
    /\ now \in 0 .. Slots
    /\ signal \in [Sides -> {NoSlot} \cup 0 .. Slots - 1]

(* "Rules matched to playbook": the bar the backtest enters at is the one  *)
(* at which the table in the prompt first showed the breakout, so that     *)
(* what is measured is what the model is shown (scanner.compute_row,       *)
(* backtest._find_entry_bar), wherever the range is one to trade and a     *)
(* cycle scans at every close: one that scans less often may show a        *)
(* breakout later, or not at all.                                          *)
ScannerAndBacktestAgree ==
    HasSetup(Closed) =>
        \A d \in Sides :
            IF EntrySlots(Closed, d) = {} THEN signal[d] = NoSlot
                                         ELSE signal[d] = Entry(Closed, d)

(* "Wicks-in-progress don't count": what the forming bar does changes      *)
(* neither the position to the range nor the regime nor any trade; and a   *)
(* trade that has ended is not touched by the bars that follow.            *)
NoLookAhead ==
    [][ /\ now' = now =>
              /\ Position(bars', now) = Position(bars, now)
              /\ ClassifyRegime(bars', now) = ClassifyRegime(bars, now)
        /\ \A regime \in {"up", "down"} : \A trade \in TradesForDay(Closed, regime) :
              trade.exit > trade.entry => trade \in TradesForDay(Closed', regime)]_vars

Mirrored(day) == [t \in DOMAIN day |-> [h |-> Mirror - day[t].l,
                                        l |-> Mirror - day[t].h,
                                        c |-> Mirror - day[t].c]]

Results(trades) == {<<trade.entry, trade.exit, trade.pnl, trade.risk>> : trade \in trades}

(* A short is a long upside down, in the regime, the entry, the exit and   *)
(* the result, though the code writes each comparison of the two apart.    *)
PlaybookMirrors ==
    LET other == Mirrored(Closed)
    IN  /\ ClassifyRegime(Closed, now) = "up" <=> ClassifyRegime(other, now) = "down"
        /\ ClassifyRegime(Closed, now) = "down" <=> ClassifyRegime(other, now) = "up"
        /\ HasSetup(Closed) /\ HasSetup(other) =>
               Results(TradesForDay(Closed, "up")) = Results(TradesForDay(other, "down"))

(* No trade of the backtest loses more than its risk, which is never zero, *)
(* or wins more than its target.                                           *)
LossesStayWithinRisk ==
    \A regime \in {"up", "down"} : \A trade \in TradesForDay(Closed, regime) :
        /\ trade.risk > 0
        /\ trade.pnl >= -trade.risk
        /\ trade.pnl <= 3 * (RangeHigh(bars) - RangeLow(bars))

-----------------------------------------------------------------------------
(* backtest.py: "Honest about look-ahead: uses closed bars only."  The     *)
(* regime a trade was filtered by is the one that was known when it was    *)
(* entered.                                                                *)
RegimeKnownAtEntry ==
    now = Slots =>
        \A trade \in Backtest(bars, now) :
            trade \in TradesForDay(bars, ClassifyRegime(bars, trade.entry + 1))
=============================================================================
