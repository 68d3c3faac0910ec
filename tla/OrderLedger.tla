---------------------------- MODULE OrderLedger ----------------------------
(***************************************************************************)
(* What the order gate promises of the orders it has on record: a log that *)
(* only grows, one order at a time, each stamped with the time it is       *)
(* entered, and only where all three rate limits leave room for it and, if *)
(* it opens a position, the name is still unused that day.  Nothing of     *)
(* windows taken at a cycle's start, verdicts, brokers or crashes.         *)
(*                                                                         *)
(* An order on record has the fields at, cycle, symbol and opening.        *)
(***************************************************************************)
EXTENDS Integers, FiniteSets

CONSTANTS HourLen, DayLen, MaxOrdersPerHour, MaxOrdersPerDay, MaxOrdersPerCycle

VARIABLES log, clock

ledgerVars == <<log, clock>>

DayNumber(t) == t \div DayLen

\* The orders already on record that e has to share a limit with.
InHourOf(e)  == {x \in log : e.at - HourLen <= x.at /\ x.at <= e.at}
InDayOf(e)   == {x \in log : DayNumber(x.at) = DayNumber(e.at)}
InCycleOf(e) == {x \in log : x.cycle = e.cycle}

Room(e) ==
    /\ Cardinality(InHourOf(e)) < MaxOrdersPerHour
    /\ Cardinality(InDayOf(e)) < MaxOrdersPerDay
    /\ Cardinality(InCycleOf(e)) < MaxOrdersPerCycle
    /\ e.opening => \A x \in InDayOf(e) : x.symbol # e.symbol

-----------------------------------------------------------------------------
Init == log = {} /\ clock = 0

Enter ==
    /\ \E e \in log' \ log :
         /\ log' = log \cup {e}
         /\ e.at = clock
         /\ Room(e)
    /\ UNCHANGED clock

TimePasses ==
    /\ clock' \in Nat
    /\ clock' > clock
    /\ UNCHANGED log

Next == Enter \/ TimePasses

Spec == Init /\ [][Next]_ledgerVars

-----------------------------------------------------------------------------
(* In no stretch of HourLen, no trading day and no cycle are more orders   *)
(* on record than the limit.  (A window with the most orders in it can be  *)
(* taken to end with one of them.)                                         *)
RateLimits ==
    \A e \in log :
        /\ Cardinality(InHourOf(e)) <= MaxOrdersPerHour
        /\ Cardinality(InDayOf(e)) <= MaxOrdersPerDay
        /\ Cardinality(InCycleOf(e)) <= MaxOrdersPerCycle

(* No two orders on record open the same name on the same trading day.     *)
OneOpeningPerDay ==
    \A e, x \in log :
        /\ e.opening /\ x.opening
        /\ e.symbol = x.symbol
        /\ DayNumber(e.at) = DayNumber(x.at)
        => e = x
=============================================================================
