----------------------------- MODULE RiskChecks -----------------------------
(***************************************************************************)
(* The risk layer: the sixteen checks of risk/checks.py over a proposal p  *)
(* and a risk state s, and the verdict risk/engine.py makes of them.       *)
(*                                                                         *)
(*   p  [action, symbol, qty, price, stop, target]       models.Proposal   *)
(*   s  [open, kill, pl, qty, value, lastHour, today, thisCycle, halted,   *)
(*       traded]                                          models.RiskState *)
(*                                                                         *)
(* Money and quantities are integers and prices whole units: the checks    *)
(* only add, multiply and compare.  NaN stands for a float that is not a   *)
(* number.  Python's comparisons with NaN are false, so a check that only  *)
(* rejects on "x > limit" lets NaN pass; the checks below keep that, and   *)
(* Priced(p) marks where it matters.  (An infinity fails all the checks    *)
(* NaN fails and more, and is left out.)  A ticker is a model value: the   *)
(* upper-casing of symbols is left out.                                    *)
(***************************************************************************)
EXTENDS Integers, FiniteSets, FiniteSetsExt

CONSTANTS
    Symbols,              \* every ticker a proposal or the book can name
    Allowlist,            \* [universe].symbol_allowlist
    MaxPositionNotional,  \* [limits] of risk.toml
    MaxTotalExposure,
    MaxDailyLoss,
    MaxOrdersPerHour,
    MaxOrdersPerDay,
    MaxOrdersPerCycle,
    RegularHoursOnly,     \* [session].regular_trading_hours_only
    AllowShorts,          \* [session].allow_shorts
    NaN,                  \* a quantity or price that is not a finite number
    None,                 \* an exit price that was not given
    Unknown               \* the day's P/L when the prior close is unknown

\* What RiskConfig.__post_init__ accepts.
ASSUME ConfigAssumption ==
    /\ IsFiniteSet(Symbols)
    /\ Allowlist \subseteq Symbols
    /\ Allowlist # {}
    /\ MaxPositionNotional \in Nat
    /\ MaxTotalExposure \in Nat
    /\ MaxDailyLoss \in Nat
    /\ MaxOrdersPerHour \in Nat
    /\ MaxOrdersPerDay \in Nat
    /\ MaxOrdersPerCycle \in Nat
    /\ RegularHoursOnly \in BOOLEAN
    /\ AllowShorts \in BOOLEAN

ASSUME SentinelAssumption ==
    NaN \notin Int /\ None \notin Int /\ Unknown \notin Int /\ None # NaN

Proposal ==
    [action : {"buy", "sell", "other"}, symbol : Symbols,
     qty : Int \cup {NaN}, price : Int \cup {NaN},
     stop : Int \cup {None, NaN}, target : Int \cup {None, NaN}]

RiskState ==
    [open : BOOLEAN, kill : BOOLEAN, halted : BOOLEAN,
     pl : Int \cup {Unknown},
     qty : [Symbols -> Int], value : [Symbols -> Int],
     lastHour : Nat, today : Nat, thisCycle : Nat,
     traded : SUBSET Symbols]

-----------------------------------------------------------------------------
Magnitude(x) == IF x < 0 THEN -x ELSE x

\* Proposal.is_finite
Priced(p) == p.qty # NaN /\ p.price # NaN

\* Proposal.signed_qty: every action but "buy" counts as a sale.
SignedQty(p) == IF p.action = "buy" THEN p.qty ELSE -p.qty

Notional(p) == Magnitude(p.qty) * p.price

\* The signed position p would leave if it filled against s.
Resulting(p, s) == s.qty[p.symbol] + SignedQty(p)

ResultingNotional(p, s) == Magnitude(Resulting(p, s)) * p.price

\* RiskState.total_exposure, from the snapshot's market values.
TotalExposure(s) == MapThenSumSet(LAMBDA y : Magnitude(s.value[y]), Symbols)

-----------------------------------------------------------------------------
\* The checks: each is TRUE when the check of that name FAILS the proposal.

KillSwitch(p, s) == s.kill

\* Mutant: the signs are looked at, the finiteness is not.
ProposalSanitySigns(p, s) ==
    \/ p.action \notin {"buy", "sell"}
    \/ p.qty # NaN /\ p.qty <= 0
    \/ p.price # NaN /\ p.price <= 0

ProposalSanity(p, s) ==
    \/ p.action \notin {"buy", "sell"}
    \/ ~Priced(p)
    \/ p.qty <= 0
    \/ p.price <= 0

SymbolAllowlist(p, s) == p.symbol \notin Allowlist

RegularTradingHoursOnly(p, s) == RegularHoursOnly /\ ~s.open

NoUnintendedShort(p, s) ==
    /\ ~AllowShorts
    /\ p.qty # NaN
    /\ Resulting(p, s) < 0

IncreasesExistingPosition(p, s) ==
    /\ s.qty[p.symbol] # 0
    /\ p.qty # NaN
    /\ Magnitude(Resulting(p, s)) > Magnitude(s.qty[p.symbol])

NoPyramid(p, s) == IncreasesExistingPosition(p, s)

NoSameDayReentry(p, s) == s.qty[p.symbol] = 0 /\ p.symbol \in s.traded

\* Mutant: the budget is not shared with what is held.
OneNameBudgetAlone(p, s) ==
    /\ s.qty[p.symbol] = 0
    /\ \/ ~Priced(p)
       \/ Notional(p) > MaxPositionNotional

\* Written "if resulting <= limit: pass", so NaN fails this one.
OneNameBudget(p, s) ==
    /\ s.qty[p.symbol] = 0
    /\ \/ ~Priced(p)
       \/ TotalExposure(s) + Notional(p) > MaxPositionNotional

\* Mutant: the size of the order stands for the size of the position.
OrderNotionalExceeded(p, s) ==
    Priced(p) /\ Notional(p) > MaxPositionNotional

MaxPositionNotionalExceeded(p, s) ==
    Priced(p) /\ ResultingNotional(p, s) > MaxPositionNotional

MaxTotalExposureExceeded(p, s) ==
    /\ Priced(p)
    /\ TotalExposure(s) - Magnitude(s.value[p.symbol]) + ResultingNotional(p, s)
          > MaxTotalExposure

\* Mutant: the halt of the day is forgotten.
MaxDailyLossNow(p, s) ==
    \/ s.pl = Unknown
    \/ -s.pl > MaxDailyLoss

MaxDailyLossReached(p, s) ==
    \/ s.halted
    \/ s.pl = Unknown
    \/ -s.pl > MaxDailyLoss

OrdersPerHourReached(p, s)  == s.lastHour  >= MaxOrdersPerHour
OrdersPerDayReached(p, s)   == s.today     >= MaxOrdersPerDay
OrdersPerCycleReached(p, s) == s.thisCycle >= MaxOrdersPerCycle

BadPrice(x) == x # None /\ (x = NaN \/ x <= 0)

ProtectiveExits(p, s) ==
    \/ BadPrice(p.stop)
    \/ BadPrice(p.target)
    \/ /\ p.price # NaN /\ p.price > 0
       /\ ~BadPrice(p.stop) /\ ~BadPrice(p.target)
       /\ IF p.action = "buy"
          THEN \/ p.stop # None /\ p.stop >= p.price
               \/ p.target # None /\ p.target <= p.price
          ELSE \/ p.stop # None /\ p.stop <= p.price
               \/ p.target # None /\ p.target >= p.price

\* Today's loss budget that is left: a gain on the day adds nothing to it.
RemainingBudget(s) == MaxDailyLoss + (IF s.pl < 0 THEN s.pl ELSE 0)

\* Mutant: the parentheses of abs(price - stop) * qty are lost.
StopLossBudgetUngrouped(p, s) ==
    /\ p.stop \notin {None, NaN}
    /\ Priced(p)
    /\ s.pl # Unknown
    /\ \/ RemainingBudget(s) <= 0
       \/ Magnitude(p.price * p.qty - p.stop) > RemainingBudget(s)

StopLossBudget(p, s) ==
    /\ p.stop \notin {None, NaN}
    /\ Priced(p)
    /\ s.pl # Unknown
    /\ \/ RemainingBudget(s) <= 0
       \/ Magnitude(p.price - p.stop) * p.qty > RemainingBudget(s)

-----------------------------------------------------------------------------
\* checks.CHECKS, by name, and engine.evaluate: every check runs, none
\* short-circuits, and the verdict is the set of those that failed.

Fails(p, s) ==
    [kill_switch                |-> KillSwitch(p, s),
     proposal_sanity            |-> ProposalSanity(p, s),
     symbol_allowlist           |-> SymbolAllowlist(p, s),
     regular_trading_hours_only |-> RegularTradingHoursOnly(p, s),
     no_unintended_short        |-> NoUnintendedShort(p, s),
     no_pyramid                 |-> NoPyramid(p, s),
     no_same_day_reentry        |-> NoSameDayReentry(p, s),
     one_name_budget            |-> OneNameBudget(p, s),
     max_position_notional      |-> MaxPositionNotionalExceeded(p, s),
     max_total_exposure         |-> MaxTotalExposureExceeded(p, s),
     max_daily_loss             |-> MaxDailyLossReached(p, s),
     max_orders_per_hour        |-> OrdersPerHourReached(p, s),
     max_orders_per_day         |-> OrdersPerDayReached(p, s),
     max_orders_per_cycle       |-> OrdersPerCycleReached(p, s),
     protective_exits           |-> ProtectiveExits(p, s),
     stop_loss_budget           |-> StopLossBudget(p, s)]

CheckNames ==
    {"kill_switch", "proposal_sanity", "symbol_allowlist",
     "regular_trading_hours_only", "no_unintended_short", "no_pyramid",
     "no_same_day_reentry", "one_name_budget", "max_position_notional",
     "max_total_exposure", "max_daily_loss", "max_orders_per_hour",
     "max_orders_per_day", "max_orders_per_cycle", "protective_exits",
     "stop_loss_budget"}

Evaluate(p, s) ==
    LET fails == Fails(p, s) IN {c \in CheckNames : fails[c]}

Approved(p, s) == Evaluate(p, s) = {}
=============================================================================
