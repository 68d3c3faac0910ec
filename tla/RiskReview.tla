---------------------------- MODULE RiskReview ----------------------------
(***************************************************************************)
(* engine.evaluate over every pair of a proposal and a risk state: what    *)
(* the sixteen checks together let through, and what they stop that they   *)
(* should not.  The order path around the verdict is in OrderGate.         *)
(***************************************************************************)
EXTENDS RiskChecks

CONSTANTS
    Proposals,  \* the proposals to review
    States      \* the risk states to review them in

ASSUME ReviewAssumption ==
    /\ Proposals \subseteq Proposal
    /\ States \subseteq RiskState

VARIABLES
    proposal,
    state,
    reviewed,  \* a verdict was made
    failures   \* Verdict.failures

vars == <<proposal, state, reviewed, failures>>

Init ==
    /\ proposal \in Proposals
    /\ state \in States
    /\ reviewed = FALSE
    /\ failures = {}

Review ==
    /\ ~reviewed
    /\ reviewed' = TRUE
    /\ failures' = Evaluate(proposal, state)
    /\ UNCHANGED <<proposal, state>>

Next == Review

Spec == Init /\ [][Next]_vars

-----------------------------------------------------------------------------
Passed == reviewed /\ failures = {}

(* A number that is not one never reaches the broker: the comparisons of   *)
(* the limits let NaN pass, proposal_sanity and protective_exits do not.   *)
NaNNeverPasses ==
    Passed => NaN \notin {proposal.qty, proposal.price, proposal.stop, proposal.target}

\* The proposal takes the whole position off and asks for nothing else.
Flattens(p, s) ==
    /\ p.action \in {"buy", "sell"}
    /\ Priced(p)
    /\ p.qty > 0 /\ p.price > 0
    /\ Resulting(p, s) = 0
    /\ p.stop = None /\ p.target = None

\* The checks a flatten may fail whatever its size: they stop all trading.
Halts == {"kill_switch", "symbol_allowlist", "regular_trading_hours_only",
          "max_daily_loss", "max_orders_per_hour", "max_orders_per_day",
          "max_orders_per_cycle"}

(* "Or we could never unwind one": flattening a position is stopped by no  *)
(* check that sizes or times an entry, however large the position and      *)
(* whatever was traded today.  max_total_exposure stops it only when the   *)
(* OTHER names alone are over the limit.                                   *)
FlattenNeverSizedOut ==
    reviewed /\ Flattens(proposal, state) =>
        /\ failures \subseteq Halts \cup {"max_total_exposure"}
        /\ "max_total_exposure" \in failures =>
             TotalExposure(state) - Magnitude(state.value[proposal.symbol])
               > MaxTotalExposure

(* "Flatten or size down first": what is right for an opening order is     *)
(* right for every smaller one, so that sizing down always helps.          *)
SmallerOpeningPasses ==
    Passed /\ state.qty[proposal.symbol] = 0 =>
        \A q \in 1 .. proposal.qty :
            Approved([proposal EXCEPT !.qty = q], state)
=============================================================================
