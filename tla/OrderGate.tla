----------------------------- MODULE OrderGate -----------------------------
(***************************************************************************)
(* The one path from a proposal to the broker: execution.place_order, with *)
(* the decisions and flags tables it reads and writes, inside the cycles   *)
(* that call it, against a broker that fills, fires exits, loses replies   *)
(* and refuses on its own schedule, an operator who throws the kill        *)
(* switch, a clock, and a process that can die between any two writes.     *)
(*                                                                         *)
(* Every database statement is its own commit (isolation_level=None), so   *)
(* place_order is split where a broker call or a write separates what it   *)
(* has decided from what others can see:                                   *)
(*                                                                         *)
(*   agent -Propose-> approved -CancelExits-> cleared   (a reducing order) *)
(*   agent -Propose-> cleared                           (any other)        *)
(*   cleared -SubmitAccepted-> accepted -RecordSubmitted-> agent           *)
(*   cleared -SubmitBounced, SubmitRefused or SubmitReplyLost->            *)
(*     undelivered -RecordUndelivered-> agent                              *)
(*   agent -Propose-> refused -RecordRiskEvents-> noted -RecordRejected->  *)
(*     agent                                                               *)
(*                                                                         *)
(* The reads before the verdict (account, positions, rate counters, kill   *)
(* switch, halt flag) are one step: this process writes nothing between    *)
(* them, and a fill between two of them is, to the verdict, a fill after   *)
(* all of them.  A refresh that raises leaves no trace here: the cycle     *)
(* goes on or ends (module CycleLoop).                                     *)
(*                                                                         *)
(* Prices are held at one unit a share, so notional is quantity.  A fill   *)
(* is all or nothing.                                                      *)
(***************************************************************************)
EXTENDS RiskChecks, Sequences

CONSTANTS
    Proposals,     \* the proposals the agent may make
    Reports,       \* the daily P/L an account read may return
    MaxRendered,   \* state.MAX_RENDERED_POSITIONS
    HourLen,       \* ticks in the sliding rate window
    DayLen,        \* ticks in a trading day
    OpenTicks,     \* the ticks of a day in which the market is open
    MaxTime,       \* bound: the clock stops here
    MaxOrders,     \* bound: orders the broker ever accepts
    MaxCycles,     \* bound: cycles ever opened
    MaxCrashes,    \* bound: process deaths
    MaxLost,       \* bound: submissions that end in a BrokerError
    MaxToggles     \* bound: operator uses of the kill switch

ASSUME GateAssumption ==
    /\ \A p \in Proposals : p \in Proposal
    /\ \A pl \in Reports : pl \in Int \/ pl = Unknown
    /\ MaxRendered \in Nat
    /\ HourLen \in Nat
    /\ DayLen \in Nat \ {0}
    /\ OpenTicks \subseteq 0 .. DayLen - 1
    /\ MaxTime \in Nat /\ MaxOrders \in Nat /\ MaxCycles \in Nat
    /\ MaxCrashes \in Nat /\ MaxLost \in Nat /\ MaxToggles \in Nat

VARIABLES
    now,      \* the clock, in ticks
    kill,     \* flags['kill_switch'] = '1'
    halted,   \* the trading days d with flags['daily_loss_halt:d'] = '1'
    rows,     \* the decisions rows with a broker order id
    refusals, \* the others: what is left of them is the day and the loss check
    orders,   \* the broker's orders; an order's id is its index
    book,     \* the broker's signed position in every symbol
    cycle,    \* the latest cycle id
    pc,       \* where the process is
    ctx,      \* the running cycle's context: [id, at, open]
    draft,    \* the proposal in hand and what was decided about it
    mishaps,  \* how often each bounded mishap has happened
    \* History, read by properties only:
    unjudged, \* the broker may come to hold a book that no verdict saw
    leaked    \* orders accepted since the kill switch was last engaged

dbVars      == <<kill, halted, rows, refusals>>
brokerVars  == <<orders, book>>
processVars == <<cycle, pc, ctx, draft>>
historyVars == <<unjudged, leaked>>
vars == <<now, dbVars, brokerVars, processVars, mishaps, historyVars>>

-----------------------------------------------------------------------------
Day(t)      == t \div DayLen
DayStart(t) == Day(t) * DayLen
Open(t)     == (t % DayLen) \in OpenTicks

\* The trading day a DAY order sent at t works in: today while any of today's
\* session is left, else the next one.
Session(t) ==
    IF \E k \in OpenTicks : k >= t % DayLen THEN Day(t) ELSE Day(t) + 1

NoContext == [id |-> 0, at |-> 0, open |-> FALSE]

\* A decision not yet made: every field of a draft except the proposal.
NoDraft == [p |-> None, failed |-> {}, qty |-> [y \in Symbols |-> 0],
            opening |-> FALSE, reduces |-> FALSE]

Submitted == {r \in rows : r.outcome = "submitted"}

\* db.orders_since and db.orders_for_cycle: rows with a broker id that are not
\* broker exits.  db.symbols_traded_since: all rows with a broker id.
\* Mutant: the window loses its first instant.
OrdersSinceExclusive(t) == {r \in Submitted : r.at > t}
OrdersSince(t)    == {r \in Submitted : r.at >= t}
OrdersForCycle(c) == {r \in Submitted : r.cycle = c}
\* Mutant: only stops and targets make a name a traded one.
SymbolsExitedSince(t) ==
    {r.symbol : r \in {x \in rows : x.at >= t /\ x.outcome = "broker_exit"}}
SymbolsTradedSince(t) ==
    {r.symbol : r \in {x \in rows : x.at >= t}}

\* Mutant: the kill switch as it was when the cycle began.
LiveStateOfContext(rendered, pl) ==
    LET seen == [y \in Symbols |-> IF y \in rendered THEN book[y] ELSE 0]
    IN  [open      |-> ctx.open,
         kill      |-> FALSE,
         halted    |-> Day(ctx.at) \in halted,
         pl        |-> pl,
         qty       |-> seen,
         value     |-> seen,
         lastHour  |-> Cardinality(OrdersSince(ctx.at - HourLen)),
         today     |-> Cardinality(OrdersSince(DayStart(ctx.at))),
         thisCycle |-> Cardinality(OrdersForCycle(ctx.id)),
         traded    |-> SymbolsTradedSince(DayStart(ctx.at))]

\* What a verdict is made on: the rendered part of the book (other names read
\* as flat), the account, the counters over the cycle's own windows, the
\* cycle's clock, and the two flags read afresh.
LiveState(rendered, pl) ==
    LET seen == [y \in Symbols |-> IF y \in rendered THEN book[y] ELSE 0]
    IN  [open      |-> ctx.open,
         kill      |-> kill,
         halted    |-> Day(ctx.at) \in halted,
         pl        |-> pl,
         qty       |-> seen,
         value     |-> seen,
         lastHour  |-> Cardinality(OrdersSince(ctx.at - HourLen)),
         today     |-> Cardinality(OrdersSince(DayStart(ctx.at))),
         thisCycle |-> Cardinality(OrdersForCycle(ctx.id)),
         traded    |-> SymbolsTradedSince(DayStart(ctx.at))]

\* get_positions()[:MAX_RENDERED_POSITIONS]: the broker's order of the names is
\* its own, so the first MaxRendered of them may be any.
Held == {y \in Symbols : book[y] # 0}
Rendered ==
    IF Cardinality(Held) <= MaxRendered
    THEN {Held}
    ELSE {R \in SUBSET Held : Cardinality(R) = MaxRendered}

\* execution._reduces_position
Reduces(p, s) ==
    \/ s.qty[p.symbol] > 0 /\ SignedQty(p) < 0
    \/ s.qty[p.symbol] < 0 /\ SignedQty(p) > 0

\* record_decision for an order that was refused here or at the broker.  No
\* query of the gate reads such a row; its reasons shrink to the one that
\* halts the day.
RecordRefusal ==
    refusals' = refusals \cup
        {[day |-> Day(ctx.at), loss |-> "max_daily_loss" \in draft.failed]}

-----------------------------------------------------------------------------
Init ==
    /\ now = 0
    /\ kill = FALSE
    /\ halted = {}
    /\ rows = {}
    /\ refusals = {}
    /\ orders = <<>>
    /\ book = [y \in Symbols |-> 0]
    /\ cycle = 0
    /\ pc = "idle"
    /\ ctx = NoContext
    /\ draft = NoDraft
    /\ mishaps = [crashes |-> 0, lost |-> 0, toggles |-> 0]
    /\ unjudged = FALSE
    /\ leaked = 0

\* Recorded orders whose exit leg has filled and has no decisions row yet.
UnrecordedExits ==
    {r \in Submitted :
        /\ orders[r.oid].firedOn # None
        /\ \A x \in rows : x.outcome = "broker_exit" => x.oid # r.oid}

ExitRow(parent) ==
    [cycle |-> parent.cycle, at |-> now, symbol |-> parent.symbol,
     oid |-> parent.oid, outcome |-> "broker_exit", opening |-> FALSE]

\* run_cycle up to the agent: a new cycle id, nothing under the kill switch,
\* the fills read back (any order's read may fail, so any part of the filled
\* exits gets a row), and the context: the time, and the market as it is now.
\* A cycle may start in a closed market, with --force.
StartCycle ==
    /\ pc = "idle"
    /\ cycle < MaxCycles
    /\ ~kill
    /\ cycle' = cycle + 1
    /\ \E E \in SUBSET UnrecordedExits : rows' = rows \cup {ExitRow(r) : r \in E}
    /\ ctx' = [id |-> cycle + 1, at |-> now, open |-> Open(now)]
    /\ pc' = "agent"
    /\ UNCHANGED <<now, kill, halted, refusals, brokerVars, draft, mishaps,
                   historyVars>>

EndCycle ==
    /\ pc = "agent"
    /\ pc' = "idle"
    /\ ctx' = NoContext
    /\ UNCHANGED <<now, dbVars, brokerVars, cycle, draft, mishaps, historyVars>>

\* Mutant: the exits are canceled before the verdict is looked at.
ProposeCancelFirst(p) ==
    /\ pc = "agent"
    /\ Len(orders) < MaxOrders
    /\ \E R \in Rendered, pl \in Reports :
         LET s == LiveState(R, pl)
             failed == Evaluate(p, s)
         IN  /\ draft' = [p |-> p, failed |-> failed, qty |-> s.qty,
                          opening |-> s.qty[p.symbol] = 0,
                          reduces |-> Reduces(p, s)]
             /\ pc' = IF Reduces(p, s) THEN "approved"
                      ELSE IF failed # {} THEN "refused" ELSE "cleared"
    /\ UNCHANGED <<now, dbVars, brokerVars, cycle, ctx, mishaps, historyVars>>

\* place_order up to the verdict.
Propose(p) ==
    /\ pc = "agent"
    /\ Len(orders) < MaxOrders
    /\ \E R \in Rendered, pl \in Reports :
         LET s == LiveState(R, pl)
             failed == Evaluate(p, s)
         IN  /\ draft' = [p |-> p, failed |-> failed, qty |-> s.qty,
                          opening |-> s.qty[p.symbol] = 0,
                          reduces |-> Reduces(p, s)]
             /\ pc' = IF failed # {} THEN "refused"
                      ELSE IF Reduces(p, s) THEN "approved" ELSE "cleared"
    /\ UNCHANGED <<now, dbVars, brokerVars, cycle, ctx, mishaps, historyVars>>

\* What get_open_orders(symbol) lists, as <<order, part>>: entries still
\* working, and the exit legs of filled ones.
OpenParts(symbol) ==
    LET mine == {i \in DOMAIN orders : orders[i].symbol = symbol}
    IN  {<<i, "entry">> : i \in {j \in mine : orders[j].status = "working"}}
          \cup UNION {{<<i, leg>> : leg \in orders[i].legs} :
                         i \in {j \in mine : orders[j].status = "filled"}}

\* The orders after the parts C are canceled: an entry takes its legs along.
Canceled(C) ==
    [i \in DOMAIN orders |->
        IF <<i, "entry">> \in C
        THEN [orders[i] EXCEPT !.status = "dropped", !.legs = {}]
        ELSE [orders[i] EXCEPT !.legs = {leg \in @ : <<i, leg>> \notin C}]]

\* broker.cancel_open_orders, called for an approved order that reduces a
\* position.  It cancels one by one and raises at the first failure, and
\* place_order goes on either way: any part of the list may be gone.
CancelExits ==
    /\ pc = "approved"
    /\ \E C \in SUBSET OpenParts(draft.p.symbol) : orders' = Canceled(C)
    /\ pc' = "cleared"
    /\ UNCHANGED <<now, dbVars, book, cycle, ctx, draft, mishaps, historyVars>>

\* Mutant: the halt is latched only when the loss is all that is wrong.
RecordRiskEventsLossOnly ==
    /\ pc = "refused"
    /\ halted' = IF draft.failed = {"max_daily_loss"}
                 THEN halted \cup {Day(ctx.at)} ELSE halted
    /\ pc' = "noted"
    /\ UNCHANGED <<now, kill, rows, refusals, brokerVars, cycle, ctx, draft,
                   mishaps, historyVars>>

\* The risk_events rows of a rejection and, when the loss check is among the
\* failures, the day's halt flag.
RecordRiskEvents ==
    /\ pc = "refused"
    /\ halted' = IF "max_daily_loss" \in draft.failed
                 THEN halted \cup {Day(ctx.at)} ELSE halted
    /\ pc' = "noted"
    /\ UNCHANGED <<now, kill, rows, refusals, brokerVars, cycle, ctx, draft,
                   mishaps, historyVars>>

RecordRejected ==
    /\ pc = "noted"
    /\ RecordRefusal
    /\ pc' = "agent"
    /\ draft' = NoDraft
    /\ UNCHANGED <<now, kill, halted, rows, brokerVars, cycle, ctx, mishaps,
                   historyVars>>

\* "insufficient qty available": the broker holds the shares of a position
\* back for its exit legs, and an order that would use them bounces.
Reserved(p) ==
    /\ book[p.symbol] * SignedQty(p) < 0
    /\ \E i \in DOMAIN orders : /\ orders[i].symbol = p.symbol
                              /\ orders[i].status = "filled"
                              /\ orders[i].legs # {}

\* The broker takes the order in hand (its exits held until it fills).
BrokerAccepts ==
    LET p == draft.p
    IN  /\ Len(orders) < MaxOrders
        /\ ~Reserved(p)
        /\ orders' = Append(orders,
             [symbol |-> p.symbol, signed |-> SignedQty(p), status |-> "working",
              legs |-> (IF p.stop = None THEN {} ELSE {"stop"})
                         \cup (IF p.target = None THEN {} ELSE {"target"}),
              firedOn |-> None, session |-> Session(now)])
        /\ unjudged' = \/ unjudged
                       \/ book # draft.qty
                       \/ \E i \in DOMAIN orders : orders[i].status = "working"
                       \/ draft.reduces /\ (p.stop # None \/ p.target # None)
        /\ leaked' = IF kill THEN leaked + 1 ELSE leaked

SubmitAccepted ==
    /\ pc = "cleared"
    /\ BrokerAccepts
    /\ pc' = "accepted"
    /\ UNCHANGED <<now, dbVars, book, cycle, ctx, draft, mishaps>>

\* submit_order raises BrokerError because the order bounced, ...
SubmitBounced ==
    /\ pc = "cleared"
    /\ Reserved(draft.p)
    /\ pc' = "undelivered"
    /\ UNCHANGED <<now, dbVars, brokerVars, cycle, ctx, draft, mishaps,
                   historyVars>>

\* ... because the broker refused it for reasons of its own ...
SubmitRefused ==
    /\ pc = "cleared"
    /\ mishaps.lost < MaxLost
    /\ mishaps' = [mishaps EXCEPT !.lost = @ + 1]
    /\ pc' = "undelivered"
    /\ UNCHANGED <<now, dbVars, brokerVars, cycle, ctx, draft, historyVars>>

\* ... or because its answer never came: the order stands all the same.
SubmitReplyLost ==
    /\ pc = "cleared"
    /\ mishaps.lost < MaxLost
    /\ mishaps' = [mishaps EXCEPT !.lost = @ + 1]
    /\ BrokerAccepts
    /\ pc' = "undelivered"
    /\ UNCHANGED <<now, dbVars, book, cycle, ctx, draft>>

\* Mutants: the row is stamped with the cycle's start; it belongs to no cycle.
RowAtCycleStart ==
    [cycle |-> ctx.id, at |-> ctx.at, symbol |-> draft.p.symbol,
     oid |-> Len(orders), outcome |-> "submitted", opening |-> draft.opening]
RowOfNoCycle ==
    [cycle |-> NoContext.id, at |-> now, symbol |-> draft.p.symbol,
     oid |-> Len(orders), outcome |-> "submitted", opening |-> draft.opening]

\* The decisions row of the order in hand.
SubmittedRow ==
    [cycle |-> ctx.id, at |-> now, symbol |-> draft.p.symbol,
     oid |-> Len(orders), outcome |-> "submitted", opening |-> draft.opening]

\* Mutant: one row per cycle and symbol.
RecordSubmittedReplacing ==
    /\ pc = "accepted"
    /\ rows' = {r \in rows : r.cycle # ctx.id \/ r.symbol # draft.p.symbol}
                 \cup {SubmittedRow}
    /\ pc' = "agent"
    /\ draft' = NoDraft
    /\ UNCHANGED <<now, kill, halted, refusals, brokerVars, cycle, ctx, mishaps,
                   historyVars>>

RecordSubmitted ==
    /\ pc = "accepted"
    /\ rows' = rows \cup {SubmittedRow}
    /\ pc' = "agent"
    /\ draft' = NoDraft
    /\ UNCHANGED <<now, kill, halted, refusals, brokerVars, cycle, ctx, mishaps,
                   historyVars>>

RecordUndelivered ==
    /\ pc = "undelivered"
    /\ RecordRefusal
    /\ pc' = "agent"
    /\ draft' = NoDraft
    /\ UNCHANGED <<now, kill, halted, rows, brokerVars, cycle, ctx, mishaps,
                   historyVars>>

\* The process is killed and started again: memory is gone, the tables stay.
Crash ==
    /\ pc # "idle"
    /\ mishaps.crashes < MaxCrashes
    /\ mishaps' = [mishaps EXCEPT !.crashes = @ + 1]
    /\ pc' = "idle"
    /\ ctx' = NoContext
    /\ draft' = NoDraft
    /\ UNCHANGED <<now, dbVars, brokerVars, cycle, historyVars>>

-----------------------------------------------------------------------------
\* The world outside the process.

Tick ==
    /\ now < MaxTime
    /\ now' = now + 1
    /\ UNCHANGED <<dbVars, brokerVars, processVars, mishaps, historyVars>>

\* `trader kill` and `trader unkill`, or the dashboard's button.
ToggleKill ==
    /\ mishaps.toggles < MaxToggles
    /\ mishaps' = [mishaps EXCEPT !.toggles = @ + 1]
    /\ kill' = ~kill
    /\ leaked' = 0
    /\ UNCHANGED <<now, halted, rows, refusals, brokerVars, processVars,
                   unjudged>>

InSession(i) == Open(now) /\ Day(now) = orders[i].session

Fill(i) ==
    /\ orders[i].status = "working"
    /\ InSession(i)
    /\ orders' = [orders EXCEPT ![i].status = "filled"]
    /\ book' = [book EXCEPT ![orders[i].symbol] = @ + orders[i].signed]
    /\ UNCHANGED <<now, dbVars, processVars, mishaps, historyVars>>

\* The stop or the target trades, and takes the other leg with it.
ExitFires(i) ==
    /\ orders[i].status = "filled"
    /\ orders[i].legs # {}
    /\ InSession(i)
    /\ orders' = [orders EXCEPT ![i].legs = {}, ![i].firedOn = Day(now)]
    /\ book' = [book EXCEPT ![orders[i].symbol] = @ - orders[i].signed]
    /\ UNCHANGED <<now, dbVars, processVars, mishaps, historyVars>>

\* Everything is sent time_in_force=DAY: what is left after the session goes.
Expire(i) ==
    /\ Session(now) > orders[i].session
    /\ orders[i].status = "working" \/ orders[i].legs # {}
    /\ orders' = [orders EXCEPT ![i].legs = {},
                                ![i].status = IF @ = "working" THEN "dropped" ELSE @]
    /\ UNCHANGED <<now, dbVars, book, processVars, mishaps, historyVars>>

Broker == \E i \in DOMAIN orders : Fill(i) \/ ExitFires(i) \/ Expire(i)

Gate ==
    \/ StartCycle
    \/ \E p \in Proposals : Propose(p)
    \/ CancelExits
    \/ RecordRiskEvents
    \/ RecordRejected
    \/ SubmitAccepted
    \/ SubmitBounced
    \/ SubmitRefused
    \/ SubmitReplyLost
    \/ RecordSubmitted
    \/ RecordUndelivered
    \/ EndCycle

Next == Gate \/ Crash \/ Tick \/ ToggleKill \/ Broker

Spec == Init /\ [][Next]_vars

-----------------------------------------------------------------------------
Pcs == {"idle", "agent", "approved", "cleared", "accepted", "undelivered",
        "refused", "noted"}

RowType ==
    [cycle : 1 .. MaxCycles, at : 0 .. MaxTime, symbol : Symbols,
     oid : 1 .. MaxOrders, outcome : {"submitted", "broker_exit"},
     opening : BOOLEAN]

OrderType ==
    [symbol : Symbols, signed : Int, status : {"working", "filled", "dropped"},
     legs : SUBSET {"stop", "target"}, firedOn : Nat \cup {None},
     session : Nat]

ContextType == [id : 0 .. MaxCycles, at : 0 .. MaxTime, open : BOOLEAN]

DraftType ==
    [p : Proposals \cup {None}, failed : SUBSET CheckNames,
     qty : [Symbols -> Int], opening : BOOLEAN, reduces : BOOLEAN]

MishapType ==
    [crashes : 0 .. MaxCrashes, lost : 0 .. MaxLost, toggles : 0 .. MaxToggles]

\* The shape of every variable.
TypeOK ==
    /\ now \in 0 .. MaxTime
    /\ kill \in BOOLEAN
    /\ halted \subseteq 0 .. MaxTime
    /\ rows \subseteq RowType
    /\ refusals \subseteq [day : 0 .. MaxTime, loss : BOOLEAN]
    /\ orders \in Seq(OrderType)
    /\ Len(orders) <= MaxOrders
    /\ book \in [Symbols -> Int]
    /\ cycle \in 0 .. MaxCycles
    /\ pc \in Pcs
    /\ ctx \in ContextType
    /\ draft \in DraftType
    /\ mishaps \in MishapType
    /\ unjudged \in BOOLEAN
    /\ leaked \in 0 .. MaxOrders

-----------------------------------------------------------------------------
\* The recorded orders as an OrderLedger: the decisions table is the log.
Ledger == INSTANCE OrderLedger WITH log <- Submitted, clock <- now

(* The gate implements the ledger: an order goes on record only where the  *)
(* limits leave room for it AT THAT MOMENT, although it was counted some   *)
(* time before and over windows that end when the cycle STARTED            *)
(* (refresh_cycle_context reuses ctx.now), possibly on an earlier day.     *)
ImplementsLedger == Ledger!Spec

(* The three rate limits hold of the decisions table whatever the process  *)
(* lives through: in no sliding hour, trading day or cycle are more orders *)
(* recorded than risk.toml allows.                                         *)
RateLimits == Ledger!RateLimits

(* "One shot per symbol per session": no two recorded orders of a trading  *)
(* day open the same name from flat, however late a fill, a stop or the    *)
(* row of a stop shows up.                                                 *)
OneOpeningPerDay == Ledger!OneOpeningPerDay

(* A rejection for the day's loss is never on file without its halt flag:  *)
(* the flag is set before the decision row, so a crash in between leaves   *)
(* the halt without the row and not the row without the halt.              *)
RecordedBreachIsLatched ==
    \A r \in refusals : r.loss => r.day \in halted

(* Once a day is halted no order of a cycle that began on it reaches the   *)
(* broker, through crashes, restarts and a P/L that recovers.              *)
HaltStopsOrders ==
    [][Len(orders') > Len(orders) => Day(ctx.at) \notin halted]_vars

(* The kill switch is read just before the verdict and not again before    *)
(* the submission, so one order may slip past it, and never a second.      *)
KillLeaksAtMostOne == leaked <= 1

(* "A rejected proposal cannot strip a position of its protection": the    *)
(* process takes down exit legs only for a proposal that passed every      *)
(* check and shrinks the position those legs protect.                      *)
RejectionKeepsExits ==
    [][\A i \in DOMAIN orders :
          /\ orders'[i].legs # orders[i].legs
          /\ pc' # pc
          => /\ draft.failed = {}
             /\ draft.p.symbol = orders[i].symbol
             /\ draft.reduces]_vars

(* An order of the broker's goes without its decisions row only where the  *)
(* process died or the reply was lost between the two: one order a mishap, *)
(* besides the one being recorded.                                         *)
Unrecorded == {i \in DOMAIN orders : \A r \in Submitted : r.oid # i}

OnlyMishapsLoseOrders ==
    Cardinality(Unrecorded) <= mishaps.crashes + mishaps.lost
                                 + (IF pc = "accepted" THEN 1 ELSE 0)

\* The exposure of the broker's book, as the checks reckon it.
Exposure == TotalExposure([value |-> book])

(* Sixteen separate checks of single orders add up to a bound on the whole *)
(* book: the exposure never passes max_position_notional (so               *)
(* max_total_exposure is never what stops it), and no position is short    *)
(* unless shorts are allowed, whatever exits fire in between.  As long, at *)
(* least, as every accepted order was judged against the book it met, and  *)
(* no order that reduces a position carried exits of its own: when one of  *)
(* those fires it puts back what the order took off, unseen by any check.  *)
FreshBookWithinCaps ==
    ~unjudged => /\ Exposure <= MaxPositionNotional
                 /\ AllowShorts \/ \A y \in Symbols : book[y] >= 0
=============================================================================
