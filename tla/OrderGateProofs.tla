-------------------------- MODULE OrderGateProofs --------------------------
(***************************************************************************)
(* What OrderGate guarantees for every set of symbols, limits, windows,    *)
(* proposals and bounds.                                                   *)
(***************************************************************************)
EXTENDS OrderGate, FiniteSetTheorems, SequenceTheorems, TLAPS

\* Where an approved order is in hand.
Approving == {"approved", "cleared", "accepted", "undelivered"}

\* Nothing is stamped with a later time.
Stamps ==
    /\ IsFiniteSet(rows)
    /\ \A r \in rows : r.at <= now
    /\ ctx.at <= now

\* What the process holds between two steps.
InHand ==
    /\ pc # "idle" => ctx.id >= 1
    /\ pc \in Approving => /\ draft.p \in Proposals
                           /\ draft.p.qty \in Int
                           /\ draft.failed = {}
    /\ pc = "accepted" => Len(orders) >= 1
    /\ leaked <= Len(orders)

\* The counts of the verdict are still those of the table.
RoomLeft ==
    pc \in {"approved", "cleared", "accepted"} =>
        /\ Cardinality(OrdersSince(ctx.at - HourLen)) < MaxOrdersPerHour
        /\ Cardinality(OrdersSince(DayStart(ctx.at))) < MaxOrdersPerDay
        /\ Cardinality(OrdersForCycle(ctx.id)) < MaxOrdersPerCycle
        /\ draft.opening => draft.p.symbol \notin SymbolsTradedSince(DayStart(ctx.at))

\* The halt flag and the decisions that depend on it.
Halting ==
    /\ RecordedBreachIsLatched
    /\ pc = "noted" /\ "max_daily_loss" \in draft.failed => Day(ctx.at) \in halted
    /\ pc \in {"approved", "cleared"} => Day(ctx.at) \notin halted

\* The kill switch and the order that may slip past it.
Killing ==
    /\ ~kill => leaked = 0
    /\ leaked = 1 => pc \notin {"approved", "cleared"}
    /\ KillLeaksAtMostOne

IInv == TypeOK /\ Stamps /\ InHand /\ RoomLeft /\ Halting /\ Killing

-----------------------------------------------------------------------------
\* Days.

LEMMA DayFacts ==
    ASSUME NEW t \in Nat
    PROVE  /\ Day(t) \in Nat
           /\ Day(t) <= t
           /\ DayStart(t) \in Nat
           /\ DayStart(t) <= t
           /\ t < DayStart(t) + DayLen
BY GateAssumption DEF Day, DayStart

\* A time of the day of some time from t on is not before t's day.
LEMMA SameDayNotBefore ==
    ASSUME NEW t \in Nat, NEW u \in Nat, NEW v \in Nat,
           t <= v, Day(u) = Day(v)
    PROVE  DayStart(t) <= u
<1> DEFINE d == Day(t)
           e == Day(v)
<1>1. d \in Nat /\ e \in Nat /\ d * DayLen <= t /\ v < e * DayLen + DayLen
  BY DayFacts DEF DayStart
<1>2. e * DayLen <= u
  BY DayFacts DEF DayStart
<1>3. d < e + 1
  <2>1. SUFFICES ASSUME e + 1 <= d PROVE FALSE
    BY <1>1
  <2>2. (e + 1) * DayLen <= d * DayLen
    BY <1>1, <2>1, GateAssumption
  <2>3. (e + 1) * DayLen = e * DayLen + DayLen
    BY <1>1, GateAssumption
  <2> QED BY <1>1, <2>2, <2>3, GateAssumption
<1>4. d * DayLen <= e * DayLen
  BY <1>1, <1>3, GateAssumption
<1> QED BY <1>1, <1>2, <1>4, GateAssumption DEF DayStart

-----------------------------------------------------------------------------
\* The verdict.

LEMMA VerdictNames == \A p, s : Evaluate(p, s) \subseteq CheckNames
BY DEF Evaluate

\* What an approval says, as far as the gate's invariant needs it.
LEMMA ApprovalMeans ==
    ASSUME NEW p, NEW s, Evaluate(p, s) = {}
    PROVE  /\ ~KillSwitch(p, s)
           /\ ~ProposalSanity(p, s)
           /\ ~NoSameDayReentry(p, s)
           /\ ~MaxDailyLossReached(p, s)
           /\ ~OrdersPerHourReached(p, s)
           /\ ~OrdersPerDayReached(p, s)
           /\ ~OrdersPerCycleReached(p, s)
<1> DEFINE fails == Fails(p, s)
<1>1. \A c \in CheckNames : ~fails[c]
  BY DEF Evaluate
<1>2. ~fails["kill_switch"] /\ ~fails["proposal_sanity"] /\ ~fails["no_same_day_reentry"]
      /\ ~fails["max_daily_loss"] /\ ~fails["max_orders_per_hour"]
      /\ ~fails["max_orders_per_day"] /\ ~fails["max_orders_per_cycle"]
  BY <1>1 DEF CheckNames
<1> QED BY <1>2 DEF Fails

-----------------------------------------------------------------------------
\* The broker's orders.

LEMMA OrdersAreFunction ==
    ASSUME orders \in Seq(OrderType)
    PROVE  /\ Len(orders) \in Nat
           /\ DOMAIN orders = 1 .. Len(orders)
           /\ \A i \in DOMAIN orders : orders[i] \in OrderType
BY LenProperties, ElementOfSeq

\* Canceling keeps the orders and their number, and touches only legs and status.
LEMMA CanceledKeepsOrders ==
    ASSUME orders \in Seq(OrderType), NEW C
    PROVE  /\ Canceled(C) \in Seq(OrderType)
           /\ Len(Canceled(C)) = Len(orders)
<1> DEFINE o == Canceled(C)
<1>1. DOMAIN orders = 1 .. Len(orders) /\ Len(orders) \in Nat
  BY OrdersAreFunction
<1>2. ASSUME NEW i \in DOMAIN orders PROVE o[i] \in OrderType
  <2>1. orders[i] \in OrderType
    BY OrdersAreFunction
  <2>2. CASE <<i, "entry">> \in C
    <3>1. o[i] = [orders[i] EXCEPT !.status = "dropped", !.legs = {}]
      BY <2>2 DEF Canceled
    <3> QED BY <2>1, <3>1 DEF OrderType
  <2>3. CASE <<i, "entry">> \notin C
    <3>1. o[i] = [orders[i] EXCEPT !.legs = {leg \in orders[i].legs : <<i, leg>> \notin C}]
      BY <2>3 DEF Canceled
    <3> QED BY <2>1, <3>1 DEF OrderType
  <2> QED BY <2>2, <2>3
<1>3. o \in [1 .. Len(orders) -> OrderType]
  BY <1>1, <1>2 DEF Canceled
<1>4. o \in Seq(OrderType)
  BY <1>1, <1>3, SeqDef
<1> QED BY <1>1, <1>3, <1>4, LenProperties

\* So does a change of one order's status, legs and day of exit.
LEMMA UpdatedKeepsOrders ==
    ASSUME orders \in Seq(OrderType), NEW i \in DOMAIN orders, NEW x \in OrderType
    PROVE  /\ [orders EXCEPT ![i] = x] \in Seq(OrderType)
           /\ Len([orders EXCEPT ![i] = x]) = Len(orders)
BY ExceptSeq

\* An order on its way to the broker is well formed.
LEMMA AcceptedOrder ==
    ASSUME TypeOK, InHand, pc = "cleared", BrokerAccepts
    PROVE  /\ orders' \in Seq(OrderType)
           /\ Len(orders') = Len(orders) + 1
           /\ Len(orders) < MaxOrders
<1> DEFINE p == draft.p
           x == [symbol |-> p.symbol, signed |-> SignedQty(p), status |-> "working",
                 legs |-> (IF p.stop = None THEN {} ELSE {"stop"})
                            \cup (IF p.target = None THEN {} ELSE {"target"}),
                 firedOn |-> None, session |-> Session(now)]
<1>1. p \in Proposal /\ p.qty \in Int
  BY GateAssumption DEF InHand, Approving
<1>2. p.symbol \in Symbols /\ SignedQty(p) \in Int
  BY <1>1 DEF Proposal, SignedQty
<1>3. Session(now) \in Nat /\ Day(ctx.at) \in Nat
  <2>1. now \in Nat /\ ctx.at \in Nat
    BY GateAssumption DEF TypeOK, ContextType
  <2> QED BY <2>1, DayFacts DEF Session
<1>4. x \in OrderType
  BY <1>2, <1>3 DEF OrderType
<1>5. orders' = Append(orders, x) /\ Len(orders) < MaxOrders
  BY DEF BrokerAccepts
<1> QED BY <1>4, <1>5, AppendProperties DEF TypeOK

\* The broker's steps change one order each, and its book by an integer.
LEMMA BrokerKeepsOrders ==
    ASSUME TypeOK, NEW i \in DOMAIN orders, Fill(i) \/ ExitFires(i) \/ Expire(i)
    PROVE  /\ orders' \in Seq(OrderType)
           /\ Len(orders') = Len(orders)
           /\ book' \in [Symbols -> Int]
<1>1. orders \in Seq(OrderType) /\ orders[i] \in OrderType /\ DOMAIN orders = 1 .. Len(orders)
  BY OrdersAreFunction DEF TypeOK
<1>2. orders[i].symbol \in Symbols /\ orders[i].signed \in Int
  BY <1>1 DEF OrderType
<1>3. book \in [Symbols -> Int]
  BY DEF TypeOK
<1>4. CASE Fill(i)
  <2> DEFINE x == [orders[i] EXCEPT !.status = "filled"]
  <2>1. x \in OrderType
    BY <1>1 DEF OrderType
  <2>2. orders' = [orders EXCEPT ![i] = x]
    BY <1>4 DEF Fill
  <2>3. book' = [book EXCEPT ![orders[i].symbol] = book[orders[i].symbol] + orders[i].signed]
    BY <1>4 DEF Fill
  <2>4. book' \in [Symbols -> Int]
    BY <1>2, <1>3, <2>3
  <2> QED BY <1>1, <2>1, <2>2, <2>4, UpdatedKeepsOrders
<1>5. CASE ExitFires(i)
  <2> DEFINE x == [orders[i] EXCEPT !.legs = {}, !.firedOn = Day(now)]
  <2>0. Day(now) \in Nat
    <3>1. now \in Nat
      BY GateAssumption DEF TypeOK
    <3> QED BY <3>1, DayFacts
  <2>1. x \in OrderType
    BY <1>1, <2>0 DEF OrderType
  <2>2. orders' = [orders EXCEPT ![i] = x]
    BY <1>5 DEF ExitFires
  <2>3. book' = [book EXCEPT ![orders[i].symbol] = book[orders[i].symbol] - orders[i].signed]
    BY <1>5 DEF ExitFires
  <2>4. book' \in [Symbols -> Int]
    BY <1>2, <1>3, <2>3
  <2> QED BY <1>1, <2>1, <2>2, <2>4, UpdatedKeepsOrders
<1>6. CASE Expire(i)
  <2> DEFINE x == [orders[i] EXCEPT !.legs = {},
                      !.status = IF @ = "working" THEN "dropped" ELSE @]
  <2>1. x \in OrderType
    BY <1>1 DEF OrderType
  <2>2. orders' = [orders EXCEPT ![i] = x]
    BY <1>6 DEF Expire
  <2>3. book' = book
    BY <1>6 DEF Expire
  <2> QED BY <1>1, <1>3, <2>1, <2>2, <2>3, UpdatedKeepsOrders
<1> QED BY <1>4, <1>5, <1>6

-----------------------------------------------------------------------------
\* Every step keeps the types.

LEMMA TypeInit == Init => TypeOK
<1> SUFFICES ASSUME Init PROVE TypeOK
  OBVIOUS
<1>1. orders \in Seq(OrderType) /\ Len(orders) = 0
  BY EmptySeq DEF Init
<1>2. draft \in DraftType
  BY DEF Init, NoDraft, DraftType
<1>3. ctx \in ContextType
  BY GateAssumption DEF Init, NoContext, ContextType
<1>4. mishaps \in MishapType
  BY GateAssumption DEF Init, MishapType
<1>5. book \in [Symbols -> Int]
  BY DEF Init
<1>6. /\ now = 0 /\ kill = FALSE /\ halted = {} /\ rows = {} /\ refusals = {}
      /\ cycle = 0 /\ pc = "idle" /\ unjudged = FALSE /\ leaked = 0
  BY DEF Init
<1>7. 0 \in 0 .. MaxTime /\ 0 \in 0 .. MaxCycles /\ 0 \in 0 .. MaxOrders /\ 0 <= MaxOrders
  BY GateAssumption
<1> QED BY <1>1, <1>2, <1>3, <1>4, <1>5, <1>6, <1>7 DEF TypeOK, Pcs

\* The days the tables name are times themselves.
LEMMA DaysInRange ==
    ASSUME TypeOK
    PROVE  Day(ctx.at) \in 0 .. MaxTime
<1>1. ctx.at \in 0 .. MaxTime
  BY DEF TypeOK, ContextType
<1>2. ctx.at \in Nat
  BY <1>1, GateAssumption
<1> QED BY <1>1, <1>2, DayFacts, GateAssumption

LEMMA DraftReset ==
    NoDraft \in DraftType
BY DEF NoDraft, DraftType

LEMMA ContextReset == NoContext \in ContextType
BY GateAssumption DEF NoContext, ContextType

\* The rows StartCycle adds are exits of recorded orders.
LEMMA ExitRowsTyped ==
    ASSUME TypeOK, NEW E \in SUBSET UnrecordedExits
    PROVE  {ExitRow(r) : r \in E} \subseteq RowType
<1>1. ASSUME NEW r \in UnrecordedExits PROVE ExitRow(r) \in RowType
  <2>1. r \in RowType /\ now \in 0 .. MaxTime
    BY DEF UnrecordedExits, Submitted, TypeOK
  <2> QED BY <2>1 DEF ExitRow, RowType
<1> QED BY <1>1

\* What Propose leaves in hand, and where.
LEMMA ProposeLeaves ==
    ASSUME TypeOK, NEW p \in Proposals, Propose(p)
    PROVE  /\ draft'.p = p
           /\ draft' \in DraftType
           /\ pc' \in {"refused", "approved", "cleared"}
           /\ pc' = "refused" <=> draft'.failed # {}
           /\ \E R, pl : LET s == LiveState(R, pl) IN
                /\ draft'.failed = Evaluate(p, s)
                /\ draft'.opening = (s.qty[p.symbol] = 0)
<1>1. PICK R \in Rendered, pl \in Reports :
        /\ draft' = [p |-> p, failed |-> Evaluate(p, LiveState(R, pl)),
                     qty |-> LiveState(R, pl).qty,
                     opening |-> LiveState(R, pl).qty[p.symbol] = 0,
                     reduces |-> Reduces(p, LiveState(R, pl))]
        /\ pc' = IF Evaluate(p, LiveState(R, pl)) # {} THEN "refused"
                 ELSE IF Reduces(p, LiveState(R, pl)) THEN "approved" ELSE "cleared"
  BY DEF Propose
<1> DEFINE s == LiveState(R, pl)
<1>2. s.qty \in [Symbols -> Int]
  <2>1. s.qty = [y \in Symbols |-> IF y \in R THEN book[y] ELSE 0]
    BY DEF LiveState
  <2> QED BY <2>1 DEF TypeOK
<1>3. Reduces(p, s) \in BOOLEAN
  BY DEF Reduces
<1>4. Evaluate(p, s) \in SUBSET CheckNames
  BY VerdictNames
<1> HIDE DEF s
<1>5. draft'.p = p /\ draft'.failed = Evaluate(p, s) /\ draft'.opening = (s.qty[p.symbol] = 0)
  BY <1>1 DEF s
<1>6. draft' \in DraftType
  BY <1>1, <1>2, <1>3, <1>4 DEF s, DraftType
<1>7. pc' \in {"refused", "approved", "cleared"} /\ (pc' = "refused" <=> Evaluate(p, s) # {})
  BY <1>1, <1>3 DEF s
<1> QED BY <1>5, <1>6, <1>7 DEF s

\* A counted mishap stays within its bound.
LEMMA MishapCounted ==
    ASSUME TypeOK
    PROVE  /\ mishaps.crashes < MaxCrashes =>
                [mishaps EXCEPT !.crashes = @ + 1] \in MishapType
           /\ mishaps.lost < MaxLost => [mishaps EXCEPT !.lost = @ + 1] \in MishapType
           /\ mishaps.toggles < MaxToggles =>
                [mishaps EXCEPT !.toggles = @ + 1] \in MishapType
<1>1. mishaps \in MishapType
  BY DEF TypeOK
<1>2. /\ mishaps.crashes < MaxCrashes => mishaps.crashes + 1 \in 0 .. MaxCrashes
      /\ mishaps.lost < MaxLost => mishaps.lost + 1 \in 0 .. MaxLost
      /\ mishaps.toggles < MaxToggles => mishaps.toggles + 1 \in 0 .. MaxToggles
  BY <1>1, GateAssumption DEF MishapType
<1>3. \A n \in 0 .. MaxCrashes : [mishaps EXCEPT !.crashes = n] \in MishapType
  BY <1>1 DEF MishapType
<1>4. \A n \in 0 .. MaxLost : [mishaps EXCEPT !.lost = n] \in MishapType
  BY <1>1 DEF MishapType
<1>5. \A n \in 0 .. MaxToggles : [mishaps EXCEPT !.toggles = n] \in MishapType
  BY <1>1 DEF MishapType
<1> QED BY <1>2, <1>3, <1>4, <1>5

LEMMA TypeStep ==
    ASSUME TypeOK, InHand, [Next]_vars
    PROVE  TypeOK'
<1> USE GateAssumption
<1>1. CASE StartCycle
  <2>1. PICK E \in SUBSET UnrecordedExits : rows' = rows \cup {ExitRow(r) : r \in E}
    BY <1>1 DEF StartCycle
  <2>2. rows' \subseteq RowType
    BY <2>1, ExitRowsTyped DEF TypeOK
  <2>3. ctx' \in ContextType /\ cycle' \in 0 .. MaxCycles
    BY <1>1 DEF StartCycle, ContextType, Open, TypeOK
  <2>4. pc' = "agent" /\ UNCHANGED <<now, kill, halted, refusals, orders, book, draft,
                                     mishaps, unjudged, leaked>>
    BY <1>1 DEF StartCycle, brokerVars, historyVars
  <2> QED BY <2>2, <2>3, <2>4 DEF TypeOK, Pcs
<1>2. CASE EndCycle
  BY <1>2, ContextReset DEF EndCycle, TypeOK, Pcs, dbVars, brokerVars, historyVars
<1>3. ASSUME NEW p \in Proposals, Propose(p) PROVE TypeOK'
  <2>1. draft' \in DraftType /\ pc' \in Pcs
    BY <1>3, ProposeLeaves DEF Pcs
  <2>2. UNCHANGED <<now, kill, halted, rows, refusals, orders, book, cycle, ctx,
                    mishaps, unjudged, leaked>>
    BY <1>3 DEF Propose, dbVars, brokerVars, historyVars
  <2> QED BY <2>1, <2>2 DEF TypeOK
<1>4. CASE CancelExits
  <2>1. orders' \in Seq(OrderType) /\ Len(orders') = Len(orders)
    BY <1>4, CanceledKeepsOrders DEF CancelExits, TypeOK
  <2>2. pc' = "cleared" /\ UNCHANGED <<now, kill, halted, rows, refusals, book, cycle,
                                       ctx, draft, mishaps, unjudged, leaked>>
    BY <1>4 DEF CancelExits, dbVars, historyVars
  <2> QED BY <2>1, <2>2 DEF TypeOK, Pcs
<1>5. CASE RecordRiskEvents
  BY <1>5, DaysInRange
     DEF RecordRiskEvents, TypeOK, Pcs, brokerVars, historyVars
<1>6. ASSUME RecordRefusal PROVE refusals' \subseteq [day : 0 .. MaxTime, loss : BOOLEAN]
  <2>1. ("max_daily_loss" \in draft.failed) \in BOOLEAN
    OBVIOUS
  <2>2. [day |-> Day(ctx.at), loss |-> "max_daily_loss" \in draft.failed]
          \in [day : 0 .. MaxTime, loss : BOOLEAN]
    BY <2>1, DaysInRange
  <2> QED BY <1>6, <2>2 DEF RecordRefusal, TypeOK
<1>7. CASE RecordRejected
  BY <1>6, <1>7, DraftReset
     DEF RecordRejected, TypeOK, Pcs, brokerVars, historyVars
<1>8. CASE SubmitAccepted \/ SubmitReplyLost
  <2>1. orders' \in Seq(OrderType) /\ Len(orders') = Len(orders) + 1 /\ Len(orders) < MaxOrders
    BY <1>8, AcceptedOrder DEF SubmitAccepted, SubmitReplyLost
  <2>2. Len(orders) \in Nat
    BY OrdersAreFunction DEF TypeOK
  <2>3. unjudged' \in BOOLEAN /\ leaked' \in 0 .. MaxOrders
    <3>1. BrokerAccepts
      BY <1>8 DEF SubmitAccepted, SubmitReplyLost
    <3>2. unjudged' = TRUE \/ unjudged' = FALSE
      BY <3>1 DEF BrokerAccepts
    <3>3. leaked' = leaked + 1 \/ leaked' = leaked
      BY <3>1 DEF BrokerAccepts
    <3>4. leaked \in Nat /\ leaked <= Len(orders)
      BY DEF TypeOK, InHand
    <3>5. leaked' \in 0 .. MaxOrders
      BY <2>1, <2>2, <3>3, <3>4
    <3>6. unjudged' \in BOOLEAN
      BY <3>2
    <3> QED BY <3>5, <3>6
  <2>4. mishaps' \in MishapType /\ pc' \in Pcs
    BY <1>8, MishapCounted DEF SubmitAccepted, SubmitReplyLost, TypeOK, Pcs
  <2>5. UNCHANGED <<now, kill, halted, rows, refusals, book, cycle, ctx, draft>>
    BY <1>8 DEF SubmitAccepted, SubmitReplyLost, dbVars
  <2> QED BY <2>1, <2>2, <2>3, <2>4, <2>5 DEF TypeOK
<1>9. CASE SubmitBounced
  BY <1>9 DEF SubmitBounced, TypeOK, Pcs, dbVars, brokerVars, historyVars
<1>10. CASE SubmitRefused
  <2>1. mishaps' \in MishapType
    BY <1>10, MishapCounted DEF SubmitRefused
  <2> QED BY <1>10, <2>1 DEF SubmitRefused, TypeOK, Pcs, dbVars, brokerVars, historyVars
<1>11. CASE RecordSubmitted
  <2>1. SubmittedRow \in RowType
    <3>1. ctx.id \in 1 .. MaxCycles
      BY <1>11 DEF RecordSubmitted, InHand, TypeOK, ContextType
    <3>2. Len(orders) \in 1 .. MaxOrders
      BY <1>11, OrdersAreFunction DEF RecordSubmitted, InHand, TypeOK
    <3>3. draft.p.symbol \in Symbols
      BY <1>11 DEF RecordSubmitted, InHand, Approving, Proposal
    <3>4. draft.opening \in BOOLEAN
      BY DEF TypeOK, DraftType
    <3> QED BY <3>1, <3>2, <3>3, <3>4 DEF SubmittedRow, RowType, TypeOK
  <2> QED BY <1>11, <2>1, DraftReset
          DEF RecordSubmitted, TypeOK, Pcs, brokerVars, historyVars
<1>12. CASE RecordUndelivered
  BY <1>6, <1>12, DraftReset
     DEF RecordUndelivered, TypeOK, Pcs, brokerVars, historyVars
<1>13. CASE Crash
  <2>1. mishaps' \in MishapType
    BY <1>13, MishapCounted DEF Crash
  <2> QED BY <1>13, <2>1, DraftReset, ContextReset
          DEF Crash, TypeOK, Pcs, dbVars, brokerVars, historyVars
<1>14. CASE Tick
  BY <1>14 DEF Tick, TypeOK, dbVars, brokerVars, processVars, historyVars
<1>15. CASE ToggleKill
  <2>1. mishaps' \in MishapType
    BY <1>15, MishapCounted DEF ToggleKill
  <2> QED BY <1>15, <2>1 DEF ToggleKill, TypeOK, brokerVars, processVars
<1>16. CASE Broker
  <2>1. PICK i \in DOMAIN orders : Fill(i) \/ ExitFires(i) \/ Expire(i)
    BY <1>16 DEF Broker
  <2>2. /\ orders' \in Seq(OrderType)
        /\ Len(orders') = Len(orders)
        /\ book' \in [Symbols -> Int]
    BY <2>1, BrokerKeepsOrders
  <2>3. UNCHANGED <<now, kill, halted, rows, refusals, cycle, pc, ctx, draft, mishaps,
                    unjudged, leaked>>
    BY <2>1 DEF Fill, ExitFires, Expire, dbVars, processVars, historyVars
  <2> QED BY <2>2, <2>3 DEF TypeOK
<1>17. CASE UNCHANGED vars
  BY <1>17 DEF vars, TypeOK, dbVars, brokerVars, processVars, historyVars
<1> QED BY <1>1, <1>2, <1>3, <1>4, <1>5, <1>7, <1>8, <1>9, <1>10, <1>11, <1>12, <1>13,
           <1>14, <1>15, <1>16, <1>17 DEF Next, Gate

-----------------------------------------------------------------------------
\* The other parts of the invariant, each over every step.

LEMMA StampsStep ==
    ASSUME TypeOK, Stamps, [Next]_vars
    PROVE  Stamps'
<1> USE GateAssumption
<1>1. CASE StartCycle
  <2>1. PICK E \in SUBSET UnrecordedExits : rows' = rows \cup {ExitRow(r) : r \in E}
    BY <1>1 DEF StartCycle
  <2>2. IsFiniteSet(E)
    <3>1. E \subseteq rows
      BY DEF UnrecordedExits, Submitted
    <3> QED BY <3>1, FS_Subset DEF Stamps
  <2>3. IsFiniteSet({ExitRow(r) : r \in E})
    <3> DEFINE f == [r \in E |-> ExitRow(r)]
    <3>1. f \in Surjection(E, {ExitRow(r) : r \in E})
      BY DEF Surjection
    <3> QED BY <2>2, <3>1, FS_Surjection
  <2>4. IsFiniteSet(rows')
    BY <2>1, <2>3, FS_Union DEF Stamps
  <2>5. now' = now /\ ctx'.at = now /\ now \in Nat
    BY <1>1 DEF StartCycle, TypeOK
  <2>6. \A r \in rows' : r.at <= now'
    BY <2>1, <2>5 DEF Stamps, ExitRow
  <2> QED BY <2>4, <2>5, <2>6 DEF Stamps
<1>2. CASE RecordSubmitted
  <2>1. rows' = rows \cup {SubmittedRow} /\ now' = now /\ ctx' = ctx /\ now \in Nat
    BY <1>2 DEF RecordSubmitted, TypeOK
  <2>2. IsFiniteSet(rows')
    BY <2>1, FS_AddElement DEF Stamps
  <2>3. SubmittedRow.at = now
    BY DEF SubmittedRow
  <2> QED BY <2>1, <2>2, <2>3 DEF Stamps
<1>3. CASE EndCycle \/ Crash
  <2>1. rows' = rows /\ now' = now /\ ctx'.at = 0 /\ now \in Nat
    BY <1>3 DEF EndCycle, Crash, NoContext, dbVars, TypeOK
  <2> QED BY <2>1 DEF Stamps
<1>4. CASE Tick
  <2>1. rows' = rows /\ now' = now + 1 /\ ctx' = ctx
    BY <1>4 DEF Tick, dbVars, processVars
  <2>2. now \in Nat /\ ctx.at \in Nat /\ \A r \in rows : r.at \in Nat
    BY DEF TypeOK, ContextType, RowType
  <2> QED BY <2>1, <2>2 DEF Stamps
<1>5. CASE UNCHANGED <<rows, now, ctx>>
  BY <1>5 DEF Stamps
<1>6. ASSUME NEW p \in Proposals, Propose(p) PROVE UNCHANGED <<rows, now, ctx>>
  BY <1>6 DEF Propose, dbVars
<1>7. CASE Broker
  BY <1>5, <1>7 DEF Broker, Fill, ExitFires, Expire, dbVars, processVars
<1> QED BY <1>1, <1>2, <1>3, <1>4, <1>5, <1>6, <1>7
        DEF Next, Gate, CancelExits, RecordRiskEvents, RecordRejected, SubmitAccepted,
            SubmitBounced, SubmitRefused, SubmitReplyLost, RecordUndelivered, ToggleKill,
            vars, dbVars, processVars

LEMMA InHandStep ==
    ASSUME TypeOK, InHand, [Next]_vars
    PROVE  InHand'
<1> USE GateAssumption
<1>0. Len(orders) \in Nat /\ leaked \in Nat
  BY OrdersAreFunction DEF TypeOK
<1>1. CASE StartCycle
  <2>1. ctx'.id = cycle + 1 /\ cycle \in Nat /\ pc' = "agent"
        /\ UNCHANGED <<orders, leaked>>
    BY <1>1 DEF StartCycle, TypeOK, brokerVars, historyVars
  <2> QED BY <2>1 DEF InHand, Approving
<1>2. CASE EndCycle \/ Crash
  BY <1>2 DEF EndCycle, Crash, InHand, Approving, brokerVars, historyVars
<1>3. ASSUME NEW p \in Proposals, Propose(p) PROVE InHand'
  <2>1. draft'.p = p /\ (pc' # "refused" => draft'.failed = {})
        /\ pc' \in {"refused", "approved", "cleared"}
    BY <1>3, ProposeLeaves
  <2>2. pc' # "refused" => p.qty \in Int
    <3>1. PICK R, pl : draft'.failed = Evaluate(p, LiveState(R, pl))
      BY <1>3, ProposeLeaves
    <3>2. pc' # "refused" => ~ProposalSanity(p, LiveState(R, pl))
      BY <2>1, <3>1, ApprovalMeans
    <3>3. pc' # "refused" => p.qty # NaN
      BY <3>2 DEF ProposalSanity, Priced
    <3> QED BY <3>3 DEF Proposal
  <2>3. UNCHANGED <<orders, ctx, leaked>> /\ ctx.id >= 1
    BY <1>3 DEF Propose, brokerVars, historyVars, InHand
  <2> QED BY <1>0, <2>1, <2>2, <2>3 DEF InHand, Approving
<1>4. CASE CancelExits
  <2>1. Len(orders') = Len(orders)
    BY <1>4, CanceledKeepsOrders DEF CancelExits, TypeOK
  <2> QED BY <1>0, <1>4, <2>1 DEF CancelExits, InHand, Approving, historyVars
<1>5. CASE SubmitAccepted \/ SubmitReplyLost
  <2>1. Len(orders') = Len(orders) + 1
    BY <1>5, AcceptedOrder DEF SubmitAccepted, SubmitReplyLost
  <2>2. leaked' = leaked + 1 \/ leaked' = leaked
    BY <1>5 DEF SubmitAccepted, SubmitReplyLost, BrokerAccepts
  <2>3. pc = "cleared" /\ pc' \in {"accepted", "undelivered"} /\ UNCHANGED <<ctx, draft>>
    BY <1>5 DEF SubmitAccepted, SubmitReplyLost
  <2> QED BY <1>0, <2>1, <2>2, <2>3 DEF InHand, Approving
<1>6. CASE SubmitBounced \/ SubmitRefused
  BY <1>6 DEF SubmitBounced, SubmitRefused, InHand, Approving, brokerVars, historyVars
<1>7. CASE RecordRiskEvents \/ RecordRejected \/ RecordSubmitted \/ RecordUndelivered
  BY <1>7 DEF RecordRiskEvents, RecordRejected, RecordSubmitted, RecordUndelivered,
              InHand, Approving, brokerVars, historyVars
<1>8. CASE ToggleKill
  BY <1>0, <1>8 DEF ToggleKill, InHand, Approving, brokerVars, processVars
<1>9. CASE Broker
  <2>1. PICK i \in DOMAIN orders : Fill(i) \/ ExitFires(i) \/ Expire(i)
    BY <1>9 DEF Broker
  <2>2. Len(orders') = Len(orders)
    BY <2>1, BrokerKeepsOrders
  <2>3. UNCHANGED <<pc, ctx, draft, leaked>>
    BY <2>1 DEF Fill, ExitFires, Expire, processVars, historyVars
  <2> QED BY <2>2, <2>3 DEF InHand, Approving
<1>10. CASE Tick \/ UNCHANGED vars
  BY <1>10 DEF Tick, vars, InHand, Approving, brokerVars, processVars, historyVars
<1> QED BY <1>1, <1>2, <1>3, <1>4, <1>5, <1>6, <1>7, <1>8, <1>9, <1>10 DEF Next, Gate

\* The counts are numbers.
LEMMA CountsAreNumbers ==
    ASSUME Stamps
    PROVE  /\ \A t : Cardinality(OrdersSince(t)) \in Nat
           /\ \A c : Cardinality(OrdersForCycle(c)) \in Nat
<1>1. ASSUME NEW t PROVE Cardinality(OrdersSince(t)) \in Nat
  <2>1. OrdersSince(t) \subseteq rows
    BY DEF OrdersSince, Submitted
  <2> QED BY <2>1, FS_Subset, FS_CardinalityType DEF Stamps
<1>2. ASSUME NEW c PROVE Cardinality(OrdersForCycle(c)) \in Nat
  <2>1. OrdersForCycle(c) \subseteq rows
    BY DEF OrdersForCycle, Submitted
  <2> QED BY <2>1, FS_Subset, FS_CardinalityType DEF Stamps
<1> QED BY <1>1, <1>2

\* What passed the checks passed them against the table of this moment.
LEMMA ApprovedAgainstTable ==
    ASSUME TypeOK, Stamps, NEW p \in Proposals, Propose(p), pc' # "refused"
    PROVE  /\ ~kill
           /\ Day(ctx.at) \notin halted
           /\ Cardinality(OrdersSince(ctx.at - HourLen)) < MaxOrdersPerHour
           /\ Cardinality(OrdersSince(DayStart(ctx.at))) < MaxOrdersPerDay
           /\ Cardinality(OrdersForCycle(ctx.id)) < MaxOrdersPerCycle
           /\ draft'.opening => p.symbol \notin SymbolsTradedSince(DayStart(ctx.at))
<1>1. PICK R, pl : LET s == LiveState(R, pl) IN
                     /\ draft'.failed = Evaluate(p, s)
                     /\ draft'.opening = (s.qty[p.symbol] = 0)
  BY ProposeLeaves
<1> DEFINE s == LiveState(R, pl)
<1>2. /\ s.kill = kill
      /\ s.halted = (Day(ctx.at) \in halted)
      /\ s.lastHour = Cardinality(OrdersSince(ctx.at - HourLen))
      /\ s.today = Cardinality(OrdersSince(DayStart(ctx.at)))
      /\ s.thisCycle = Cardinality(OrdersForCycle(ctx.id))
      /\ s.traded = SymbolsTradedSince(DayStart(ctx.at))
  BY DEF LiveState
<1>3. draft'.failed = Evaluate(p, s) /\ draft'.opening = (s.qty[p.symbol] = 0)
  BY <1>1
<1> HIDE DEF s
<1>4. Evaluate(p, s) = {}
  BY <1>3, ProposeLeaves
<1>5. /\ ~KillSwitch(p, s)
      /\ ~NoSameDayReentry(p, s)
      /\ ~MaxDailyLossReached(p, s)
      /\ ~OrdersPerHourReached(p, s)
      /\ ~OrdersPerDayReached(p, s)
      /\ ~OrdersPerCycleReached(p, s)
  BY <1>4, ApprovalMeans
<1>6. ~kill /\ Day(ctx.at) \notin halted
  BY <1>2, <1>5 DEF KillSwitch, MaxDailyLossReached
<1>7. /\ Cardinality(OrdersSince(ctx.at - HourLen)) < MaxOrdersPerHour
      /\ Cardinality(OrdersSince(DayStart(ctx.at))) < MaxOrdersPerDay
      /\ Cardinality(OrdersForCycle(ctx.id)) < MaxOrdersPerCycle
  BY <1>2, <1>5, CountsAreNumbers, ConfigAssumption
     DEF OrdersPerHourReached, OrdersPerDayReached, OrdersPerCycleReached
<1>8. draft'.opening => p.symbol \notin SymbolsTradedSince(DayStart(ctx.at))
  BY <1>2, <1>3, <1>5 DEF NoSameDayReentry
<1> QED BY <1>6, <1>7, <1>8

LEMMA RoomLeftStep ==
    ASSUME TypeOK, Stamps, RoomLeft, [Next]_vars
    PROVE  RoomLeft'
<1>1. ASSUME NEW p \in Proposals, Propose(p) PROVE RoomLeft'
  <2>1. UNCHANGED <<rows, ctx>> /\ draft'.p = p
    BY <1>1, ProposeLeaves DEF Propose, dbVars
  <2>2. CASE pc' = "refused"
    BY <2>2 DEF RoomLeft
  <2>3. CASE pc' # "refused"
    BY <1>1, <2>1, <2>3, ApprovedAgainstTable
       DEF RoomLeft, OrdersSince, OrdersForCycle, SymbolsTradedSince, Submitted
  <2> QED BY <2>2, <2>3
<1>2. CASE UNCHANGED <<rows, ctx, draft>> /\ pc' = pc
  BY <1>2 DEF RoomLeft, OrdersSince, OrdersForCycle, SymbolsTradedSince, Submitted
<1>3. CASE CancelExits \/ SubmitAccepted
  <2>1. UNCHANGED <<rows, ctx, draft>> /\ pc \in {"approved", "cleared"}
    BY <1>3 DEF CancelExits, SubmitAccepted, dbVars
  <2> QED BY <2>1 DEF RoomLeft, OrdersSince, OrdersForCycle, SymbolsTradedSince, Submitted
<1>4. CASE pc' \notin {"approved", "cleared", "accepted"}
  BY <1>4 DEF RoomLeft
<1>5. CASE Broker
  BY <1>2, <1>5 DEF Broker, Fill, ExitFires, Expire, dbVars, processVars
<1>6. CASE Tick \/ ToggleKill \/ UNCHANGED vars
  BY <1>2, <1>6 DEF Tick, ToggleKill, vars, dbVars, processVars
<1> QED BY <1>1, <1>3, <1>4, <1>5, <1>6
        DEF Next, Gate, StartCycle, EndCycle, RecordRiskEvents, RecordRejected,
            SubmitBounced, SubmitRefused, SubmitReplyLost, RecordSubmitted,
            RecordUndelivered, Crash

LEMMA HaltingStep ==
    ASSUME TypeOK, Stamps, InHand, Halting, [Next]_vars
    PROVE  Halting'
<1>1. ASSUME NEW p \in Proposals, Propose(p) PROVE Halting'
  <2>1. UNCHANGED <<halted, refusals, ctx>> /\ pc' # "noted"
    BY <1>1, ProposeLeaves DEF Propose, dbVars
  <2>2. pc' \in {"approved", "cleared"} => Day(ctx.at) \notin halted
    BY <1>1, ApprovedAgainstTable
  <2> QED BY <2>1, <2>2 DEF Halting, RecordedBreachIsLatched, Day
<1>2. CASE RecordRiskEvents
  <2>1. /\ halted' = IF "max_daily_loss" \in draft.failed
                     THEN halted \cup {Day(ctx.at)} ELSE halted
        /\ pc' = "noted" /\ UNCHANGED <<refusals, ctx, draft>>
    BY <1>2 DEF RecordRiskEvents
  <2>2. halted \subseteq halted' /\ Day(ctx.at)' = Day(ctx.at)
    BY <2>1 DEF Day
  <2>3. RecordedBreachIsLatched'
    BY <2>1, <2>2 DEF Halting, RecordedBreachIsLatched
  <2> QED BY <2>1, <2>2, <2>3 DEF Halting
<1>3. CASE RecordRejected \/ RecordUndelivered
  <2>1. RecordRefusal /\ pc' = "agent" /\ halted' = halted
    BY <1>3 DEF RecordRejected, RecordUndelivered
  <2>2. "max_daily_loss" \in draft.failed => Day(ctx.at) \in halted
    BY <1>3 DEF RecordRejected, RecordUndelivered, Halting, InHand, Approving
  <2> DEFINE new == [day |-> Day(ctx.at), loss |-> "max_daily_loss" \in draft.failed]
  <2>3. refusals' = refusals \cup {new}
    BY <2>1 DEF RecordRefusal
  <2>4. new.day = Day(ctx.at) /\ new.loss = ("max_daily_loss" \in draft.failed)
    OBVIOUS
  <2> HIDE DEF new
  <2>5. RecordedBreachIsLatched'
    BY <2>1, <2>2, <2>3, <2>4 DEF Halting, RecordedBreachIsLatched
  <2> QED BY <2>1, <2>5 DEF Halting
<1>4. CASE UNCHANGED <<halted, refusals>> /\ pc' \notin {"noted", "approved", "cleared"}
  BY <1>4 DEF Halting, RecordedBreachIsLatched
<1>5. CASE CancelExits
  BY <1>5 DEF CancelExits, dbVars, Halting, RecordedBreachIsLatched, Day
<1>6. CASE UNCHANGED <<halted, refusals, pc, ctx, draft>>
  BY <1>6 DEF Halting, RecordedBreachIsLatched, Day
<1>7. CASE Broker
  BY <1>6, <1>7 DEF Broker, Fill, ExitFires, Expire, dbVars, processVars
<1>8. CASE Tick \/ ToggleKill \/ UNCHANGED vars
  BY <1>6, <1>8 DEF Tick, ToggleKill, vars, dbVars, processVars
<1> QED BY <1>1, <1>2, <1>3, <1>4, <1>5, <1>7, <1>8
        DEF Next, Gate, StartCycle, EndCycle, SubmitAccepted, SubmitBounced,
            SubmitRefused, SubmitReplyLost, RecordSubmitted, Crash, dbVars

LEMMA KillingStep ==
    ASSUME TypeOK, Stamps, Killing, [Next]_vars
    PROVE  Killing'
<1>0. leaked \in {0, 1} /\ kill \in BOOLEAN
  BY GateAssumption DEF TypeOK, Killing, KillLeaksAtMostOne
<1>1. ASSUME NEW p \in Proposals, Propose(p) PROVE Killing'
  <2>1. UNCHANGED <<kill, leaked>>
    BY <1>1 DEF Propose, dbVars, historyVars
  <2>2. pc' \in {"approved", "cleared"} => ~kill
    BY <1>1, ApprovedAgainstTable
  <2> QED BY <1>0, <2>1, <2>2 DEF Killing, KillLeaksAtMostOne
<1>2. CASE SubmitAccepted \/ SubmitReplyLost
  <2>1. pc = "cleared" /\ pc' \in {"accepted", "undelivered"} /\ kill' = kill
    BY <1>2 DEF SubmitAccepted, SubmitReplyLost, dbVars
  <2>2. leaked' = IF kill THEN leaked + 1 ELSE leaked
    BY <1>2 DEF SubmitAccepted, SubmitReplyLost, BrokerAccepts
  <2>3. leaked = 0
    BY <1>0, <2>1 DEF Killing
  <2> QED BY <1>0, <2>1, <2>2, <2>3 DEF Killing, KillLeaksAtMostOne
<1>3. CASE ToggleKill
  <2>1. leaked' = 0
    BY <1>3 DEF ToggleKill
  <2> QED BY <2>1 DEF Killing, KillLeaksAtMostOne
<1>4. CASE CancelExits
  BY <1>4 DEF CancelExits, Killing, KillLeaksAtMostOne, dbVars, historyVars
<1>5. CASE UNCHANGED <<kill, leaked>> /\ pc' \notin {"approved", "cleared"}
  BY <1>5 DEF Killing, KillLeaksAtMostOne
<1>6. CASE UNCHANGED <<kill, leaked, pc>>
  BY <1>6 DEF Killing, KillLeaksAtMostOne
<1>7. CASE Broker
  BY <1>6, <1>7 DEF Broker, Fill, ExitFires, Expire, dbVars, processVars, historyVars
<1>8. CASE Tick \/ UNCHANGED vars
  BY <1>6, <1>8 DEF Tick, vars, dbVars, processVars, historyVars
<1> QED BY <1>1, <1>2, <1>3, <1>4, <1>5, <1>7, <1>8
        DEF Next, Gate, StartCycle, EndCycle, RecordRiskEvents, RecordRejected,
            SubmitBounced, SubmitRefused, RecordSubmitted, RecordUndelivered, Crash,
            dbVars, historyVars

LEMMA InvariantInit == Init => IInv
<1> SUFFICES ASSUME Init PROVE IInv
  OBVIOUS
<1>1. TypeOK
  BY TypeInit
<1>2. /\ now = 0 /\ rows = {} /\ refusals = {} /\ pc = "idle" /\ leaked = 0
      /\ orders = <<>> /\ ctx.at = 0
  BY DEF Init, NoContext
<1>3. Stamps
  BY <1>2, FS_EmptySet DEF Stamps
<1>4. InHand
  BY <1>2, EmptySeq DEF InHand, Approving
<1>5. RoomLeft /\ Halting /\ Killing
  BY <1>2 DEF RoomLeft, Halting, RecordedBreachIsLatched, Killing, KillLeaksAtMostOne
<1> QED BY <1>1, <1>3, <1>4, <1>5 DEF IInv

(* The inductive invariant: types, stamps, what the process holds, room    *)
(* for the order in hand, and the two flags.                               *)
THEOREM GateInvariant == Spec => []IInv
<1>1. IInv /\ [Next]_vars => IInv'
  BY TypeStep, StampsStep, InHandStep, RoomLeftStep, HaltingStep, KillingStep DEF IInv
<1> QED BY <1>1, InvariantInit, PTL DEF Spec

(* Every variable keeps its type.                                          *)
THEOREM GateTypes == Spec => []TypeOK
<1>1. IInv => TypeOK
  BY DEF IInv
<1> QED BY <1>1, GateInvariant, PTL

(* No rejection for the day's loss is on file without its halt flag.       *)
THEOREM BreachesAreLatched == Spec => []RecordedBreachIsLatched
<1>1. IInv => RecordedBreachIsLatched
  BY DEF IInv, Halting
<1> QED BY <1>1, GateInvariant, PTL

(* At most one order slips past the kill switch.                           *)
THEOREM KillSwitchLeak == Spec => []KillLeaksAtMostOne
<1>1. IInv => KillLeaksAtMostOne
  BY DEF IInv, Killing
<1> QED BY <1>1, GateInvariant, PTL

\* Only a submission adds to the broker's orders.
LEMMA OnlySubmissionsAdd ==
    ASSUME TypeOK, InHand, [Next]_vars, Len(orders') > Len(orders)
    PROVE  pc = "cleared"
<1>0. Len(orders) \in Nat
  BY OrdersAreFunction DEF TypeOK
<1>1. CASE CancelExits
  BY <1>0, <1>1, CanceledKeepsOrders DEF CancelExits, TypeOK
<1>2. CASE Broker
  <2>1. PICK i \in DOMAIN orders : Fill(i) \/ ExitFires(i) \/ Expire(i)
    BY <1>2 DEF Broker
  <2> QED BY <1>0, <2>1, BrokerKeepsOrders
<1>3. CASE SubmitAccepted \/ SubmitReplyLost
  BY <1>3 DEF SubmitAccepted, SubmitReplyLost
<1>4. CASE UNCHANGED orders
  BY <1>0, <1>4
<1>5. ASSUME NEW p \in Proposals, Propose(p) PROVE UNCHANGED orders
  BY <1>5 DEF Propose, brokerVars
<1> QED BY <1>1, <1>2, <1>3, <1>4, <1>5
        DEF Next, Gate, StartCycle, EndCycle, RecordRiskEvents, RecordRejected,
            SubmitBounced, SubmitRefused, RecordSubmitted, RecordUndelivered, Crash,
            Tick, ToggleKill, vars, brokerVars

(* Once a day is halted, no order of a cycle that began on it reaches the  *)
(* broker.                                                                 *)
THEOREM HaltedDaysSendNothing == Spec => HaltStopsOrders
<1>1. IInv /\ [Next]_vars => (Len(orders') > Len(orders) => Day(ctx.at) \notin halted)
  <2> SUFFICES ASSUME IInv, [Next]_vars, Len(orders') > Len(orders)
               PROVE  Day(ctx.at) \notin halted
    OBVIOUS
  <2>1. pc = "cleared"
    BY OnlySubmissionsAdd DEF IInv
  <2> QED BY <2>1 DEF IInv, Halting
<1> QED BY <1>1, GateInvariant, PTL DEF Spec, HaltStopsOrders

-----------------------------------------------------------------------------
\* The exits of a position.

\* A canceled part belongs to an order of the symbol that was asked for.
LEMMA PartsOfOneSymbol ==
    \A y, i, part : <<i, part>> \in OpenParts(y) =>
        i \in DOMAIN orders /\ orders[i].symbol = y
<1> SUFFICES ASSUME NEW y, NEW i, NEW part, <<i, part>> \in OpenParts(y)
             PROVE  i \in DOMAIN orders /\ orders[i].symbol = y
  OBVIOUS
<1> DEFINE mine == {k \in DOMAIN orders : orders[k].symbol = y}
<1>1. CASE <<i, part>> \in {<<k, "entry">> : k \in {j \in mine : orders[j].status = "working"}}
  BY <1>1
<1>2. CASE \E k \in {j \in mine : orders[j].status = "filled"} :
             <<i, part>> \in {<<k, leg>> : leg \in orders[k].legs}
  BY <1>2
<1> QED BY <1>1, <1>2 DEF OpenParts

\* An order approved with its exits still up reduces the position they protect.
Reducing == pc = "approved" => draft.reduces

LEMMA ReducingStep ==
    ASSUME TypeOK, Reducing, [Next]_vars
    PROVE  Reducing'
<1>1. ASSUME NEW p \in Proposals, Propose(p) PROVE Reducing'
  <2>1. PICK R \in Rendered, pl \in Reports :
          /\ draft'.reduces = Reduces(p, LiveState(R, pl))
          /\ pc' = IF Evaluate(p, LiveState(R, pl)) # {} THEN "refused"
                   ELSE IF Reduces(p, LiveState(R, pl)) THEN "approved" ELSE "cleared"
    BY <1>1 DEF Propose
  <2> QED BY <2>1 DEF Reducing
<1>2. CASE pc' # "approved"
  BY <1>2 DEF Reducing
<1>3. CASE UNCHANGED <<pc, draft>>
  BY <1>3 DEF Reducing
<1>4. CASE Broker
  BY <1>3, <1>4 DEF Broker, Fill, ExitFires, Expire, processVars
<1>5. CASE Tick \/ ToggleKill \/ UNCHANGED vars
  BY <1>3, <1>5 DEF Tick, ToggleKill, vars, processVars
<1> QED BY <1>1, <1>2, <1>4, <1>5
        DEF Next, Gate, StartCycle, EndCycle, CancelExits, RecordRiskEvents,
            RecordRejected, SubmitAccepted, SubmitBounced, SubmitRefused,
            SubmitReplyLost, RecordSubmitted, RecordUndelivered, Crash

\* The process takes down exits only in CancelExits, and only of the order's symbol.
LEMMA CancelsItsOwn ==
    ASSUME TypeOK, InHand, [Next]_vars, NEW i \in DOMAIN orders,
           orders'[i].legs # orders[i].legs, pc' # pc
    PROVE  pc = "approved" /\ draft.p.symbol = orders[i].symbol
<1>0. DOMAIN orders = 1 .. Len(orders) /\ Len(orders) \in Nat
  BY OrdersAreFunction DEF TypeOK
<1>1. CASE CancelExits
  <2>1. PICK C \in SUBSET OpenParts(draft.p.symbol) : orders' = Canceled(C)
    BY <1>1 DEF CancelExits
  <2>2. \E part : <<i, part>> \in C
    <3> SUFFICES ASSUME \A part : <<i, part>> \notin C PROVE FALSE
      OBVIOUS
    <3>1. orders'[i] = [orders[i] EXCEPT !.legs = {leg \in orders[i].legs : <<i, leg>> \notin C}]
      BY <2>1 DEF Canceled
    <3>2. orders[i] \in OrderType
      BY OrdersAreFunction DEF TypeOK
    <3>3. orders'[i].legs = {leg \in orders[i].legs : <<i, leg>> \notin C}
      BY <3>1, <3>2 DEF OrderType
    <3> QED BY <3>3
  <2>3. draft.p.symbol = orders[i].symbol
    BY <2>2, PartsOfOneSymbol
  <2> QED BY <1>1, <2>3 DEF CancelExits
<1>2. CASE SubmitAccepted \/ SubmitReplyLost
  <2>1. BrokerAccepts
    BY <1>2 DEF SubmitAccepted, SubmitReplyLost
  <2>2. \E x : orders' = Append(orders, x)
    BY <2>1 DEF BrokerAccepts
  <2>3. orders'[i] = orders[i]
    BY <1>0, <2>2, AppendProperties DEF TypeOK
  <2> QED BY <2>3
<1>3. CASE UNCHANGED orders
  BY <1>3
<1>4. ASSUME NEW p \in Proposals, Propose(p) PROVE UNCHANGED orders
  BY <1>4 DEF Propose, brokerVars
<1>5. CASE UNCHANGED pc
  BY <1>5
<1>6. CASE Broker
  BY <1>5, <1>6 DEF Broker, Fill, ExitFires, Expire, processVars
<1> QED BY <1>1, <1>2, <1>3, <1>4, <1>5, <1>6
        DEF Next, Gate, StartCycle, EndCycle, RecordRiskEvents, RecordRejected,
            SubmitBounced, SubmitRefused, RecordSubmitted, RecordUndelivered, Crash,
            Tick, ToggleKill, vars, brokerVars, processVars

(* A rejected proposal strips no position of its protection.               *)
THEOREM RejectionsKeepExits == Spec => RejectionKeepsExits
<1>1. Init => Reducing
  BY DEF Init, Reducing
<1>2. IInv /\ Reducing /\ [Next]_vars => Reducing'
  BY ReducingStep DEF IInv
<1> DEFINE Kept == \A i \in DOMAIN orders :
                     /\ orders'[i].legs # orders[i].legs
                     /\ pc' # pc
                     => /\ draft.failed = {}
                        /\ draft.p.symbol = orders[i].symbol
                        /\ draft.reduces
<1>3. IInv /\ Reducing /\ [Next]_vars => Kept
  BY CancelsItsOwn DEF IInv, InHand, Reducing, Approving
<1> QED BY <1>1, <1>2, <1>3, GateInvariant, PTL DEF Spec, RejectionKeepsExits

-----------------------------------------------------------------------------
\* Orders without a row.

\* Every row is of an order the broker has, and the one in hand has no row yet.
Recorded ==
    /\ \A r \in Submitted : r.oid <= Len(orders)
    /\ pc = "accepted" => Len(orders) \in Unrecorded
    /\ OnlyMishapsLoseOrders

LEMMA UnrecordedFinite ==
    ASSUME TypeOK
    PROVE  IsFiniteSet(Unrecorded) /\ Cardinality(Unrecorded) \in Nat
<1>1. DOMAIN orders = 1 .. Len(orders) /\ Len(orders) \in Nat
  BY OrdersAreFunction DEF TypeOK
<1>2. IsFiniteSet(1 .. Len(orders))
  BY <1>1, FS_Interval
<1>3. Unrecorded \subseteq 1 .. Len(orders)
  BY <1>1 DEF Unrecorded
<1> QED BY <1>2, <1>3, FS_Subset, FS_CardinalityType

\* An order more is one unrecorded order more at most.
LEMMA AcceptedIsOneMore ==
    ASSUME TypeOK, InHand, Recorded, pc = "cleared", BrokerAccepts, UNCHANGED rows
    PROVE  /\ Cardinality(Unrecorded)' \in Nat
           /\ Cardinality(Unrecorded)' <= Cardinality(Unrecorded) + 1
           /\ Len(orders)' \in Unrecorded'
           /\ \A r \in Submitted' : r.oid <= Len(orders)'
<1>1. DOMAIN orders = 1 .. Len(orders) /\ Len(orders) \in Nat
  BY OrdersAreFunction DEF TypeOK
<1>2. Len(orders') = Len(orders) + 1 /\ DOMAIN orders' = 1 .. Len(orders) + 1
  BY AcceptedOrder, LenProperties
<1>3. Submitted' = Submitted
  BY DEF Submitted
<1>4. \A r \in Submitted : r.oid \in Nat /\ r.oid <= Len(orders)
  BY GateAssumption DEF Submitted, TypeOK, RowType, Recorded
<1>5. Unrecorded' = Unrecorded \cup {Len(orders) + 1}
  BY <1>1, <1>2, <1>3, <1>4 DEF Unrecorded
<1>6. /\ Cardinality(Unrecorded \cup {Len(orders) + 1}) \in Nat
      /\ Cardinality(Unrecorded \cup {Len(orders) + 1}) <= Cardinality(Unrecorded) + 1
  <2> DEFINE U == Unrecorded
  <2>1. IsFiniteSet(U) /\ Cardinality(U) \in Nat
    BY UnrecordedFinite
  <2> HIDE DEF U
  <2>2. Cardinality(U \cup {Len(orders) + 1}) \in {Cardinality(U), Cardinality(U) + 1}
    BY <2>1, FS_AddElement
  <2>3. /\ Cardinality(U \cup {Len(orders) + 1}) \in Nat
        /\ Cardinality(U \cup {Len(orders) + 1}) <= Cardinality(U) + 1
    BY <2>1, <2>2
  <2> QED BY <2>3 DEF U
<1>7. Len(orders)' \in Unrecorded'
  BY <1>2, <1>5
<1>8. \A r \in Submitted' : r.oid <= Len(orders)'
  BY <1>1, <1>2, <1>3, <1>4
<1>9. Cardinality(Unrecorded)' = Cardinality(Unrecorded \cup {Len(orders) + 1})
  BY <1>5
<1> QED BY <1>6, <1>7, <1>8, <1>9

\* Steps that leave the orders' number and the submitted rows alone.
LEMMA UnrecordedStays ==
    ASSUME TypeOK, TypeOK', Len(orders') = Len(orders), Submitted' = Submitted
    PROVE  Unrecorded' = Unrecorded
<1>1. DOMAIN orders = 1 .. Len(orders)
  BY OrdersAreFunction DEF TypeOK
<1>2. DOMAIN orders' = 1 .. Len(orders')
  BY LenProperties DEF TypeOK
<1> QED BY <1>1, <1>2 DEF Unrecorded

\* Where orders and rows stay, mishaps may only grow and no order be dropped
\* from hand without one.
LEMMA QuietKeepsRecorded ==
    ASSUME TypeOK, TypeOK', Recorded, Len(orders') = Len(orders), Submitted' = Submitted,
           \/ /\ pc' # "accepted" /\ pc # "accepted"
              /\ mishaps'.crashes >= mishaps.crashes
              /\ mishaps'.lost >= mishaps.lost
           \/ UNCHANGED pc /\ mishaps'.crashes = mishaps.crashes
                           /\ mishaps'.lost = mishaps.lost
           \/ pc' = "idle" /\ mishaps'.crashes = mishaps.crashes + 1
                           /\ mishaps'.lost = mishaps.lost
    PROVE  Recorded'
<1>1. Unrecorded' = Unrecorded
  BY UnrecordedStays
<1>2. Cardinality(Unrecorded)' = Cardinality(Unrecorded) /\ Cardinality(Unrecorded) \in Nat
  BY <1>1, UnrecordedFinite
<1>3. /\ mishaps.crashes \in Nat /\ mishaps.lost \in Nat
      /\ mishaps'.crashes \in Nat /\ mishaps'.lost \in Nat
  BY GateAssumption DEF TypeOK, MishapType
<1>4. OnlyMishapsLoseOrders'
  BY <1>2, <1>3 DEF Recorded, OnlyMishapsLoseOrders
<1> QED BY <1>1, <1>4 DEF Recorded

LEMMA RecordedStep ==
    ASSUME TypeOK, TypeOK', InHand, Recorded, [Next]_vars
    PROVE  Recorded'
<1>0. /\ Len(orders) \in Nat
      /\ mishaps.crashes \in Nat /\ mishaps.lost \in Nat
      /\ mishaps \in MishapType
      /\ Cardinality(Unrecorded) \in Nat
  <2>1. Len(orders) \in Nat
    BY OrdersAreFunction DEF TypeOK
  <2>2. mishaps \in MishapType
    BY DEF TypeOK
  <2>3. mishaps.crashes \in Nat /\ mishaps.lost \in Nat
    BY <2>2, GateAssumption DEF MishapType
  <2> QED BY <2>1, <2>2, <2>3, UnrecordedFinite
<1>1. CASE SubmitAccepted
  <2>1. /\ pc = "cleared" /\ BrokerAccepts /\ UNCHANGED rows
        /\ pc' = "accepted" /\ mishaps' = mishaps
    BY <1>1 DEF SubmitAccepted, dbVars
  <2>2. /\ Cardinality(Unrecorded)' \in Nat
        /\ Cardinality(Unrecorded)' <= Cardinality(Unrecorded) + 1
        /\ Len(orders)' \in Unrecorded'
        /\ \A r \in Submitted' : r.oid <= Len(orders)'
    BY <2>1, AcceptedIsOneMore
  <2>3. OnlyMishapsLoseOrders'
    BY <1>0, <2>1, <2>2 DEF Recorded, OnlyMishapsLoseOrders
  <2> QED BY <2>2, <2>3 DEF Recorded
<1>2. CASE SubmitReplyLost
  <2>1. /\ pc = "cleared" /\ BrokerAccepts /\ UNCHANGED rows
        /\ pc' = "undelivered"
        /\ mishaps' = [mishaps EXCEPT !.lost = @ + 1]
    BY <1>2 DEF SubmitReplyLost, dbVars
  <2>2. mishaps'.lost = mishaps.lost + 1 /\ mishaps'.crashes = mishaps.crashes
    BY <1>0, <2>1 DEF MishapType
  <2>3. /\ Cardinality(Unrecorded)' \in Nat
        /\ Cardinality(Unrecorded)' <= Cardinality(Unrecorded) + 1
        /\ \A r \in Submitted' : r.oid <= Len(orders)'
    BY <2>1, AcceptedIsOneMore
  <2>4. Cardinality(Unrecorded) <= mishaps.crashes + mishaps.lost
    BY <1>0, <2>1 DEF Recorded, OnlyMishapsLoseOrders
  <2>5. OnlyMishapsLoseOrders'
    <3> DEFINE n == Cardinality(Unrecorded)
               m == Cardinality(Unrecorded)'
    <3>1. /\ n \in Nat /\ m \in Nat /\ m <= n + 1
          /\ n <= mishaps.crashes + mishaps.lost
      BY <1>0, <2>3, <2>4
    <3> HIDE DEF n, m
    <3>2. m <= mishaps'.crashes + mishaps'.lost + 0
      BY <1>0, <2>2, <3>1
    <3> QED BY <2>1, <3>2 DEF m, OnlyMishapsLoseOrders
  <2> QED BY <2>1, <2>3, <2>5 DEF Recorded
<1>3. CASE RecordSubmitted
  <2>1. /\ pc = "accepted" /\ pc' = "agent" /\ rows' = rows \cup {SubmittedRow}
        /\ UNCHANGED <<orders, mishaps>>
    BY <1>3 DEF RecordSubmitted, brokerVars
  <2>2. SubmittedRow.outcome = "submitted" /\ SubmittedRow.oid = Len(orders)
    BY DEF SubmittedRow
  <2>3. Submitted' = Submitted \cup {SubmittedRow}
    BY <2>1, <2>2 DEF Submitted
  <2>4. Unrecorded' = Unrecorded \ {Len(orders)} /\ Len(orders) \in Unrecorded
    BY <2>1, <2>2, <2>3 DEF Unrecorded, Recorded
  <2>5. Cardinality(Unrecorded \ {Len(orders)}) = Cardinality(Unrecorded) - 1
    BY <2>4, UnrecordedFinite, FS_RemoveElement
  <2>6. OnlyMishapsLoseOrders'
    BY <1>0, <2>1, <2>4, <2>5 DEF Recorded, OnlyMishapsLoseOrders
  <2> QED BY <1>0, <2>1, <2>2, <2>3, <2>6 DEF Recorded
<1>4. CASE StartCycle
  <2>1. PICK E \in SUBSET UnrecordedExits : rows' = rows \cup {ExitRow(r) : r \in E}
    BY <1>4 DEF StartCycle
  <2>2. Submitted' = Submitted
    BY <2>1 DEF Submitted, ExitRow
  <2> QED BY <1>0, <1>4, <2>2, QuietKeepsRecorded DEF StartCycle, brokerVars
<1>5. CASE SubmitRefused
  <2>1. mishaps'.lost = mishaps.lost + 1 /\ mishaps'.crashes = mishaps.crashes
    BY <1>0, <1>5 DEF SubmitRefused, MishapType
  <2>2. Submitted' = Submitted /\ orders' = orders /\ pc = "cleared" /\ pc' = "undelivered"
    BY <1>5 DEF SubmitRefused, Submitted, dbVars, brokerVars
  <2> QED BY <1>0, <2>1, <2>2, QuietKeepsRecorded
<1>6. CASE Crash
  <2>1. mishaps'.crashes = mishaps.crashes + 1 /\ mishaps'.lost = mishaps.lost
    BY <1>0, <1>6 DEF Crash, MishapType
  <2>2. Submitted' = Submitted /\ orders' = orders /\ pc' = "idle"
    BY <1>6 DEF Crash, Submitted, dbVars, brokerVars
  <2> QED BY <2>1, <2>2, QuietKeepsRecorded
<1>7. CASE CancelExits
  <2>1. Len(orders') = Len(orders)
    BY <1>7, CanceledKeepsOrders DEF CancelExits, TypeOK
  <2>2. Submitted' = Submitted /\ UNCHANGED mishaps /\ pc = "approved" /\ pc' = "cleared"
    BY <1>7 DEF CancelExits, Submitted, dbVars
  <2> QED BY <1>0, <2>1, <2>2, QuietKeepsRecorded
<1>8. CASE Broker
  <2>1. PICK i \in DOMAIN orders : Fill(i) \/ ExitFires(i) \/ Expire(i)
    BY <1>8 DEF Broker
  <2>2. Len(orders') = Len(orders)
    BY <2>1, BrokerKeepsOrders
  <2>3. Submitted' = Submitted /\ UNCHANGED <<mishaps, pc>>
    BY <2>1 DEF Fill, ExitFires, Expire, Submitted, dbVars, processVars
  <2> QED BY <2>2, <2>3, QuietKeepsRecorded
<1>9. CASE ToggleKill
  <2>1. mishaps'.lost = mishaps.lost /\ mishaps'.crashes = mishaps.crashes
    BY <1>0, <1>9 DEF ToggleKill, MishapType
  <2>2. Submitted' = Submitted /\ orders' = orders /\ pc' = pc
    BY <1>9 DEF ToggleKill, Submitted, brokerVars, processVars
  <2> QED BY <2>1, <2>2, QuietKeepsRecorded
<1>10. CASE Tick \/ UNCHANGED vars
  <2>1. UNCHANGED <<rows, orders, pc, mishaps>>
    BY <1>10 DEF Tick, vars, dbVars, brokerVars, processVars
  <2> QED BY <2>1, QuietKeepsRecorded DEF Submitted
<1>11. CASE EndCycle \/ RecordRiskEvents \/ RecordRejected \/ SubmitBounced \/ RecordUndelivered
  <2>1. UNCHANGED <<rows, orders, mishaps>> /\ pc # "accepted" /\ pc' # "accepted"
    BY <1>11 DEF EndCycle, RecordRiskEvents, RecordRejected, SubmitBounced,
         RecordUndelivered, dbVars, brokerVars
  <2> QED BY <1>0, <2>1, QuietKeepsRecorded DEF Submitted
<1>12. ASSUME NEW p \in Proposals, Propose(p) PROVE Recorded'
  <2>1. UNCHANGED <<rows, orders, mishaps>> /\ pc # "accepted" /\ pc' # "accepted"
    BY <1>12 DEF Propose, dbVars, brokerVars
  <2> QED BY <1>0, <2>1, QuietKeepsRecorded DEF Submitted
<1> QED BY <1>1, <1>2, <1>3, <1>4, <1>5, <1>6, <1>7, <1>8, <1>9, <1>10, <1>11, <1>12
        DEF Next, Gate

(* No order of the broker's lacks its row but by a crash or a lost reply.  *)
THEOREM LostOrdersAreMishaps == Spec => []OnlyMishapsLoseOrders
<1>1. Init => Recorded
  <2> SUFFICES ASSUME Init PROVE Recorded
    OBVIOUS
  <2>1. rows = {} /\ orders = <<>> /\ pc = "idle"
        /\ mishaps.crashes = 0 /\ mishaps.lost = 0
    BY DEF Init
  <2>2. Submitted = {} /\ Unrecorded = {}
    BY <2>1, EmptySeq DEF Submitted, Unrecorded
  <2> QED BY <2>1, <2>2, FS_EmptySet DEF Recorded, OnlyMishapsLoseOrders
<1>2. IInv /\ IInv' /\ Recorded /\ [Next]_vars => Recorded'
  BY RecordedStep DEF IInv
<1>3. Recorded => OnlyMishapsLoseOrders
  BY DEF Recorded
<1> QED BY <1>1, <1>2, <1>3, GateInvariant, PTL DEF Spec

-----------------------------------------------------------------------------
\* The gate implements the ledger.

\* The ledger counts as the gate does.
LEMMA SameCardinality == \A S : Ledger!Cardinality(S) = Cardinality(S)
BY DEF Ledger!Cardinality, Cardinality

\* Recording the order in hand leaves it the room the verdict found.
LEMMA RecordingHasRoom ==
    ASSUME IInv, RecordSubmitted
    PROVE  Ledger!Room(SubmittedRow)
<1> DEFINE e == SubmittedRow
<1>1. pc = "accepted"
  BY DEF RecordSubmitted
<1>2. /\ e.at = now /\ e.cycle = ctx.id
      /\ e.symbol = draft.p.symbol /\ e.opening = draft.opening
  BY DEF SubmittedRow
<1>3. /\ now \in Nat /\ ctx.at \in Nat /\ ctx.at <= now /\ HourLen \in Nat
      /\ \A r \in rows : r.at \in Nat
  BY GateAssumption DEF IInv, TypeOK, Stamps, ContextType, RowType
<1> HIDE DEF e
<1>4. Ledger!InHourOf(e) \subseteq OrdersSince(ctx.at - HourLen)
  BY <1>2, <1>3 DEF Ledger!InHourOf, OrdersSince, Submitted
<1>5. \A x \in Ledger!InDayOf(e) : x \in Submitted /\ x.at >= DayStart(ctx.at)
  <2> SUFFICES ASSUME NEW x \in Ledger!InDayOf(e)
               PROVE  x \in Submitted /\ x.at >= DayStart(ctx.at)
    OBVIOUS
  <2>1. x \in Submitted /\ Day(x.at) = Day(now)
    BY <1>2 DEF Ledger!InDayOf, Ledger!DayNumber, Day
  <2>2. x.at \in Nat
    BY <1>3, <2>1 DEF Submitted
  <2>3. DayStart(ctx.at) <= x.at /\ DayStart(ctx.at) \in Nat
    BY <1>3, <2>1, <2>2, SameDayNotBefore, DayFacts
  <2> QED BY <2>1, <2>2, <2>3
<1>6. Ledger!InDayOf(e) \subseteq OrdersSince(DayStart(ctx.at))
  BY <1>5 DEF OrdersSince
<1>7. Ledger!InCycleOf(e) = OrdersForCycle(ctx.id)
  BY <1>2 DEF Ledger!InCycleOf, OrdersForCycle
<1>8. ASSUME NEW S, NEW T, IsFiniteSet(S), T \subseteq S, NEW n \in Nat, Cardinality(S) < n
      PROVE  Cardinality(T) < n
  BY <1>8, FS_Subset, FS_CardinalityType
<1>9. /\ IsFiniteSet(OrdersSince(ctx.at - HourLen))
      /\ IsFiniteSet(OrdersSince(DayStart(ctx.at)))
  BY FS_Subset DEF IInv, Stamps, OrdersSince, Submitted
<1>10. /\ Cardinality(OrdersSince(ctx.at - HourLen)) < MaxOrdersPerHour
       /\ Cardinality(OrdersSince(DayStart(ctx.at))) < MaxOrdersPerDay
       /\ Cardinality(OrdersForCycle(ctx.id)) < MaxOrdersPerCycle
       /\ draft.opening => draft.p.symbol \notin SymbolsTradedSince(DayStart(ctx.at))
  BY <1>1 DEF IInv, RoomLeft
<1>11. /\ Cardinality(Ledger!InHourOf(e)) < MaxOrdersPerHour
       /\ Cardinality(Ledger!InDayOf(e)) < MaxOrdersPerDay
       /\ Cardinality(Ledger!InCycleOf(e)) < MaxOrdersPerCycle
  BY <1>4, <1>6, <1>7, <1>8, <1>9, <1>10, ConfigAssumption
<1>12. e.opening => \A x \in Ledger!InDayOf(e) : x.symbol # e.symbol
  BY <1>2, <1>5, <1>10 DEF SymbolsTradedSince, Submitted
<1>13. Ledger!Room(e)
  BY <1>11, <1>12, SameCardinality DEF Ledger!Room
<1> QED BY <1>13 DEF e

LEMMA LedgerStep ==
    ASSUME IInv, [Next]_vars
    PROVE  [Ledger!Next]_(Ledger!ledgerVars)
<1>1. CASE RecordSubmitted
  <2>1. rows' = rows \cup {SubmittedRow} /\ now' = now
    BY <1>1 DEF RecordSubmitted
  <2>2. SubmittedRow.outcome = "submitted" /\ SubmittedRow.at = now
    BY DEF SubmittedRow
  <2>3. Submitted' = Submitted \cup {SubmittedRow}
    BY <2>1, <2>2 DEF Submitted
  <2>4. CASE SubmittedRow \in Submitted
    BY <2>1, <2>3, <2>4 DEF Ledger!ledgerVars
  <2>5. CASE SubmittedRow \notin Submitted
    <3>1. Ledger!Room(SubmittedRow)
      BY <1>1, RecordingHasRoom
    <3>2. Ledger!Enter
      BY <2>1, <2>2, <2>3, <2>5, <3>1 DEF Ledger!Enter
    <3> QED BY <3>2 DEF Ledger!Next
  <2> QED BY <2>4, <2>5
<1>2. CASE StartCycle
  <2>1. now' = now
    BY <1>2 DEF StartCycle
  <2>2. PICK E \in SUBSET UnrecordedExits : rows' = rows \cup {ExitRow(r) : r \in E}
    BY <1>2 DEF StartCycle
  <2>3. Submitted' = Submitted
    BY <2>2 DEF Submitted, ExitRow
  <2> QED BY <2>1, <2>3 DEF Ledger!ledgerVars
<1>3. CASE Tick
  <2>1. now' = now + 1 /\ now \in Nat /\ rows' = rows
    BY <1>3 DEF Tick, IInv, TypeOK, dbVars
  <2>2. Ledger!TimePasses
    BY <2>1 DEF Ledger!TimePasses, Submitted
  <2> QED BY <2>2 DEF Ledger!Next
<1>4. CASE UNCHANGED <<rows, now>>
  BY <1>4 DEF Ledger!ledgerVars, Submitted
<1>5. ASSUME NEW p \in Proposals, Propose(p) PROVE UNCHANGED <<rows, now>>
  BY <1>5 DEF Propose, dbVars
<1>6. CASE Broker
  BY <1>4, <1>6 DEF Broker, Fill, ExitFires, Expire, dbVars
<1> QED BY <1>1, <1>2, <1>3, <1>4, <1>5, <1>6
        DEF Next, Gate, EndCycle, CancelExits, RecordRiskEvents, RecordRejected,
            SubmitAccepted, SubmitBounced, SubmitRefused, SubmitReplyLost,
            RecordUndelivered, Crash, ToggleKill, vars, dbVars

(* Every behaviour of the gate is one of the ledger.                       *)
THEOREM GateImplementsLedger == Spec => ImplementsLedger
<1>1. Init => Ledger!Init
  BY DEF Init, Ledger!Init, Submitted
<1>2. IInv /\ [Next]_vars => [Ledger!Next]_(Ledger!ledgerVars)
  BY LedgerStep
<1> QED BY <1>1, <1>2, GateInvariant, PTL DEF Spec, ImplementsLedger, Ledger!Spec

-----------------------------------------------------------------------------
\* What every ledger guarantees, here of the gate's.

\* What the limits need besides themselves: a finite log of orders that
\* were entered at their own times.
WellStamped ==
    /\ now \in Nat
    /\ IsFiniteSet(Submitted)
    /\ \A e \in Submitted : e.at \in Nat /\ e.at <= now

\* Entering e adds at most e to every window, and only to one that reaches e.
LEMMA EnterWindows ==
    ASSUME WellStamped, NEW e, Submitted' = Submitted \cup {e}, e.at = now, HourLen \in Nat,
           NEW r \in Submitted'
    PROVE  /\ \/ Ledger!InHourOf(r)' = Ledger!InHourOf(r)
              \/ Ledger!InHourOf(r)' = Ledger!InHourOf(e) \cup {e}
           /\ \/ Ledger!InDayOf(r)' = Ledger!InDayOf(r)
              \/ Ledger!InDayOf(r)' = Ledger!InDayOf(e) \cup {e}
           /\ \/ Ledger!InCycleOf(r)' = Ledger!InCycleOf(r)
              \/ Ledger!InCycleOf(r)' = Ledger!InCycleOf(e) \cup {e}
           /\ r = e => /\ Ledger!InHourOf(r)' = Ledger!InHourOf(e) \cup {e}
                       /\ Ledger!InDayOf(r)' = Ledger!InDayOf(e) \cup {e}
                       /\ Ledger!InCycleOf(r)' = Ledger!InCycleOf(e) \cup {e}
<1>1. Ledger!InHourOf(e)' = Ledger!InHourOf(e) \cup {e}
  BY DEF Ledger!InHourOf, WellStamped
<1>2. Ledger!InDayOf(e)' = Ledger!InDayOf(e) \cup {e}
  BY DEF Ledger!InDayOf
<1>3. Ledger!InCycleOf(e)' = Ledger!InCycleOf(e) \cup {e}
  BY DEF Ledger!InCycleOf
<1>4. CASE r = e
  BY <1>1, <1>2, <1>3, <1>4
<1>5. CASE r # e
  <2>1. r \in Submitted /\ r.at \in Nat /\ r.at <= now
    BY <1>5 DEF WellStamped
  <2>2. CASE r.at = now
    BY <2>1, <2>2 DEF Ledger!InHourOf, Ledger!InDayOf, Ledger!InCycleOf, WellStamped
  <2>3. CASE r.at < now
    BY <2>1, <2>3 DEF Ledger!InHourOf, Ledger!InDayOf, Ledger!InCycleOf, WellStamped
  <2> QED BY <1>5, <2>1, <2>2, <2>3 DEF WellStamped
<1> QED BY <1>4, <1>5

\* A set one short of a limit takes one more element.
LEMMA OneMoreFits ==
    ASSUME NEW S, NEW e, IsFiniteSet(S), NEW n \in Nat, Cardinality(S) < n
    PROVE  Cardinality(S \cup {e}) <= n
BY FS_AddElement, FS_CardinalityType

\* Every window is finite.
LEMMA WindowsFinite ==
    ASSUME WellStamped, NEW e
    PROVE  /\ IsFiniteSet(Ledger!InHourOf(e))
           /\ IsFiniteSet(Ledger!InDayOf(e))
           /\ IsFiniteSet(Ledger!InCycleOf(e))
BY FS_Subset DEF WellStamped, Ledger!InHourOf, Ledger!InDayOf, Ledger!InCycleOf

LEMMA WellStampedInductive == WellStamped /\ [Ledger!Next]_(Ledger!ledgerVars) => WellStamped'
<1> SUFFICES ASSUME WellStamped, [Ledger!Next]_(Ledger!ledgerVars) PROVE WellStamped'
  OBVIOUS
<1>1. CASE Ledger!Enter
  <2>1. PICK e \in Submitted' \ Submitted : Submitted' = Submitted \cup {e} /\ e.at = now
    BY <1>1 DEF Ledger!Enter
  <2>2. IsFiniteSet(Submitted')
    BY <2>1, FS_AddElement DEF WellStamped
  <2> QED BY <1>1, <2>1, <2>2 DEF Ledger!Enter, WellStamped
<1>2. CASE Ledger!TimePasses
  BY <1>2 DEF Ledger!TimePasses, WellStamped
<1>3. CASE UNCHANGED Ledger!ledgerVars
  BY <1>3 DEF Ledger!ledgerVars, WellStamped
<1> QED BY <1>1, <1>2, <1>3 DEF Ledger!Next

(* The three rate limits, in every state of the ledger.                    *)
THEOREM LedgerRateLimits ==
    ASSUME HourLen \in Nat, MaxOrdersPerHour \in Nat, MaxOrdersPerDay \in Nat,
           MaxOrdersPerCycle \in Nat
    PROVE  Ledger!Spec => [](WellStamped /\ Ledger!RateLimits)
<1>1. Ledger!Init => WellStamped /\ Ledger!RateLimits
  BY FS_EmptySet DEF Ledger!Init, WellStamped, Ledger!RateLimits
<1>2. WellStamped /\ Ledger!RateLimits /\ [Ledger!Next]_(Ledger!ledgerVars)
      => WellStamped' /\ Ledger!RateLimits'
  <2> SUFFICES ASSUME WellStamped, Ledger!RateLimits, [Ledger!Next]_(Ledger!ledgerVars)
               PROVE  Ledger!RateLimits'
    BY WellStampedInductive
  <2>1. CASE Ledger!Enter
    <3>1. PICK e \in Submitted' \ Submitted :
            Submitted' = Submitted \cup {e} /\ e.at = now /\ Ledger!Room(e)
      BY <2>1 DEF Ledger!Enter
    <3>2. SUFFICES ASSUME NEW r \in Submitted'
                   PROVE  /\ Cardinality(Ledger!InHourOf(r)') <= MaxOrdersPerHour
                          /\ Cardinality(Ledger!InDayOf(r)') <= MaxOrdersPerDay
                          /\ Cardinality(Ledger!InCycleOf(r)') <= MaxOrdersPerCycle
      BY DEF Ledger!RateLimits, Ledger!Cardinality, Cardinality, Ledger!InHourOf,
             Ledger!InDayOf, Ledger!InCycleOf
    <3>3. /\ Cardinality(Ledger!InHourOf(e) \cup {e}) <= MaxOrdersPerHour
          /\ Cardinality(Ledger!InDayOf(e) \cup {e}) <= MaxOrdersPerDay
          /\ Cardinality(Ledger!InCycleOf(e) \cup {e}) <= MaxOrdersPerCycle
      <4>1. /\ IsFiniteSet(Ledger!InHourOf(e))
            /\ IsFiniteSet(Ledger!InDayOf(e))
            /\ IsFiniteSet(Ledger!InCycleOf(e))
        BY WindowsFinite
      <4> QED BY <3>1, <4>1, OneMoreFits, SameCardinality DEF Ledger!Room
    <3>4. r # e => /\ Cardinality(Ledger!InHourOf(r)) <= MaxOrdersPerHour
                   /\ Cardinality(Ledger!InDayOf(r)) <= MaxOrdersPerDay
                   /\ Cardinality(Ledger!InCycleOf(r)) <= MaxOrdersPerCycle
      BY <3>1, SameCardinality DEF Ledger!RateLimits
    <3>5. /\ \/ Ledger!InHourOf(r)' = Ledger!InHourOf(r)
             \/ Ledger!InHourOf(r)' = Ledger!InHourOf(e) \cup {e}
          /\ \/ Ledger!InDayOf(r)' = Ledger!InDayOf(r)
             \/ Ledger!InDayOf(r)' = Ledger!InDayOf(e) \cup {e}
          /\ \/ Ledger!InCycleOf(r)' = Ledger!InCycleOf(r)
             \/ Ledger!InCycleOf(r)' = Ledger!InCycleOf(e) \cup {e}
          /\ r = e => /\ Ledger!InHourOf(r)' = Ledger!InHourOf(e) \cup {e}
                      /\ Ledger!InDayOf(r)' = Ledger!InDayOf(e) \cup {e}
                      /\ Ledger!InCycleOf(r)' = Ledger!InCycleOf(e) \cup {e}
      BY <3>1, EnterWindows
    <3> QED BY <3>3, <3>4, <3>5
  <2>2. CASE UNCHANGED Submitted
    BY <2>2 DEF Ledger!RateLimits, Ledger!Cardinality, Ledger!InHourOf, Ledger!InDayOf,
                Ledger!InCycleOf
  <2> QED BY <2>1, <2>2 DEF Ledger!Next, Ledger!TimePasses, Ledger!ledgerVars
<1> QED BY <1>1, <1>2, PTL DEF Ledger!Spec

(* One opening of a name a day, in every state of the ledger.              *)
THEOREM LedgerOneOpening == Ledger!Spec => []Ledger!OneOpeningPerDay
<1>1. Ledger!Init => Ledger!OneOpeningPerDay
  BY DEF Ledger!Init, Ledger!OneOpeningPerDay
<1>2. Ledger!OneOpeningPerDay /\ [Ledger!Next]_(Ledger!ledgerVars) => Ledger!OneOpeningPerDay'
  <2> SUFFICES ASSUME Ledger!OneOpeningPerDay, [Ledger!Next]_(Ledger!ledgerVars)
               PROVE  Ledger!OneOpeningPerDay'
    OBVIOUS
  <2>1. CASE Ledger!Enter
    <3>1. PICK e \in Submitted' \ Submitted :
            /\ Submitted' = Submitted \cup {e}
            /\ e.opening => \A x \in Ledger!InDayOf(e) : x.symbol # e.symbol
      BY <2>1 DEF Ledger!Enter, Ledger!Room
    <3>2. SUFFICES ASSUME NEW r \in Submitted', NEW x \in Submitted', r.opening, x.opening,
                          r.symbol = x.symbol, Ledger!DayNumber(r.at) = Ledger!DayNumber(x.at)
                   PROVE  r = x
      BY DEF Ledger!OneOpeningPerDay
    <3>3. CASE r \in Submitted /\ x \in Submitted
      BY <3>2, <3>3 DEF Ledger!OneOpeningPerDay
    <3>4. CASE r = e /\ x \in Submitted
      BY <3>1, <3>2, <3>4 DEF Ledger!InDayOf
    <3>5. CASE r \in Submitted /\ x = e
      BY <3>1, <3>2, <3>5 DEF Ledger!InDayOf
    <3> QED BY <3>1, <3>3, <3>4, <3>5
  <2>2. CASE UNCHANGED Submitted
    BY <2>2 DEF Ledger!OneOpeningPerDay
  <2> QED BY <2>1, <2>2 DEF Ledger!Next, Ledger!TimePasses, Ledger!ledgerVars
<1> QED BY <1>1, <1>2, PTL DEF Ledger!Spec

(* The rate limits hold of the decisions table: they hold of every ledger. *)
THEOREM GateRateLimits == Spec => []RateLimits
<1>1. Ledger!Spec => [](WellStamped /\ RateLimits)
  BY LedgerRateLimits, GateAssumption, ConfigAssumption DEF RateLimits
<1> QED BY <1>1, GateImplementsLedger, PTL DEF ImplementsLedger

(* No name is opened twice in a trading day.                               *)
THEOREM GateOneOpening == Spec => []OneOpeningPerDay
BY LedgerOneOpening, GateImplementsLedger, PTL DEF ImplementsLedger, OneOpeningPerDay

-----------------------------------------------------------------------------
(* The book.                                                               *)

\* The lemmas on exposures, of a review of nothing.
Risk == INSTANCE RiskReviewProofs
          WITH States <- {}, proposal <- None, state <- None, reviewed <- FALSE,
               failures <- {}

\* What the checks make of a book.
Exposed(b) == TotalExposure([value |-> b])

LEMMA RiskLemmas ==
    /\ Risk!ConfigAssumption /\ Risk!SentinelAssumption /\ Risk!ReviewAssumption
    /\ \A x : Risk!Magnitude(x) = Magnitude(x)
    /\ \A s : Risk!TotalExposure(s) = TotalExposure(s)
<1>1. Risk!ConfigAssumption
  BY ConfigAssumption DEF Risk!ConfigAssumption, Risk!IsFiniteSet, IsFiniteSet
<1>2. Risk!SentinelAssumption
  BY SentinelAssumption DEF Risk!SentinelAssumption
<1>3. Risk!ReviewAssumption
  BY GateAssumption DEF Risk!ReviewAssumption, Risk!Proposal, Proposal
<1>4. \A x : Risk!Magnitude(x) = Magnitude(x)
  BY DEF Risk!Magnitude, Magnitude
<1>5. \A s : Risk!TotalExposure(s) = TotalExposure(s)
  BY DEF Risk!TotalExposure, TotalExposure, Risk!MapThenSumSet, MapThenSumSet,
         Risk!MapThenFoldSet, MapThenFoldSet, Risk!Magnitude, Magnitude
<1> QED BY <1>1, <1>2, <1>3, <1>4, <1>5

LEMMA ExposedNat ==
    ASSUME NEW b \in [Symbols -> Int]
    PROVE  Exposed(b) \in Nat
<1> DEFINE s == [value |-> b]
<1>1. s.value \in [Symbols -> Int]
  OBVIOUS
<1> HIDE DEF s
<1>2. Risk!TotalExposure(s) \in Nat
  BY <1>1, RiskLemmas, Risk!ExposureNat
<1> QED BY <1>2, RiskLemmas DEF s, Exposed

LEMMA ExposedFlat == Exposed([y \in Symbols |-> 0]) = 0
<1> DEFINE s == [value |-> [y \in Symbols |-> 0]]
<1>1. \A z \in Symbols : s.value[z] = 0
  OBVIOUS
<1> HIDE DEF s
<1>2. Risk!TotalExposure(s) = 0
  BY <1>1, RiskLemmas, Risk!ExposureFlat
<1> QED BY <1>2, RiskLemmas DEF s, Exposed

\* Two books that differ in one name.
LEMMA ExposedMoves ==
    ASSUME NEW b \in [Symbols -> Int], NEW c \in [Symbols -> Int], NEW y \in Symbols,
           \A z \in Symbols : z # y => c[z] = b[z]
    PROVE  Exposed(c) = Exposed(b) - Magnitude(b[y]) + Magnitude(c[y])
<1> DEFINE s == [value |-> b]
           t == [value |-> c]
<1>1. /\ s.value = b /\ t.value = c
      /\ s.value \in [Symbols -> Int] /\ t.value \in [Symbols -> Int]
      /\ \A z \in Symbols : z # y => t.value[z] = s.value[z]
  OBVIOUS
<1> HIDE DEF s, t
<1>2. Risk!TotalExposure(t) =
        Risk!TotalExposure(s) - Risk!Magnitude(s.value[y]) + Risk!Magnitude(t.value[y])
  BY <1>1, RiskLemmas, Risk!ExposureMoves
<1>3. TotalExposure(t) = TotalExposure(s) - Magnitude(b[y]) + Magnitude(c[y])
  BY <1>1, <1>2, RiskLemmas
<1> QED BY <1>3 DEF s, t, Exposed

\* Numbers of opposite signs.
Opposed(x, y) == (x > 0 /\ y < 0) \/ (x < 0 /\ y > 0)

LEMMA OppositeSigns ==
    ASSUME NEW x \in Int, NEW y \in Int, Opposed(x, y)
    PROVE  x * y < 0
<1>1. \A m, n \in Int : m > 0 /\ n > 0 => m * n > 0
  BY SMT
<1>2. CASE x > 0 /\ y < 0
  <2>1. x * (-y) > 0
    BY <1>1, <1>2
  <2>2. x * (-y) = -(x * y) /\ x * y \in Int
    BY SMT
  <2> QED BY <2>1, <2>2
<1>3. CASE x < 0 /\ y > 0
  <2>1. (-x) * y > 0
    BY <1>1, <1>3
  <2>2. (-x) * y = -(x * y) /\ x * y \in Int
    BY SMT
  <2> QED BY <2>1, <2>2
<1> QED BY <1>2, <1>3 DEF Opposed

\* What an order of signed shares more may do to a book of q shares.
Fits(b, y, signed) ==
    /\ signed # 0
    /\ b[y] = 0 => Exposed(b) + Magnitude(b[y] + signed) <= MaxPositionNotional
    /\ b[y] # 0 => /\ Magnitude(b[y] + signed) <= Magnitude(b[y])
                   /\ Opposed(b[y], signed)
    /\ AllowShorts \/ b[y] + signed >= 0

\* An approved proposal fits the book it was judged against.
LEMMA ApprovedFits ==
    ASSUME NEW p \in Proposal, NEW s, s.qty \in [Symbols -> Int], s.value = s.qty,
           Evaluate(p, s) = {}
    PROVE  /\ Fits(s.qty, p.symbol, SignedQty(p))
           /\ s.qty[p.symbol] # 0 => Reduces(p, s)
<1> DEFINE b == s.qty
           q == b[p.symbol]
           signed == SignedQty(p)
<1>0. \A c \in CheckNames : ~Fails(p, s)[c]
  BY DEF Evaluate
<1>1. /\ ~ProposalSanity(p, s) /\ ~OneNameBudget(p, s)
      /\ ~NoPyramid(p, s) /\ ~NoUnintendedShort(p, s)
  <2>1. ~Fails(p, s)["proposal_sanity"] /\ ~Fails(p, s)["one_name_budget"]
        /\ ~Fails(p, s)["no_pyramid"] /\ ~Fails(p, s)["no_unintended_short"]
    BY <1>0 DEF CheckNames
  <2> QED BY <2>1 DEF Fails
<1>2. /\ p.qty \in Int /\ p.qty > 0 /\ p.price \in Int /\ p.price > 0
      /\ p.action \in {"buy", "sell"} /\ p.qty # NaN /\ p.price # NaN
  BY <1>1 DEF ProposalSanity, Priced, Proposal
<1>3. signed \in Int /\ signed # 0 /\ Magnitude(signed) = p.qty /\ p.symbol \in Symbols /\ q \in Int
  BY <1>2 DEF SignedQty, Magnitude, Proposal
<1>4. Resulting(p, s) = q + signed
  BY DEF Resulting
<1>5. AllowShorts \/ q + signed >= 0
  <2>1. AllowShorts \/ ~(Resulting(p, s) < 0)
    BY <1>1, <1>2 DEF NoUnintendedShort
  <2> QED BY <1>3, <1>4, <2>1
<1>6. ASSUME q = 0 PROVE Exposed(b) + Magnitude(q + signed) <= MaxPositionNotional
  <2>1. ~(TotalExposure(s) + Notional(p) > MaxPositionNotional)
    BY <1>1, <1>6 DEF OneNameBudget
  <2>2. TotalExposure(s) = Exposed(b)
    BY DEF Exposed, TotalExposure
  <2>3. Notional(p) \in Int /\ p.qty <= Notional(p)
    <3>1. Notional(p) = p.qty * p.price
      BY <1>2 DEF Notional, Magnitude
    <3>2. \A m, n \in Int : m > 0 /\ n > 0 => m <= m * n /\ m * n \in Int
      <4>1. \A m, n \in Int : m >= 0 /\ n >= 0 => m * n >= 0
        BY SMT
      <4> SUFFICES ASSUME NEW m \in Int, NEW n \in Int, m > 0, n > 0
                   PROVE  m <= m * n /\ m * n \in Int
        OBVIOUS
      <4>2. m * (n - 1) >= 0
        BY <4>1
      <4>3. m * (n - 1) = m * n - m /\ m * n \in Int
        BY SMT
      <4> QED BY <4>2, <4>3
    <3> QED BY <1>2, <3>1, <3>2
  <2>4. Exposed(b) \in Nat
    BY ExposedNat
  <2>5. Magnitude(q + signed) = p.qty
    BY <1>3, <1>6
  <2>6. MaxPositionNotional \in Nat
    BY ConfigAssumption
  <2> HIDE DEF b, q, signed
  <2> QED BY <1>2, <2>1, <2>2, <2>3, <2>4, <2>5, <2>6
<1>7. ASSUME q # 0 PROVE Magnitude(q + signed) <= Magnitude(q)
  <2>1. ~(Magnitude(Resulting(p, s)) > Magnitude(q))
    BY <1>1, <1>2, <1>7 DEF NoPyramid, IncreasesExistingPosition
  <2>2. Magnitude(q + signed) \in Int /\ Magnitude(q) \in Int
    BY <1>3 DEF Magnitude
  <2> QED BY <1>4, <2>1, <2>2
<1>8. ASSUME q # 0 PROVE Opposed(q, signed)
  <2> HIDE DEF q, signed
  <2> QED BY <1>3, <1>7, <1>8 DEF Magnitude, Opposed
<1>9. q # 0 => Reduces(p, s)
  BY <1>8 DEF Reduces, Opposed
<1> QED BY <1>3, <1>5, <1>6, <1>7, <1>8, <1>9 DEF Fits

\* An approved order in hand fits the book of its verdict.
FitsItsBook(d) ==
    /\ Fits(d.qty, d.p.symbol, SignedQty(d.p))
    /\ d.qty[d.p.symbol] # 0 => d.reduces

Judged == pc \in {"approved", "cleared"} => FitsItsBook(draft)

LEMMA JudgedStep ==
    ASSUME TypeOK, Judged, [Next]_vars
    PROVE  Judged'
<1>1. ASSUME NEW p \in Proposals, Propose(p) PROVE Judged'
  <2>1. PICK R \in Rendered, pl \in Reports :
          /\ draft' = [p |-> p, failed |-> Evaluate(p, LiveState(R, pl)),
                       qty |-> LiveState(R, pl).qty,
                       opening |-> LiveState(R, pl).qty[p.symbol] = 0,
                       reduces |-> Reduces(p, LiveState(R, pl))]
          /\ pc' = IF Evaluate(p, LiveState(R, pl)) # {} THEN "refused"
                   ELSE IF Reduces(p, LiveState(R, pl)) THEN "approved" ELSE "cleared"
    BY <1>1 DEF Propose
  <2> DEFINE s == LiveState(R, pl)
  <2>2. s.qty \in [Symbols -> Int] /\ s.value = s.qty
    <3>1. /\ s.qty = [y \in Symbols |-> IF y \in R THEN book[y] ELSE 0]
          /\ s.value = [y \in Symbols |-> IF y \in R THEN book[y] ELSE 0]
      BY DEF LiveState
    <3> QED BY <3>1 DEF TypeOK
  <2>3. p \in Proposal
    BY GateAssumption
  <2>4. draft'.p = p /\ draft'.qty = s.qty /\ draft'.reduces = Reduces(p, s)
    BY <2>1
  <2>5. pc' \in {"approved", "cleared"} => Evaluate(p, s) = {}
    BY <2>1
  <2> HIDE DEF s
  <2>6. Evaluate(p, s) = {} => /\ Fits(s.qty, p.symbol, SignedQty(p))
                               /\ s.qty[p.symbol] # 0 => Reduces(p, s)
    BY <2>2, <2>3, ApprovedFits
  <2>7. pc' \in {"approved", "cleared"} => FitsItsBook(draft')
    BY <2>4, <2>5, <2>6 DEF FitsItsBook
  <2> QED BY <2>7 DEF Judged
<1>2. CASE pc' \notin {"approved", "cleared"}
  BY <1>2 DEF Judged
<1>3. CASE UNCHANGED <<pc, draft>>
  BY <1>3 DEF Judged
<1>4. CASE CancelExits
  <2>1. pc = "approved" /\ pc' = "cleared" /\ draft' = draft
    BY <1>4 DEF CancelExits
  <2> QED BY <2>1 DEF Judged
<1>5. CASE Broker
  BY <1>3, <1>5 DEF Broker, Fill, ExitFires, Expire, processVars
<1>6. CASE Tick \/ ToggleKill \/ UNCHANGED vars
  BY <1>3, <1>6 DEF Tick, ToggleKill, vars, processVars
<1> QED BY <1>1, <1>2, <1>4, <1>5, <1>6
        DEF Next, Gate, StartCycle, EndCycle, RecordRiskEvents,
            RecordRejected, SubmitAccepted, SubmitBounced, SubmitRefused,
            SubmitReplyLost, RecordSubmitted, RecordUndelivered, Crash

-----------------------------------------------------------------------------
(* A book and the orders that may still change it.                         *)

Working(o) == o.status = "working"

\* A filled order whose exits still stand.
Guarded(o) == o.status = "filled" /\ o.legs # {}

\* The book after order o fills.
With(b, o) == [b EXCEPT ![o.symbol] = b[o.symbol] + o.signed]

Bounded(b) ==
    /\ Exposed(b) <= MaxPositionNotional
    /\ AllowShorts \/ \A y \in Symbols : b[y] >= 0

OneWorking(os) ==
    \A i, j \in DOMAIN os : Working(os[i]) /\ Working(os[j]) => i = j

\* What is working may fill, and carries exits only if it opens its position.
WorkingFits(b, os) ==
    \A i \in DOMAIN os : Working(os[i]) =>
        /\ Bounded(With(b, os[i]))
        /\ os[i].signed # 0
        /\ os[i].legs # {} => b[os[i].symbol] = 0
        /\ \A j \in DOMAIN os : Guarded(os[j]) => os[j].symbol # os[i].symbol

\* Exits stand for the whole of a position, once.
GuardedHeld(b, os) ==
    \A i \in DOMAIN os : Guarded(os[i]) =>
        /\ b[os[i].symbol] = os[i].signed
        /\ os[i].signed # 0
        /\ \A j \in DOMAIN os :
             Guarded(os[j]) /\ os[j].symbol = os[i].symbol => j = i

SoundBook(b, os) ==
    Bounded(b) /\ OneWorking(os) /\ WorkingFits(b, os) /\ GuardedHeld(b, os)

\* The strengthening of FreshBookWithinCaps that every step keeps.
FreshBook == ~unjudged => SoundBook(book, orders)

LEMMA WithTyped ==
    ASSUME NEW b \in [Symbols -> Int], NEW o \in OrderType
    PROVE  /\ With(b, o) \in [Symbols -> Int]
           /\ With(b, o)[o.symbol] = b[o.symbol] + o.signed
           /\ \A z \in Symbols : z # o.symbol => With(b, o)[z] = b[z]
BY DEF With, OrderType

LEMMA SequenceOfOrders ==
    ASSUME NEW os \in Seq(OrderType)
    PROVE  /\ Len(os) \in Nat
           /\ DOMAIN os = 1 .. Len(os)
           /\ \A i \in DOMAIN os : os[i] \in OrderType
BY LenProperties, ElementOfSeq

\* Orders that end, or lose legs, leave a sound book sound.
LEMMA FewerOrders ==
    ASSUME NEW b, NEW os, NEW ns, SoundBook(b, os), DOMAIN ns = DOMAIN os,
           \A i \in DOMAIN os :
              /\ ns[i].symbol = os[i].symbol /\ ns[i].signed = os[i].signed
              /\ ns[i].legs \subseteq os[i].legs
              /\ ns[i].status = os[i].status \/ ns[i].status = "dropped"
    PROVE  SoundBook(b, ns)
<1>1. \A i \in DOMAIN os : /\ Working(ns[i]) => Working(os[i])
                           /\ Guarded(ns[i]) => Guarded(os[i])
                           /\ With(b, ns[i]) = With(b, os[i])
  BY DEF Working, Guarded, With
<1>2. OneWorking(ns)
  BY <1>1 DEF SoundBook, OneWorking
<1>3. WorkingFits(b, ns)
  <2> SUFFICES ASSUME NEW i \in DOMAIN os, Working(ns[i])
               PROVE  /\ Bounded(With(b, ns[i]))
                      /\ ns[i].signed # 0
                      /\ ns[i].legs # {} => b[ns[i].symbol] = 0
                      /\ \A j \in DOMAIN ns : Guarded(ns[j]) => ns[j].symbol # ns[i].symbol
    BY DEF WorkingFits
  <2>1. /\ Bounded(With(b, os[i]))
        /\ os[i].signed # 0
        /\ os[i].legs # {} => b[os[i].symbol] = 0
        /\ \A j \in DOMAIN os : Guarded(os[j]) => os[j].symbol # os[i].symbol
    BY <1>1 DEF SoundBook, WorkingFits
  <2>2. ns[i].legs \subseteq os[i].legs
    OBVIOUS
  <2> QED BY <1>1, <2>1, <2>2
<1>4. GuardedHeld(b, ns)
  <2> SUFFICES ASSUME NEW i \in DOMAIN os, Guarded(ns[i])
               PROVE  /\ b[ns[i].symbol] = ns[i].signed
                      /\ ns[i].signed # 0
                      /\ \A j \in DOMAIN ns :
                           Guarded(ns[j]) /\ ns[j].symbol = ns[i].symbol => j = i
    BY DEF GuardedHeld
  <2>1. /\ b[os[i].symbol] = os[i].signed
        /\ os[i].signed # 0
        /\ \A j \in DOMAIN os :
             Guarded(os[j]) /\ os[j].symbol = os[i].symbol => j = i
    BY <1>1 DEF SoundBook, GuardedHeld
  <2> QED BY <1>1, <2>1
<1> QED BY <1>2, <1>3, <1>4 DEF SoundBook

\* An order that fits the book it meets, alone and with nothing in its way.
LEMMA OneMoreOrder ==
    ASSUME NEW b \in [Symbols -> Int], NEW os \in Seq(OrderType), NEW x \in OrderType,
           SoundBook(b, os), \A i \in DOMAIN os : ~Working(os[i]),
           Fits(b, x.symbol, x.signed), Working(x),
           x.legs # {} => b[x.symbol] = 0,
           \A i \in DOMAIN os : Guarded(os[i]) => os[i].symbol # x.symbol
    PROVE  SoundBook(b, Append(os, x))
<1> DEFINE ns == Append(os, x)
           n == Len(os)
<1>1. /\ n \in Nat /\ DOMAIN os = 1 .. n /\ DOMAIN ns = 1 .. n + 1
      /\ \A i \in 1 .. n : ns[i] = os[i]
      /\ ns[n + 1] = x
  BY SequenceOfOrders, AppendProperties, LenProperties
<1>2. ~Guarded(x) /\ x.symbol \in Symbols /\ x.signed \in Int
  BY DEF Working, Guarded, OrderType
<1> HIDE DEF ns, n
<1>3. \A i \in DOMAIN ns : i = n + 1 \/ i \in DOMAIN os
  BY <1>1
<1>4. Bounded(With(b, x))
  <2> DEFINE c == With(b, x)
             q == b[x.symbol]
  <2>1. /\ c \in [Symbols -> Int]
        /\ c[x.symbol] = q + x.signed
        /\ \A z \in Symbols : z # x.symbol => c[z] = b[z]
        /\ q \in Int
    BY <1>2, WithTyped
  <2> HIDE DEF c, q
  <2>2. Exposed(c) = Exposed(b) - Magnitude(q) + Magnitude(q + x.signed)
    BY <1>2, <2>1, ExposedMoves DEF q
  <2>3. /\ q = 0 => Exposed(b) + Magnitude(q + x.signed) <= MaxPositionNotional
        /\ q # 0 => Magnitude(q + x.signed) <= Magnitude(q)
        /\ AllowShorts \/ q + x.signed >= 0
    BY DEF Fits, q
  <2>4. Exposed(b) <= MaxPositionNotional /\ (AllowShorts \/ \A y \in Symbols : b[y] >= 0)
    BY DEF SoundBook, Bounded
  <2>5. Exposed(c) <= MaxPositionNotional
    <3>1. Exposed(b) \in Int /\ MaxPositionNotional \in Int
      BY ExposedNat, ConfigAssumption
    <3>2. /\ Magnitude(q) \in Int /\ Magnitude(q + x.signed) \in Int
          /\ q = 0 => Magnitude(q) = 0
      BY <1>2, <2>1 DEF Magnitude
    <3> QED BY <2>2, <2>3, <2>4, <3>1, <3>2
  <2>6. AllowShorts \/ \A y \in Symbols : c[y] >= 0
    BY <2>1, <2>3, <2>4
  <2> QED BY <2>5, <2>6 DEF Bounded, c
<1>5. OneWorking(ns)
  BY <1>1, <1>3 DEF OneWorking
<1>6. WorkingFits(b, ns)
  <2> SUFFICES ASSUME NEW i \in DOMAIN ns, Working(ns[i])
               PROVE  /\ Bounded(With(b, ns[i]))
                      /\ ns[i].signed # 0
                      /\ ns[i].legs # {} => b[ns[i].symbol] = 0
                      /\ \A j \in DOMAIN ns : Guarded(ns[j]) => ns[j].symbol # ns[i].symbol
    BY DEF WorkingFits
  <2>1. i = n + 1 /\ ns[i] = x
    BY <1>1, <1>3
  <2>2. x.signed # 0
    BY DEF Fits
  <2>3. \A j \in DOMAIN ns : Guarded(ns[j]) => ns[j].symbol # x.symbol
    BY <1>1, <1>2, <1>3
  <2> QED BY <1>4, <2>1, <2>2, <2>3
<1>7. GuardedHeld(b, ns)
  <2> SUFFICES ASSUME NEW i \in DOMAIN ns, Guarded(ns[i])
               PROVE  /\ b[ns[i].symbol] = ns[i].signed
                      /\ ns[i].signed # 0
                      /\ \A j \in DOMAIN ns :
                           Guarded(ns[j]) /\ ns[j].symbol = ns[i].symbol => j = i
    BY DEF GuardedHeld
  <2>1. i \in DOMAIN os /\ ns[i] = os[i]
    BY <1>1, <1>2, <1>3
  <2>2. /\ b[os[i].symbol] = os[i].signed
        /\ os[i].signed # 0
        /\ \A j \in DOMAIN os :
             Guarded(os[j]) /\ os[j].symbol = os[i].symbol => j = i
    BY <2>1 DEF SoundBook, GuardedHeld
  <2>3. \A j \in DOMAIN ns : Guarded(ns[j]) => j \in DOMAIN os /\ ns[j] = os[j]
    BY <1>1, <1>2, <1>3
  <2> QED BY <2>1, <2>2, <2>3
<1>8. SoundBook(b, ns)
  BY <1>5, <1>6, <1>7 DEF SoundBook
<1> QED BY <1>8 DEF ns

\* The one working order fills.
LEMMA OrderFills ==
    ASSUME NEW b \in [Symbols -> Int], NEW os \in Seq(OrderType), NEW ns,
           NEW i \in DOMAIN os, SoundBook(b, os), Working(os[i]),
           DOMAIN ns = DOMAIN os, \A j \in DOMAIN os : j # i => ns[j] = os[j],
           ns[i].symbol = os[i].symbol, ns[i].signed = os[i].signed,
           ns[i].legs = os[i].legs, ns[i].status = "filled"
    PROVE  SoundBook(With(b, os[i]), ns)
<1> DEFINE c == With(b, os[i])
           y == os[i].symbol
<1>1. /\ y \in Symbols /\ os[i].signed \in Int /\ b[y] \in Int
      /\ \A j \in DOMAIN os : os[j].symbol \in Symbols
  BY SequenceOfOrders DEF OrderType
<1>2. /\ c[y] = b[y] + os[i].signed
      /\ \A z \in Symbols : z # y => c[z] = b[z]
  BY <1>1, WithTyped, SequenceOfOrders
<1>3. /\ Bounded(c)
      /\ os[i].signed # 0
      /\ os[i].legs # {} => b[y] = 0
      /\ \A j \in DOMAIN os : Guarded(os[j]) => os[j].symbol # y
  BY DEF SoundBook, WorkingFits
<1> HIDE DEF c, y
<1>4. \A j \in DOMAIN ns : ~Working(ns[j])
  <2>1. ~Working(ns[i])
    BY DEF Working
  <2>2. \A j \in DOMAIN os : j # i => ~Working(os[j])
    BY DEF SoundBook, OneWorking
  <2> QED BY <2>1, <2>2
<1>5. OneWorking(ns) /\ WorkingFits(c, ns)
  BY <1>4 DEF OneWorking, WorkingFits
<1>6. GuardedHeld(c, ns)
  <2>1. \A j \in DOMAIN ns : j # i /\ Guarded(ns[j]) =>
          /\ j \in DOMAIN os /\ Guarded(os[j]) /\ ns[j] = os[j]
          /\ ns[j].symbol # y
    BY <1>3
  <2> SUFFICES ASSUME NEW k \in DOMAIN ns, Guarded(ns[k])
               PROVE  /\ c[ns[k].symbol] = ns[k].signed
                      /\ ns[k].signed # 0
                      /\ \A j \in DOMAIN ns :
                           Guarded(ns[j]) /\ ns[j].symbol = ns[k].symbol => j = k
    BY DEF GuardedHeld
  <2>2. CASE k = i
    <3>1. ns[k].symbol = y /\ ns[k].signed = os[i].signed /\ b[y] = 0
      BY <1>3, <2>2 DEF Guarded, y
    <3>2. c[y] = os[i].signed
      BY <1>1, <1>2, <3>1
    <3> QED BY <1>3, <2>1, <2>2, <3>1, <3>2
  <2>3. CASE k # i
    <3>1. Guarded(os[k]) /\ ns[k] = os[k] /\ os[k].symbol # y
      BY <2>1, <2>3
    <3>2. /\ b[os[k].symbol] = os[k].signed
          /\ os[k].signed # 0
          /\ \A j \in DOMAIN os :
               Guarded(os[j]) /\ os[j].symbol = os[k].symbol => j = k
      BY <3>1 DEF SoundBook, GuardedHeld
    <3>3. c[os[k].symbol] = b[os[k].symbol]
      BY <1>1, <1>2, <3>1
    <3>4. \A j \in DOMAIN ns : Guarded(ns[j]) /\ ns[j].symbol = os[k].symbol => j = k
      <4>1. ns[i].symbol # os[k].symbol
        BY <3>1 DEF y
      <4> QED BY <2>1, <3>2, <4>1
    <3> QED BY <3>1, <3>2, <3>3, <3>4
  <2> QED BY <2>2, <2>3
<1>7. SoundBook(c, ns)
  BY <1>3, <1>5, <1>6 DEF SoundBook
<1> QED BY <1>7 DEF c

\* Exits fire: they close the position they stand for.
LEMMA ExitsFire ==
    ASSUME NEW b \in [Symbols -> Int], NEW os \in Seq(OrderType), NEW ns,
           NEW i \in DOMAIN os, SoundBook(b, os), Guarded(os[i]),
           DOMAIN ns = DOMAIN os, \A j \in DOMAIN os : j # i => ns[j] = os[j],
           ns[i].status = "filled", ns[i].legs = {}, NEW c \in [Symbols -> Int],
           c[os[i].symbol] = b[os[i].symbol] - os[i].signed,
           \A z \in Symbols : z # os[i].symbol => c[z] = b[z]
    PROVE  SoundBook(c, ns)
<1> DEFINE y == os[i].symbol
<1>1. /\ y \in Symbols /\ os[i].signed \in Int /\ b[y] \in Int
      /\ \A j \in DOMAIN os : os[j] \in OrderType
      /\ \A j \in DOMAIN os : os[j].symbol \in Symbols
  BY SequenceOfOrders DEF OrderType
<1>2. /\ b[y] = os[i].signed
      /\ \A j \in DOMAIN os : Guarded(os[j]) /\ os[j].symbol = y => j = i
  BY DEF SoundBook, GuardedHeld
<1>3. c[y] = 0 /\ \A z \in Symbols : z # y => c[z] = b[z]
  BY <1>1, <1>2
<1> HIDE DEF y
\* To flatten a name leaves a book within the caps.
<1>4. ASSUME NEW d \in [Symbols -> Int], NEW e \in [Symbols -> Int], Bounded(d),
             e[y] = 0, \A z \in Symbols : z # y => e[z] = d[z]
      PROVE  Bounded(e)
  <2>1. Exposed(e) = Exposed(d) - Magnitude(d[y]) + Magnitude(e[y])
    BY <1>1, <1>4, ExposedMoves
  <2>2. Magnitude(e[y]) = 0 /\ Magnitude(d[y]) \in Nat
    BY <1>1, <1>4 DEF Magnitude
  <2>3. Exposed(d) \in Nat /\ Exposed(d) <= MaxPositionNotional /\ MaxPositionNotional \in Nat
    BY <1>4, ExposedNat, ConfigAssumption DEF Bounded
  <2>4. Exposed(e) <= MaxPositionNotional
    BY <2>1, <2>2, <2>3
  <2>5. ASSUME ~AllowShorts, NEW z \in Symbols PROVE e[z] >= 0
    <3>1. \A w \in Symbols : d[w] >= 0
      BY <1>4, <2>5 DEF Bounded
    <3>2. CASE z = y
      BY <1>4, <3>2
    <3>3. CASE z # y
      BY <1>4, <3>1, <3>3
    <3> QED BY <3>2, <3>3
  <2> QED BY <2>4, <2>5 DEF Bounded
<1>5. Bounded(c)
  <2>1. Bounded(b)
    BY DEF SoundBook
  <2> QED BY <1>3, <1>4, <2>1
<1>6. /\ \A j \in DOMAIN ns : Working(ns[j]) => j # i /\ j \in DOMAIN os /\ ns[j] = os[j]
      /\ \A j \in DOMAIN ns : Guarded(ns[j]) => j # i /\ j \in DOMAIN os /\ ns[j] = os[j]
  BY DEF Working, Guarded
<1>7. OneWorking(ns)
  BY <1>6 DEF SoundBook, OneWorking
<1>8. WorkingFits(c, ns)
  <2> SUFFICES ASSUME NEW k \in DOMAIN ns, Working(ns[k])
               PROVE  /\ Bounded(With(c, ns[k]))
                      /\ ns[k].signed # 0
                      /\ ns[k].legs # {} => c[ns[k].symbol] = 0
                      /\ \A j \in DOMAIN ns : Guarded(ns[j]) => ns[j].symbol # ns[k].symbol
    BY DEF WorkingFits
  <2> DEFINE o == os[k]
  <2>1. ns[k] = o /\ o \in OrderType /\ Working(o)
    BY <1>1, <1>6
  <2>2. /\ Bounded(With(b, o))
        /\ o.signed # 0
        /\ o.legs # {} => b[o.symbol] = 0
        /\ \A j \in DOMAIN os : Guarded(os[j]) => os[j].symbol # o.symbol
    BY <1>6, <2>1 DEF SoundBook, WorkingFits
  <2>3. o.symbol # y /\ o.symbol \in Symbols
    BY <2>2, <1>1, <1>6 DEF y
  <2> HIDE DEF o
  <2>4. c[o.symbol] = b[o.symbol]
    BY <1>3, <2>3
  <2>5. Bounded(With(c, o))
    <3>1. /\ With(b, o) \in [Symbols -> Int] /\ With(c, o) \in [Symbols -> Int]
          /\ With(b, o)[o.symbol] = b[o.symbol] + o.signed
          /\ With(c, o)[o.symbol] = c[o.symbol] + o.signed
          /\ \A z \in Symbols : z # o.symbol => /\ With(b, o)[z] = b[z]
                                                /\ With(c, o)[z] = c[z]
      BY <2>1, WithTyped
    <3>2. With(c, o)[y] = 0 /\ \A z \in Symbols : z # y => With(c, o)[z] = With(b, o)[z]
      BY <1>1, <1>3, <2>3, <2>4, <3>1
    <3>3. Bounded(With(b, o))
      BY <2>2
    <3> QED BY <1>4, <3>1, <3>2, <3>3
  <2>6. \A j \in DOMAIN ns : Guarded(ns[j]) => ns[j].symbol # o.symbol
    BY <1>6, <2>2
  <2> QED BY <2>1, <2>2, <2>4, <2>5, <2>6
<1>9. GuardedHeld(c, ns)
  <2> SUFFICES ASSUME NEW k \in DOMAIN ns, Guarded(ns[k])
               PROVE  /\ c[ns[k].symbol] = ns[k].signed
                      /\ ns[k].signed # 0
                      /\ \A j \in DOMAIN ns :
                           Guarded(ns[j]) /\ ns[j].symbol = ns[k].symbol => j = k
    BY DEF GuardedHeld
  <2>1. k # i /\ k \in DOMAIN os /\ ns[k] = os[k] /\ Guarded(os[k])
    BY <1>6
  <2>2. /\ b[os[k].symbol] = os[k].signed
        /\ os[k].signed # 0
        /\ \A j \in DOMAIN os :
             Guarded(os[j]) /\ os[j].symbol = os[k].symbol => j = k
    BY <2>1 DEF SoundBook, GuardedHeld
  <2>3. os[k].symbol # y
    BY <1>2, <2>1
  <2>4. c[os[k].symbol] = b[os[k].symbol]
    BY <1>1, <1>3, <2>1, <2>3
  <2> QED BY <1>6, <2>1, <2>2, <2>4
<1> QED BY <1>5, <1>7, <1>8, <1>9 DEF SoundBook

\* An order the broker accepts without the book becoming unjudged.
LEMMA FreshAccepted ==
    ASSUME IInv, Judged, FreshBook, pc = "cleared", BrokerAccepts, book' = book, ~unjudged'
    PROVE  SoundBook(book', orders')
<1> DEFINE p == draft.p
           x == [symbol |-> p.symbol, signed |-> SignedQty(p), status |-> "working",
                 legs |-> (IF p.stop = None THEN {} ELSE {"stop"})
                            \cup (IF p.target = None THEN {} ELSE {"target"}),
                 firedOn |-> None, session |-> Session(now)]
<1>1. /\ orders' = Append(orders, x) /\ ~Reserved(p)
      /\ unjudged' = \/ unjudged
                     \/ book # draft.qty
                     \/ \E i \in DOMAIN orders : orders[i].status = "working"
                     \/ draft.reduces /\ (p.stop # None \/ p.target # None)
  BY DEF BrokerAccepts
<1>2. /\ ~unjudged /\ book = draft.qty
      /\ \A i \in DOMAIN orders : ~Working(orders[i])
      /\ ~(draft.reduces /\ (p.stop # None \/ p.target # None))
  BY <1>1 DEF Working
<1>3. SoundBook(book, orders)
  BY <1>2 DEF FreshBook
<1>4. p \in Proposal /\ p.qty \in Int
  BY GateAssumption DEF IInv, InHand, Approving
<1>5. p.symbol \in Symbols /\ SignedQty(p) \in Int
  BY <1>4 DEF Proposal, SignedQty
<1>6. Session(now) \in Nat
  <2>1. now \in Nat
    BY GateAssumption DEF IInv, TypeOK
  <2> QED BY <2>1, DayFacts DEF Session
<1>7. x \in OrderType
  BY <1>5, <1>6 DEF OrderType
<1>8. Fits(book, p.symbol, SignedQty(p)) /\ (book[p.symbol] # 0 => draft.reduces)
  BY <1>2 DEF Judged, FitsItsBook
<1>9. /\ x.symbol = p.symbol /\ x.signed = SignedQty(p) /\ Working(x)
      /\ p.stop = None /\ p.target = None => x.legs = {}
  BY DEF Working
<1>10. book \in [Symbols -> Int] /\ orders \in Seq(OrderType)
  BY DEF IInv, TypeOK
<1> HIDE DEF p, x
<1>11. x.legs # {} => book[x.symbol] = 0
  BY <1>2, <1>8, <1>9
<1>12. ASSUME NEW i \in DOMAIN orders, Guarded(orders[i]) PROVE orders[i].symbol # x.symbol
  <2> SUFFICES ASSUME orders[i].symbol = p.symbol PROVE FALSE
    BY <1>9
  <2>1. book[p.symbol] = orders[i].signed /\ orders[i].signed # 0
    BY <1>3, <1>12 DEF SoundBook, GuardedHeld
  <2>2. Opposed(book[p.symbol], SignedQty(p))
    BY <1>8, <2>1 DEF Fits
  <2>3. book[p.symbol] * SignedQty(p) < 0
    BY <1>5, <1>10, <2>2, OppositeSigns
  <2> QED BY <1>1, <1>12, <2>3 DEF Reserved, Guarded
<1>13. Fits(book, x.symbol, x.signed)
  BY <1>8, <1>9
<1>14. SoundBook(book, Append(orders, x))
  BY <1>2, <1>3, <1>7, <1>9, <1>10, <1>11, <1>12, <1>13, OneMoreOrder
<1> QED BY <1>1, <1>14 DEF x, p

LEMMA FreshStep ==
    ASSUME IInv, Judged, FreshBook, [Next]_vars
    PROVE  FreshBook'
<1> SUFFICES ASSUME ~unjudged' PROVE SoundBook(book', orders')
  BY DEF FreshBook
<1>0. book \in [Symbols -> Int] /\ orders \in Seq(OrderType)
  BY DEF IInv, TypeOK
<1>1. CASE UNCHANGED <<book, orders, unjudged>>
  BY <1>1 DEF FreshBook
<1>2. CASE CancelExits
  <2>1. PICK C : orders' = Canceled(C)
    BY <1>2 DEF CancelExits
  <2>2. book' = book /\ unjudged' = unjudged
    BY <1>2 DEF CancelExits, historyVars
  <2>3. SoundBook(book, orders)
    BY <2>2 DEF FreshBook
  <2>4. DOMAIN orders' = DOMAIN orders
    BY <2>1 DEF Canceled
  <2>5. ASSUME NEW i \in DOMAIN orders
        PROVE  /\ orders'[i].symbol = orders[i].symbol
               /\ orders'[i].signed = orders[i].signed
               /\ orders'[i].legs \subseteq orders[i].legs
               /\ orders'[i].status = orders[i].status \/ orders'[i].status = "dropped"
    <3>1. orders[i] \in OrderType
      BY <1>0, OrdersAreFunction
    <3>2. CASE <<i, "entry">> \in C
      <4>1. orders'[i] = [orders[i] EXCEPT !.status = "dropped", !.legs = {}]
        BY <2>1, <3>2 DEF Canceled
      <4> QED BY <3>1, <4>1 DEF OrderType
    <3>3. CASE <<i, "entry">> \notin C
      <4>1. orders'[i] = [orders[i] EXCEPT !.legs = {leg \in orders[i].legs : <<i, leg>> \notin C}]
        BY <2>1, <3>3 DEF Canceled
      <4> QED BY <3>1, <4>1 DEF OrderType
    <3> QED BY <3>2, <3>3
  <2>6. SoundBook(book, orders')
    BY <2>3, <2>4, <2>5, FewerOrders
  <2> QED BY <2>2, <2>6
<1>3. CASE SubmitAccepted \/ SubmitReplyLost
  BY <1>3, FreshAccepted DEF SubmitAccepted, SubmitReplyLost
<1>4. CASE Broker
  <2>1. PICK i \in DOMAIN orders : Fill(i) \/ ExitFires(i) \/ Expire(i)
    BY <1>4 DEF Broker
  <2>2. orders[i] \in OrderType
    BY <1>0, OrdersAreFunction
  <2>3. SoundBook(book, orders)
    <3>1. unjudged' = unjudged
      BY <2>1 DEF Fill, ExitFires, Expire, historyVars
    <3> QED BY <3>1 DEF FreshBook
  <2>4. CASE Fill(i)
    <3>1. orders' = [orders EXCEPT ![i].status = "filled"]
      BY <2>4 DEF Fill
    <3>2. /\ DOMAIN orders' = DOMAIN orders
          /\ \A j \in DOMAIN orders : j # i => orders'[j] = orders[j]
          /\ orders'[i] = [orders[i] EXCEPT !.status = "filled"]
      BY <3>1
    <3>3. /\ orders'[i].symbol = orders[i].symbol
          /\ orders'[i].signed = orders[i].signed
          /\ orders'[i].legs = orders[i].legs
          /\ orders'[i].status = "filled"
      BY <2>2, <3>2 DEF OrderType
    <3>4. book' = With(book, orders[i])
      BY <2>4 DEF Fill, With
    <3>5. Working(orders[i])
      BY <2>4 DEF Fill, Working
    <3>6. SoundBook(With(book, orders[i]), orders')
      BY <1>0, <2>3, <3>2, <3>3, <3>5, OrderFills
    <3> QED BY <3>4, <3>6
  <2>5. CASE ExitFires(i)
    <3>1. orders' = [orders EXCEPT ![i].legs = {}, ![i].firedOn = Day(now)]
      BY <2>5 DEF ExitFires
    <3>2. /\ DOMAIN orders' = DOMAIN orders
          /\ \A j \in DOMAIN orders : j # i => orders'[j] = orders[j]
          /\ orders'[i] = [orders[i] EXCEPT !.legs = {}, !.firedOn = Day(now)]
      BY <3>1
    <3>3. Guarded(orders[i]) /\ orders[i].status = "filled"
      BY <2>5 DEF ExitFires, Guarded
    <3>4. orders'[i].status = "filled" /\ orders'[i].legs = {}
      BY <2>2, <3>2, <3>3 DEF OrderType
    <3>5. book' = [book EXCEPT ![orders[i].symbol] = book[orders[i].symbol] - orders[i].signed]
      BY <2>5 DEF ExitFires
    <3>6. orders[i].symbol \in Symbols /\ orders[i].signed \in Int
      BY <2>2 DEF OrderType
    <3>7. /\ book' \in [Symbols -> Int]
          /\ book'[orders[i].symbol] = book[orders[i].symbol] - orders[i].signed
          /\ \A z \in Symbols : z # orders[i].symbol => book'[z] = book[z]
      BY <1>0, <3>5, <3>6
    <3>8. DOMAIN orders' = DOMAIN orders /\ \A j \in DOMAIN orders : j # i => orders'[j] = orders[j]
      BY <3>2
    <3>9. book' \in [Symbols -> Int] /\ SoundBook(book, orders) /\ Guarded(orders[i])
      BY <2>3, <3>3, <3>7
    <3> QED BY <1>0, <3>4, <3>7, <3>8, <3>9, ExitsFire
  <2>6. CASE Expire(i)
    <3>1. /\ orders' = [orders EXCEPT ![i].legs = {},
                          ![i].status = IF @ = "working" THEN "dropped" ELSE @]
          /\ book' = book
      BY <2>6 DEF Expire
    <3>2. /\ DOMAIN orders' = DOMAIN orders
          /\ \A j \in DOMAIN orders : j # i => orders'[j] = orders[j]
          /\ orders'[i] = [orders[i] EXCEPT !.legs = {},
                             !.status = IF @ = "working" THEN "dropped" ELSE @]
      BY <3>1
    <3>3. /\ orders'[i].symbol = orders[i].symbol
          /\ orders'[i].signed = orders[i].signed
          /\ orders'[i].legs \subseteq orders[i].legs
          /\ orders'[i].status = orders[i].status \/ orders'[i].status = "dropped"
      BY <2>2, <3>2 DEF OrderType
    <3>4. ASSUME NEW j \in DOMAIN orders
          PROVE  /\ orders'[j].symbol = orders[j].symbol
                 /\ orders'[j].signed = orders[j].signed
                 /\ orders'[j].legs \subseteq orders[j].legs
                 /\ orders'[j].status = orders[j].status \/ orders'[j].status = "dropped"
      <4>1. CASE j = i
        BY <3>3, <4>1
      <4>2. CASE j # i
        BY <3>2, <4>2
      <4> QED BY <4>1, <4>2
    <3>5. SoundBook(book, orders')
      BY <2>3, <3>2, <3>4, FewerOrders
    <3> QED BY <3>1, <3>5
  <2> QED BY <2>1, <2>4, <2>5, <2>6
<1>5. CASE Crash \/ Tick \/ ToggleKill \/ UNCHANGED vars
  BY <1>1, <1>5 DEF Crash, Tick, ToggleKill, vars, brokerVars, historyVars
<1>6. ASSUME NEW p \in Proposals, Propose(p) PROVE UNCHANGED <<book, orders, unjudged>>
  BY <1>6 DEF Propose, brokerVars, historyVars
<1>7. CASE \/ StartCycle \/ EndCycle \/ RecordRiskEvents \/ RecordRejected \/ SubmitBounced
           \/ SubmitRefused \/ RecordSubmitted \/ RecordUndelivered
  BY <1>1, <1>7 DEF StartCycle, EndCycle, RecordRiskEvents, RecordRejected, SubmitBounced,
       SubmitRefused, RecordSubmitted, RecordUndelivered, brokerVars, historyVars
<1> QED BY <1>1, <1>2, <1>3, <1>4, <1>5, <1>6, <1>7 DEF Next, Gate

LEMMA FreshInit == Init => FreshBook /\ Judged
<1> SUFFICES ASSUME Init PROVE FreshBook /\ Judged
  OBVIOUS
<1>1. Judged
  BY DEF Init, Judged
<1>2. book = [y \in Symbols |-> 0] /\ DOMAIN orders = {}
  BY DEF Init
<1>3. Bounded(book)
  BY <1>2, ExposedFlat, ConfigAssumption DEF Bounded
<1>4. OneWorking(orders) /\ WorkingFits(book, orders) /\ GuardedHeld(book, orders)
  BY <1>2 DEF OneWorking, WorkingFits, GuardedHeld
<1> QED BY <1>1, <1>3, <1>4 DEF FreshBook, SoundBook

(* As long as every accepted order was judged against the book it met, and *)
(* no order that reduces a position carries exits, the broker's book never *)
(* passes max_position_notional and holds no short that is not allowed.    *)
THEOREM FreshBooksFit == Spec => []FreshBookWithinCaps
<1> DEFINE Sound == IInv /\ Judged /\ FreshBook
<1>1. Init => Sound
  BY InvariantInit, FreshInit
<1>2. Sound /\ [Next]_vars => Sound'
  <2>1. IInv /\ [Next]_vars => IInv'
    BY TypeStep, StampsStep, InHandStep, RoomLeftStep, HaltingStep, KillingStep DEF IInv
  <2>2. Sound /\ [Next]_vars => Judged'
    BY JudgedStep DEF IInv
  <2>3. Sound /\ [Next]_vars => FreshBook'
    BY FreshStep
  <2> QED BY <2>1, <2>2, <2>3
<1>3. Sound => FreshBookWithinCaps
  BY DEF FreshBook, SoundBook, Bounded, FreshBookWithinCaps, Exposure, Exposed
<1> QED BY <1>1, <1>2, <1>3, PTL DEF Spec
=============================================================================
