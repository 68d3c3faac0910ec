----------------------------- MODULE Reconcile ------------------------------
(***************************************************************************)
(* execution.reconcile_fills and record_bracket_exits: the fills of the    *)
(* submitted orders, and of their stop and take-profit legs, read back     *)
(* from the broker into the decisions table while orders go on filling.    *)
(* It is called at the top of every cycle, by `trader reconcile` and by    *)
(* the dashboard's POST /api/reconcile; Reconcilers are the processes that *)
(* call it.  One of them runs:                                             *)
(*                                                                         *)
(*   idle -Begin-> fills -StartExits-> exits -Finish-> idle                *)
(*                                                                         *)
(* taking one row at a time in "fills", one parent at a time in "exits",   *)
(* and passing through "exit_row" between the two writes of an exit.       *)
(*                                                                         *)
(* One symbol, held long or short; shares are whole.  Every statement      *)
(* commits by itself.  A terminal answer of the broker never changes, so   *)
(* reading an order and recording that answer are one step.                *)
(***************************************************************************)
EXTENDS Integers, Sequences, FiniteSetsExt, RoundTrips

CONSTANTS
    Reconcilers,  \* processes that call reconcile_fills
    Limit,        \* its limit argument: 50 in a cycle, 200 elsewhere
    AllowShorts,  \* [session] allow_shorts of risk.toml, which ships it true
    LegSets,      \* the exits an order may carry: subsets of LegNames
    MaxQty,       \* bound: shares of one order
    MaxOrders,    \* bound: orders ever placed
    MaxMishaps    \* bound: reads that fail and reconcilers that die half way

LegNames == {"stop", "take_profit"}

ASSUME ReconcileAssumption ==
    /\ Limit \in Nat \ {0}
    /\ AllowShorts \in BOOLEAN
    /\ LegSets \subseteq SUBSET LegNames
    /\ MaxQty \in Nat
    /\ MaxOrders \in Nat
    /\ MaxMishaps \in Nat

VARIABLES
    orders,           \* the broker's orders, legs nested in their parent
    decisions,        \* rows of the decisions table that carry a broker id
    pc,               \* where each reconciler is
    todo,             \* rows it has yet to visit in this pass
    recordedParents,  \* parents with a recorded exit, as it read them
    known,            \* broker ids with a row, as it read them
    mishaps           \* failed reads and deaths so far

vars == <<orders, decisions, pc, todo, recordedParents, known, mishaps>>

local == <<pc, todo, recordedParents, known>>

-----------------------------------------------------------------------------
(* The broker: market orders with the exits they carry, in the order in    *)
(* which they were sent.  Days pass unseen: the name may be opened again.  *)

Id(n, part) == [order |-> n, part |-> part]

Shares(legs) == SumFunction([l \in LegNames |-> legs[l].filled])

SignedQty(action, qty) == IF action = "buy" THEN qty ELSE -qty

\* What order n left in the account: its own fill less its exits' fills.
Signed(n) == SignedQty(orders[n].action, orders[n].filled - Shares(orders[n].legs))

\* Shares held, less than none when short.
Position == SumFunction([n \in DOMAIN orders |-> Signed(n)])

CancelLeg(leg) ==
    IF leg.status = "held" THEN [leg EXCEPT !.status = "canceled"] ELSE leg

CancelLegs(order) ==
    [order EXCEPT !.legs = [l \in LegNames |-> CancelLeg(order.legs[l])]]

NewOrder(action, qty, legs) ==
    [action |-> action, qty |-> qty, status |-> "new", filled |-> 0,
     legs |-> [l \in LegNames |->
                  [status |-> IF l \in legs THEN "held" ELSE "none", filled |-> 0]]]

\* An order that is no longer working, nor are its exits.
Cancel(order) ==
    CancelLegs([order EXCEPT !.status = IF @ = "new" THEN "canceled" ELSE @])

\* cancel_open_orders: one call for each order of the name, until one fails;
\* gone are those the broker took off.
CancelOrders(gone) ==
    [n \in DOMAIN orders |-> IF n \in gone THEN Cancel(orders[n]) ELSE orders[n]]

Abs(x) == IF x < 0 THEN -x ELSE x

\* checks.no_unintended_short: what works is not held yet.
NoUnintendedShort(signed) == AllowShorts \/ Position + signed >= 0

\* checks.no_pyramid: what is on may be reduced, closed or reversed.
NoPyramid(signed) == Position # 0 => Abs(Position + signed) <= Abs(Position)

\* execution._reduces_position
ReducesPosition(signed) == Position * signed < 0

\* execution.place_order of an order the checks let through.  If it reduces
\* the position, the name's other orders are canceled first, all or some; it is
\* sent all the same.  The broker accepts it, and it gets its row, or refuses it.
PlaceOrder(action, qty, legs, gone) ==
    /\ Len(orders) < MaxOrders
    /\ NoUnintendedShort(SignedQty(action, qty))
    /\ NoPyramid(SignedQty(action, qty))
    /\ gone # {} => ReducesPosition(SignedQty(action, qty))
    /\ \/ /\ orders' = Append(CancelOrders(gone), NewOrder(action, qty, legs))
          /\ decisions' = Append(decisions,
                 [id |-> Id(Len(orders) + 1, "parent"), action |-> action, qty |-> qty,
                  status |-> "null", filled |-> 0])
       \/ /\ orders' = CancelOrders(gone)
          /\ UNCHANGED decisions
    /\ UNCHANGED <<local, mishaps>>

\* A share of order n trades; the last one ends it.
Fill(n) ==
    /\ n \in DOMAIN orders
    /\ orders[n].status = "new"
    /\ LET filled == orders[n].filled + 1
       IN orders' = [orders EXCEPT ![n] = [@ EXCEPT
              !.filled = filled,
              !.status = IF filled = orders[n].qty THEN "filled" ELSE "new"]]
    /\ UNCHANGED <<decisions, local, mishaps>>

\* Order n is canceled, expired or rejected with whatever it had filled, and
\* takes its legs along.
Expire(n) ==
    /\ n \in DOMAIN orders
    /\ orders[n].status = "new"
    /\ orders' = [orders EXCEPT ![n] = Cancel(@)]
    /\ UNCHANGED <<decisions, local, mishaps>>

\* A share of a leg trades; the leg that takes the last one ends filled and
\* cancels the other.
FillLeg(n, l) ==
    /\ n \in DOMAIN orders
    /\ orders[n].status = "filled"
    /\ orders[n].legs[l].status = "held"
    /\ LET legs == orders[n].legs
           filled == legs[l].filled + 1
           last == Shares(legs) + 1 = orders[n].filled
           others == [m \in LegNames |-> IF last THEN CancelLeg(legs[m]) ELSE legs[m]]
           traded == [status |-> IF last THEN "filled" ELSE "held", filled |-> filled]
       IN orders' = [orders EXCEPT ![n] = [@ EXCEPT !.legs = [others EXCEPT ![l] = traded]]]
    /\ UNCHANGED <<decisions, local, mishaps>>

\* The session ends for the legs of order n.
ExpireLegs(n) ==
    /\ n \in DOMAIN orders
    /\ orders[n].status = "filled"
    /\ CancelLegs(orders[n]) # orders[n]
    /\ orders' = [orders EXCEPT ![n] = CancelLegs(@)]
    /\ UNCHANGED <<decisions, local, mishaps>>

-----------------------------------------------------------------------------
(* The reads of a reconciler.                                              *)

\* broker.get_order: status and filled_qty of a parent or of a leg.
ReadOrder(id) ==
    IF id.part = "parent" THEN orders[id.order] ELSE orders[id.order].legs[id.part]

\* Mutant: an order that has begun to fill is taken for done.
PartialIsTerminal(fill) == fill.status \in {"filled", "canceled"} \/ fill.filled > 0

\* OrderFill.is_terminal
IsTerminal(fill) == fill.status \in {"filled", "canceled"}

IsExit(row) == row.id.part # "parent"

\* ORDER BY id DESC LIMIT.
Newest(rows) ==
    {i \in rows : Cardinality({j \in rows : j > i}) < Limit}

\* Row i is still to be read back.
IsNull(i) == i \in DOMAIN decisions /\ decisions[i].status = "null"

NullRows == {i \in DOMAIN decisions : decisions[i].status = "null"}

\* Mutant: only the agent's own orders are read back.
UnreconciledOwn == Newest({i \in NullRows : ~IsExit(decisions[i])})

\* db.unreconciled_orders
Unreconciled == Newest(NullRows)

\* Mutant: oldest first.
ParentsOldest ==
    LET filled == {i \in DOMAIN decisions :
                      decisions[i].status = "filled" /\ ~IsExit(decisions[i])}
    IN {i \in filled : Cardinality({j \in filled : j < i}) < Limit}

\* The parents whose legs are looked at, exits of their own excluded.
Parents ==
    Newest({i \in DOMAIN decisions : decisions[i].status = "filled" /\ ~IsExit(decisions[i])})

\* Mutant: every filled leg, every time.
NewExitsAgain(r, n) ==
    {l \in LegNames : orders[n].legs[l].status = "filled"}

\* The legs of parent n that filled and that reconciler r knows no row of.
NewExits(r, n) ==
    {l \in LegNames :
        /\ orders[n].legs[l].status = "filled"
        /\ n \notin recordedParents[r]
        /\ Id(n, l) \notin known[r]}

\* Mutant: an exit is a sale.
ExitSells(action) == "sell"

\* execution._exit_action: the side of the leg, opposite to its order's.
ExitAction(action) == IF action = "buy" THEN "sell" ELSE "buy"

\* db.record_fill
RecordFill(i) ==
    LET fill == ReadOrder(decisions[i].id)
    IN decisions' = [decisions EXCEPT ![i].status = fill.status, ![i].filled = fill.filled]

\* Row i is the one a reconciler is at: the newest it has not visited.
At(r, i) == i \in todo[r] /\ \A j \in todo[r] : j <= i

Leave(r, i) == todo' = [todo EXCEPT ![r] = @ \ {i}]

-----------------------------------------------------------------------------
Init ==
    /\ orders = <<>>
    /\ decisions = <<>>
    /\ pc = [r \in Reconcilers |-> "idle"]
    /\ todo = [r \in Reconcilers |-> {}]
    /\ recordedParents = [r \in Reconcilers |-> {}]
    /\ known = [r \in Reconcilers |-> {}]
    /\ mishaps = 0

Begin(r) ==
    /\ pc[r] = "idle"
    /\ pc' = [pc EXCEPT ![r] = "fills"]
    /\ todo' = [todo EXCEPT ![r] = Unreconciled]
    /\ UNCHANGED <<orders, decisions, recordedParents, known, mishaps>>

\* The order is terminal: its fill is recorded.
ReconcileFill(r, i) ==
    /\ pc[r] = "fills"
    /\ At(r, i)
    /\ IsTerminal(ReadOrder(decisions[i].id))
    /\ RecordFill(i)
    /\ Leave(r, i)
    /\ UNCHANGED <<orders, pc, recordedParents, known, mishaps>>

\* The order is still working: its row stays NULL for a later run.
StillOpen(r, i) ==
    /\ pc[r] = "fills"
    /\ At(r, i)
    /\ ~IsTerminal(ReadOrder(decisions[i].id))
    /\ Leave(r, i)
    /\ UNCHANGED <<orders, decisions, pc, recordedParents, known, mishaps>>

\* get_order raised BrokerError, in either pass: on to the next row.
ReadFails(r, i) ==
    /\ pc[r] \in {"fills", "exits"}
    /\ At(r, i)
    /\ pc[r] = "exits" => decisions[i].id.order \notin recordedParents[r]
    /\ mishaps < MaxMishaps
    /\ mishaps' = mishaps + 1
    /\ Leave(r, i)
    /\ UNCHANGED <<orders, decisions, pc, recordedParents, known>>

\* record_bracket_exits reads who has an exit, which ids have a row, and the
\* parents to visit.
StartExits(r) ==
    /\ pc[r] = "fills"
    /\ todo[r] = {}
    /\ pc' = [pc EXCEPT ![r] = "exits"]
    /\ LET rows == {decisions[i] : i \in DOMAIN decisions}
       IN /\ recordedParents' =
                [recordedParents EXCEPT ![r] = {row.id.order : row \in {x \in rows : IsExit(x)}}]
          /\ known' = [known EXCEPT ![r] = {row.id : row \in rows}]
    /\ todo' = [todo EXCEPT ![r] = Parents]
    /\ UNCHANGED <<orders, decisions, mishaps>>

\* The parent has no exit to record.
NoNewExit(r, i) ==
    /\ pc[r] = "exits"
    /\ At(r, i)
    /\ NewExits(r, decisions[i].id.order) = {}
    /\ Leave(r, i)
    /\ UNCHANGED <<orders, decisions, pc, recordedParents, known, mishaps>>

\* record_decision for a filled leg, first of its two writes.
RecordExit(r, i) ==
    /\ pc[r] = "exits"
    /\ At(r, i)
    /\ LET n == decisions[i].id.order
       IN \E l \in NewExits(r, n) :
            /\ decisions' = Append(decisions,
                   [id |-> Id(n, l), action |-> ExitAction(orders[n].action),
                    qty |-> orders[n].legs[l].filled, status |-> "null", filled |-> 0])
            /\ known' = [known EXCEPT ![r] = @ \cup {Id(n, l)}]
            /\ recordedParents' = [recordedParents EXCEPT ![r] = @ \cup {n}]
    /\ pc' = [pc EXCEPT ![r] = "exit_row"]
    /\ todo' = [todo EXCEPT ![r] = (@ \ {i}) \cup {Len(decisions) + 1}]
    /\ UNCHANGED <<orders, mishaps>>

\* record_fill for the leg, second of its two writes, on the row it inserted.
RecordExitFill(r, i) ==
    /\ pc[r] = "exit_row"
    /\ At(r, i)
    /\ RecordFill(i)
    /\ Leave(r, i)
    /\ pc' = [pc EXCEPT ![r] = "exits"]
    /\ UNCHANGED <<orders, recordedParents, known, mishaps>>

Finish(r) ==
    /\ pc[r] = "exits"
    /\ todo[r] = {}
    /\ pc' = [pc EXCEPT ![r] = "idle"]
    /\ recordedParents' = [recordedParents EXCEPT ![r] = {}]
    /\ known' = [known EXCEPT ![r] = {}]
    /\ UNCHANGED <<orders, decisions, todo, mishaps>>

\* The process dies, between any two of its writes.
Crash(r) ==
    /\ pc[r] # "idle"
    /\ mishaps < MaxMishaps
    /\ mishaps' = mishaps + 1
    /\ pc' = [pc EXCEPT ![r] = "idle"]
    /\ todo' = [todo EXCEPT ![r] = {}]
    /\ recordedParents' = [recordedParents EXCEPT ![r] = {}]
    /\ known' = [known EXCEPT ![r] = {}]
    /\ UNCHANGED <<orders, decisions>>

Visit(r, i) ==
    \/ ReconcileFill(r, i) \/ StillOpen(r, i) \/ ReadFails(r, i)
    \/ NoNewExit(r, i) \/ RecordExit(r, i) \/ RecordExitFill(r, i)

Run(r) ==
    \/ Begin(r) \/ StartExits(r) \/ Finish(r)
    \/ \E i \in todo[r] : Visit(r, i)

Trade ==
    \/ \E action \in {"buy", "sell"}, qty \in 1..MaxQty, legs \in LegSets,
          gone \in SUBSET DOMAIN orders : PlaceOrder(action, qty, legs, gone)
    \/ \E n \in DOMAIN orders : Fill(n) \/ Expire(n) \/ ExpireLegs(n)
    \/ \E n \in DOMAIN orders, l \in LegNames : FillLeg(n, l)

Next == Trade \/ \E r \in Reconcilers : Run(r) \/ Crash(r)

\* The loop goes on running cycles, and a DAY order ends with its session.
Fairness ==
    /\ \A r \in Reconcilers : WF_vars(Run(r))
    /\ \A n \in 1..MaxOrders : WF_vars(Fill(n) \/ Expire(n))

Spec == Init /\ [][Next]_vars /\ Fairness

-----------------------------------------------------------------------------
(* evaluate's view of the rows.                                            *)

\* The row with the quantity evaluate gives it.
FillOf(i) ==
    [row |-> i, action |-> decisions[i].action, status |-> decisions[i].status,
     qty |-> IF decisions[i].filled > 0 THEN decisions[i].filled ELSE decisions[i].qty]

AddUsable(usable, fill) ==
    IF fill.status \in {"filled", "null"} THEN Append(usable, fill) ELSE usable

\* evaluate's `usable` rows, oldest first.
Usable == FoldLeft(AddUsable, <<>>, [i \in DOMAIN decisions |-> FillOf(i)])

-----------------------------------------------------------------------------
Legs == [LegNames -> [status : {"none", "held", "filled", "canceled"}, filled : Nat]]

Orders == [action : {"buy", "sell"}, qty : Nat, status : {"new", "filled", "canceled"},
           filled : Nat, legs : Legs]

Ids == [order : Nat, part : LegNames \cup {"parent"}]

Rows == [id : Ids, action : {"buy", "sell"}, qty : Nat,
         status : {"null", "filled", "canceled"}, filled : Nat]

\* Every variable holds what the code may store in it.
TypeOK ==
    /\ orders \in Seq(Orders)
    /\ decisions \in Seq(Rows)
    /\ pc \in [Reconcilers -> {"idle", "fills", "exits", "exit_row"}]
    /\ todo \in [Reconcilers -> SUBSET DOMAIN decisions]
    /\ recordedParents \in [Reconcilers -> SUBSET Nat]
    /\ known \in [Reconcilers -> SUBSET Ids]
    /\ mishaps \in 0..MaxMishaps

\* What a row records of its order is the broker's last word: an order still
\* working is never recorded, whichever run reads it (execution.py:136).
RecordedIsFinal ==
    \A i \in DOMAIN decisions :
        decisions[i].status # "null" =>
            LET fill == ReadOrder(decisions[i].id)
            IN /\ IsTerminal(fill)
               /\ decisions[i].status = fill.status
               /\ decisions[i].filled = fill.filled

\* "One decision per filled child" (execution.py:167): no broker order has two
\* rows, through failed reads and crashes between the two writes of an exit.
OneRowPerOrder ==
    \A i, j \in DOMAIN decisions : decisions[i].id = decisions[j].id => i = j

Recorded == {decisions[i].id : i \in DOMAIN decisions}

\* The exits that filled at the broker.
FilledLegs ==
    UNION {{Id(n, l) : l \in {m \in LegNames : orders[n].legs[m].status = "filled"}}
               : n \in DOMAIN orders}

Settled ==
    /\ \A n \in DOMAIN orders : orders[n].status # "new"
    /\ NullRows = {}
    /\ FilledLegs \subseteq Recorded

\* No order or leg stands half filled, working or canceled.
WholeFills ==
    \A n \in DOMAIN orders :
        /\ orders[n].status = "canceled" => orders[n].filled = 0
        /\ \A l \in LegNames :
            orders[n].legs[l].status # "filled" => orders[n].legs[l].filled = 0

\* Once everything is read back, the inventory evaluate reports as open is the
\* position the broker holds, exits and shorts included, but for the shares of
\* sells it skipped (evaluate.py:289-300): no fill is missing, read twice or
\* booked on the wrong side.
ReportedInventory ==
    Settled /\ WholeFills => OpenAtEnd(Usable) - Skipped(Usable) = Position

\* Whatever has been read back so far, the report splits each buy between its
\* round trips and what is left of it, oldest buy first: no share of it is sold
\* twice or lost (evaluate.py:197-216).
RoundTripsFirstInFirstOut ==
    LET usable == Usable
        book   == MatchRoundTrips(usable)
    IN /\ \A i \in DOMAIN usable :
            usable[i].action = "buy" =>
                usable[i].qty = Sold(book, usable[i].row) + Left(book, usable[i].row)
       /\ \A k \in DOMAIN book.trips : \A m \in DOMAIN book.trips :
            k < m => book.trips[k].buy <= book.trips[m].buy
       /\ \A k \in DOMAIN book.trips : \A m \in DOMAIN book.lots :
            book.trips[k].buy <= book.lots[m].row

\* Every row is read back in the end, an exit whose recorder died between its
\* two writes too: "run `trader reconcile` to drive this to zero"
\* (evaluate.py:72-73).
EveryOrderReconciled ==
    \A i \in 1..2 * MaxOrders : IsNull(i) ~> ~IsNull(i)

\* Limit newer filled orders hide the row of order n from record_bracket_exits.
CrowdedOut(n) ==
    \E i \in DOMAIN decisions :
        /\ decisions[i].id = Id(n, "parent")
        /\ Cardinality({j \in DOMAIN decisions :
               j > i /\ ~IsExit(decisions[j]) /\ decisions[j].status = "filled"}) >= Limit

\* An exit of order n filled and has no row.
Unrecorded(n) ==
    /\ n \in DOMAIN orders
    /\ \E l \in LegNames :
        /\ orders[n].legs[l].status = "filled"
        /\ \A i \in DOMAIN decisions : decisions[i].id # Id(n, l)

\* Every leg that fills gets its row in the end, however late it fills, unless
\* Limit orders filled after its parent's (execution.py:190).
EveryExitRecorded ==
    \A n \in 1..MaxOrders : Unrecorded(n) ~> ~Unrecorded(n) \/ CrowdedOut(n)
=============================================================================
