-------------------------- MODULE ReconcileProofs ---------------------------
(***************************************************************************)
(* What reconciliation guarantees for any limit, any exits and any number  *)
(* of orders, failed reads and crashes: with any number of reconcilers, a  *)
(* recorded fill is final; with one at a time, no order has two rows, and  *)
(* what evaluate reports open is in the end what the broker holds.         *)
(***************************************************************************)
EXTENDS Reconcile, SequenceTheorems, FiniteSetTheorems, WellFoundedInduction, TLAPS

Final == {"filled", "canceled"}

\* Every row is of an order the broker knows, and an exit's leg has filled.
RowsExist ==
    \A i \in DOMAIN decisions :
        LET id == decisions[i].id
        IN /\ id.order \in DOMAIN orders
           /\ id.part # "parent" => orders[id.order].legs[id.part].status = "filled"

\* Between the two writes of an exit, the row in hand is the exit's.
ExitInHand ==
    \A r \in Reconcilers : pc[r] = "exit_row" =>
        \A i \in todo[r] : At(r, i) => IsExit(decisions[i])

RInv == TypeOK /\ RowsExist /\ ExitInHand /\ RecordedIsFinal

\* What the broker may do to its orders: what is over stays as it is.
OrdersAdvance ==
    /\ orders' \in Seq(Orders)
    /\ DOMAIN orders \subseteq DOMAIN orders'
    /\ \A n \in DOMAIN orders :
        /\ orders[n].status \in Final =>
                orders'[n].status = orders[n].status /\ orders'[n].filled = orders[n].filled
        /\ \A l \in LegNames :
                orders[n].legs[l].status \in Final => orders'[n].legs[l] = orders[n].legs[l]

-----------------------------------------------------------------------------
\* Records of orders and legs.

LEMMA CancelLegKeeps ==
    ASSUME NEW leg \in [status : {"none", "held", "filled", "canceled"}, filled : Nat]
    PROVE  /\ CancelLeg(leg) \in [status : {"none", "held", "filled", "canceled"}, filled : Nat]
           /\ leg.status \in Final => CancelLeg(leg) = leg
BY DEF CancelLeg, Final

LEMMA CancelLegsKeeps ==
    ASSUME NEW order \in Orders
    PROVE  /\ CancelLegs(order) \in Orders
           /\ CancelLegs(order).status = order.status
           /\ CancelLegs(order).filled = order.filled
           /\ \A l \in LegNames : order.legs[l].status \in Final =>
                    CancelLegs(order).legs[l] = order.legs[l]
<1> DEFINE legs == [l \in LegNames |-> CancelLeg(order.legs[l])]
<1>1. legs \in Legs
  BY CancelLegKeeps DEF Legs, Orders
<1>2. CancelLegs(order) = [order EXCEPT !.legs = legs]
  BY DEF CancelLegs
<1>3. \A l \in LegNames : order.legs[l].status \in Final => legs[l] = order.legs[l]
  BY CancelLegKeeps DEF Legs, Orders
<1> HIDE DEF legs
<1> QED BY <1>1, <1>2, <1>3 DEF Orders

\* One order of the book replaced by another, no less final.
LEMMA OneOrderAdvances ==
    ASSUME orders \in Seq(Orders), NEW n \in DOMAIN orders, NEW order \in Orders,
           orders' = [orders EXCEPT ![n] = order],
           orders[n].status \in Final =>
                order.status = orders[n].status /\ order.filled = orders[n].filled,
           \A l \in LegNames :
                orders[n].legs[l].status \in Final => order.legs[l] = orders[n].legs[l]
    PROVE  OrdersAdvance
<1>1. orders' \in Seq(Orders) /\ DOMAIN orders' = DOMAIN orders
  BY ExceptSeq, LenProperties
<1>2. orders'[n] = order /\ \A m \in DOMAIN orders \ {n} : orders'[m] = orders[m]
  OBVIOUS
<1> QED BY <1>1, <1>2 DEF OrdersAdvance

LEMMA FillAdvances ==
    ASSUME orders \in Seq(Orders), NEW n, Fill(n)
    PROVE  OrdersAdvance
<1> DEFINE filled == orders[n].filled + 1
           status == IF filled = orders[n].qty THEN "filled" ELSE "new"
           order  == [orders[n] EXCEPT !.filled = filled, !.status = status]
<1>1. n \in DOMAIN orders /\ orders[n] \in Orders /\ orders[n].status = "new"
  BY ElementOfSeq, LenProperties DEF Fill
<1>2. orders' = [orders EXCEPT ![n] = order]
  BY DEF Fill
<1>3. filled \in Nat /\ status \in {"new", "filled"}
  BY <1>1 DEF Orders
<1> HIDE DEF filled, status
<1>4. order \in Orders /\ order.legs = orders[n].legs
  BY <1>1, <1>3 DEF Orders
<1> HIDE DEF order
<1> QED BY <1>1, <1>2, <1>4, OneOrderAdvances DEF Final

LEMMA CancelKeeps ==
    ASSUME NEW order \in Orders
    PROVE  /\ Cancel(order) \in Orders
           /\ order.status \in Final => Cancel(order).status = order.status
           /\ Cancel(order).filled = order.filled
           /\ \A l \in LegNames : order.legs[l].status \in Final =>
                    Cancel(order).legs[l] = order.legs[l]
<1> DEFINE status == IF order.status = "new" THEN "canceled" ELSE order.status
           closed == [order EXCEPT !.status = status]
<1>1. status \in {"new", "filled", "canceled"} /\ (order.status \in Final => status = order.status)
  BY DEF Orders, Final
<1>2. Cancel(order) = CancelLegs(closed)
  BY DEF Cancel
<1> HIDE DEF status
<1>3. closed \in Orders /\ closed.status = status
      /\ closed.filled = order.filled /\ closed.legs = order.legs
  BY <1>1 DEF Orders
<1> HIDE DEF closed
<1> QED BY <1>1, <1>2, <1>3, CancelLegsKeeps

LEMMA ExpireAdvances ==
    ASSUME orders \in Seq(Orders), NEW n, Expire(n)
    PROVE  OrdersAdvance
<1>1. n \in DOMAIN orders /\ orders[n] \in Orders
  BY ElementOfSeq, LenProperties DEF Expire
<1>2. orders' = [orders EXCEPT ![n] = Cancel(orders[n])]
  BY DEF Expire
<1> DEFINE order == Cancel(orders[n])
<1>3. /\ order \in Orders
      /\ orders[n].status \in Final =>
            order.status = orders[n].status /\ order.filled = orders[n].filled
      /\ \A l \in LegNames : orders[n].legs[l].status \in Final =>
            order.legs[l] = orders[n].legs[l]
  BY <1>1, CancelKeeps
<1>4. orders' = [orders EXCEPT ![n] = order]
  BY <1>2
<1> HIDE DEF order
<1> QED BY <1>1, <1>3, <1>4, OneOrderAdvances

LEMMA ExpireLegsAdvances ==
    ASSUME orders \in Seq(Orders), NEW n, ExpireLegs(n)
    PROVE  OrdersAdvance
<1>1. n \in DOMAIN orders /\ orders[n] \in Orders
  BY ElementOfSeq, LenProperties DEF ExpireLegs
<1>2. orders' = [orders EXCEPT ![n] = CancelLegs(orders[n])]
  BY DEF ExpireLegs
<1> QED BY <1>1, <1>2, CancelLegsKeeps, OneOrderAdvances

LEMMA FillLegAdvances ==
    ASSUME orders \in Seq(Orders), NEW n, NEW l \in LegNames, FillLeg(n, l)
    PROVE  OrdersAdvance
<1> DEFINE legs   == orders[n].legs
           last   == Shares(legs) + 1 = orders[n].filled
           others == [m \in LegNames |-> IF last THEN CancelLeg(legs[m]) ELSE legs[m]]
           status == IF last THEN "filled" ELSE "held"
           filled == legs[l].filled + 1
           traded == [status |-> status, filled |-> filled]
           after  == [others EXCEPT ![l] = traded]
           order  == [orders[n] EXCEPT !.legs = after]
<1>1. n \in DOMAIN orders /\ orders[n] \in Orders /\ legs[l].status = "held"
  BY ElementOfSeq, LenProperties DEF FillLeg
<1>2. orders' = [orders EXCEPT ![n] = order]
  BY DEF FillLeg
<1>3. legs \in Legs
  BY <1>1 DEF Orders
<1>4. /\ others \in Legs
      /\ \A m \in LegNames : legs[m].status \in Final => others[m] = legs[m]
  <2>1. CASE last
    BY <1>3, <2>1, CancelLegKeeps DEF Legs
  <2>2. CASE ~last
    BY <1>3, <2>2 DEF Legs
  <2> QED BY <2>1, <2>2
<1>5. filled \in Nat /\ status \in {"filled", "held"}
  BY <1>3 DEF Legs
<1> HIDE DEF filled, status, others, last
<1>6. after \in Legs
  BY <1>4, <1>5 DEF Legs
<1>7. \A m \in LegNames : legs[m].status \in Final => after[m] = legs[m]
  BY <1>1, <1>4 DEF Legs, Final
<1> HIDE DEF after
<1>8. /\ order \in Orders
      /\ order.legs = after
      /\ order.status = orders[n].status
      /\ order.filled = orders[n].filled
  BY <1>1, <1>6 DEF Orders
<1> HIDE DEF order
<1> QED BY <1>1, <1>2, <1>7, <1>8, OneOrderAdvances

\* Taking orders off leaves what had filled or ended as it was.
LEMMA CancelOrdersKeeps ==
    ASSUME orders \in Seq(Orders), NEW gone
    PROVE  /\ CancelOrders(gone) \in Seq(Orders)
           /\ Len(CancelOrders(gone)) = Len(orders)
           /\ DOMAIN CancelOrders(gone) = DOMAIN orders
           /\ \A n \in DOMAIN orders :
                /\ orders[n].status \in Final =>
                        CancelOrders(gone)[n].status = orders[n].status
                /\ CancelOrders(gone)[n].filled = orders[n].filled
                /\ \A l \in LegNames : orders[n].legs[l].status \in Final =>
                        CancelOrders(gone)[n].legs[l] = orders[n].legs[l]
<1> DEFINE kept == [n \in 1 .. Len(orders) |-> IF n \in gone THEN Cancel(orders[n]) ELSE orders[n]]
<1>1. /\ orders \in [1 .. Len(orders) -> Orders] /\ Len(orders) \in Nat
      /\ DOMAIN orders = 1 .. Len(orders)
  BY LenProperties
<1>2. CancelOrders(gone) = kept
  BY <1>1 DEF CancelOrders
<1>3. \A n \in 1 .. Len(orders) : kept[n] = Cancel(orders[n]) \/ kept[n] = orders[n]
  OBVIOUS
<1>4. \A n \in 1 .. Len(orders) :
        /\ kept[n] \in Orders
        /\ orders[n].status \in Final => kept[n].status = orders[n].status
        /\ kept[n].filled = orders[n].filled
        /\ \A l \in LegNames : orders[n].legs[l].status \in Final =>
                kept[n].legs[l] = orders[n].legs[l]
  <2> HIDE DEF kept
  <2> QED BY <1>1, <1>3, CancelKeeps
<1>5. kept = [n \in 1 .. Len(orders) |-> kept[n]]
  OBVIOUS
<1> HIDE DEF kept
<1>6. kept \in [1 .. Len(orders) -> Orders]
  BY <1>4, <1>5
<1>7. kept \in Seq(Orders) /\ Len(kept) = Len(orders)
  BY <1>1, <1>6, SeqDef, LenProperties
<1> QED BY <1>1, <1>2, <1>4, <1>6, <1>7

LEMMA NewOrderTyped ==
    ASSUME NEW action \in {"buy", "sell"}, NEW qty \in Nat, NEW legs
    PROVE  NewOrder(action, qty, legs) \in Orders
<1> DEFINE order == NewOrder(action, qty, legs)
<1>1. order.legs \in Legs
  <2>1. order.legs = [l \in LegNames |->
                        [status |-> IF l \in legs THEN "held" ELSE "none", filled |-> 0]]
    BY DEF NewOrder
  <2>2. \A l \in LegNames :
          [status |-> IF l \in legs THEN "held" ELSE "none", filled |-> 0]
            \in [status : {"none", "held", "filled", "canceled"}, filled : Nat]
    OBVIOUS
  <2> HIDE DEF order
  <2> QED BY <2>1, <2>2 DEF Legs
<1>2. order = [action |-> action, qty |-> qty, status |-> "new", filled |-> 0,
               legs |-> order.legs]
  BY DEF NewOrder
<1> HIDE DEF order
<1>3. [action |-> action, qty |-> qty, status |-> "new", filled |-> 0, legs |-> order.legs]
        \in Orders
  BY <1>1 DEF Orders
<1>4. order \in Orders
  BY <1>2, <1>3
<1> QED BY <1>4 DEF order

\* The order is accepted, or it is refused after its cancels.
LEMMA PlaceAdvances ==
    ASSUME orders \in Seq(Orders), NEW action \in {"buy", "sell"}, NEW qty \in Nat,
           NEW legs, NEW gone,
           \/ orders' = Append(CancelOrders(gone), NewOrder(action, qty, legs))
           \/ orders' = CancelOrders(gone)
    PROVE  /\ OrdersAdvance
           /\ orders' = Append(CancelOrders(gone), NewOrder(action, qty, legs)) =>
                DOMAIN orders' = 1 .. Len(orders) + 1
<1> DEFINE order == NewOrder(action, qty, legs)
           kept == CancelOrders(gone)
<1>1. DOMAIN orders = 1 .. Len(orders) /\ Len(orders) \in Nat
  BY LenProperties
<1>2. /\ kept \in Seq(Orders)
      /\ Len(kept) = Len(orders)
      /\ DOMAIN kept = DOMAIN orders
      /\ \A n \in DOMAIN orders :
            /\ orders[n].status \in Final => kept[n].status = orders[n].status
            /\ kept[n].filled = orders[n].filled
            /\ \A l \in LegNames : orders[n].legs[l].status \in Final =>
                    kept[n].legs[l] = orders[n].legs[l]
  BY CancelOrdersKeeps
<1>3. order \in Orders
  BY NewOrderTyped
<1>4. orders' = Append(kept, order) \/ orders' = kept
  OBVIOUS
<1> HIDE DEF order, kept
<1>5. CASE orders' = kept
  <2>1. Len(orders') = Len(orders) /\ Len(Append(kept, order)) = Len(orders) + 1
    <3>1. Len(Append(kept, order)) = Len(kept) + 1
      BY <1>2, <1>3, AppendProperties
    <3> QED BY <1>2, <1>5, <3>1
  <2>2. orders' # Append(kept, order)
    BY <1>1, <2>1
  <2>3. OrdersAdvance
    BY <1>2, <1>5 DEF OrdersAdvance
  <2> QED BY <2>2, <2>3 DEF order, kept
<1>6. CASE orders' = Append(kept, order)
  <2>1. /\ orders' \in Seq(Orders)
        /\ Len(orders') = Len(orders) + 1
        /\ \A n \in 1 .. Len(orders) : orders'[n] = kept[n]
    BY <1>2, <1>3, <1>6, AppendProperties
  <2>2. DOMAIN orders' = 1 .. Len(orders) + 1
    BY <2>1, LenProperties
  <2>3. OrdersAdvance
    BY <1>1, <1>2, <2>1, <2>2 DEF OrdersAdvance
  <2> QED BY <2>2, <2>3
<1> QED BY <1>4, <1>5, <1>6

-----------------------------------------------------------------------------
\* The steps outside the reconcilers: orders advance, and at most one row is
\* added, that of a new order.
LEMMA TradeAdvances ==
    ASSUME TypeOK, Trade
    PROVE  /\ OrdersAdvance
           /\ UNCHANGED <<local, mishaps>>
           /\ \/ decisions' = decisions
              \/ \E row \in Rows :
                    /\ decisions' = Append(decisions, row)
                    /\ row.id = Id(Len(orders) + 1, "parent")
                    /\ row.status = "null"
                    /\ DOMAIN orders' = 1 .. Len(orders) + 1
<1>1. ASSUME NEW action \in {"buy", "sell"}, NEW qty \in 1 .. MaxQty, NEW legs \in LegSets,
             NEW gone \in SUBSET DOMAIN orders, PlaceOrder(action, qty, legs, gone)
      PROVE  /\ OrdersAdvance
             /\ UNCHANGED <<local, mishaps>>
             /\ \/ decisions' = decisions
                \/ \E row \in Rows :
                    /\ decisions' = Append(decisions, row)
                    /\ row.id = Id(Len(orders) + 1, "parent")
                    /\ row.status = "null"
                    /\ DOMAIN orders' = 1 .. Len(orders) + 1
  <2> DEFINE row == [id |-> Id(Len(orders) + 1, "parent"), action |-> action, qty |-> qty,
                     status |-> "null", filled |-> 0]
             kept == CancelOrders(gone)
             order == NewOrder(action, qty, legs)
  <2>1. qty \in Nat /\ Len(orders) \in Nat
    BY <1>1, ReconcileAssumption, LenProperties DEF TypeOK
  <2>2. row \in Rows
    BY <1>1, <2>1 DEF Rows, Ids, Id
  <2>3. UNCHANGED <<local, mishaps>>
    BY <1>1 DEF PlaceOrder
  <2>4. \/ orders' = Append(kept, order) /\ decisions' = Append(decisions, row)
        \/ orders' = kept /\ decisions' = decisions
    BY <1>1 DEF PlaceOrder
  <2>5. row.id = Id(Len(orders) + 1, "parent") /\ row.status = "null"
    OBVIOUS
  <2>6. OrdersAdvance /\ (orders' = Append(kept, order) => DOMAIN orders' = 1 .. Len(orders) + 1)
    BY <1>1, <2>1, <2>4, PlaceAdvances DEF TypeOK
  <2> HIDE DEF row, kept, order
  <2> QED BY <2>2, <2>3, <2>4, <2>5, <2>6
<1>2. ASSUME NEW n \in DOMAIN orders, Fill(n) \/ Expire(n) \/ ExpireLegs(n)
      PROVE  OrdersAdvance /\ UNCHANGED <<decisions, local, mishaps>>
  BY <1>2, FillAdvances, ExpireAdvances, ExpireLegsAdvances
     DEF TypeOK, Fill, Expire, ExpireLegs
<1>3. ASSUME NEW n \in DOMAIN orders, NEW l \in LegNames, FillLeg(n, l)
      PROVE  OrdersAdvance /\ UNCHANGED <<decisions, local, mishaps>>
  BY <1>3, FillLegAdvances DEF TypeOK, FillLeg
<1> QED BY <1>1, <1>2, <1>3 DEF Trade

-----------------------------------------------------------------------------
\* What the broker has said of an order that is over, it says again.
LEMMA FinalStays ==
    ASSUME OrdersAdvance, NEW id \in Ids, id.order \in DOMAIN orders
    PROVE  IsTerminal(ReadOrder(id)) =>
              /\ IsTerminal(ReadOrder(id)')
              /\ ReadOrder(id)'.status = ReadOrder(id).status
              /\ ReadOrder(id)'.filled = ReadOrder(id).filled
<1>1. CASE id.part = "parent"
  BY <1>1 DEF OrdersAdvance, ReadOrder, IsTerminal, Final
<1>2. CASE id.part # "parent"
  <2>1. id.part \in LegNames
    BY <1>2 DEF Ids
  <2> QED BY <1>2, <2>1 DEF OrdersAdvance, ReadOrder, IsTerminal, Final
<1> QED BY <1>1, <1>2

\* The invariant of the rows, one row at a time.
RowOK(i) ==
    LET id == decisions[i].id
    IN /\ id.order \in DOMAIN orders
       /\ id.part # "parent" => orders[id.order].legs[id.part].status = "filled"
       /\ decisions[i].status # "null" =>
            /\ IsTerminal(ReadOrder(id))
            /\ decisions[i].status = ReadOrder(id).status
            /\ decisions[i].filled = ReadOrder(id).filled

RowsOK == \A i \in DOMAIN decisions : RowOK(i)

LEMMA RowsAreOK == (RowsExist /\ RecordedIsFinal) <=> RowsOK
BY DEF RowsExist, RecordedIsFinal, RowsOK, RowOK

LEMMA RowStaysOK ==
    ASSUME TypeOK, OrdersAdvance, NEW i \in DOMAIN decisions, RowOK(i),
           decisions'[i] = decisions[i]
    PROVE  RowOK(i)'
<1>1. PICK id \in Ids : id = decisions[i].id
  <2>1. decisions[i] \in Rows
    BY ElementOfSeq, LenProperties DEF TypeOK
  <2> QED BY <2>1 DEF Rows
<1>2. id.order \in DOMAIN orders /\ id.order \in DOMAIN orders'
  BY <1>1 DEF RowOK, OrdersAdvance
<1>3. id.part # "parent" => orders'[id.order].legs[id.part].status = "filled"
  <2>1. ASSUME id.part # "parent"
        PROVE  orders'[id.order].legs[id.part] = orders[id.order].legs[id.part]
    BY <1>1, <1>2, <2>1 DEF Ids, RowOK, OrdersAdvance, Final
  <2> QED BY <1>1, <2>1 DEF RowOK
<1>4. decisions[i].status # "null" =>
            /\ IsTerminal(ReadOrder(id)')
            /\ decisions[i].status = ReadOrder(id)'.status
            /\ decisions[i].filled = ReadOrder(id)'.filled
  BY <1>1, <1>2, FinalStays DEF RowOK
<1>5. decisions'[i].id = id
  BY <1>1
<1>6. ReadOrder(decisions[i].id)' = ReadOrder(id)'
  BY <1>5 DEF ReadOrder
<1> QED BY <1>2, <1>3, <1>4, <1>5, <1>6 DEF RowOK, IsTerminal

\* A table that grew by one row.
LEMMA RowAdded ==
    ASSUME decisions \in Seq(Rows), NEW row \in Rows, decisions' = Append(decisions, row)
    PROVE  /\ decisions' \in Seq(Rows)
           /\ DOMAIN decisions = 1 .. Len(decisions)
           /\ Len(decisions) \in Nat
           /\ DOMAIN decisions' = 1 .. Len(decisions) + 1
           /\ \A i \in DOMAIN decisions : decisions'[i] = decisions[i]
           /\ decisions'[Len(decisions) + 1] = row
BY AppendProperties, LenProperties

\* A table in which the fill of one order was recorded.
LEMMA FillRecorded ==
    ASSUME TypeOK, NEW i \in DOMAIN decisions, RowOK(i), RecordFill(i), orders' = orders,
           IsTerminal(ReadOrder(decisions[i].id))
    PROVE  /\ decisions' \in Seq(Rows)
           /\ DOMAIN decisions' = DOMAIN decisions
           /\ \A j \in DOMAIN decisions : decisions'[j].id = decisions[j].id
           /\ \A j \in DOMAIN decisions \ {i} : decisions'[j] = decisions[j]
           /\ RowOK(i)'
<1>1. PICK id \in Ids : id = decisions[i].id
  <2>1. decisions[i] \in Rows
    BY ElementOfSeq, LenProperties DEF TypeOK
  <2> QED BY <2>1 DEF Rows
<1>2. PICK fill : fill = ReadOrder(id)
  OBVIOUS
<1>3. fill.filled \in Nat /\ fill.status \in {"filled", "canceled"}
  <2>1. id.order \in DOMAIN orders /\ orders[id.order] \in Orders
    BY <1>1, ElementOfSeq, LenProperties DEF RowOK, TypeOK
  <2>2. CASE id.part = "parent"
    BY <1>1, <1>2, <2>1, <2>2 DEF ReadOrder, IsTerminal, Orders
  <2>3. CASE id.part # "parent"
    <3>1. id.part \in LegNames
      BY <2>3 DEF Ids
    <3> QED BY <1>1, <1>2, <2>1, <2>3, <3>1 DEF ReadOrder, IsTerminal, Orders, Legs
  <2> QED BY <2>2, <2>3
<1> DEFINE row == [decisions[i] EXCEPT !.status = fill.status, !.filled = fill.filled]
<1>4. decisions[i] \in Rows
  BY ElementOfSeq, LenProperties DEF TypeOK
<1>5. /\ row \in Rows
      /\ row.id = id
      /\ row.status = fill.status
      /\ row.filled = fill.filled
  BY <1>1, <1>3, <1>4 DEF Rows
<1>6. decisions' = [decisions EXCEPT ![i] = row]
  BY <1>1, <1>2 DEF RecordFill
<1> HIDE DEF row
<1>7. decisions' \in Seq(Rows) /\ DOMAIN decisions' = DOMAIN decisions
  BY <1>5, <1>6, ExceptSeq, LenProperties DEF TypeOK
<1>8. decisions'[i] = row /\ \A j \in DOMAIN decisions \ {i} : decisions'[j] = decisions[j]
  BY <1>6
<1>9. ReadOrder(decisions[i].id)' = fill
  BY <1>2, <1>5, <1>8 DEF ReadOrder
<1>10. RowOK(i)'
  BY <1>1, <1>3, <1>5, <1>8, <1>9 DEF RowOK, IsTerminal
<1> QED BY <1>1, <1>5, <1>7, <1>8, <1>10

-----------------------------------------------------------------------------
\* The steps that leave orders and rows alone.
LEMMA QuietKeeps ==
    ASSUME RInv, UNCHANGED <<orders, decisions>>, NEW r \in Reconcilers,
           pc' \in [Reconcilers -> {"idle", "fills", "exits", "exit_row"}],
           todo' \in [Reconcilers -> SUBSET DOMAIN decisions],
           recordedParents' \in [Reconcilers -> SUBSET Nat],
           known' \in [Reconcilers -> SUBSET Ids],
           mishaps' \in 0 .. MaxMishaps,
           pc'[r] # "exit_row",
           \A s \in Reconcilers \ {r} : pc'[s] = pc[s] /\ todo'[s] = todo[s]
    PROVE  RInv'
<1>1. TypeOK'
  BY DEF RInv, TypeOK
<1>2. RowsExist' /\ RecordedIsFinal'
  BY DEF RInv, RowsExist, RecordedIsFinal, ReadOrder, IsTerminal
<1>3. ExitInHand'
  BY DEF RInv, ExitInHand, At, IsExit
<1> QED BY <1>1, <1>2, <1>3 DEF RInv

LEMMA NewestAreSome == \A rows : Newest(rows) \subseteq rows
BY DEF Newest

LEMMA BeginKeeps ==
    ASSUME RInv, NEW r \in Reconcilers, Begin(r)
    PROVE  RInv'
<1>1. Unreconciled \subseteq DOMAIN decisions
  BY NewestAreSome DEF Unreconciled, NullRows
<1> QED BY <1>1, QuietKeeps DEF Begin, RInv, TypeOK

LEMMA StartExitsKeeps ==
    ASSUME RInv, NEW r \in Reconcilers, StartExits(r)
    PROVE  RInv'
<1> DEFINE rows == {decisions[i] : i \in DOMAIN decisions}
           exits == {row.id.order : row \in {x \in rows : IsExit(x)}}
           ids == {row.id : row \in rows}
<1>1. Parents \subseteq DOMAIN decisions
  BY NewestAreSome DEF Parents
<1>2. rows \subseteq Rows
  BY ElementOfSeq, LenProperties DEF RInv, TypeOK
<1>3. exits \subseteq Nat /\ ids \subseteq Ids
  <2> HIDE DEF rows
  <2> QED BY <1>2 DEF Rows, Ids
<1>4. /\ recordedParents' = [recordedParents EXCEPT ![r] = exits]
      /\ known' = [known EXCEPT ![r] = ids]
      /\ pc' = [pc EXCEPT ![r] = "exits"]
      /\ todo' = [todo EXCEPT ![r] = Parents]
      /\ UNCHANGED <<orders, decisions, mishaps>>
  BY DEF StartExits
<1> HIDE DEF rows, exits, ids
<1>5. /\ recordedParents' \in [Reconcilers -> SUBSET Nat]
      /\ known' \in [Reconcilers -> SUBSET Ids]
      /\ pc' \in [Reconcilers -> {"idle", "fills", "exits", "exit_row"}]
      /\ todo' \in [Reconcilers -> SUBSET DOMAIN decisions]
  BY <1>1, <1>3, <1>4 DEF RInv, TypeOK
<1>6. /\ pc'[r] # "exit_row"
      /\ \A s \in Reconcilers \ {r} : pc'[s] = pc[s] /\ todo'[s] = todo[s]
      /\ mishaps' \in 0 .. MaxMishaps
  BY <1>4 DEF RInv, TypeOK
<1> QED BY <1>4, <1>5, <1>6, QuietKeeps

\* Leaving a row without writing.
LEMMA SkipKeeps ==
    ASSUME RInv, NEW r \in Reconcilers, NEW i,
           StillOpen(r, i) \/ ReadFails(r, i) \/ NoNewExit(r, i)
    PROVE  RInv'
<1>1. /\ UNCHANGED <<orders, decisions, pc, recordedParents, known>>
      /\ Leave(r, i)
      /\ pc[r] # "exit_row"
      /\ mishaps' \in 0 .. MaxMishaps
  BY ReconcileAssumption DEF StillOpen, ReadFails, NoNewExit, RInv, TypeOK
<1> QED BY <1>1, QuietKeeps DEF RInv, TypeOK, Leave

LEMMA FinishKeeps ==
    ASSUME RInv, NEW r \in Reconcilers, Finish(r) \/ Crash(r)
    PROVE  RInv'
<1>1. /\ UNCHANGED <<orders, decisions>>
      /\ pc' = [pc EXCEPT ![r] = "idle"]
      /\ todo' = todo \/ todo' = [todo EXCEPT ![r] = {}]
      /\ recordedParents' = [recordedParents EXCEPT ![r] = {}]
      /\ known' = [known EXCEPT ![r] = {}]
      /\ mishaps' \in 0 .. MaxMishaps
  BY ReconcileAssumption DEF Finish, Crash, RInv, TypeOK
<1>2. /\ recordedParents' \in [Reconcilers -> SUBSET Nat]
      /\ known' \in [Reconcilers -> SUBSET Ids]
      /\ pc' \in [Reconcilers -> {"idle", "fills", "exits", "exit_row"}]
      /\ todo' \in [Reconcilers -> SUBSET DOMAIN decisions]
      /\ pc'[r] # "exit_row"
      /\ \A s \in Reconcilers \ {r} : pc'[s] = pc[s] /\ todo'[s] = todo[s]
  BY <1>1 DEF RInv, TypeOK
<1> QED BY <1>1, <1>2, QuietKeeps

-----------------------------------------------------------------------------
\* The steps that write a row.

LEMMA TradeKeeps ==
    ASSUME RInv, Trade
    PROVE  RInv'
<1>1. /\ OrdersAdvance
      /\ UNCHANGED <<local, mishaps>>
      /\ \/ decisions' = decisions
         \/ \E row \in Rows :
               /\ decisions' = Append(decisions, row)
               /\ row.id = Id(Len(orders) + 1, "parent")
               /\ row.status = "null"
               /\ DOMAIN orders' = 1 .. Len(orders) + 1
  BY TradeAdvances DEF RInv
<1>2. /\ decisions' \in Seq(Rows)
      /\ DOMAIN decisions \subseteq DOMAIN decisions'
      /\ \A i \in DOMAIN decisions : decisions'[i] = decisions[i]
      /\ \A i \in DOMAIN decisions' \ DOMAIN decisions : RowOK(i)'
  <2>1. CASE decisions' = decisions
    BY <2>1 DEF RInv, TypeOK
  <2>2. ASSUME NEW row \in Rows,
               decisions' = Append(decisions, row),
               row.id = Id(Len(orders) + 1, "parent"),
               row.status = "null",
               DOMAIN orders' = 1 .. Len(orders) + 1
        PROVE  <1>2!1 /\ <1>2!2 /\ <1>2!3 /\ <1>2!4
    <3>1. Len(orders) \in Nat
      BY LenProperties DEF RInv, TypeOK
    <3>2. /\ decisions' \in Seq(Rows)
          /\ DOMAIN decisions = 1 .. Len(decisions)
          /\ Len(decisions) \in Nat
          /\ DOMAIN decisions' = 1 .. Len(decisions) + 1
          /\ \A i \in DOMAIN decisions : decisions'[i] = decisions[i]
          /\ decisions'[Len(decisions) + 1] = row
      BY <2>2, RowAdded DEF RInv, TypeOK
    <3>3. PICK new \in Nat : new = Len(decisions) + 1
      BY <3>2
    <3>4. RowOK(new)'
      <4>1. decisions'[new].id.order \in DOMAIN orders'
        BY <2>2, <3>1, <3>2, <3>3 DEF Id
      <4>2. decisions'[new].id.part = "parent"
        BY <2>2, <3>2, <3>3 DEF Id
      <4>3. decisions'[new].status = "null"
        BY <2>2, <3>2, <3>3
      <4> QED BY <4>1, <4>2, <4>3 DEF RowOK
    <3>5. \A i \in DOMAIN decisions' \ DOMAIN decisions : i = new
      BY <3>2, <3>3
    <3> QED BY <3>2, <3>4, <3>5
  <2> QED BY <1>1, <2>1, <2>2
<1>3. TypeOK'
  BY <1>1, <1>2 DEF RInv, TypeOK, OrdersAdvance, local
<1>4. RowsExist' /\ RecordedIsFinal'
  <2>1. \A i \in DOMAIN decisions : RowOK(i)'
    BY <1>1, <1>2, RowsAreOK, RowStaysOK DEF RInv, RowsOK
  <2>2. RowsOK'
    BY <1>2, <2>1 DEF RowsOK
  <2> QED BY <2>2, RowsAreOK, PTL
<1>5. ExitInHand'
  BY <1>1, <1>2 DEF RInv, TypeOK, ExitInHand, At, IsExit, local
<1> QED BY <1>3, <1>4, <1>5 DEF RInv

\* A fill recorded by a step that leaves its row: the last row in hand of a
\* reconciler that goes on anywhere but "exit_row".
LEMMA RecordFillKeeps ==
    ASSUME RInv, NEW r \in Reconcilers, NEW i \in todo[r],
           RecordFill(i), Leave(r, i),
           IsTerminal(ReadOrder(decisions[i].id)),
           UNCHANGED <<orders, recordedParents, known, mishaps>>,
           pc' \in [Reconcilers -> {"idle", "fills", "exits", "exit_row"}],
           pc'[r] # "exit_row",
           \A s \in Reconcilers \ {r} : pc'[s] = pc[s]
    PROVE  /\ RInv'
           /\ DOMAIN decisions' = DOMAIN decisions
           /\ \A j \in DOMAIN decisions : decisions'[j].id = decisions[j].id
<1>1. i \in DOMAIN decisions
  BY DEF RInv, TypeOK
<1>2. \A j \in DOMAIN decisions : RowOK(j)
  BY RowsAreOK DEF RInv, RowsOK
<1>3. /\ decisions' \in Seq(Rows)
      /\ DOMAIN decisions' = DOMAIN decisions
      /\ \A j \in DOMAIN decisions : decisions'[j].id = decisions[j].id
      /\ \A j \in DOMAIN decisions \ {i} : decisions'[j] = decisions[j]
      /\ RowOK(i)'
  BY <1>1, <1>2, FillRecorded DEF RInv
<1>4. OrdersAdvance
  BY DEF OrdersAdvance, RInv, TypeOK
<1>5. TypeOK'
  BY <1>3 DEF RInv, TypeOK, Leave
<1>6. RowsExist' /\ RecordedIsFinal'
  <2>1. \A j \in DOMAIN decisions : RowOK(j)'
    BY <1>2, <1>3, <1>4, RowStaysOK DEF RInv
  <2>2. RowsOK'
    BY <1>3, <2>1 DEF RowsOK
  <2> QED BY <2>2, RowsAreOK, PTL
<1>7. ExitInHand'
  <2> SUFFICES ASSUME NEW s \in Reconcilers, pc'[s] = "exit_row",
                      NEW j \in todo'[s], At(s, j)'
               PROVE  IsExit(decisions'[j])
    BY DEF ExitInHand
  <2>1. s # r /\ pc[s] = "exit_row" /\ todo'[s] = todo[s]
    BY DEF Leave, RInv, TypeOK
  <2>2. IsExit(decisions[j]) /\ j \in DOMAIN decisions
    BY <2>1 DEF At, RInv, TypeOK, ExitInHand
  <2> QED BY <1>3, <2>2 DEF IsExit
<1> QED BY <1>3, <1>5, <1>6, <1>7 DEF RInv

LEMMA FillWritten ==
    ASSUME RInv, NEW r \in Reconcilers, NEW i,
           ReconcileFill(r, i) \/ RecordExitFill(r, i)
    PROVE  /\ RInv'
           /\ DOMAIN decisions' = DOMAIN decisions
           /\ \A j \in DOMAIN decisions : decisions'[j].id = decisions[j].id
<1>1. CASE ReconcileFill(r, i)
  <2>1. /\ i \in todo[r]
        /\ RecordFill(i) /\ Leave(r, i)
        /\ IsTerminal(ReadOrder(decisions[i].id))
        /\ UNCHANGED <<orders, pc, recordedParents, known, mishaps>>
        /\ pc[r] = "fills"
    BY <1>1 DEF ReconcileFill, At
  <2> QED BY <2>1, RecordFillKeeps DEF RInv, TypeOK
<1>2. CASE RecordExitFill(r, i)
  <2>1. /\ i \in todo[r]
        /\ RecordFill(i) /\ Leave(r, i)
        /\ UNCHANGED <<orders, recordedParents, known, mishaps>>
        /\ pc[r] = "exit_row" /\ pc' = [pc EXCEPT ![r] = "exits"]
        /\ At(r, i)
    BY <1>2 DEF RecordExitFill, At
  <2>2. IsTerminal(ReadOrder(decisions[i].id))
    BY <2>1 DEF RInv, TypeOK, ExitInHand, RowsExist, IsExit, ReadOrder, IsTerminal
  <2>3. /\ pc' \in [Reconcilers -> {"idle", "fills", "exits", "exit_row"}]
        /\ pc'[r] # "exit_row"
        /\ \A s \in Reconcilers \ {r} : pc'[s] = pc[s]
    BY <2>1 DEF RInv, TypeOK
  <2> QED BY <2>1, <2>2, <2>3, RecordFillKeeps
<1> QED BY <1>1, <1>2

\* An exit is added for a leg that filled and that its recorder did not know.
LEMMA ExitWritten ==
    ASSUME RInv, NEW r \in Reconcilers, NEW i, RecordExit(r, i)
    PROVE  /\ RInv'
           /\ \E row \in Rows :
                /\ decisions' = Append(decisions, row)
                /\ IsExit(row)
                /\ row.id \notin known[r]
                /\ known' = [known EXCEPT ![r] = @ \cup {row.id}]
<1>1. i \in DOMAIN decisions /\ decisions[i] \in Rows
  BY ElementOfSeq, LenProperties DEF RecordExit, At, RInv, TypeOK
<1>2. PICK n \in Nat : n = decisions[i].id.order
  BY <1>1 DEF Rows, Ids
<1>3. n \in DOMAIN orders /\ orders[n] \in Orders
  BY <1>1, <1>2, ElementOfSeq, LenProperties DEF RInv, RowsExist, TypeOK
<1>4. PICK l \in NewExits(r, n) :
        /\ decisions' = Append(decisions,
               [id |-> Id(n, l), action |-> ExitAction(orders[n].action),
                qty |-> orders[n].legs[l].filled, status |-> "null", filled |-> 0])
        /\ known' = [known EXCEPT ![r] = @ \cup {Id(n, l)}]
        /\ recordedParents' = [recordedParents EXCEPT ![r] = @ \cup {n}]
  BY <1>2 DEF RecordExit
<1>5. /\ l \in LegNames
      /\ orders[n].legs[l].status = "filled"
      /\ orders[n].legs[l].filled \in Nat
      /\ Id(n, l) \notin known[r]
  BY <1>3, <1>4 DEF NewExits, Orders, Legs
<1>6. PICK id \in Ids : id = Id(n, l)
  BY <1>5 DEF Ids, Id
<1>7. id.order = n /\ id.part = l /\ l # "parent"
  BY <1>5, <1>6 DEF Id, LegNames
<1>8. PICK row \in Rows :
        row = [id |-> id, action |-> ExitAction(orders[n].action),
               qty |-> orders[n].legs[l].filled, status |-> "null", filled |-> 0]
  <2>1. ExitAction(orders[n].action) \in {"buy", "sell"}
    BY DEF ExitAction
  <2>2. \A action \in {"buy", "sell"}, qty \in Nat :
          [id |-> id, action |-> action, qty |-> qty, status |-> "null", filled |-> 0] \in Rows
    BY DEF Rows
  <2> QED BY <1>5, <2>1, <2>2
<1>9. /\ row.id = id /\ row.status = "null"
      /\ decisions' = Append(decisions, row)
      /\ known' = [known EXCEPT ![r] = @ \cup {id}]
      /\ IsExit(row)
  BY <1>4, <1>6, <1>7, <1>8 DEF IsExit
<1>10. /\ decisions' \in Seq(Rows)
       /\ DOMAIN decisions = 1 .. Len(decisions)
       /\ Len(decisions) \in Nat
       /\ DOMAIN decisions' = 1 .. Len(decisions) + 1
       /\ \A j \in DOMAIN decisions : decisions'[j] = decisions[j]
       /\ decisions'[Len(decisions) + 1] = row
  BY <1>9, RowAdded DEF RInv, TypeOK
<1>11. PICK new \in Nat : new = Len(decisions) + 1
  BY <1>10
<1>12. /\ UNCHANGED <<orders, mishaps>>
       /\ pc[r] = "exits"
       /\ pc' = [pc EXCEPT ![r] = "exit_row"]
       /\ todo' = [todo EXCEPT ![r] = (todo[r] \ {i}) \cup {new}]
  BY <1>11 DEF RecordExit
<1>13. TypeOK'
  <2>1. known' \in [Reconcilers -> SUBSET Ids]
    BY <1>9 DEF RInv, TypeOK
  <2>2. recordedParents' \in [Reconcilers -> SUBSET Nat]
    BY <1>4 DEF RInv, TypeOK
  <2>3. todo' \in [Reconcilers -> SUBSET DOMAIN decisions']
    BY <1>10, <1>11, <1>12 DEF RInv, TypeOK
  <2>4. pc' \in [Reconcilers -> {"idle", "fills", "exits", "exit_row"}]
    BY <1>12 DEF RInv, TypeOK
  <2> QED BY <1>10, <1>12, <2>1, <2>2, <2>3, <2>4 DEF RInv, TypeOK
<1>14. RowsExist' /\ RecordedIsFinal'
  <2>1. OrdersAdvance
    BY <1>12 DEF OrdersAdvance, RInv, TypeOK
  <2>2. \A j \in DOMAIN decisions : RowOK(j)'
    BY <1>10, <2>1, RowsAreOK, RowStaysOK DEF RInv, RowsOK
  <2>3. RowOK(new)'
    BY <1>3, <1>5, <1>7, <1>9, <1>10, <1>11, <1>12 DEF RowOK
  <2>4. RowsOK'
    BY <1>10, <1>11, <2>2, <2>3 DEF RowsOK
  <2> QED BY <2>4, RowsAreOK, PTL
<1>15. ExitInHand'
  <2> SUFFICES ASSUME NEW s \in Reconcilers, pc'[s] = "exit_row",
                      NEW j \in todo'[s], At(s, j)'
               PROVE  IsExit(decisions'[j])
    BY DEF ExitInHand
  <2>1. CASE s = r
    <3>1. new \in todo'[r] /\ todo'[r] \subseteq 1 .. new
      BY <1>10, <1>11, <1>12 DEF RInv, TypeOK
    <3>2. new <= j /\ j \in 1 .. new
      BY <2>1, <3>1 DEF At
    <3>3. j = new
      BY <3>2
    <3> QED BY <1>9, <1>10, <1>11, <3>3
  <2>2. CASE s # r
    <3>1. pc[s] = "exit_row" /\ todo'[s] = todo[s]
      BY <1>12, <2>2 DEF RInv, TypeOK
    <3>2. IsExit(decisions[j]) /\ j \in DOMAIN decisions
      BY <3>1 DEF At, RInv, TypeOK, ExitInHand
    <3> QED BY <1>10, <3>2
  <2> QED BY <2>1, <2>2
<1> QED BY <1>5, <1>6, <1>9, <1>13, <1>14, <1>15 DEF RInv

-----------------------------------------------------------------------------
\* The invariant holds at the start and through every step.
LEMMA ReconcileInvariant == Spec => []RInv
<1>1. Init => RInv
  <2> SUFFICES ASSUME Init PROVE RInv
    OBVIOUS
  <2>1. orders \in Seq(Orders) /\ decisions \in Seq(Rows) /\ DOMAIN decisions = {}
    BY EmptySeq DEF Init
  <2>2. TypeOK
    BY <2>1, ReconcileAssumption DEF Init, TypeOK
  <2>3. RowsExist /\ RecordedIsFinal
    BY <2>1 DEF RowsExist, RecordedIsFinal
  <2>4. ExitInHand
    BY DEF Init, ExitInHand
  <2> QED BY <2>2, <2>3, <2>4 DEF RInv
<1>2. RInv /\ [Next]_vars => RInv'
  <2> SUFFICES ASSUME RInv, [Next]_vars PROVE RInv'
    OBVIOUS
  <2>1. CASE Trade
    BY <2>1, TradeKeeps
  <2>2. ASSUME NEW r \in Reconcilers, Run(r) PROVE RInv'
    <3>1. ASSUME NEW i \in todo[r], Visit(r, i) PROVE RInv'
      BY <3>1, FillWritten, SkipKeeps, ExitWritten DEF Visit
    <3> QED BY <2>2, <3>1, BeginKeeps, StartExitsKeeps, FinishKeeps DEF Run
  <2>3. ASSUME NEW r \in Reconcilers, Crash(r) PROVE RInv'
    BY <2>3, FinishKeeps
  <2>4. CASE UNCHANGED vars
    <3>1. TypeOK'
      BY <2>4 DEF vars, local, RInv, TypeOK
    <3>2. RowsExist' /\ RecordedIsFinal'
      BY <2>4 DEF vars, local, RInv, RowsExist, RecordedIsFinal, IsExit, ReadOrder, IsTerminal
    <3>3. ExitInHand'
      BY <2>4 DEF vars, local, RInv, ExitInHand, At, IsExit
    <3> QED BY <3>1, <3>2, <3>3 DEF RInv
  <2> QED BY <2>1, <2>2, <2>3, <2>4 DEF Next
<1> QED BY <1>1, <1>2, PTL DEF Spec

\* Every variable holds what the code may store in it, for any constants.
THEOREM ReconcileTypes == Spec => []TypeOK
<1>1. RInv => TypeOK
  BY DEF RInv
<1> QED BY <1>1, ReconcileInvariant, PTL

\* A recorded fill is the broker's last word on its order, with any number of
\* cycles, reconcile commands and dashboards reading back at the same time.
THEOREM FillsAreFinal == Spec => []RecordedIsFinal
<1>1. RInv => RecordedIsFinal
  BY DEF RInv
<1> QED BY <1>1, ReconcileInvariant, PTL

-----------------------------------------------------------------------------
\* In its exit pass a reconciler knows every exit that has a row.
ExitsKnown ==
    \A r \in Reconcilers : pc[r] \in {"exits", "exit_row"} =>
        \A i \in DOMAIN decisions : IsExit(decisions[i]) => decisions[i].id \in known[r]

UInv == OneRowPerOrder /\ ExitsKnown

\* The steps that add no row and forget no id.
LEMMA SameRows ==
    ASSUME UInv,
           DOMAIN decisions' = DOMAIN decisions,
           \A i \in DOMAIN decisions : decisions'[i].id = decisions[i].id,
           \A r \in Reconcilers : pc'[r] \in {"exits", "exit_row"} =>
                pc[r] \in {"exits", "exit_row"} /\ known'[r] = known[r]
    PROVE  UInv'
BY DEF UInv, OneRowPerOrder, ExitsKnown, IsExit

\* With one reconciler at a time no order gets two rows, whatever fails and
\* wherever the reconciler dies.
THEOREM OneReconcilerOneRow ==
    ASSUME \A r, s \in Reconcilers : r = s
    PROVE  Spec => []OneRowPerOrder
<1>1. Init => UInv
  <2> SUFFICES ASSUME Init PROVE UInv
    OBVIOUS
  <2>1. DOMAIN decisions = {}
    BY EmptySeq DEF Init
  <2> QED BY <2>1 DEF Init, UInv, OneRowPerOrder, ExitsKnown
<1>2. RInv /\ UInv /\ [Next]_vars => UInv'
  <2> SUFFICES ASSUME RInv, UInv, [Next]_vars PROVE UInv'
    OBVIOUS
  <2>1. CASE Trade
    <3>1. /\ UNCHANGED local
          /\ \/ decisions' = decisions
             \/ \E row \in Rows :
                   /\ decisions' = Append(decisions, row)
                   /\ row.id = Id(Len(orders) + 1, "parent")
      BY <2>1, TradeAdvances DEF RInv
    <3>2. CASE decisions' = decisions
      BY <3>1, <3>2, SameRows DEF local
    <3>3. ASSUME NEW row \in Rows, decisions' = Append(decisions, row),
                 row.id = Id(Len(orders) + 1, "parent")
          PROVE  UInv'
      <4>1. /\ DOMAIN decisions = 1 .. Len(decisions)
            /\ Len(decisions) \in Nat
            /\ DOMAIN decisions' = 1 .. Len(decisions) + 1
            /\ \A i \in DOMAIN decisions : decisions'[i] = decisions[i]
            /\ decisions'[Len(decisions) + 1] = row
        BY <3>3, RowAdded DEF RInv, TypeOK
      <4>2. Len(orders) \in Nat /\ DOMAIN orders = 1 .. Len(orders)
        BY LenProperties DEF RInv, TypeOK
      <4>3. row.id.order = Len(orders) + 1 /\ ~IsExit(row)
        BY <3>3 DEF Id, IsExit
      <4>4. \A i \in DOMAIN decisions : decisions[i].id # row.id
        BY <4>2, <4>3 DEF RInv, RowsExist
      <4>5. OneRowPerOrder'
        BY <4>1, <4>4 DEF UInv, OneRowPerOrder
      <4>6. ExitsKnown'
        BY <3>1, <4>1, <4>3 DEF UInv, ExitsKnown, IsExit, local
      <4> QED BY <4>5, <4>6 DEF UInv
    <3> QED BY <3>1, <3>2, <3>3
  <2>2. ASSUME NEW r \in Reconcilers, Begin(r) \/ Finish(r) \/ Crash(r)
        PROVE  UInv'
    <3>1. /\ decisions' = decisions
          /\ pc'[r] \notin {"exits", "exit_row"}
      BY <2>2 DEF Begin, Finish, Crash, RInv, TypeOK
    <3> QED BY <3>1, SameRows
  <2>3. ASSUME NEW r \in Reconcilers, StartExits(r) PROVE UInv'
    <3>1. /\ decisions' = decisions
          /\ known'[r] = {row.id : row \in {decisions[i] : i \in DOMAIN decisions}}
      BY <2>3 DEF StartExits, RInv, TypeOK
    <3>2. OneRowPerOrder'
      BY <3>1 DEF UInv, OneRowPerOrder
    <3>3. ExitsKnown'
      BY <3>1 DEF ExitsKnown
    <3> QED BY <3>2, <3>3 DEF UInv
  <2>4. ASSUME NEW r \in Reconcilers, NEW i,
               StillOpen(r, i) \/ ReadFails(r, i) \/ NoNewExit(r, i)
        PROVE  UInv'
    BY <2>4, SameRows DEF StillOpen, ReadFails, NoNewExit
  <2>5. ASSUME NEW r \in Reconcilers, NEW i, ReconcileFill(r, i) \/ RecordExitFill(r, i)
        PROVE  UInv'
    <3>1. /\ DOMAIN decisions' = DOMAIN decisions
          /\ \A j \in DOMAIN decisions : decisions'[j].id = decisions[j].id
      BY <2>5, FillWritten
    <3>2. /\ known' = known
          /\ pc'[r] \in {"exits", "exit_row"} => pc[r] \in {"exits", "exit_row"}
      BY <2>5 DEF ReconcileFill, RecordExitFill
    <3> QED BY <3>1, <3>2, SameRows
  <2>6. ASSUME NEW r \in Reconcilers, NEW i, RecordExit(r, i) PROVE UInv'
    <3>1. PICK row \in Rows :
            /\ decisions' = Append(decisions, row)
            /\ IsExit(row)
            /\ row.id \notin known[r]
            /\ known' = [known EXCEPT ![r] = @ \cup {row.id}]
      BY <2>6, ExitWritten
    <3>2. /\ DOMAIN decisions = 1 .. Len(decisions)
          /\ Len(decisions) \in Nat
          /\ DOMAIN decisions' = 1 .. Len(decisions) + 1
          /\ \A j \in DOMAIN decisions : decisions'[j] = decisions[j]
          /\ decisions'[Len(decisions) + 1] = row
      BY <3>1, RowAdded DEF RInv, TypeOK
    <3>3. pc[r] = "exits" /\ known'[r] = known[r] \cup {row.id}
      BY <2>6, <3>1 DEF RecordExit, RInv, TypeOK
    <3>4. \A j \in DOMAIN decisions : decisions[j].id # row.id
      BY <3>1, <3>3 DEF UInv, ExitsKnown, IsExit
    <3>5. OneRowPerOrder'
      BY <3>2, <3>4 DEF UInv, OneRowPerOrder
    <3>6. ExitsKnown'
      BY <3>2, <3>3 DEF UInv, ExitsKnown, IsExit
    <3> QED BY <3>5, <3>6 DEF UInv
  <2>7. CASE UNCHANGED vars
    BY <2>7, SameRows DEF vars, local
  <2> QED BY <2>1, <2>2, <2>3, <2>4, <2>5, <2>6, <2>7 DEF Next, Run, Visit
<1>3. UInv => OneRowPerOrder
  BY DEF UInv
<1> QED BY <1>1, <1>2, <1>3, ReconcileInvariant, PTL DEF Spec

LEMMA SmallestNat ==
    ASSUME NEW S, S \subseteq Nat, S # {}
    PROVE  \E x \in S : \A y \in S : x <= y
<1>1. PICK x \in S : \A y \in S : <<y, x>> \notin OpToRel(<, Nat)
  BY NatLessThanWellFounded, WFMin
<1>2. \A y \in S : ~(y < x)
  BY <1>1 DEF OpToRel
<1> QED BY <1>2

-----------------------------------------------------------------------------
(* Folds.  The three folds of the report, told apart by a name so that one *)
(* proof does for all; what a fold computes is what a loop does.           *)

Applied(op, acc, x) ==
    CASE op = "keep"  -> AddUsable(acc, x)
      [] op = "match" -> MatchFill(acc, x)
      [] op = "take"  -> TakeLot(acc, x)

Folds(op, base, s) ==
    CASE op = "keep"  -> FoldLeft(AddUsable, base, s)
      [] op = "match" -> FoldLeft(MatchFill, base, s)
      [] op = "take"  -> FoldLeft(TakeLot, base, s)

\* g folds every set of places of s up to n.
FoldsSets(op, base, s, n, g) ==
    g = [T \in SUBSET (1 .. n) |->
            IF T = {} THEN base ELSE Applied(op, g[T \ {Max(T)}], s[Max(T)])]

\* The largest of some places.
LEMMA LastPlace ==
    ASSUME NEW n \in Nat, NEW T, T \subseteq 1 .. n, T # {}
    PROVE  Max(T) \in T /\ \A y \in T : y <= Max(T)
<1> DEFINE Bounds == {b \in Nat : \A y \in T : y <= b}
<1>1. PICK b \in Bounds : \A c \in Bounds : b <= c
  <2>1. n \in Bounds /\ Bounds \subseteq Nat
    OBVIOUS
  <2> HIDE DEF Bounds
  <2> QED BY <2>1, SmallestNat
<1>2. b \in Nat /\ \A y \in T : y <= b
  BY <1>1
<1>3. b \in T
  <2> SUFFICES ASSUME b \notin T PROVE FALSE
    OBVIOUS
  <2>1. \A y \in T : y \in Nat /\ y <= b /\ y # b /\ y >= 1
    BY <1>2
  <2>2. b - 1 \in Nat
    <3>1. PICK y \in T : TRUE
      OBVIOUS
    <3>2. y \in Nat /\ y <= b /\ y >= 1
      BY <2>1, <3>1
    <3> QED BY <1>2, <3>2
  <2>3. \A y \in T : y <= b - 1
    BY <1>2, <2>1
  <2>4. b - 1 \in Bounds
    BY <2>2, <2>3
  <2> HIDE DEF Bounds
  <2> QED BY <1>1, <1>2, <2>4
<1> QED BY <1>2, <1>3 DEF Max

LEMMA FoldGrows ==
    ASSUME NEW op, NEW base, NEW s, NEW n \in Nat, \E g : FoldsSets(op, base, s, n, g)
    PROVE  \E g : FoldsSets(op, base, s, n + 1, g)
<1>1. PICK g : FoldsSets(op, base, s, n, g)
  OBVIOUS
<1> DEFINE F(h, T) == IF T = {} THEN base ELSE Applied(op, h[T \ {Max(T)}], s[Max(T)])
           h == [T \in SUBSET (1 .. n + 1) |-> F(g, T)]
<1>2. \A T \in SUBSET (1 .. n) : g[T] = F(g, T)
  BY <1>1 DEF FoldsSets
<1>3. \A T \in SUBSET (1 .. n) : T \in SUBSET (1 .. n + 1)
  OBVIOUS
<1>4. \A T \in SUBSET (1 .. n) : h[T] = g[T]
  BY <1>2, <1>3
<1>5. ASSUME NEW T \in SUBSET (1 .. n + 1), T # {}
      PROVE  T \ {Max(T)} \in SUBSET (1 .. n)
  <2>0. n + 1 \in Nat /\ T \subseteq 1 .. (n + 1)
    OBVIOUS
  <2>1. Max(T) \in T /\ \A y \in T : y <= Max(T)
    BY <1>5, <2>0, LastPlace
  <2> DEFINE m == Max(T)
  <2>2. ASSUME NEW y \in T \ {m}
        PROVE  y \in 1 .. n
    <3>1. m \in 1 .. (n + 1) /\ y \in 1 .. (n + 1) /\ y <= m /\ y # m
      BY <2>0, <2>1
    <3> HIDE DEF m
    <3> QED BY <3>1
  <2> QED BY <2>2
<1>6. \A T \in SUBSET (1 .. n + 1) : F(g, T) = F(h, T)
  BY <1>4, <1>5
<1>7. h = [T \in SUBSET (1 .. n + 1) |-> F(h, T)]
  BY <1>6
<1>8. FoldsSets(op, base, s, n + 1, h)
  BY <1>7 DEF FoldsSets
<1> QED BY <1>8

LEMMA FoldExists ==
    ASSUME NEW op, NEW base, NEW s, NEW n \in Nat
    PROVE  \E g : FoldsSets(op, base, s, n, g)
<1> DEFINE Bad == {m \in Nat : ~\E g : FoldsSets(op, base, s, m, g)}
<1> SUFFICES Bad = {}
  OBVIOUS
<1> SUFFICES ASSUME Bad # {} PROVE FALSE
  OBVIOUS
<1>1. PICK m \in Bad : \A k \in Bad : m <= k
  <2>1. Bad \subseteq Nat
    OBVIOUS
  <2> HIDE DEF Bad
  <2> QED BY <2>1, SmallestNat
<1>2. CASE m = 0
  <2> DEFINE g == [T \in SUBSET (1 .. 0) |-> base]
  <2>1. FoldsSets(op, base, s, 0, g)
    <3>1. \A T \in SUBSET (1 .. 0) : T = {}
      OBVIOUS
    <3> QED BY <3>1 DEF FoldsSets
  <2> QED BY <1>2, <2>1
<1>3. CASE m # 0
  <2>1. m - 1 \in Nat /\ (m - 1) + 1 = m /\ ~(m <= m - 1)
    BY <1>3
  <2>2. \E g : FoldsSets(op, base, s, m - 1, g)
    BY <1>1, <2>1
  <2>3. \E g : FoldsSets(op, base, s, (m - 1) + 1, g)
    <3> HIDE DEF Bad
    <3> QED BY <2>1, <2>2, FoldGrows
  <2> QED BY <2>1, <2>3
<1> QED BY <1>2, <1>3

\* A fold is its choice of such a g, and g does what the loop does.
Loops(op, base, s, f) ==
    /\ f[0] = base
    /\ \A n \in 1 .. Len(s) : f[n] = Applied(op, f[n - 1], s[n])
    /\ Folds(op, base, s) = f[Len(s)]

LEMMA FoldIsChosen ==
    ASSUME NEW op \in {"keep", "match", "take"}, NEW base, NEW s, NEW n \in Nat,
           DOMAIN s = 1 .. n
    PROVE  \E g : FoldsSets(op, base, s, n, g) /\ Folds(op, base, s) = g[1 .. n]
<1>1. PICK g : FoldsSets(op, base, s, n, g)
  BY FoldExists
<1>2. CASE op = "keep"
  <2>1. g = [T \in SUBSET (DOMAIN s) |->
               IF T = {} THEN base
               ELSE LET x == Max(T) IN AddUsable(g[T \ {x}], s[x])]
    BY <1>1, <1>2 DEF FoldsSets, Applied
  <2>2. PICK h :
          /\ h = [T \in SUBSET (DOMAIN s) |->
                    IF T = {} THEN base
                    ELSE LET x == Max(T) IN AddUsable(h[T \ {x}], s[x])]
          /\ FoldLeft(AddUsable, base, s) = h[DOMAIN s]
    BY <2>1 DEF FoldLeft, MapThenFoldSet
  <2>3. FoldsSets(op, base, s, n, h)
    BY <1>2, <2>2 DEF FoldsSets, Applied
  <2> QED BY <1>2, <2>2, <2>3 DEF Folds
<1>3. CASE op = "match"
  <2>1. g = [T \in SUBSET (DOMAIN s) |->
               IF T = {} THEN base
               ELSE LET x == Max(T) IN MatchFill(g[T \ {x}], s[x])]
    BY <1>1, <1>3 DEF FoldsSets, Applied
  <2>2. PICK h :
          /\ h = [T \in SUBSET (DOMAIN s) |->
                    IF T = {} THEN base
                    ELSE LET x == Max(T) IN MatchFill(h[T \ {x}], s[x])]
          /\ FoldLeft(MatchFill, base, s) = h[DOMAIN s]
    BY <2>1 DEF FoldLeft, MapThenFoldSet
  <2>3. FoldsSets(op, base, s, n, h)
    BY <1>3, <2>2 DEF FoldsSets, Applied
  <2> QED BY <1>3, <2>2, <2>3 DEF Folds
<1>4. CASE op = "take"
  <2>1. g = [T \in SUBSET (DOMAIN s) |->
               IF T = {} THEN base
               ELSE LET x == Max(T) IN TakeLot(g[T \ {x}], s[x])]
    BY <1>1, <1>4 DEF FoldsSets, Applied
  <2>2. PICK h :
          /\ h = [T \in SUBSET (DOMAIN s) |->
                    IF T = {} THEN base
                    ELSE LET x == Max(T) IN TakeLot(h[T \ {x}], s[x])]
          /\ FoldLeft(TakeLot, base, s) = h[DOMAIN s]
    BY <2>1 DEF FoldLeft, MapThenFoldSet
  <2>3. FoldsSets(op, base, s, n, h)
    BY <1>4, <2>2 DEF FoldsSets, Applied
  <2> QED BY <1>4, <2>2, <2>3 DEF Folds
<1> QED BY <1>2, <1>3, <1>4

LEMMA FoldIsLoop ==
    ASSUME NEW op \in {"keep", "match", "take"}, NEW base, NEW s, NEW n \in Nat,
           DOMAIN s = 1 .. n, Len(s) = n
    PROVE  \E f : Loops(op, base, s, f)
<1>1. PICK g : FoldsSets(op, base, s, n, g) /\ Folds(op, base, s) = g[1 .. n]
  BY FoldIsChosen
<1>2. /\ g[{}] = base
      /\ \A T \in SUBSET (1 .. n) : T # {} => g[T] = Applied(op, g[T \ {Max(T)}], s[Max(T)])
  BY <1>1 DEF FoldsSets
<1> DEFINE f == [m \in 0 .. n |-> g[1 .. m]]
<1>3. f[0] = base
  <2>1. 1 .. 0 = {}
    OBVIOUS
  <2> QED BY <1>2, <2>1
<1>4. ASSUME NEW m \in 1 .. n
      PROVE  f[m] = Applied(op, f[m - 1], s[m])
  <2>1. 1 .. m \in SUBSET (1 .. n) /\ m \in 1 .. m /\ 1 .. m # {}
    OBVIOUS
  <2>2. Max(1 .. m) = m
    <3>1. Max(1 .. m) \in 1 .. m /\ \A y \in 1 .. m : y <= Max(1 .. m)
      BY <2>1, LastPlace
    <3> QED BY <2>1, <3>1
  <2>3. (1 .. m) \ {m} = 1 .. m - 1
    OBVIOUS
  <2>4. f[m] = g[1 .. m] /\ f[m - 1] = g[1 .. m - 1]
    OBVIOUS
  <2> HIDE DEF f
  <2> QED BY <1>2, <2>1, <2>2, <2>3, <2>4
<1>5. f[n] = g[1 .. n]
  OBVIOUS
<1> HIDE DEF f
<1> QED BY <1>1, <1>3, <1>4, <1>5 DEF Loops

-----------------------------------------------------------------------------
(* Sums over finite sets, in whatever order CHOOSE takes the elements.     *)

First(T) == CHOOSE x \in T : TRUE

\* g adds the weights w up over every set of D.
TallyOn(w, D, g) ==
    g = [T \in D |-> IF T = {} THEN 0 ELSE w[First(T)] + g[T \ {First(T)}]]

Tallies(w, K, g) == TallyOn(w, SUBSET K, g)

\* A property of finite sets that passes to a set from one with an element
\* less holds of all of them.  Bad is the sets without it.
LEMMA OneLess ==
    ASSUME NEW K, IsFiniteSet(K), NEW Bad, Bad \subseteq SUBSET K,
           \A T \in Bad : \E x \in T : T \ {x} \in Bad
    PROVE  Bad = {}
<1> SUFFICES ASSUME Bad # {} PROVE FALSE
  OBVIOUS
<1> DEFINE Sizes == {Cardinality(T) : T \in Bad}
<1>1. \A T \in Bad : IsFiniteSet(T) /\ Cardinality(T) \in Nat
  BY FS_Subset, FS_CardinalityType
<1>2. PICK n \in Sizes : \A m \in Sizes : n <= m
  <2>1. Sizes \subseteq Nat /\ Sizes # {}
    BY <1>1
  <2> HIDE DEF Sizes
  <2> QED BY <2>1, SmallestNat
<1>3. PICK T \in Bad : n = Cardinality(T)
  BY <1>2
<1>4. PICK x \in T : T \ {x} \in Bad
  BY <1>3
<1>5. Cardinality(T \ {x}) = n - 1 /\ n \in Nat
  BY <1>1, <1>3, <1>4, FS_RemoveElement
<1>6. n <= n - 1
  BY <1>2, <1>4, <1>5
<1> QED BY <1>5, <1>6

LEMMA FirstIsOne ==
    ASSUME NEW T, T # {}
    PROVE  First(T) \in T
BY DEF First

\* The sets of at most n elements of K.
UpTo(K, n) == {T \in SUBSET K : Cardinality(T) <= n}

LEMMA TallyGrows ==
    ASSUME NEW K, IsFiniteSet(K), NEW w, NEW n \in Nat, \E g : TallyOn(w, UpTo(K, n), g)
    PROVE  \E g : TallyOn(w, UpTo(K, n + 1), g)
<1> DEFINE F(h, T) == IF T = {} THEN 0 ELSE w[First(T)] + h[T \ {First(T)}]
<1>1. PICK g : g = [T \in UpTo(K, n) |-> F(g, T)]
  BY DEF TallyOn
<1> DEFINE h == [T \in UpTo(K, n + 1) |-> F(g, T)]
<1>2. \A T \in UpTo(K, n) : g[T] = F(g, T)
  BY <1>1
<1>3. \A T \in SUBSET K : IsFiniteSet(T) /\ Cardinality(T) \in Nat
  BY FS_Subset, FS_CardinalityType
<1>4. \A T \in UpTo(K, n) : T \in UpTo(K, n + 1)
  BY <1>3 DEF UpTo
<1>5. \A T \in UpTo(K, n) : h[T] = g[T]
  BY <1>2, <1>4
<1>6. ASSUME NEW T \in UpTo(K, n + 1), T # {}
      PROVE  T \ {First(T)} \in UpTo(K, n)
  <2>1. Cardinality(T \ {First(T)}) = Cardinality(T) - 1
    BY <1>3, <1>6, FirstIsOne, FS_RemoveElement DEF UpTo
  <2>2. Cardinality(T) \in Nat /\ Cardinality(T) <= n + 1
    BY <1>3 DEF UpTo
  <2> QED BY <2>1, <2>2 DEF UpTo
<1>7. \A T \in UpTo(K, n + 1) : F(g, T) = F(h, T)
  BY <1>5, <1>6
<1>8. h = [T \in UpTo(K, n + 1) |-> F(h, T)]
  BY <1>7
<1> HIDE DEF h
<1> QED BY <1>8 DEF TallyOn

LEMMA TallyExists ==
    ASSUME NEW K, IsFiniteSet(K), NEW w
    PROVE  \E g : Tallies(w, K, g)
<1> DEFINE Bad == {n \in Nat : ~\E g : TallyOn(w, UpTo(K, n), g)}
<1>1. Bad = {}
  <2> SUFFICES ASSUME Bad # {} PROVE FALSE
    OBVIOUS
  <2>1. PICK n \in Bad : \A m \in Bad : n <= m
    <3>1. Bad \subseteq Nat
      OBVIOUS
    <3> HIDE DEF Bad
    <3> QED BY <3>1, SmallestNat
  <2>2. CASE n = 0
    <3>1. \A T \in UpTo(K, 0) : T = {}
      <4>1. \A T \in SUBSET K : IsFiniteSet(T) /\ Cardinality(T) \in Nat
        BY FS_Subset, FS_CardinalityType
      <4> QED BY <4>1, FS_EmptySet DEF UpTo
    <3> DEFINE g == [T \in UpTo(K, 0) |-> 0]
    <3>2. TallyOn(w, UpTo(K, 0), g)
      BY <3>1 DEF TallyOn
    <3> QED BY <2>2, <3>2
  <2>3. CASE n # 0
    <3>1. n - 1 \in Nat /\ (n - 1) + 1 = n /\ ~(n <= n - 1)
      BY <2>3
    <3>2. \E g : TallyOn(w, UpTo(K, n - 1), g)
      BY <2>1, <3>1
    <3>3. \E g : TallyOn(w, UpTo(K, (n - 1) + 1), g)
      <4> HIDE DEF Bad
      <4> QED BY <3>1, <3>2, TallyGrows
    <3> QED BY <3>1, <3>3
  <2> QED BY <2>2, <2>3
<1>2. Cardinality(K) \in Nat
  BY FS_CardinalityType
<1>3. UpTo(K, Cardinality(K)) = SUBSET K
  BY FS_Subset DEF UpTo
<1>4. \E g : TallyOn(w, UpTo(K, Cardinality(K)), g)
  BY <1>1, <1>2
<1> QED BY <1>3, <1>4 DEF Tallies

LEMMA TallySteps ==
    ASSUME NEW w, NEW K, NEW g, Tallies(w, K, g)
    PROVE  /\ g[{}] = 0
           /\ \A T \in SUBSET K : T # {} => g[T] = w[First(T)] + g[T \ {First(T)}]
BY DEF Tallies, TallyOn

\* Weights that agree add up to the same.
LEMMA TalliesAgree ==
    ASSUME NEW K, IsFiniteSet(K), NEW L, L \subseteq K,
           NEW w, NEW v, \A k \in L : v[k] = w[k],
           NEW g, Tallies(w, K, g), NEW h, Tallies(v, L, h)
    PROVE  \A T \in SUBSET L : h[T] = g[T]
<1> DEFINE Bad == {T \in SUBSET L : h[T] # g[T]}
<1>0. /\ g[{}] = 0 /\ h[{}] = 0
      /\ \A T \in SUBSET K : T # {} => g[T] = w[First(T)] + g[T \ {First(T)}]
      /\ \A T \in SUBSET L : T # {} => h[T] = v[First(T)] + h[T \ {First(T)}]
  <2>1. /\ g[{}] = 0
        /\ \A T \in SUBSET K : T # {} => g[T] = w[First(T)] + g[T \ {First(T)}]
    BY DEF Tallies, TallyOn
  <2>2. /\ h[{}] = 0
        /\ \A T \in SUBSET L : T # {} => h[T] = v[First(T)] + h[T \ {First(T)}]
    BY DEF Tallies, TallyOn
  <2> QED BY <2>1, <2>2
<1>1. IsFiniteSet(L)
  BY FS_Subset
<1>2. ASSUME NEW T \in Bad
      PROVE  \E x \in T : T \ {x} \in Bad
  <2>1. T \in SUBSET L /\ T \in SUBSET K /\ h[T] # g[T]
    OBVIOUS
  <2>2. T # {}
    BY <1>0, <2>1
  <2> DEFINE f == First(T)
  <2>3. f \in T
    BY <2>2, FirstIsOne
  <2>4. h[T] = v[f] + h[T \ {f}] /\ g[T] = w[f] + g[T \ {f}]
    BY <1>0, <2>1, <2>2
  <2> HIDE DEF f
  <2>5. T \ {f} \in SUBSET L /\ v[f] = w[f] /\ h[T \ {f}] # g[T \ {f}]
    BY <2>1, <2>3, <2>4
  <2> QED BY <2>3, <2>5
<1>3. Bad = {}
  <2>1. Bad \subseteq SUBSET L
    OBVIOUS
  <2> HIDE DEF Bad
  <2> QED BY <1>1, <1>2, <2>1, OneLess
<1> QED BY <1>3

LEMMA TallyInt ==
    ASSUME NEW K, IsFiniteSet(K), NEW w, \A k \in K : w[k] \in Int, NEW g, Tallies(w, K, g)
    PROVE  \A T \in SUBSET K : g[T] \in Int
<1> DEFINE Bad == {T \in SUBSET K : g[T] \notin Int}
<1>0. /\ g[{}] = 0
      /\ \A T \in SUBSET K : T # {} => g[T] = w[First(T)] + g[T \ {First(T)}]
  BY TallySteps
<1>z. {} \notin Bad
  BY <1>0
<1>1. ASSUME NEW T \in Bad
      PROVE  \E x \in T : T \ {x} \in Bad
  <2>1. T \in SUBSET K /\ g[T] \notin Int
    OBVIOUS
  <2>2. T # {}
    BY <1>z
  <2> DEFINE f == First(T)
  <2>3. f \in T
    BY <2>2, FirstIsOne
  <2>4. g[T] = w[f] + g[T \ {f}] /\ w[f] \in Int
    BY <1>0, <2>1, <2>2, <2>3
  <2> HIDE DEF f
  <2>5. T \ {f} \in SUBSET K /\ g[T \ {f}] \notin Int
    BY <2>1, <2>3, <2>4
  <2> QED BY <2>3, <2>5
<1>2. Bad = {}
  <2>1. Bad \subseteq SUBSET K
    OBVIOUS
  <2> HIDE DEF Bad
  <2> QED BY <1>1, <2>1, OneLess
<1> QED BY <1>2

\* Any element may be taken out first.
LEMMA TallyAnyOrder ==
    ASSUME NEW K, IsFiniteSet(K), NEW w, \A k \in K : w[k] \in Int, NEW g, Tallies(w, K, g)
    PROVE  \A T \in SUBSET K : \A x \in T : g[T] = w[x] + g[T \ {x}]
<1> DEFINE Bad == {T \in SUBSET K : \E x \in T : g[T] # w[x] + g[T \ {x}]}
<1>1. \A T \in SUBSET K : g[T] \in Int
  BY TallyInt
<1>2. ASSUME NEW T \in Bad
      PROVE  \E x \in T : T \ {x} \in Bad
  <2>1. PICK x \in T : g[T] # w[x] + g[T \ {x}]
    OBVIOUS
  <2> DEFINE f == First(T)
  <2>2. T \in SUBSET K /\ f \in T
    BY FirstIsOne
  <2>3. g[T] = w[f] + g[T \ {f}]
    BY <2>2, TallySteps
  <2> HIDE DEF f
  <2>4. x # f
    BY <2>1, <2>3
  <2>5. CASE T \ {f} \notin Bad /\ T \ {x} \notin Bad
    <3>1. g[T \ {f}] = w[x] + g[(T \ {f}) \ {x}]
      BY <2>2, <2>4, <2>5
    <3>2. g[T \ {x}] = w[f] + g[(T \ {x}) \ {f}]
      BY <2>2, <2>4, <2>5
    <3>3. (T \ {f}) \ {x} = (T \ {x}) \ {f}
      OBVIOUS
    <3> DEFINE r == g[(T \ {f}) \ {x}]
    <3>4. r \in Int /\ w[x] \in Int /\ w[f] \in Int
      BY <1>1, <2>2
    <3>5. g[T] = w[f] + (w[x] + r) /\ g[T \ {x}] = w[f] + r
      BY <2>3, <3>1, <3>2, <3>3
    <3> HIDE DEF r, Bad
    <3>6. g[T] = w[x] + g[T \ {x}]
      BY <3>4, <3>5
    <3> QED BY <2>1, <3>6
  <2> HIDE DEF Bad
  <2> QED BY <2>2, <2>5
<1>3. Bad = {}
  <2>1. Bad \subseteq SUBSET K
    OBVIOUS
  <2> HIDE DEF Bad
  <2> QED BY <1>2, <2>1, OneLess
<1> QED BY <1>3

-----------------------------------------------------------------------------
(* What is sold and what is left of a row, as sums over the first n places *)
(* of a sequence: key says which row a place is of.                        *)

Places(key, n, row) == {k \in 1 .. n : key[k] = row}

Amount(key, qty, n, row) == MapThenSumSet(LAMBDA k : qty[k], Places(key, n, row))

LEMMA PlacesFinite ==
    ASSUME NEW key, NEW n \in Nat, NEW row
    PROVE  IsFiniteSet(Places(key, n, row))
<1>1. IsFiniteSet(1 .. n)
  BY FS_Interval
<1>2. Places(key, n, row) \subseteq 1 .. n
  BY DEF Places
<1> QED BY <1>1, <1>2, FS_Subset

LEMMA AmountIsTally ==
    ASSUME NEW key, NEW qty, NEW n \in Nat, NEW row
    PROVE  \E g : /\ Tallies(qty, Places(key, n, row), g)
                  /\ Amount(key, qty, n, row) = g[Places(key, n, row)]
<1> DEFINE K == Places(key, n, row)
<1>1. PICK g : Tallies(qty, K, g)
  BY PlacesFinite, TallyExists
<1>2. g = [T \in SUBSET K |->
             IF T = {} THEN 0
             ELSE LET x == CHOOSE x \in T : TRUE IN qty[x] + g[T \ {x}]]
  BY <1>1 DEF Tallies, TallyOn, First
<1>3. PICK h :
        /\ h = [T \in SUBSET K |->
                  IF T = {} THEN 0
                  ELSE LET x == CHOOSE x \in T : TRUE IN qty[x] + h[T \ {x}]]
        /\ Amount(key, qty, n, row) = h[K]
  BY <1>2 DEF Amount, MapThenSumSet, MapThenFoldSet
<1>4. Tallies(qty, K, h)
  BY <1>3 DEF Tallies, TallyOn, First
<1> QED BY <1>3, <1>4

\* The first m places of key2 and qty2 are the n of key and qty and one more.
OneMore(key, qty, n, key2, qty2, m) ==
    /\ n \in Nat /\ m = n + 1
    /\ \A k \in 1 .. n : key2[k] = key[k] /\ qty2[k] = qty[k]
    /\ \A k \in 1 .. m : qty2[k] \in Int

\* What place m adds to a row.
Adds(key, qty, m, row) == IF key[m] = row THEN qty[m] ELSE 0

\* One place more adds its quantity to its own row.
LEMMA AmountGrows ==
    ASSUME NEW key, NEW qty, NEW n, NEW key2, NEW qty2, NEW m, NEW row,
           OneMore(key, qty, n, key2, qty2, m)
    PROVE  /\ Amount(key, qty, n, row) \in Int
           /\ Amount(key2, qty2, m, row)
                = Amount(key, qty, n, row) + Adds(key2, qty2, m, row)
<1>0. /\ n \in Nat /\ m \in Nat /\ m = n + 1
      /\ \A k \in 1 .. n : key2[k] = key[k] /\ qty2[k] = qty[k]
      /\ \A k \in 1 .. m : qty2[k] \in Int
  BY DEF OneMore
<1> DEFINE K == Places(key, n, row)
           L == Places(key2, m, row)
<1>1. PICK g : Tallies(qty, K, g) /\ Amount(key, qty, n, row) = g[K]
  BY <1>0, AmountIsTally
<1>2. PICK h : Tallies(qty2, L, h) /\ Amount(key2, qty2, m, row) = h[L]
  BY <1>0, AmountIsTally
<1>3. IsFiniteSet(K) /\ IsFiniteSet(L)
  BY <1>0, PlacesFinite
<1>4. /\ K \subseteq L
      /\ \A k \in K : qty[k] = qty2[k]
      /\ \A k \in L : qty2[k] \in Int
      /\ \A k \in K : qty[k] \in Int
  BY <1>0 DEF Places
<1>5. L \ {m} = K /\ (m \in L <=> key2[m] = row)
  BY <1>0 DEF Places
<1> HIDE DEF K, L
<1>6. \A T \in SUBSET K : g[T] = h[T]
  <2>1. IsFiniteSet(L) /\ K \subseteq L /\ \A k \in K : qty[k] = qty2[k]
    BY <1>3, <1>4
  <2>2. Tallies(qty2, L, h) /\ Tallies(qty, K, g)
    BY <1>1, <1>2
  <2> QED BY <2>1, <2>2, TalliesAgree
<1>7. \A T \in SUBSET K : g[T] \in Int
  BY <1>1, <1>3, <1>4, TallyInt
<1>8. ASSUME key2[m] = row
      PROVE  h[L] = g[K] + qty2[m]
  <2>1. h[L] = qty2[m] + h[L \ {m}]
    BY <1>2, <1>3, <1>4, <1>5, <1>8, TallyAnyOrder
  <2>2. h[K] = g[K] /\ g[K] \in Int /\ qty2[m] \in Int
    BY <1>4, <1>5, <1>6, <1>7, <1>8
  <2>3. h[L \ {m}] = h[K]
    BY <1>5
  <2> DEFINE r == h[L \ {m}]
             a == g[K]
             q == qty2[m]
  <2>4. h[L] = q + r /\ r = a /\ a \in Int /\ q \in Int
    BY <2>1, <2>2, <2>3
  <2> HIDE DEF r, a, q
  <2>5. h[L] = a + q
    BY <2>4
  <2> QED BY <2>5 DEF a, q
<1>9. ASSUME key2[m] # row
      PROVE  h[L] = g[K] + 0
  <2>1. L = K /\ h[K] = g[K] /\ g[K] \in Int
    BY <1>5, <1>6, <1>7, <1>9
  <2> QED BY <2>1
<1>10. g[K] \in Int
  BY <1>7
<1>11. h[L] = g[K] + Adds(key2, qty2, m, row)
  BY <1>8, <1>9 DEF Adds
<1> QED BY <1>1, <1>2, <1>10, <1>11

LEMMA AmountNone ==
    ASSUME NEW key, NEW qty, NEW n \in Nat, NEW row, \A k \in 1 .. n : key[k] # row
    PROVE  Amount(key, qty, n, row) = 0
<1>1. Places(key, n, row) = {}
  BY DEF Places
<1>2. PICK g : /\ Tallies(qty, Places(key, n, row), g)
               /\ Amount(key, qty, n, row) = g[Places(key, n, row)]
  BY AmountIsTally
<1> QED BY <1>1, <1>2 DEF Tallies, TallyOn

Lots == [row : Nat, qty : Nat \ {0}]
Trips == [buy : Nat, sell : Nat, qty : Nat \ {0}]
Books == [lots : Seq(Lots), trips : Seq(Trips), sell : Nat, remaining : Nat]

RowOf(lots) == [k \in DOMAIN lots |-> lots[k].row]
BuyOf(trips) == [k \in DOMAIN trips |-> trips[k].buy]

LEMMA LeftIsAmount ==
    ASSUME NEW book, book.lots \in Seq(Lots), NEW row
    PROVE  Left(book, row) = Amount(RowOf(book.lots), QtyOf(book.lots), Len(book.lots), row)
<1> DEFINE s == book.lots
           w == QtyOf(s)
           K == Places(RowOf(s), Len(s), row)
<1>1. DOMAIN s = 1 .. Len(s) /\ Len(s) \in Nat
  OBVIOUS
<1>2. /\ K = {k \in DOMAIN book.lots : book.lots[k].row = row}
      /\ \A k \in K : w[k] = book.lots[k].qty
  BY <1>1 DEF Places, RowOf, QtyOf
<1>3. IsFiniteSet(K)
  BY <1>1, PlacesFinite
<1>4. PICK g : Tallies(w, K, g) /\ Amount(RowOf(s), w, Len(s), row) = g[K]
  BY <1>1, AmountIsTally
<1> HIDE DEF K, w
<1>5. \A T \in SUBSET K : T # {} => w[First(T)] = book.lots[First(T)].qty
  BY <1>2, FirstIsOne
<1>e. ASSUME NEW e
      PROVE  Tallies(w, K, e) <=>
               e = [T \in SUBSET K |->
                      IF T = {} THEN 0 ELSE book.lots[First(T)].qty + e[T \ {First(T)}]]
  <2>1. \A T \in SUBSET K :
           (IF T = {} THEN 0 ELSE w[First(T)] + e[T \ {First(T)}])
             = (IF T = {} THEN 0 ELSE book.lots[First(T)].qty + e[T \ {First(T)}])
    BY <1>5
  <2>2. [T \in SUBSET K |-> IF T = {} THEN 0 ELSE w[First(T)] + e[T \ {First(T)}]]
          = [T \in SUBSET K |->
                IF T = {} THEN 0 ELSE book.lots[First(T)].qty + e[T \ {First(T)}]]
    BY <2>1
  <2> QED BY <2>2 DEF Tallies, TallyOn
<1>6. g = [T \in SUBSET K |->
             IF T = {} THEN 0
             ELSE LET x == CHOOSE x \in T : TRUE IN book.lots[x].qty + g[T \ {x}]]
  BY <1>4, <1>e DEF First
<1>7. PICK h :
        /\ h = [T \in SUBSET K |->
                  IF T = {} THEN 0
                  ELSE LET x == CHOOSE x \in T : TRUE IN book.lots[x].qty + h[T \ {x}]]
        /\ Left(book, row) = h[K]
  BY <1>2, <1>6, ZenonT(60) DEF Left, MapThenSumSet, MapThenFoldSet
<1>8. Tallies(w, K, h)
  BY <1>7, <1>e DEF First
<1>9. h[K] = g[K]
  BY <1>3, <1>4, <1>8, TalliesAgree
<1> QED BY <1>4, <1>7, <1>9 DEF w

LEMMA SoldIsAmount ==
    ASSUME NEW book, book.trips \in Seq(Trips), NEW row
    PROVE  Sold(book, row) = Amount(BuyOf(book.trips), QtyOf(book.trips), Len(book.trips), row)
<1> DEFINE s == book.trips
           w == QtyOf(s)
           K == Places(BuyOf(s), Len(s), row)
<1>1. DOMAIN s = 1 .. Len(s) /\ Len(s) \in Nat
  OBVIOUS
<1>2. /\ K = {k \in DOMAIN book.trips : book.trips[k].buy = row}
      /\ \A k \in K : w[k] = book.trips[k].qty
  BY <1>1 DEF Places, BuyOf, QtyOf
<1>3. IsFiniteSet(K)
  BY <1>1, PlacesFinite
<1>4. PICK g : Tallies(w, K, g) /\ Amount(BuyOf(s), w, Len(s), row) = g[K]
  BY <1>1, AmountIsTally
<1> HIDE DEF K, w
<1>5. \A T \in SUBSET K : T # {} => w[First(T)] = book.trips[First(T)].qty
  BY <1>2, FirstIsOne
<1>e. ASSUME NEW e
      PROVE  Tallies(w, K, e) <=>
               e = [T \in SUBSET K |->
                      IF T = {} THEN 0 ELSE book.trips[First(T)].qty + e[T \ {First(T)}]]
  <2>1. \A T \in SUBSET K :
           (IF T = {} THEN 0 ELSE w[First(T)] + e[T \ {First(T)}])
             = (IF T = {} THEN 0 ELSE book.trips[First(T)].qty + e[T \ {First(T)}])
    BY <1>5
  <2>2. [T \in SUBSET K |-> IF T = {} THEN 0 ELSE w[First(T)] + e[T \ {First(T)}]]
          = [T \in SUBSET K |->
                IF T = {} THEN 0 ELSE book.trips[First(T)].qty + e[T \ {First(T)}]]
    BY <2>1
  <2> QED BY <2>2 DEF Tallies, TallyOn
<1>6. g = [T \in SUBSET K |->
             IF T = {} THEN 0
             ELSE LET x == CHOOSE x \in T : TRUE IN book.trips[x].qty + g[T \ {x}]]
  BY <1>4, <1>e DEF First
<1>7. PICK h :
        /\ h = [T \in SUBSET K |->
                  IF T = {} THEN 0
                  ELSE LET x == CHOOSE x \in T : TRUE IN book.trips[x].qty + h[T \ {x}]]
        /\ Sold(book, row) = h[K]
  BY <1>2, <1>6, ZenonT(60) DEF Sold, MapThenSumSet, MapThenFoldSet
<1>8. Tallies(w, K, h)
  BY <1>7, <1>e DEF First
<1>9. h[K] = g[K]
  BY <1>3, <1>4, <1>8, TalliesAgree
<1> QED BY <1>4, <1>7, <1>9 DEF w

\* Appending to a sequence, place by place.
LEMMA Appended ==
    ASSUME NEW S, NEW s \in Seq(S), NEW x \in S, NEW t, t = Append(s, x)
    PROVE  /\ t \in Seq(S) /\ Len(t) = Len(s) + 1 /\ Len(s) \in Nat
           /\ DOMAIN s = 1 .. Len(s) /\ DOMAIN t = 1 .. (Len(s) + 1)
           /\ \A i \in 1 .. Len(s) : t[i] = s[i]
           /\ t[Len(s) + 1] = x
OBVIOUS

LEMMA LeftAppends ==
    ASSUME NEW book, book.lots \in Seq(Lots), NEW lot \in Lots, NEW more,
           more.lots = Append(book.lots, lot), NEW row
    PROVE  /\ Left(book, row) \in Int
           /\ Left(more, row) = Left(book, row) + (IF lot.row = row THEN lot.qty ELSE 0)
<1> DEFINE s == book.lots
           t == more.lots
           n == Len(s)
           m == n + 1
<1>1. /\ t \in Seq(Lots) /\ Len(t) = n + 1 /\ n \in Nat
      /\ DOMAIN s = 1 .. n /\ DOMAIN t = 1 .. (n + 1)
      /\ \A i \in 1 .. n : t[i] = s[i]
      /\ t[n + 1] = lot
  BY Appended
<1>2. /\ \A i \in 1 .. n : RowOf(t)[i] = RowOf(s)[i] /\ QtyOf(t)[i] = QtyOf(s)[i]
      /\ \A i \in 1 .. (n + 1) : QtyOf(t)[i] \in Int
      /\ RowOf(t)[n + 1] = lot.row /\ QtyOf(t)[n + 1] = lot.qty
  <2>1. \A i \in 1 .. (n + 1) : t[i] \in Lots
    BY <1>1
  <2> HIDE DEF s, t, n
  <2> QED BY <1>1, <2>1 DEF RowOf, QtyOf, Lots
<1>3. /\ Left(book, row) = Amount(RowOf(s), QtyOf(s), n, row)
      /\ Left(more, row) = Amount(RowOf(t), QtyOf(t), m, row)
  BY <1>1, LeftIsAmount
<1>n. m = n + 1
  OBVIOUS
<1> HIDE DEF s, t, n, m
<1> DEFINE key == RowOf(s)
           qty == QtyOf(s)
           key2 == RowOf(t)
           qty2 == QtyOf(t)
<1>4. /\ OneMore(key, qty, n, key2, qty2, m)
      /\ key2[m] = key2[n + 1] /\ qty2[m] = qty2[n + 1]
  BY <1>n, <1>1, <1>2 DEF OneMore
<1> HIDE DEF key, qty, key2, qty2
<1>5. /\ Amount(key, qty, n, row) \in Int
      /\ Amount(key2, qty2, m, row)
           = Amount(key, qty, n, row) + Adds(key2, qty2, m, row)
  BY <1>4, AmountGrows
<1> QED BY <1>n, <1>2, <1>3, <1>5 DEF key, qty, key2, qty2, Adds

LEMMA SoldAppends ==
    ASSUME NEW book, book.trips \in Seq(Trips), NEW trip \in Trips, NEW more,
           more.trips = Append(book.trips, trip), NEW row
    PROVE  /\ Sold(book, row) \in Int
           /\ Sold(more, row) = Sold(book, row) + (IF trip.buy = row THEN trip.qty ELSE 0)
<1> DEFINE s == book.trips
           t == more.trips
           n == Len(s)
           m == n + 1
<1>1. /\ t \in Seq(Trips) /\ Len(t) = n + 1 /\ n \in Nat
      /\ DOMAIN s = 1 .. n /\ DOMAIN t = 1 .. (n + 1)
      /\ \A i \in 1 .. n : t[i] = s[i]
      /\ t[n + 1] = trip
  BY Appended
<1>2. /\ \A i \in 1 .. n : BuyOf(t)[i] = BuyOf(s)[i] /\ QtyOf(t)[i] = QtyOf(s)[i]
      /\ \A i \in 1 .. (n + 1) : QtyOf(t)[i] \in Int
      /\ BuyOf(t)[n + 1] = trip.buy /\ QtyOf(t)[n + 1] = trip.qty
  <2>1. \A i \in 1 .. (n + 1) : t[i] \in Trips
    BY <1>1
  <2> HIDE DEF s, t, n
  <2> QED BY <1>1, <2>1 DEF BuyOf, QtyOf, Trips
<1>3. /\ Sold(book, row) = Amount(BuyOf(s), QtyOf(s), n, row)
      /\ Sold(more, row) = Amount(BuyOf(t), QtyOf(t), m, row)
  BY <1>1, SoldIsAmount
<1>n. m = n + 1
  OBVIOUS
<1> HIDE DEF s, t, n, m
<1> DEFINE key == BuyOf(s)
           qty == QtyOf(s)
           key2 == BuyOf(t)
           qty2 == QtyOf(t)
<1>4. /\ OneMore(key, qty, n, key2, qty2, m)
      /\ key2[m] = key2[n + 1] /\ qty2[m] = qty2[n + 1]
  BY <1>n, <1>1, <1>2 DEF OneMore
<1> HIDE DEF key, qty, key2, qty2
<1>5. /\ Amount(key, qty, n, row) \in Int
      /\ Amount(key2, qty2, m, row)
           = Amount(key, qty, n, row) + Adds(key2, qty2, m, row)
  BY <1>4, AmountGrows
<1> QED BY <1>n, <1>2, <1>3, <1>5 DEF key, qty, key2, qty2, Adds

LEMMA LeftSame ==
    ASSUME NEW book, book.lots \in Seq(Lots), NEW more, more.lots = book.lots, NEW row
    PROVE  Left(more, row) = Left(book, row)
<1>1. Left(book, row) = Amount(RowOf(book.lots), QtyOf(book.lots), Len(book.lots), row)
  BY LeftIsAmount
<1>2. Left(more, row) = Amount(RowOf(more.lots), QtyOf(more.lots), Len(more.lots), row)
  BY LeftIsAmount
<1> QED BY <1>1, <1>2

LEMMA SoldSame ==
    ASSUME NEW book, book.trips \in Seq(Trips), NEW more, more.trips = book.trips, NEW row
    PROVE  Sold(more, row) = Sold(book, row)
<1>1. Sold(book, row) = Amount(BuyOf(book.trips), QtyOf(book.trips), Len(book.trips), row)
  BY SoldIsAmount
<1>2. Sold(more, row) = Amount(BuyOf(more.trips), QtyOf(more.trips), Len(more.trips), row)
  BY SoldIsAmount
<1> QED BY <1>1, <1>2

LEMMA LeftNone ==
    ASSUME NEW book, book.lots \in Seq(Lots), NEW row,
           \A k \in DOMAIN book.lots : book.lots[k].row # row
    PROVE  Left(book, row) = 0
<1>1. DOMAIN book.lots = 1 .. Len(book.lots) /\ Len(book.lots) \in Nat
  OBVIOUS
<1>2. \A k \in 1 .. Len(book.lots) : RowOf(book.lots)[k] # row
  BY <1>1 DEF RowOf
<1> QED BY <1>1, <1>2, LeftIsAmount, AmountNone

LEMMA SoldNone ==
    ASSUME NEW book, book.trips \in Seq(Trips), NEW row,
           \A k \in DOMAIN book.trips : book.trips[k].buy # row
    PROVE  Sold(book, row) = 0
<1>1. DOMAIN book.trips = 1 .. Len(book.trips) /\ Len(book.trips) \in Nat
  OBVIOUS
<1>2. \A k \in 1 .. Len(book.trips) : BuyOf(book.trips)[k] # row
  BY <1>1 DEF BuyOf
<1> QED BY <1>1, <1>2, SoldIsAmount, AmountNone

LEMMA SplitsInt ==
    ASSUME NEW book \in Books, NEW row
    PROVE  Sold(book, row) \in Int /\ Left(book, row) \in Int
<1> DEFINE lot == [row |-> 1, qty |-> 1]
           trip == [buy |-> 1, sell |-> 1, qty |-> 1]
<1>1. Left(book, row) \in Int
  <2>1. book.lots \in Seq(Lots) /\ lot \in Lots
    BY DEF Books, Lots
  <2>2. [book EXCEPT !.lots = Append(@, lot)].lots = Append(book.lots, lot)
    BY DEF Books
  <2> QED BY <2>1, <2>2, LeftAppends
<1>2. Sold(book, row) \in Int
  <2>1. book.trips \in Seq(Trips) /\ trip \in Trips
    BY DEF Books, Trips
  <2>2. [book EXCEPT !.trips = Append(@, trip)].trips = Append(book.trips, trip)
    BY DEF Books
  <2> QED BY <2>1, <2>2, SoldAppends
<1> QED BY <1>1, <1>2

-----------------------------------------------------------------------------
\* Nothing in the book is of a row newer than row.
Until(book, row) ==
    /\ \A k \in DOMAIN book.lots : book.lots[k].row <= row
    /\ \A k \in DOMAIN book.trips : book.trips[k].buy <= row

\* Oldest first.
InOrder(book) ==
    /\ book \in Books
    /\ \A k, m \in DOMAIN book.lots : k < m => book.lots[k].row <= book.lots[m].row
    /\ \A k, m \in DOMAIN book.trips : k < m => book.trips[k].buy <= book.trips[m].buy
    /\ \A k \in DOMAIN book.trips : \A m \in DOMAIN book.lots :
            book.trips[k].buy <= book.lots[m].row

Total(book, row) == Sold(book, row) + Left(book, row)

\* more is book with so much more of a row.
Gains(book, more, key, qty) ==
    /\ InOrder(more)
    /\ \A x \in Nat : Until(book, x) /\ key <= x => Until(more, x)
    /\ \A row : Total(more, row) = Total(book, row) + (IF key = row THEN qty ELSE 0)

LEMMA AddTrip ==
    ASSUME NEW book, InOrder(book), NEW trip \in Trips,
           \A k \in DOMAIN book.trips : book.trips[k].buy <= trip.buy,
           \A k \in DOMAIN book.lots : trip.buy <= book.lots[k].row,
           NEW more \in Books, more.lots = book.lots, more.trips = Append(book.trips, trip)
    PROVE  Gains(book, more, trip.buy, trip.qty)
<1>1. book \in Books /\ book.trips \in Seq(Trips) /\ book.lots \in Seq(Lots)
  BY DEF InOrder, Books
<1> DEFINE n == Len(book.trips)
<1>2. /\ n \in Nat /\ DOMAIN book.trips = 1 .. n /\ DOMAIN more.trips = 1 .. (n + 1)
      /\ \A i \in 1 .. n : more.trips[i] = book.trips[i]
      /\ more.trips[n + 1] = trip
  BY <1>1, Appended
<1> HIDE DEF n
<1>4. trip.buy \in Nat /\ trip.qty \in Nat
  BY DEF Trips
<1>5. /\ \A k, m \in 1 .. (n + 1) : k < m => more.trips[k].buy <= more.trips[m].buy
      /\ \A k \in 1 .. (n + 1) : \A m \in DOMAIN more.lots :
            more.trips[k].buy <= more.lots[m].row
  <2>1. \A k \in 1 .. (n + 1) : k \in 1 .. n \/ k = n + 1
    BY <1>2
  <2>3. ASSUME NEW k \in 1 .. (n + 1), NEW m \in 1 .. (n + 1), k < m
        PROVE  more.trips[k].buy <= more.trips[m].buy
    <3>1. k \in 1 .. n
      BY <1>2, <2>3
    <3> QED BY <1>2, <2>1, <2>3, <3>1 DEF InOrder, Until
  <2>4. ASSUME NEW k \in 1 .. (n + 1), NEW m \in DOMAIN more.lots
        PROVE  more.trips[k].buy <= more.lots[m].row
    BY <1>2, <2>1 DEF InOrder, Until
  <2> QED BY <2>3, <2>4
<1>6. InOrder(more)
  BY <1>2, <1>5 DEF InOrder
<1>7. ASSUME NEW row
      PROVE  Total(more, row) = Total(book, row) + (IF trip.buy = row THEN trip.qty ELSE 0)
  <2>1. Left(more, row) = Left(book, row)
    BY <1>1, LeftSame
  <2>2. Sold(more, row) = Sold(book, row) + (IF trip.buy = row THEN trip.qty ELSE 0)
    BY <1>1, SoldAppends
  <2>3. Sold(book, row) \in Int /\ Left(book, row) \in Int
    BY <1>1, SplitsInt
  <2> QED BY <1>4, <2>1, <2>2, <2>3 DEF Total
<1>8. ASSUME NEW x \in Nat, Until(book, x), trip.buy <= x
      PROVE  Until(more, x)
  <2>1. \A k \in 1 .. (n + 1) : k \in 1 .. n \/ k = n + 1
    BY <1>2
  <2> QED BY <1>2, <1>8, <2>1 DEF Until
<1> QED BY <1>6, <1>7, <1>8 DEF Gains

LEMMA AddLot ==
    ASSUME NEW book, InOrder(book), NEW lot \in Lots, Until(book, lot.row),
           NEW more \in Books, more.trips = book.trips, more.lots = Append(book.lots, lot)
    PROVE  Gains(book, more, lot.row, lot.qty)
<1>1. book \in Books /\ book.trips \in Seq(Trips) /\ book.lots \in Seq(Lots)
  BY DEF InOrder, Books
<1> DEFINE n == Len(book.lots)
<1>2. /\ n \in Nat /\ DOMAIN book.lots = 1 .. n /\ DOMAIN more.lots = 1 .. (n + 1)
      /\ \A i \in 1 .. n : more.lots[i] = book.lots[i]
      /\ more.lots[n + 1] = lot
  BY <1>1, Appended
<1> HIDE DEF n
<1>4. lot.row \in Nat /\ lot.qty \in Nat
  BY DEF Lots
<1>5. /\ \A k, m \in 1 .. (n + 1) : k < m => more.lots[k].row <= more.lots[m].row
      /\ \A k \in DOMAIN more.trips : \A m \in 1 .. (n + 1) :
            more.trips[k].buy <= more.lots[m].row
  <2>1. \A k \in 1 .. (n + 1) : k \in 1 .. n \/ k = n + 1
    BY <1>2
  <2>3. ASSUME NEW k \in 1 .. (n + 1), NEW m \in 1 .. (n + 1), k < m
        PROVE  more.lots[k].row <= more.lots[m].row
    <3>1. k \in 1 .. n
      BY <1>2, <2>3
    <3> QED BY <1>2, <2>1, <2>3, <3>1 DEF InOrder, Until
  <2>4. ASSUME NEW k \in DOMAIN more.trips, NEW m \in 1 .. (n + 1)
        PROVE  more.trips[k].buy <= more.lots[m].row
    BY <1>2, <2>1 DEF InOrder, Until
  <2> QED BY <2>3, <2>4
<1>6. InOrder(more)
  BY <1>2, <1>5 DEF InOrder
<1>7. ASSUME NEW row
      PROVE  Total(more, row) = Total(book, row) + (IF lot.row = row THEN lot.qty ELSE 0)
  <2>1. Sold(more, row) = Sold(book, row)
    BY <1>1, SoldSame
  <2>2. Left(more, row) = Left(book, row) + (IF lot.row = row THEN lot.qty ELSE 0)
    BY <1>1, LeftAppends
  <2>3. Sold(book, row) \in Int /\ Left(book, row) \in Int
    BY <1>1, SplitsInt
  <2> QED BY <1>4, <2>1, <2>2, <2>3 DEF Total
<1>8. ASSUME NEW x \in Nat, Until(book, x), lot.row <= x
      PROVE  Until(more, x)
  <2>1. \A k \in 1 .. (n + 1) : k \in 1 .. n \/ k = n + 1
    BY <1>2
  <2> QED BY <1>2, <1>8, <2>1 DEF Until
<1> QED BY <1>6, <1>7, <1>8 DEF Gains

LEMMA GainsTwice ==
    ASSUME NEW a, InOrder(a), NEW b, NEW c, NEW key \in Nat, NEW q \in Nat, NEW r \in Nat,
           Gains(a, b, key, q), Gains(b, c, key, r)
    PROVE  Gains(a, c, key, q + r)
<1>1. ASSUME NEW row
      PROVE  Total(c, row) = Total(a, row) + (IF key = row THEN q + r ELSE 0)
  <2>1. Total(a, row) \in Int
    BY SplitsInt DEF InOrder, Total
  <2>2. /\ Total(b, row) = Total(a, row) + (IF key = row THEN q ELSE 0)
        /\ Total(c, row) = Total(b, row) + (IF key = row THEN r ELSE 0)
    BY DEF Gains
  <2> QED BY <2>1, <2>2
<1> QED BY <1>1 DEF Gains

LEMMA Updated ==
    ASSUME NEW A, NEW B, NEW C, NEW D,
           NEW book \in [lots : A, trips : B, sell : C, remaining : D],
           NEW l \in A, NEW b \in B, NEW d \in D, NEW more,
           more = [book EXCEPT !.remaining = d, !.trips = b, !.lots = l]
    PROVE  /\ more \in [lots : A, trips : B, sell : C, remaining : D]
           /\ more.lots = l /\ more.trips = b /\ more.remaining = d /\ more.sell = book.sell
OBVIOUS

LEMMA Resized ==
    ASSUME NEW lot \in Lots, NEW q
    PROVE  [lot EXCEPT !.qty = q] = [row |-> lot.row, qty |-> q]
BY DEF Lots

Matched(book, lot) == IF book.remaining < lot.qty THEN book.remaining ELSE lot.qty

\* more is book after q shares of the lot.
Took(book, lot, q, more) ==
    /\ more \in Books
    /\ more.remaining = book.remaining - q
    /\ more.trips = IF q > 0
                     THEN Append(book.trips,
                                 [buy |-> lot.row, sell |-> book.sell, qty |-> q])
                     ELSE book.trips
    /\ more.lots = IF lot.qty - q > 0
                    THEN Append(book.lots, [row |-> lot.row, qty |-> lot.qty - q])
                    ELSE book.lots

\* What one pass of the loop does.
LEMMA TakeLotTakes ==
    ASSUME NEW book \in Books, NEW lot \in Lots
    PROVE  Took(book, lot, Matched(book, lot), TakeLot(book, lot))
<1> DEFINE q == Matched(book, lot)
           more == TakeLot(book, lot) trip == [buy |-> lot.row, sell |-> book.sell, qty |-> q]
           rest == [row |-> lot.row, qty |-> lot.qty - q]
           b == IF q > 0 THEN Append(book.trips, trip) ELSE book.trips
           l == IF lot.qty - q > 0 THEN Append(book.lots, rest) ELSE book.lots
           d == book.remaining - q
<1>1. /\ lot.row \in Nat /\ lot.qty \in Nat /\ lot.qty > 0
      /\ book.remaining \in Nat /\ book.sell \in Nat
      /\ book.lots \in Seq(Lots) /\ book.trips \in Seq(Trips)
  BY DEF Books, Lots
<1>2. q \in Nat /\ d \in Nat /\ lot.qty - q \in Nat
  BY <1>1 DEF Matched
<1>3. (q > 0 => trip \in Trips) /\ (lot.qty - q > 0 => rest \in Lots)
  BY <1>1, <1>2 DEF Trips, Lots
<1> HIDE DEF trip, rest
<1>4. b \in Seq(Trips)
  BY <1>1, <1>3
<1>5. l \in Seq(Lots)
  BY <1>1, <1>3
<1>6. [lot EXCEPT !.qty = lot.qty - q] = rest
  BY Resized DEF rest
<1>7. rest.qty = lot.qty - q
  BY DEF rest
<1>8. more = [book EXCEPT !.remaining = d, !.trips = b, !.lots = l]
  BY <1>6, <1>7 DEF TakeLot, Matched, trip
<1> HIDE DEF b, l, d, more, q
<1>9. /\ more \in Books /\ more.lots = l /\ more.trips = b /\ more.remaining = d
  BY <1>2, <1>4, <1>5, <1>8, Updated DEF Books
<1>10. Took(book, lot, q, more)
  BY <1>9 DEF Took, b, l, d, trip, rest
<1> QED BY <1>10 DEF q, more

\* One pass of the loop keeps the order and moves what it takes of the lot
\* from the queue to the trips.
LEMMA TakeLotGains ==
    ASSUME NEW book, InOrder(book), book.remaining > 0 => book.lots = <<>>,
           NEW lot \in Lots, Until(book, lot.row), NEW more, more = TakeLot(book, lot)
    PROVE  /\ Gains(book, more, lot.row, lot.qty)
           /\ more.remaining > 0 => more.lots = <<>>
<1>0. /\ book \in Books /\ book.remaining \in Nat /\ book.sell \in Nat
      /\ book.lots \in Seq(Lots) /\ book.trips \in Seq(Trips)
      /\ lot.row \in Nat /\ lot.qty \in Nat /\ lot.qty > 0
  BY DEF InOrder, Books, Lots
<1>t. Took(book, lot, Matched(book, lot), more)
  BY <1>0, TakeLotTakes
<1>1. CASE book.remaining = 0
  <2>1. [row |-> lot.row, qty |-> lot.qty] = lot
    BY DEF Lots
  <2>2. /\ more \in Books /\ more.lots = Append(book.lots, lot) /\ more.trips = book.trips
        /\ more.remaining = 0
    BY <1>0, <1>1, <1>t, <2>1 DEF Took, Matched
  <2> QED BY <1>0, <2>2, AddLot
<1>2. CASE book.remaining > 0 /\ book.remaining < lot.qty
  <2> DEFINE q == book.remaining
             r == lot.qty - q
             trip == [buy |-> lot.row, sell |-> book.sell, qty |-> q]
             rest == [row |-> lot.row, qty |-> r]
             mid == [book EXCEPT !.remaining = 0, !.trips = Append(book.trips, trip),
                                 !.lots = book.lots]
  <2>1. q \in Nat \ {0} /\ r \in Nat \ {0} /\ q + r = lot.qty
    BY <1>0, <1>2
  <2>2. rest \in Lots /\ trip \in Trips
    BY <1>0, <2>1 DEF Lots, Trips
  <2>3. /\ more \in Books /\ more.lots = Append(book.lots, rest)
        /\ more.trips = Append(book.trips, trip) /\ more.remaining = 0
    <3>1. q = Matched(book, lot)
      BY <1>2 DEF Matched
    <3>2. q > 0 /\ lot.qty - q > 0 /\ book.remaining - q = 0
      BY <1>0, <1>2
    <3> HIDE DEF q
    <3>3. Took(book, lot, q, more)
      BY <1>t, <3>1
    <3> QED BY <3>2, <3>3 DEF Took
  <2>5. trip.buy = lot.row /\ trip.qty = q /\ rest.row = lot.row /\ rest.qty = r
    OBVIOUS
  <2> HIDE DEF trip, rest, q, r
  <2>4. mid \in Books /\ mid.lots = book.lots /\ mid.trips = Append(book.trips, trip)
    <3>1. Append(book.trips, trip) \in Seq(Trips)
      BY <1>0, <2>2
    <3> QED BY <1>0, <3>1, Updated DEF Books
  <2> HIDE DEF mid
  <2>6. Gains(book, mid, lot.row, q)
    <3>1. \A k \in DOMAIN book.trips : book.trips[k].buy <= trip.buy
      BY <2>5 DEF Until
    <3>2. \A k \in DOMAIN book.lots : trip.buy <= book.lots[k].row
      <4>1. DOMAIN book.lots = {}
        BY <1>2
      <4> QED BY <4>1
    <3>3. Gains(book, mid, trip.buy, trip.qty)
      BY <2>2, <2>4, <3>1, <3>2, AddTrip
    <3> QED BY <2>5, <3>3
  <2>7. Gains(mid, more, lot.row, r)
    <3>1. InOrder(mid) /\ Until(mid, rest.row)
      BY <1>0, <2>5, <2>6 DEF Gains
    <3>2. Gains(mid, more, rest.row, rest.qty)
      BY <2>2, <2>3, <2>4, <3>1, AddLot
    <3> QED BY <2>5, <3>2
  <2>8. Gains(book, more, lot.row, q + r)
    BY <1>0, <2>1, <2>6, <2>7, GainsTwice
  <2> QED BY <2>1, <2>3, <2>8
<1>3. CASE book.remaining >= lot.qty
  <2> DEFINE trip == [buy |-> lot.row, sell |-> book.sell, qty |-> lot.qty]
  <2>1. trip \in Trips /\ trip.buy = lot.row /\ trip.qty = lot.qty
    BY <1>0 DEF Trips, Lots
  <2>3. more \in Books /\ more.lots = book.lots /\ more.trips = Append(book.trips, trip)
    <3> DEFINE q == lot.qty
    <3>1. q = Matched(book, lot)
      BY <1>0, <1>3 DEF Matched
    <3>2. q > 0 /\ ~(lot.qty - q > 0)
      BY <1>0
    <3>3. Took(book, lot, q, more)
      BY <1>t, <3>1
    <3> HIDE DEF q
    <3>4. more.lots = book.lots
      BY <3>2, <3>3 DEF Took
    <3> QED BY <3>2, <3>3, <3>4 DEF Took, q
  <2> HIDE DEF trip
  <2>4. book.lots = <<>>
    BY <1>0, <1>3
  <2>5. \A k \in DOMAIN book.trips : book.trips[k].buy <= trip.buy
    BY <2>1 DEF Until
  <2>6. \A k \in DOMAIN book.lots : trip.buy <= book.lots[k].row
    BY <2>4
  <2>7. Gains(book, more, trip.buy, trip.qty)
    BY <2>1, <2>3, <2>5, <2>6, AddTrip
  <2> QED BY <2>1, <2>3, <2>4, <2>7
<1> QED BY <1>0, <1>1, <1>2, <1>3

-----------------------------------------------------------------------------
\* A sell, after it has passed the first n of the lots it found.
Passed(book, n, b) ==
    /\ InOrder(b)
    /\ b.remaining > 0 => b.lots = <<>>
    /\ \A j \in n + 1 .. Len(book.lots) : Until(b, book.lots[j].row)
    /\ \A x \in Nat : Until(book, x) => Until(b, x)
    /\ \A row : Total(b, row)
                  = Sold(book, row) + Amount(RowOf(book.lots), QtyOf(book.lots), n, row)

LEMMA SellBegins ==
    ASSUME NEW book, InOrder(book), NEW row \in Nat, NEW qty \in Nat, NEW b,
           b = [book EXCEPT !.lots = <<>>, !.sell = row, !.remaining = qty]
    PROVE  Passed(book, 0, b)
<1>1. /\ book \in Books /\ book.lots \in Seq(Lots) /\ book.trips \in Seq(Trips)
  BY DEF InOrder, Books
<1>2. b \in Books /\ b.lots = <<>> /\ b.trips = book.trips
  <2>1. <<>> \in Seq(Lots)
    OBVIOUS
  <2> QED BY <1>1, <2>1 DEF Books
<1>3. InOrder(b)
  BY <1>2 DEF InOrder
<1>4. ASSUME NEW j \in 1 .. Len(book.lots)
      PROVE  Until(b, book.lots[j].row)
  BY <1>1, <1>2 DEF InOrder, Until
<1>5. ASSUME NEW x \in Nat, Until(book, x)
      PROVE  Until(b, x)
  BY <1>2, <1>5 DEF Until
<1>6. ASSUME NEW z
      PROVE  Total(b, z) = Sold(book, z) + Amount(RowOf(book.lots), QtyOf(book.lots), 0, z)
  <2>1. Amount(RowOf(book.lots), QtyOf(book.lots), 0, z) = 0
    BY AmountNone
  <2>2. Left(b, z) = 0
    <3>1. b.lots \in Seq(Lots) /\ \A k \in DOMAIN b.lots : b.lots[k].row # z
      BY <1>2
    <3> QED BY <3>1, LeftNone
  <2>3. Sold(b, z) = Sold(book, z)
    BY <1>1, <1>2, SoldSame
  <2> QED BY <2>1, <2>2, <2>3 DEF Total
<1> QED BY <1>2, <1>3, <1>4, <1>5, <1>6 DEF Passed

LEMMA SellGoesOn ==
    ASSUME NEW book, InOrder(book), NEW n \in 1 .. Len(book.lots),
           NEW b, Passed(book, n - 1, b), NEW c, c = TakeLot(b, book.lots[n])
    PROVE  Passed(book, n, c)
<1> DEFINE lots == book.lots
           lot == lots[n]
           key == RowOf(lots)
           qty == QtyOf(lots)
           m == n - 1
<1>1. /\ book \in Books /\ lots \in Seq(Lots) /\ DOMAIN lots = 1 .. Len(lots)
      /\ Len(lots) \in Nat /\ lot \in Lots /\ lot.row \in Nat /\ lot.qty \in Nat
      /\ m \in Nat /\ n = m + 1
  <2>1. book.lots \in Seq(Lots) /\ book \in Books
    BY DEF InOrder, Books
  <2>2. lots[n] \in Lots
    BY <2>1
  <2> QED BY <2>1, <2>2 DEF Lots
<1>2. /\ InOrder(b) /\ (b.remaining > 0 => b.lots = <<>>) /\ Until(b, lot.row)
  <2>1. n \in m + 1 .. Len(lots)
    BY <1>1
  <2> QED BY <2>1 DEF Passed
<1>3. Gains(b, c, lot.row, lot.qty) /\ (c.remaining > 0 => c.lots = <<>>)
  BY <1>1, <1>2, TakeLotGains
<1>4. ASSUME NEW j \in n + 1 .. Len(lots)
      PROVE  Until(c, lots[j].row)
  <2>1. j \in m + 1 .. Len(lots) /\ j \in DOMAIN lots /\ n \in DOMAIN lots /\ n < j
    BY <1>1
  <2>2. lot.row <= lots[j].row /\ lots[j].row \in Nat
    <3>1. lots[j] \in Lots
      BY <1>1, <2>1
    <3>2. book.lots[n].row <= book.lots[j].row
      BY <2>1 DEF InOrder
    <3> QED BY <3>1, <3>2 DEF Lots
  <2>3. Until(b, lots[j].row)
    BY <2>1 DEF Passed
  <2> QED BY <1>3, <2>2, <2>3 DEF Gains
<1>5. ASSUME NEW x \in Nat, Until(book, x)
      PROVE  Until(c, x)
  <2>1. Until(b, x) /\ lot.row <= x
    BY <1>1, <1>5 DEF Passed, Until
  <2> QED BY <1>3, <2>1 DEF Gains
<1>6. ASSUME NEW row
      PROVE  Total(c, row) = Sold(book, row) + Amount(key, qty, n, row)
  <2>1. OneMore(key, qty, m, key, qty, n)
    <3>1. \A k \in 1 .. n : lots[k] \in Lots /\ k \in DOMAIN lots
      BY <1>1
    <3>2. \A k \in 1 .. n : qty[k] \in Int
      BY <3>1 DEF QtyOf, Lots
    <3> QED BY <1>1, <3>2 DEF OneMore
  <2>2. /\ Amount(key, qty, m, row) \in Int
        /\ Amount(key, qty, n, row) = Amount(key, qty, m, row) + Adds(key, qty, n, row)
    BY <2>1, AmountGrows
  <2>3. Adds(key, qty, n, row) = IF lot.row = row THEN lot.qty ELSE 0
    BY <1>1 DEF Adds, RowOf, QtyOf
  <2>4. Total(b, row) = Sold(book, row) + Amount(key, qty, m, row)
    BY DEF Passed
  <2>5. Total(c, row) = Total(b, row) + (IF lot.row = row THEN lot.qty ELSE 0)
    BY <1>3 DEF Gains
  <2>6. Sold(book, row) \in Int
    BY <1>1, SplitsInt
  <2> DEFINE s == Sold(book, row)
             a == Amount(key, qty, m, row)
             z == IF lot.row = row THEN lot.qty ELSE 0
  <2>7. z \in Int
    BY <1>1
  <2> HIDE DEF s, a, z
  <2>8. s \in Int /\ a \in Int /\ Total(c, row) = (s + a) + z /\ Amount(key, qty, n, row) = a + z
    BY <2>2, <2>3, <2>4, <2>5, <2>6 DEF s, a, z
  <2>9. (s + a) + z = s + (a + z)
    BY <2>7, <2>8
  <2> QED BY <2>8, <2>9 DEF s
<1> HIDE DEF m
<1> QED BY <1>2, <1>3, <1>4, <1>5, <1>6 DEF Passed, Gains

\* A sell splits each row as before, between more trips and fewer lots.
LEMMA SellKeeps ==
    ASSUME NEW book, InOrder(book), NEW fill, fill.row \in Nat, fill.qty \in Nat
    PROVE  /\ InOrder(MatchSell(book, fill))
           /\ \A x \in Nat : Until(book, x) => Until(MatchSell(book, fill), x)
           /\ \A row : Total(MatchSell(book, fill), row) = Total(book, row)
<1> DEFINE base == [book EXCEPT !.lots = <<>>, !.sell = fill.row, !.remaining = fill.qty]
           lots == book.lots
           n == Len(lots)
<1>1. /\ book \in Books /\ lots \in Seq(Lots) /\ DOMAIN lots = 1 .. n /\ n \in Nat
  BY DEF InOrder, Books
<1>2. PICK f : Loops("take", base, lots, f)
  <2>1. \A s : DOMAIN s = 1 .. n /\ Len(s) = n => \E f : Loops("take", base, s, f)
    BY <1>1, FoldIsLoop
  <2> QED BY <1>1, <2>1
<1>3. /\ f[0] = base
      /\ \A m \in 1 .. n : f[m] = TakeLot(f[m - 1], lots[m])
      /\ MatchSell(book, fill) = f[n]
  BY <1>2 DEF Loops, Applied, Folds, MatchSell
<1> DEFINE Bad == {m \in 0 .. n : ~Passed(book, m, f[m])}
<1> HIDE DEF base
<1>4. Bad = {}
  <2> SUFFICES ASSUME Bad # {} PROVE FALSE
    OBVIOUS
  <2>1. PICK m \in Bad : \A k \in Bad : m <= k
    <3>1. Bad \subseteq Nat
      OBVIOUS
    <3> HIDE DEF Bad
    <3> QED BY <3>1, SmallestNat
  <2>2. CASE m = 0
    <3>1. Passed(book, 0, base)
      BY SellBegins DEF base
    <3> QED BY <1>3, <2>1, <2>2, <3>1
  <2>3. CASE m # 0
    <3>1. m \in 1 .. n /\ m - 1 \in 0 .. n /\ ~(m <= m - 1)
      BY <1>1, <2>1, <2>3
    <3>2. Passed(book, m - 1, f[m - 1])
      BY <2>1, <3>1
    <3>3. Passed(book, m, f[m])
      BY <1>3, <3>1, <3>2, SellGoesOn
    <3> QED BY <2>1, <3>3
  <2> QED BY <2>2, <2>3
<1>5. Passed(book, n, f[n])
  <2>1. n \in 0 .. n
    BY <1>1
  <2> HIDE DEF n
  <2> QED BY <1>4, <2>1
<1>6. \A row : Total(book, row) = Sold(book, row) + Amount(RowOf(lots), QtyOf(lots), n, row)
  BY <1>1, LeftIsAmount DEF Total
<1> QED BY <1>3, <1>5, <1>6 DEF Passed

-----------------------------------------------------------------------------
Fills == [row : Nat \ {0}, action : {"buy", "sell"},
          status : {"null", "filled", "canceled"}, qty : Nat]

\* Oldest first, one fill a row.
FillsOK(fills) ==
    /\ fills \in Seq(Fills)
    /\ \A i, j \in DOMAIN fills : i < j => fills[i].row < fills[j].row

\* The report of the first n fills.
Reported(fills, n, b) ==
    /\ InOrder(b)
    /\ \A x \in Nat : (\A i \in 1 .. n : fills[i].row <= x) => Until(b, x)
    /\ \A i \in 1 .. n : fills[i].action = "buy" => fills[i].qty = Total(b, fills[i].row)

LEMMA NothingYet ==
    ASSUME NEW b, InOrder(b), NEW x \in Nat, Until(b, x), NEW row, row \in Nat, row > x
    PROVE  Total(b, row) = 0
<1>1. /\ b.lots \in Seq(Lots) /\ b.trips \in Seq(Trips)
  BY DEF InOrder, Books
<1>2. \A k \in DOMAIN b.lots : b.lots[k].row # row
  <2>1. \A k \in DOMAIN b.lots : b.lots[k].row \in Nat /\ b.lots[k].row <= x
    <3>1. \A k \in DOMAIN b.lots : b.lots[k] \in Lots
      BY <1>1
    <3> QED BY <3>1 DEF Until, Lots
  <2> QED BY <2>1
<1>3. \A k \in DOMAIN b.trips : b.trips[k].buy # row
  <2>1. \A k \in DOMAIN b.trips : b.trips[k].buy \in Nat /\ b.trips[k].buy <= x
    <3>1. \A k \in DOMAIN b.trips : b.trips[k] \in Trips
      BY <1>1
    <3> QED BY <3>1 DEF Until, Trips
  <2> QED BY <2>1
<1>4. Left(b, row) = 0 /\ Sold(b, row) = 0
  BY <1>1, <1>2, <1>3, LeftNone, SoldNone
<1> QED BY <1>4 DEF Total

LEMMA ReportGoesOn ==
    ASSUME NEW fills, FillsOK(fills), NEW n \in 1 .. Len(fills), NEW b,
           Reported(fills, n - 1, b), NEW c, c = MatchFill(b, fills[n])
    PROVE  Reported(fills, n, c)
<1> DEFINE fill == fills[n]
           m == n - 1
<1>1. /\ fills \in Seq(Fills) /\ DOMAIN fills = 1 .. Len(fills) /\ Len(fills) \in Nat
      /\ m \in Nat /\ n = m + 1
      /\ \A i \in 1 .. n : i \in 1 .. m \/ i = n
      /\ \A i \in 1 .. m : i \in 1 .. n /\ i # n
  BY DEF FillsOK
<1>2. \A i \in 1 .. n : /\ fills[i] \in Fills
                        /\ fills[i].row \in Nat /\ fills[i].row > 0 /\ fills[i].qty \in Nat
                        /\ fills[i].action \in {"buy", "sell"}
  <2>1. \A i \in 1 .. n : fills[i] \in Fills
    BY <1>1
  <2> QED BY <2>1 DEF Fills
<1>3. \A i \in 1 .. m : fills[i].row < fill.row
  <2>1. \A i \in 1 .. m : i \in DOMAIN fills /\ n \in DOMAIN fills /\ i < n
    BY <1>1
  <2> QED BY <2>1 DEF FillsOK
<1>4. InOrder(b)
  BY DEF Reported
<1>5. Total(b, fill.row) = 0
  <2>1. fill.row - 1 \in Nat /\ fill.row \in Nat /\ fill.row > fill.row - 1
    BY <1>1, <1>2
  <2>2. \A i \in 1 .. m : fills[i].row <= fill.row - 1
    BY <1>1, <1>2, <1>3
  <2>3. Until(b, fill.row - 1)
    BY <2>1, <2>2 DEF Reported
  <2> QED BY <1>4, <2>1, <2>3, NothingYet
<1>6. \A i \in 1 .. m : fills[i].action = "buy" => fills[i].qty = Total(b, fills[i].row)
  BY DEF Reported
<1>7. ASSUME NEW x \in Nat, \A i \in 1 .. n : fills[i].row <= x
      PROVE  Until(b, x) /\ fill.row <= x
  BY <1>1, <1>7 DEF Reported
<1>8. fill.row \in Nat /\ fill.qty \in Nat /\ fill.action \in {"buy", "sell"}
  BY <1>2
<1> HIDE DEF fill, m
<1>9. CASE fill.qty = 0
  <2>1. c = b
    BY <1>9 DEF MatchFill, fill
  <2>2. \A i \in 1 .. n : fills[i].action = "buy" => fills[i].qty = Total(b, fills[i].row)
    BY <1>1, <1>5, <1>6, <1>9 DEF fill
  <2> QED BY <1>4, <1>7, <2>1, <2>2 DEF Reported
<1>10. CASE fill.qty > 0 /\ fill.action = "buy"
  <2> DEFINE lot == [row |-> fill.row, qty |-> fill.qty]
             more == Append(b.lots, lot)
  <2>1. lot \in Lots /\ lot.row = fill.row /\ lot.qty = fill.qty
    BY <1>8, <1>10 DEF Lots
  <2>2. c = [b EXCEPT !.lots = more]
    BY <1>8, <1>10 DEF MatchFill, fill
  <2>3. b \in Books /\ b.lots \in Seq(Lots) /\ b.trips \in Seq(Trips)
    BY <1>4 DEF InOrder, Books
  <2> HIDE DEF lot
  <2>4. more \in Seq(Lots)
    BY <2>1, <2>3
  <2> HIDE DEF more
  <2>5. c \in Books /\ c.lots = more /\ c.trips = b.trips
    BY <2>2, <2>3, <2>4 DEF Books
  <2>6. Until(b, lot.row)
    <3>1. \A i \in 1 .. m : fills[i].row <= fill.row
      BY <1>1, <1>2, <1>3, <1>8
    <3> QED BY <1>8, <2>1, <3>1 DEF Reported, m
  <2>7. Gains(b, c, fill.row, fill.qty)
    <3>1. Gains(b, c, lot.row, lot.qty)
      BY <1>4, <2>1, <2>5, <2>6, AddLot DEF more
    <3> QED BY <2>1, <3>1
  <2>8. ASSUME NEW i \in 1 .. n, fills[i].action = "buy"
        PROVE  fills[i].qty = Total(c, fills[i].row)
    <3>1. CASE i = n
      <4>1. Total(c, fill.row) = Total(b, fill.row) + fill.qty
        BY <2>7 DEF Gains
      <4> QED BY <1>5, <1>8, <3>1, <4>1 DEF fill
    <3>2. CASE i # n
      <4>1. i \in 1 .. m
        BY <1>1, <3>2
      <4>2. fills[i].row # fill.row
        BY <1>2, <1>3, <1>8, <4>1
      <4>3. Total(c, fills[i].row) = Total(b, fills[i].row) + 0
        BY <2>7, <4>2 DEF Gains
      <4>4. Total(b, fills[i].row) \in Int
        BY <2>3, SplitsInt DEF Total
      <4> QED BY <1>6, <2>8, <4>1, <4>3, <4>4
    <3> QED BY <3>1, <3>2
  <2> QED BY <1>7, <2>7, <2>8 DEF Reported, Gains
<1>11. CASE fill.qty > 0 /\ fill.action = "sell"
  <2>1. c = MatchSell(b, fill)
    BY <1>8, <1>11 DEF MatchFill, fill
  <2>2. /\ InOrder(c) /\ \A x \in Nat : Until(b, x) => Until(c, x)
        /\ \A row : Total(c, row) = Total(b, row)
    BY <1>4, <1>8, <2>1, SellKeeps
  <2>3. ASSUME NEW i \in 1 .. n, fills[i].action = "buy"
        PROVE  fills[i].qty = Total(c, fills[i].row)
    <3>1. i \in 1 .. m
      BY <1>1, <1>11, <2>3 DEF fill
    <3> QED BY <1>6, <2>2, <2>3, <3>1
  <2> QED BY <1>7, <2>2, <2>3 DEF Reported
<1>12. fill.qty = 0 \/ fill.qty > 0
  BY <1>8
<1> QED BY <1>8, <1>9, <1>10, <1>11, <1>12

LEMMA ReportIsRight ==
    ASSUME NEW fills, FillsOK(fills)
    PROVE  Reported(fills, Len(fills), MatchRoundTrips(fills))
<1> DEFINE base == [lots |-> <<>>, trips |-> <<>>, sell |-> 0, remaining |-> 0]
           n == Len(fills)
<1>1. DOMAIN fills = 1 .. n /\ n \in Nat
  BY DEF FillsOK
<1>2. PICK f : Loops("match", base, fills, f)
  <2>1. \A s : DOMAIN s = 1 .. n /\ Len(s) = n => \E f : Loops("match", base, s, f)
    BY <1>1, FoldIsLoop
  <2> QED BY <1>1, <2>1
<1>3. /\ f[0] = base
      /\ \A m \in 1 .. n : f[m] = MatchFill(f[m - 1], fills[m])
      /\ MatchRoundTrips(fills) = f[n]
  BY <1>2 DEF Loops, Applied, Folds, MatchRoundTrips
<1>4. Reported(fills, 0, base)
  <2>1. base \in Books /\ base.lots = <<>> /\ base.trips = <<>>
    <3>1. <<>> \in Seq(Lots) /\ <<>> \in Seq(Trips)
      OBVIOUS
    <3> QED BY <3>1 DEF Books
  <2>2. InOrder(base)
    BY <2>1 DEF InOrder
  <2>3. \A x \in Nat : Until(base, x)
    BY <2>1 DEF Until
  <2> QED BY <2>2, <2>3 DEF Reported
<1> DEFINE Bad == {m \in 0 .. n : ~Reported(fills, m, f[m])}
<1> HIDE DEF base
<1>5. Bad = {}
  <2> SUFFICES ASSUME Bad # {} PROVE FALSE
    OBVIOUS
  <2>1. PICK m \in Bad : \A k \in Bad : m <= k
    <3>1. Bad \subseteq Nat
      OBVIOUS
    <3> HIDE DEF Bad
    <3> QED BY <3>1, SmallestNat
  <2>2. CASE m = 0
    BY <1>3, <1>4, <2>1, <2>2
  <2>3. CASE m # 0
    <3>1. m \in 1 .. n /\ m - 1 \in 0 .. n /\ ~(m <= m - 1)
      BY <1>1, <2>1, <2>3
    <3>2. Reported(fills, m - 1, f[m - 1])
      BY <2>1, <3>1
    <3>3. Reported(fills, m, f[m])
      BY <1>3, <3>1, <3>2, ReportGoesOn
    <3> QED BY <2>1, <3>3
  <2> QED BY <2>2, <2>3
<1>6. n \in 0 .. n
  BY <1>1
<1> HIDE DEF n
<1>7. Reported(fills, n, f[n])
  BY <1>5, <1>6
<1> QED BY <1>3, <1>7 DEF n

\* The rows evaluate uses, once it has seen the first n.
Kept(n, usable) ==
    /\ FillsOK(usable)
    /\ \A i \in DOMAIN usable : usable[i].row <= n

LEMMA KeepGoesOn ==
    ASSUME NEW n \in Nat, NEW usable, Kept(n, usable), NEW fill \in Fills, fill.row = n + 1
    PROVE  Kept(n + 1, AddUsable(usable, fill))
<1>1. CASE fill.status \in {"filled", "null"}
  <2> DEFINE t == Append(usable, fill)
             k == Len(usable)
  <2>1. AddUsable(usable, fill) = t
    BY <1>1 DEF AddUsable
  <2>2. /\ t \in Seq(Fills) /\ Len(t) = k + 1 /\ k \in Nat
        /\ DOMAIN usable = 1 .. k /\ DOMAIN t = 1 .. (k + 1)
        /\ \A i \in 1 .. k : t[i] = usable[i]
        /\ t[k + 1] = fill
    BY Appended DEF Kept, FillsOK
  <2> HIDE DEF t, k
  <2>3. \A i \in 1 .. k : usable[i].row \in Nat /\ usable[i].row <= n
    <3>1. \A i \in 1 .. k : usable[i] \in Fills
      BY <2>2 DEF Kept, FillsOK
    <3> QED BY <2>2, <3>1 DEF Kept, Fills
  <2>4. \A i \in 1 .. (k + 1) : i \in 1 .. k \/ i = k + 1
    BY <2>2
  <2>5. ASSUME NEW i \in 1 .. (k + 1), NEW j \in 1 .. (k + 1), i < j
        PROVE  t[i].row < t[j].row
    <3>1. i \in 1 .. k
      BY <2>2, <2>5
    <3>2. CASE j = k + 1
      <4>1. t[i].row = usable[i].row /\ t[j].row = n + 1
        BY <2>2, <3>1, <3>2
      <4> QED BY <2>3, <3>1, <4>1
    <3>3. CASE j \in 1 .. k
      BY <2>2, <2>5, <3>1, <3>3 DEF Kept, FillsOK
    <3> QED BY <2>4, <3>2, <3>3
  <2>6. \A i \in 1 .. (k + 1) : t[i].row <= n + 1
    BY <2>2, <2>3, <2>4
  <2> QED BY <2>1, <2>2, <2>5, <2>6 DEF Kept, FillsOK
<1>2. CASE fill.status \notin {"filled", "null"}
  <2>1. AddUsable(usable, fill) = usable
    BY <1>2 DEF AddUsable
  <2>2. \A i \in DOMAIN usable : usable[i] \in Fills
    BY DEF Kept, FillsOK
  <2>3. \A i \in DOMAIN usable : usable[i].row <= n + 1
    BY <2>2 DEF Kept, Fills
  <2> QED BY <2>1, <2>3 DEF Kept
<1> QED BY <1>1, <1>2

LEMMA UsableInOrder ==
    ASSUME decisions \in Seq(Rows)
    PROVE  FillsOK(Usable)
<1> DEFINE all == [i \in DOMAIN decisions |-> FillOf(i)]
           n == Len(decisions)
<1>1. DOMAIN all = 1 .. n /\ Len(all) = n /\ n \in Nat
  <2>1. DOMAIN decisions = 1 .. n /\ n \in Nat
    OBVIOUS
  <2>2. DOMAIN all = 1 .. n
    BY <2>1
  <2> QED BY <2>1, <2>2
<1>2. \A i \in 1 .. n : all[i] \in Fills /\ all[i].row = i
  <2> SUFFICES ASSUME NEW i \in 1 .. n
               PROVE  all[i] \in Fills /\ all[i].row = i
    OBVIOUS
  <2>1. decisions[i] \in Rows /\ i \in Nat \ {0} /\ all[i] = FillOf(i)
    OBVIOUS
  <2>2. FillOf(i) \in Fills /\ FillOf(i).row = i
    BY <2>1 DEF FillOf, Fills, Rows
  <2> QED BY <2>1, <2>2
<1>3. PICK f : Loops("keep", <<>>, all, f)
  <2> HIDE DEF all, n
  <2> QED BY <1>1, FoldIsLoop
<1>4. /\ f[0] = <<>>
      /\ \A m \in 1 .. n : f[m] = AddUsable(f[m - 1], all[m])
      /\ Usable = f[n]
  BY <1>1, <1>3 DEF Loops, Applied, Folds, Usable
<1> DEFINE Bad == {m \in 0 .. n : ~Kept(m, f[m])}
<1> HIDE DEF all, n
<1>5. Bad = {}
  <2> SUFFICES ASSUME Bad # {} PROVE FALSE
    OBVIOUS
  <2>1. PICK m \in Bad : \A k \in Bad : m <= k
    <3>1. Bad \subseteq Nat
      OBVIOUS
    <3> HIDE DEF Bad
    <3> QED BY <3>1, SmallestNat
  <2>2. CASE m = 0
    <3>1. <<>> \in Seq(Fills)
      OBVIOUS
    <3>2. Kept(0, <<>>)
      BY <3>1 DEF Kept, FillsOK
    <3> QED BY <1>4, <2>1, <2>2, <3>2
  <2>3. CASE m # 0
    <3>1. /\ m \in 1 .. n /\ m - 1 \in 0 .. n /\ ~(m <= m - 1)
          /\ m - 1 \in Nat /\ (m - 1) + 1 = m
      BY <1>1, <2>1, <2>3
    <3>2. Kept(m - 1, f[m - 1])
      BY <2>1, <3>1
    <3>3. Kept(m, f[m])
      BY <1>2, <1>4, <3>1, <3>2, KeepGoesOn
    <3> QED BY <2>1, <3>3
  <2> QED BY <2>2, <2>3
<1>6. n \in 0 .. n
  BY <1>1
<1>7. Kept(n, f[n])
  BY <1>5, <1>6
<1> QED BY <1>4, <1>7 DEF Kept

LEMMA SplitRight ==
    ASSUME decisions \in Seq(Rows)
    PROVE  RoundTripsFirstInFirstOut
<1>1. FillsOK(Usable)
  BY UsableInOrder
<1>2. Reported(Usable, Len(Usable), MatchRoundTrips(Usable))
  BY <1>1, ReportIsRight
<1>3. DOMAIN Usable = 1 .. Len(Usable)
  BY <1>1 DEF FillsOK
<1> QED BY <1>2, <1>3 DEF RoundTripsFirstInFirstOut, Reported, InOrder, Total

\* Whatever has been read back, by however many processes, evaluate's report
\* of it takes each share once, from the oldest buy that has any left.
THEOREM SharesAreSplit == Spec => []RoundTripsFirstInFirstOut
<1>1. RInv => RoundTripsFirstInFirstOut
  BY SplitRight DEF RInv, TypeOK
<1> QED BY <1>1, ReconcileInvariant, PTL

-----------------------------------------------------------------------------
(* The reported inventory.  What the rows have moved is what the orders    *)
(* have, less the exits that have no row yet; once everything is read back *)
(* both are the position.                                                  *)

SumOver(w, K) == SumFunctionOnSet(w, K)

\* What an order has moved: bought or sold.
Basis(order) == SignedQty(order.action, order.filled)

\* What ended filled has filled.
SoundOrder(order) ==
    /\ order.status = "filled" => order.filled > 0
    /\ \A l \in LegNames : order.legs[l].status = "filled" => order.legs[l].filled > 0

\* What an exit of an order has moved back.
Back(order, l) == SignedQty(order.action, order.legs[l].filled)

\* What the order or the exit of a row has moved.
Moved(os, id) ==
    IF id.part = "parent" THEN Basis(os[id.order]) ELSE -Back(os[id.order], id.part)

Moves(os, ds) == [i \in DOMAIN ds |-> Moved(os, ds[i].id)]

\* What an exit that has its row has moved back.
Taken(os, ds, n, l) ==
    IF \E i \in DOMAIN ds : ds[i].id = Id(n, l) THEN Back(os[n], l) ELSE 0

\* What an order has moved, with the exits that have a row.
Booked(os, ds) ==
    [n \in DOMAIN os |->
        Basis(os[n]) - Taken(os, ds, n, "stop") - Taken(os, ds, n, "take_profit")]

\* Row i has the side of its order, or the side opposite when it is an exit.
RightSide(os, ds, i) ==
    LET id == ds[i].id
    IN ds[i].action = IF id.part = "parent" THEN os[id.order].action
                      ELSE ExitAction(os[id.order].action)

\* Each order has its row, and each row the side of its order or exit.
Matching(os, ds) ==
    /\ \A n \in DOMAIN os : \E i \in DOMAIN ds : ds[i].id = Id(n, "parent")
    /\ \A i \in DOMAIN ds : RightSide(os, ds, i)

SInv(os, ds) ==
    /\ \A n \in DOMAIN os : SoundOrder(os[n])
    /\ Matching(os, ds)
    /\ SumOver(Moves(os, ds), DOMAIN ds) = SumOver(Booked(os, ds), DOMAIN os)

LEMMA SumIsTally ==
    ASSUME NEW K, IsFiniteSet(K), NEW w
    PROVE  \E g : Tallies(w, K, g) /\ SumOver(w, K) = g[K]
<1>1. PICK g : Tallies(w, K, g)
  BY TallyExists
<1>2. g = [T \in SUBSET K |->
             IF T = {} THEN 0
             ELSE LET x == CHOOSE x \in T : TRUE IN w[x] + g[T \ {x}]]
  BY <1>1 DEF Tallies, TallyOn, First
<1>3. PICK h :
        /\ h = [T \in SUBSET K |->
                  IF T = {} THEN 0
                  ELSE LET x == CHOOSE x \in T : TRUE IN w[x] + h[T \ {x}]]
        /\ SumOver(w, K) = h[K]
  BY <1>2 DEF SumOver, SumFunctionOnSet, FoldFunctionOnSet, MapThenFoldSet
<1>4. Tallies(w, K, h)
  BY <1>3 DEF Tallies, TallyOn, First
<1> QED BY <1>3, <1>4

\* A whole function.
LEMMA SumOfAll ==
    ASSUME NEW w
    PROVE  SumFunction(w) = SumOver(w, DOMAIN w)
BY DEF SumFunction, SumOver

LEMMA SumOfNone ==
    ASSUME NEW w
    PROVE  SumOver(w, {}) = 0
<1>1. PICK g : Tallies(w, {}, g) /\ SumOver(w, {}) = g[{}]
  BY FS_EmptySet, SumIsTally
<1> QED BY <1>1, TallySteps

LEMMA SumInt ==
    ASSUME NEW K, IsFiniteSet(K), NEW w, \A k \in K : w[k] \in Int
    PROVE  SumOver(w, K) \in Int
<1>1. PICK g : Tallies(w, K, g) /\ SumOver(w, K) = g[K]
  BY SumIsTally
<1> QED BY <1>1, TallyInt

\* Any element may be taken out.
LEMMA SumLess ==
    ASSUME NEW K, IsFiniteSet(K), NEW w, \A k \in K : w[k] \in Int, NEW x \in K
    PROVE  /\ SumOver(w, K) = w[x] + SumOver(w, K \ {x})
           /\ SumOver(w, K \ {x}) \in Int /\ w[x] \in Int
<1> DEFINE L == K \ {x}
<1>1. IsFiniteSet(L) /\ L \subseteq K
  BY FS_Subset
<1>2. PICK g : Tallies(w, K, g) /\ SumOver(w, K) = g[K]
  BY SumIsTally
<1>3. PICK h : Tallies(w, L, h) /\ SumOver(w, L) = h[L]
  BY <1>1, SumIsTally
<1>4. \A k \in L : w[k] \in Int
  BY <1>1
<1> HIDE DEF L
<1>5. h[L] = g[L]
  BY <1>1, <1>2, <1>3, TalliesAgree
<1>6. g[K] = w[x] + g[L]
  BY <1>2, TallyAnyOrder DEF L
<1>7. SumOver(w, L) \in Int
  BY <1>1, <1>4, SumInt
<1> QED BY <1>2, <1>3, <1>5, <1>6, <1>7 DEF L

\* Weights that agree on K have the same sum.
LEMMA SumSame ==
    ASSUME NEW K, IsFiniteSet(K), NEW w, NEW v, \A k \in K : v[k] = w[k]
    PROVE  SumOver(v, K) = SumOver(w, K)
<1>1. PICK g : Tallies(w, K, g) /\ SumOver(w, K) = g[K]
  BY SumIsTally
<1>2. PICK h : Tallies(v, K, h) /\ SumOver(v, K) = h[K]
  BY SumIsTally
<1>3. h[K] = g[K]
  BY <1>1, <1>2, TalliesAgree
<1> QED BY <1>1, <1>2, <1>3

\* One weight changes.
LEMMA SumMoves ==
    ASSUME NEW K, IsFiniteSet(K), NEW w, NEW v,
           \A k \in K : w[k] \in Int /\ v[k] \in Int,
           NEW x \in K, \A k \in K : k # x => v[k] = w[k]
    PROVE  SumOver(v, K) = SumOver(w, K) + (v[x] - w[x])
<1> DEFINE L == K \ {x}
<1>1. IsFiniteSet(L) /\ \A k \in L : v[k] = w[k]
  BY FS_Subset
<1>2. SumOver(v, L) = SumOver(w, L)
  <2> HIDE DEF L
  <2> QED BY <1>1, SumSame
<1>3. SumOver(w, K) = w[x] + SumOver(w, L) /\ SumOver(w, L) \in Int /\ w[x] \in Int
  BY SumLess
<1>4. SumOver(v, K) = v[x] + SumOver(v, L) /\ v[x] \in Int
  BY SumLess
<1> HIDE DEF L
<1> QED BY <1>2, <1>3, <1>4

\* Sums over the places of a sequence.
LEMMA PlacesAreFinite ==
    ASSUME NEW n \in Nat
    PROVE  IsFiniteSet(1 .. n)
BY FS_Interval

\* v has one place more than the n of w.
Longer(w, n, v, m) ==
    /\ n \in Nat /\ m = n + 1
    /\ \A k \in 1 .. n : w[k] \in Int /\ v[k] = w[k]
    /\ v[m] \in Int

LEMMA SumGrows ==
    ASSUME NEW w, NEW n, NEW v, NEW m, Longer(w, n, v, m)
    PROVE  /\ SumOver(w, 1 .. n) \in Int
           /\ SumOver(v, 1 .. m) = SumOver(w, 1 .. n) + v[m]
<1>0. /\ n \in Nat /\ m = n + 1
      /\ \A k \in 1 .. n : w[k] \in Int /\ v[k] = w[k]
      /\ v[m] \in Int
  BY DEF Longer
<1>1. IsFiniteSet(1 .. n) /\ IsFiniteSet(1 .. m) /\ m \in Nat
  BY <1>0, PlacesAreFinite
<1>2. \A k \in 1 .. m : v[k] \in Int
  <2>1. \A k \in 1 .. m : k \in 1 .. n \/ k = m
    BY <1>0
  <2> QED BY <1>0, <2>1
<1>3. (1 .. m) \ {m} = 1 .. n /\ m \in 1 .. m
  BY <1>0
<1>4. SumOver(v, 1 .. m) = v[m] + SumOver(v, 1 .. n) /\ SumOver(v, 1 .. n) \in Int
  <2> DEFINE K == 1 .. m
  <2>1. IsFiniteSet(K) /\ m \in K /\ (\A k \in K : v[k] \in Int) /\ K \ {m} = 1 .. n
    BY <1>1, <1>2, <1>3
  <2> HIDE DEF K
  <2>2. SumOver(v, K) = v[m] + SumOver(v, K \ {m}) /\ SumOver(v, K \ {m}) \in Int
    BY <2>1, SumLess
  <2>3. SumOver(v, K) = v[m] + SumOver(v, 1 .. n) /\ SumOver(v, 1 .. n) \in Int
    BY <2>1, <2>2
  <2> QED BY <2>3 DEF K
<1>5. SumOver(v, 1 .. n) = SumOver(w, 1 .. n)
  BY <1>0, <1>1, SumSame
<1> DEFINE a == SumOver(w, 1 .. n)
           b == SumOver(v, 1 .. m)
           q == v[m]
<1>6. b = q + a /\ a \in Int /\ q \in Int
  BY <1>0, <1>4, <1>5
<1> HIDE DEF a, b, q
<1>7. a \in Int /\ b = a + q
  BY <1>6
<1> QED BY <1>7 DEF a, b, q

-----------------------------------------------------------------------------
\* Orders and rows that fit each other.
Tables(os, ds) ==
    /\ os \in Seq(Orders)
    /\ ds \in Seq(Rows)
    /\ \A i \in DOMAIN ds :
        /\ ds[i].id.order \in DOMAIN os
        /\ ds[i].id.part # "parent" =>
                os[ds[i].id.order].legs[ds[i].id.part].status = "filled"

OneRow(ds) == \A i, j \in DOMAIN ds : ds[i].id = ds[j].id => i = j

LEMMA SignedInt ==
    ASSUME NEW action \in {"buy", "sell"}, NEW qty \in Nat
    PROVE  SignedQty(action, qty) \in Int
BY DEF SignedQty

\* Nothing is nothing, on either side.
LEMMA SignedNone ==
    ASSUME NEW action \in {"buy", "sell"}, NEW qty \in Nat, ~(qty > 0)
    PROVE  SignedQty(action, qty) = 0
<1>1. qty = 0
  OBVIOUS
<1>2. SignedQty(action, qty) = qty \/ SignedQty(action, qty) = -qty
  BY DEF SignedQty
<1>3. -qty = 0
  <2>1. \A a \in Nat : ~(a > 0) => -a = 0
    OBVIOUS
  <2> QED BY <2>1
<1> QED BY <1>1, <1>2, <1>3

LEMMA OrderTyped ==
    ASSUME NEW order \in Orders
    PROVE  /\ order.qty \in Nat /\ order.filled \in Nat /\ order.action \in {"buy", "sell"}
           /\ order.status \in {"new", "filled", "canceled"}
           /\ \A l \in LegNames :
                /\ order.legs[l].filled \in Nat
                /\ order.legs[l].status \in {"none", "held", "filled", "canceled"}
                /\ Back(order, l) \in Int
           /\ Basis(order) \in Int
<1>1. /\ order.qty \in Nat /\ order.filled \in Nat /\ order.action \in {"buy", "sell"}
      /\ order.status \in {"new", "filled", "canceled"}
  BY DEF Orders
<1>2. \A l \in LegNames :
        /\ order.legs[l].filled \in Nat
        /\ order.legs[l].status \in {"none", "held", "filled", "canceled"}
  BY DEF Orders, Legs
<1>3. Basis(order) \in Int
  BY <1>1, SignedInt DEF Basis
<1>4. \A l \in LegNames : Back(order, l) \in Int
  BY <1>1, <1>2, SignedInt DEF Back
<1> QED BY <1>1, <1>2, <1>3, <1>4

LEMMA TablesTyped ==
    ASSUME NEW os, NEW ds, Tables(os, ds)
    PROVE  /\ DOMAIN os = 1 .. Len(os) /\ Len(os) \in Nat /\ IsFiniteSet(DOMAIN os)
           /\ DOMAIN ds = 1 .. Len(ds) /\ Len(ds) \in Nat /\ IsFiniteSet(DOMAIN ds)
           /\ \A n \in DOMAIN os : os[n] \in Orders
           /\ \A i \in DOMAIN ds : /\ ds[i].id = Id(ds[i].id.order, ds[i].id.part)
                                   /\ ds[i].id.order \in DOMAIN os
                                   /\ ds[i].id.part \in LegNames \cup {"parent"}
<1>1. os \in Seq(Orders) /\ ds \in Seq(Rows)
  BY DEF Tables
<1>2. /\ DOMAIN os = 1 .. Len(os) /\ Len(os) \in Nat
      /\ DOMAIN ds = 1 .. Len(ds) /\ Len(ds) \in Nat
      /\ \A n \in DOMAIN os : os[n] \in Orders
  BY <1>1
<1>3. \A i \in DOMAIN ds : ds[i] \in Rows
  BY <1>1
<1>4. \A i \in DOMAIN ds : /\ ds[i].id = Id(ds[i].id.order, ds[i].id.part)
                           /\ ds[i].id.part \in LegNames \cup {"parent"}
  <2> SUFFICES ASSUME NEW i \in DOMAIN ds
               PROVE  /\ ds[i].id = Id(ds[i].id.order, ds[i].id.part)
                      /\ ds[i].id.part \in LegNames \cup {"parent"}
    OBVIOUS
  <2>1. PICK id \in Ids : id = ds[i].id
    BY <1>3 DEF Rows
  <2>2. id = [order |-> id.order, part |-> id.part] /\ id.part \in LegNames \cup {"parent"}
    BY DEF Ids
  <2> QED BY <2>1, <2>2 DEF Id
<1>5. IsFiniteSet(DOMAIN os) /\ IsFiniteSet(DOMAIN ds)
  BY <1>2, PlacesAreFinite
<1> QED BY <1>2, <1>4, <1>5 DEF Tables

LEMMA TakenInt ==
    ASSUME NEW os, NEW ds, NEW n, os[n] \in Orders, NEW l \in LegNames
    PROVE  Taken(os, ds, n, l) \in Int
<1>1. Back(os[n], l) \in Int
  BY OrderTyped
<1> QED BY <1>1 DEF Taken

LEMMA WeightsInt ==
    ASSUME NEW os, NEW ds, Tables(os, ds)
    PROVE  /\ \A i \in DOMAIN ds : Moves(os, ds)[i] \in Int
           /\ \A n \in DOMAIN os : Booked(os, ds)[n] \in Int
<1>1. \A n \in DOMAIN os : os[n] \in Orders
  BY TablesTyped
<1>2. ASSUME NEW i \in DOMAIN ds
      PROVE  Moves(os, ds)[i] \in Int
  <2> DEFINE id == ds[i].id
  <2>1. id.order \in DOMAIN os /\ id.part \in LegNames \cup {"parent"}
    BY TablesTyped
  <2>2. os[id.order] \in Orders
    BY <1>1, <2>1
  <2>3. Moves(os, ds)[i] = Moved(os, id)
    BY DEF Moves
  <2> HIDE DEF id
  <2>4. CASE id.part = "parent"
    BY <2>2, <2>3, <2>4, OrderTyped DEF Moved
  <2>5. CASE id.part # "parent"
    <3>1. Back(os[id.order], id.part) \in Int
      BY <2>1, <2>2, <2>5, OrderTyped
    <3>2. Moved(os, id) = -Back(os[id.order], id.part)
      BY <2>5 DEF Moved
    <3> QED BY <2>3, <3>1, <3>2
  <2> QED BY <2>4, <2>5
<1>3. ASSUME NEW n \in DOMAIN os
      PROVE  Booked(os, ds)[n] \in Int
  <2>1. Basis(os[n]) \in Int
    BY <1>1, OrderTyped
  <2>2. Taken(os, ds, n, "stop") \in Int
    BY <1>1, TakenInt DEF LegNames
  <2>3. Taken(os, ds, n, "take_profit") \in Int
    BY <1>1, TakenInt DEF LegNames
  <2> QED BY <2>1, <2>2, <2>3 DEF Booked
<1> QED BY <1>2, <1>3

-----------------------------------------------------------------------------
\* Rows that change, but not what they are of.
LEMMA RowsRewritten ==
    ASSUME NEW os, NEW ds, SInv(os, ds), NEW es, DOMAIN es = DOMAIN ds,
           \A i \in DOMAIN ds : es[i].id = ds[i].id /\ es[i].action = ds[i].action
    PROVE  SInv(os, es)
<1>1. Moves(os, es) = Moves(os, ds)
  BY DEF Moves
<1>2. \A n, l : Taken(os, es, n, l) = Taken(os, ds, n, l)
  BY DEF Taken
<1>3. Booked(os, es) = Booked(os, ds)
  BY <1>2 DEF Booked
<1>4. Matching(os, es)
  <2>1. Matching(os, ds)
    BY DEF SInv
  <2> QED BY <2>1 DEF Matching, RightSide
<1> QED BY <1>1, <1>3, <1>4 DEF SInv

\* What a step of the broker's keeps of one order.
Gone(order, more) ==
    /\ more \in Orders /\ SoundOrder(more)
    /\ more.action = order.action
    /\ \A l \in LegNames :
        order.legs[l].status = "filled" => more.legs[l] = order.legs[l]

LEMMA SameTables ==
    ASSUME NEW os, NEW ds, Tables(os, ds), NEW qs, DOMAIN qs = DOMAIN os, qs \in Seq(Orders),
           \A n \in DOMAIN os : Gone(os[n], qs[n])
    PROVE  /\ Tables(qs, ds)
           /\ Matching(os, ds) => Matching(qs, ds)
           /\ \A i \in DOMAIN ds : ds[i].id.part # "parent" =>
                    Moves(qs, ds)[i] = Moves(os, ds)[i]
           /\ \A n \in DOMAIN os : \A l \in LegNames : Taken(qs, ds, n, l) = Taken(os, ds, n, l)
<1>1. \A i \in DOMAIN ds :
        /\ ds[i].id.order \in DOMAIN os
        /\ qs[ds[i].id.order].action = os[ds[i].id.order].action
        /\ ds[i].id.part # "parent" =>
                qs[ds[i].id.order].legs[ds[i].id.part] = os[ds[i].id.order].legs[ds[i].id.part]
  <2> SUFFICES ASSUME NEW i \in DOMAIN ds
               PROVE  /\ ds[i].id.order \in DOMAIN os
                      /\ qs[ds[i].id.order].action = os[ds[i].id.order].action
                      /\ ds[i].id.part # "parent" =>
                            qs[ds[i].id.order].legs[ds[i].id.part]
                              = os[ds[i].id.order].legs[ds[i].id.part]
    OBVIOUS
  <2>1. ds[i].id.order \in DOMAIN os /\ ds[i].id.part \in LegNames \cup {"parent"}
    BY TablesTyped
  <2>2. ds[i].id.part # "parent" =>
            os[ds[i].id.order].legs[ds[i].id.part].status = "filled"
    BY DEF Tables
  <2> QED BY <2>1, <2>2 DEF Gone
<1>2. Tables(qs, ds)
  BY <1>1 DEF Tables
<1>3. Matching(os, ds) => Matching(qs, ds)
  <2>1. \A i \in DOMAIN ds : RightSide(os, ds, i) => RightSide(qs, ds, i)
    BY <1>1 DEF RightSide
  <2> QED BY <2>1 DEF Matching
<1>4. \A i \in DOMAIN ds : ds[i].id.part # "parent" => Moves(qs, ds)[i] = Moves(os, ds)[i]
  BY <1>1 DEF Moves, Moved, Back
<1>5. ASSUME NEW n \in DOMAIN os, NEW l \in LegNames
      PROVE  Taken(qs, ds, n, l) = Taken(os, ds, n, l)
  <2>1. CASE \E i \in DOMAIN ds : ds[i].id = Id(n, l)
    <3>1. PICK i \in DOMAIN ds : ds[i].id = Id(n, l)
      BY <2>1
    <3>2. ds[i].id.order = n /\ ds[i].id.part = l /\ l # "parent"
      BY <3>1 DEF Id, LegNames
    <3>3. qs[n].legs[l] = os[n].legs[l] /\ qs[n].action = os[n].action
      BY <1>1, <3>2
    <3>4. Back(qs[n], l) = Back(os[n], l)
      BY <3>3 DEF Back
    <3> QED BY <2>1, <3>4 DEF Taken
  <2>2. CASE ~\E i \in DOMAIN ds : ds[i].id = Id(n, l)
    BY <2>2 DEF Taken
  <2> QED BY <2>1, <2>2
<1> QED BY <1>2, <1>3, <1>4, <1>5

\* Orders that have moved no more: their exits fill, or they are canceled.
LEMMA ExitsChange ==
    ASSUME NEW os, NEW ds, Tables(os, ds), SInv(os, ds),
           NEW qs, DOMAIN qs = DOMAIN os, qs \in Seq(Orders),
           \A n \in DOMAIN os : Gone(os[n], qs[n]) /\ Basis(qs[n]) = Basis(os[n])
    PROVE  SInv(qs, ds)
<1>0. \A n \in DOMAIN os : Gone(os[n], qs[n])
  OBVIOUS
<1>1. /\ Tables(qs, ds)
      /\ Matching(os, ds) => Matching(qs, ds)
      /\ \A i \in DOMAIN ds : ds[i].id.part # "parent" =>
               Moves(qs, ds)[i] = Moves(os, ds)[i]
      /\ \A n \in DOMAIN os : \A l \in LegNames : Taken(qs, ds, n, l) = Taken(os, ds, n, l)
  BY <1>0, SameTables
<1>2. Moves(qs, ds) = Moves(os, ds)
  <2>1. \A i \in DOMAIN ds : Moves(qs, ds)[i] = Moves(os, ds)[i]
    <3>1. \A i \in DOMAIN ds : ds[i].id.order \in DOMAIN os
      BY TablesTyped
    <3>2. \A i \in DOMAIN ds : ds[i].id.part = "parent" => Moves(qs, ds)[i] = Moves(os, ds)[i]
      BY <3>1 DEF Moves, Moved
    <3> QED BY <1>1, <3>2
  <2> QED BY <2>1 DEF Moves
<1>3. Booked(qs, ds) = Booked(os, ds)
  <2>1. \A n \in DOMAIN os : /\ Taken(qs, ds, n, "stop") = Taken(os, ds, n, "stop")
                             /\ Taken(qs, ds, n, "take_profit") = Taken(os, ds, n, "take_profit")
    BY <1>1 DEF LegNames
  <2> QED BY <2>1 DEF Booked
<1>4. \A n \in DOMAIN qs : SoundOrder(qs[n])
  BY <1>0 DEF Gone
<1> QED BY <1>1, <1>2, <1>3, <1>4 DEF SInv

\* One order moves more.
LEMMA OrderMoves ==
    ASSUME NEW os, NEW ds, Tables(os, ds), SInv(os, ds), OneRow(ds),
           NEW qs, DOMAIN qs = DOMAIN os, qs \in Seq(Orders),
           \A n \in DOMAIN os : Gone(os[n], qs[n]),
           NEW x \in DOMAIN os, \A n \in DOMAIN os : n # x => qs[n] = os[n]
    PROVE  SInv(qs, ds)
<1>1. /\ Tables(qs, ds)
      /\ Matching(os, ds) => Matching(qs, ds)
      /\ \A i \in DOMAIN ds : ds[i].id.part # "parent" =>
               Moves(qs, ds)[i] = Moves(os, ds)[i]
      /\ \A n \in DOMAIN os : \A l \in LegNames : Taken(qs, ds, n, l) = Taken(os, ds, n, l)
  BY SameTables
<1> DEFINE K == DOMAIN ds
           L == DOMAIN os
           w == Moves(os, ds)
           v == Moves(qs, ds)
           b == Booked(os, ds)
           c == Booked(qs, ds)
<1>2. PICK p \in DOMAIN ds : ds[p].id = Id(x, "parent")
  BY DEF SInv, Matching
<1>3. /\ IsFiniteSet(K) /\ IsFiniteSet(L)
      /\ \A k \in K : w[k] \in Int
      /\ \A k \in L : b[k] \in Int
  BY TablesTyped, WeightsInt
<1>4. (\A k \in K : v[k] \in Int) /\ (\A k \in L : c[k] \in Int)
  BY <1>1, WeightsInt
<1>5. \A i \in K : i # p => v[i] = w[i]
  <2> SUFFICES ASSUME NEW i \in K, i # p, ds[i].id.part = "parent"
               PROVE  v[i] = w[i]
    BY <1>1
  <2>1. ds[i].id = Id(ds[i].id.order, "parent") /\ ds[i].id.order \in DOMAIN os
    BY TablesTyped
  <2>2. ds[i].id.order # x
    BY <1>2, <2>1 DEF OneRow
  <2> QED BY <2>1, <2>2 DEF Moves, Moved
<1>6. v[p] = Basis(qs[x]) /\ w[p] = Basis(os[x])
  BY <1>2 DEF Moves, Moved, Id
<1>7. \A n \in L : n # x => c[n] = b[n]
  <2>1. \A n \in DOMAIN os : /\ Taken(qs, ds, n, "stop") = Taken(os, ds, n, "stop")
                             /\ Taken(qs, ds, n, "take_profit") = Taken(os, ds, n, "take_profit")
    BY <1>1 DEF LegNames
  <2> QED BY <2>1 DEF Booked
<1>8. c[x] - b[x] = Basis(qs[x]) - Basis(os[x])
  <2>1. /\ Taken(qs, ds, x, "stop") = Taken(os, ds, x, "stop")
        /\ Taken(qs, ds, x, "take_profit") = Taken(os, ds, x, "take_profit")
    BY <1>1 DEF LegNames
  <2>2. os[x] \in Orders /\ qs[x] \in Orders
    BY TablesTyped DEF Gone
  <2>3. Taken(os, ds, x, "stop") \in Int
    BY <2>2, TakenInt DEF LegNames
  <2>4. Taken(os, ds, x, "take_profit") \in Int
    BY <2>2, TakenInt DEF LegNames
  <2>5. Basis(os[x]) \in Int
    BY <2>2, OrderTyped
  <2>6. Basis(qs[x]) \in Int
    BY <2>2, OrderTyped
  <2>7. /\ b[x] = Basis(os[x]) - Taken(os, ds, x, "stop") - Taken(os, ds, x, "take_profit")
        /\ c[x] = Basis(qs[x]) - Taken(qs, ds, x, "stop") - Taken(qs, ds, x, "take_profit")
    BY DEF Booked
  <2> HIDE DEF b, c
  <2> QED BY <2>1, <2>3, <2>4, <2>5, <2>6, <2>7
<1>9. SumOver(w, K) = SumOver(b, L) /\ Matching(os, ds)
  BY DEF SInv
<1>10. p \in K /\ x \in L
  OBVIOUS
<1> HIDE DEF K, L, w, v, b, c
<1>11. SumOver(v, K) = SumOver(w, K) + (v[p] - w[p])
  <2>1. IsFiniteSet(K) /\ \A k \in K : w[k] \in Int /\ v[k] \in Int
    BY <1>3, <1>4
  <2> QED BY <1>5, <1>10, <2>1, SumMoves
<1>12. SumOver(c, L) = SumOver(b, L) + (c[x] - b[x])
  <2>1. IsFiniteSet(L) /\ \A k \in L : b[k] \in Int /\ c[k] \in Int
    BY <1>3, <1>4
  <2> QED BY <1>7, <1>10, <2>1, SumMoves
<1>13. SumOver(v, K) = SumOver(c, L)
  BY <1>6, <1>8, <1>9, <1>11, <1>12
<1>14. \A n \in DOMAIN qs : SoundOrder(qs[n])
  BY DEF Gone
<1> QED BY <1>1, <1>9, <1>13, <1>14 DEF SInv, K, L, v, c

-----------------------------------------------------------------------------
LEMMA OneMoreRow ==
    ASSUME NEW ds \in Seq(Rows), NEW row \in Rows, NEW es, es = Append(ds, row)
    PROVE  /\ DOMAIN ds = 1 .. Len(ds) /\ Len(ds) \in Nat /\ Len(es) = Len(ds) + 1
           /\ DOMAIN es = 1 .. Len(es)
           /\ \A i \in DOMAIN ds : i \in DOMAIN es /\ es[i] = ds[i]
           /\ \A i \in DOMAIN es : i \in DOMAIN ds \/ i = Len(es)
           /\ Len(es) \in DOMAIN es /\ Len(es) \notin DOMAIN ds /\ es[Len(es)] = row
<1>1. /\ es \in Seq(Rows) /\ Len(es) = Len(ds) + 1 /\ Len(ds) \in Nat
      /\ DOMAIN ds = 1 .. Len(ds) /\ DOMAIN es = 1 .. (Len(ds) + 1)
      /\ \A i \in 1 .. Len(ds) : es[i] = ds[i]
      /\ es[Len(ds) + 1] = row
  BY Appended
<1> QED BY <1>1

\* An exit gets its row.
LEMMA ExitJoins ==
    ASSUME NEW os, NEW ds, Tables(os, ds), SInv(os, ds),
           NEW row \in Rows, NEW es, es = Append(ds, row), Tables(os, es), OneRow(es),
           NEW x \in DOMAIN os, NEW l \in LegNames, row.id = Id(x, l),
           row.action = ExitAction(os[x].action)
    PROVE  SInv(os, es)
<1> DEFINE n == Len(ds)
           m == Len(es)
           K == DOMAIN os
           w == Moves(os, ds)
           v == Moves(os, es)
           b == Booked(os, ds)
           c == Booked(os, es)
           q == Back(os[x], l)
<1>1. /\ DOMAIN ds = 1 .. n /\ n \in Nat /\ m = n + 1 /\ DOMAIN es = 1 .. m
      /\ \A i \in DOMAIN ds : i \in DOMAIN es /\ es[i] = ds[i]
      /\ \A i \in DOMAIN es : i \in DOMAIN ds \/ i = m
      /\ m \in DOMAIN es /\ m \notin DOMAIN ds /\ es[m] = row
  <2>1. ds \in Seq(Rows)
    BY DEF Tables
  <2> QED BY <2>1, OneMoreRow
<1>2. row.id.order = x /\ row.id.part = l /\ l # "parent"
  <2>1. l # "parent"
    BY DEF LegNames
  <2>2. row.id.order = x /\ row.id.part = l
    BY DEF Id
  <2> QED BY <2>1, <2>2
<1>3. os[x] \in Orders /\ q \in Int
  BY TablesTyped, OrderTyped
<1>4. \A i \in 1 .. n : v[i] = w[i]
  BY <1>1 DEF Moves
<1>5. v[m] = -q
  BY <1>1, <1>2 DEF Moves, Moved
<1>6. ~\E i \in DOMAIN ds : ds[i].id = Id(x, l)
  BY <1>1 DEF OneRow
<1>7. /\ \A k \in K, z \in LegNames : k # x \/ z # l =>
            Taken(os, es, k, z) = Taken(os, ds, k, z)
      /\ Taken(os, ds, x, l) = 0 /\ Taken(os, es, x, l) = q
  <2>1. ASSUME NEW k \in K, NEW z \in LegNames, k # x \/ z # l
        PROVE  Taken(os, es, k, z) = Taken(os, ds, k, z)
    <3>1. row.id # Id(k, z)
      BY <2>1 DEF Id
    <3>2. (\E i \in DOMAIN es : es[i].id = Id(k, z)) <=> (\E i \in DOMAIN ds : ds[i].id = Id(k, z))
      BY <1>1, <3>1
    <3> QED BY <3>2 DEF Taken
  <2>2. Taken(os, ds, x, l) = 0
    BY <1>6 DEF Taken
  <2>3. Taken(os, es, x, l) = q
    BY <1>1 DEF Taken
  <2> QED BY <2>1, <2>2, <2>3
<1>8. \A k \in K : k # x => c[k] = b[k]
  BY <1>7 DEF Booked, LegNames
<1>9. c[x] - b[x] = -q
  <2>1. /\ Basis(os[x]) \in Int
        /\ b[x] = Basis(os[x]) - Taken(os, ds, x, "stop") - Taken(os, ds, x, "take_profit")
        /\ c[x] = Basis(os[x]) - Taken(os, es, x, "stop") - Taken(os, es, x, "take_profit")
    BY <1>3, OrderTyped DEF Booked
  <2>2. Taken(os, ds, x, "stop") \in Int /\ Taken(os, es, x, "stop") \in Int
    BY <1>3, TakenInt DEF LegNames
  <2>3. Taken(os, ds, x, "take_profit") \in Int /\ Taken(os, es, x, "take_profit") \in Int
    BY <1>3, TakenInt DEF LegNames
  <2>4. "stop" \in LegNames /\ "take_profit" \in LegNames /\ l \in {"stop", "take_profit"}
    BY DEF LegNames
  <2> HIDE DEF b, c, q
  <2>5. CASE l = "stop"
    <3>1. Taken(os, es, x, "take_profit") = Taken(os, ds, x, "take_profit")
      BY <1>7, <2>4, <2>5
    <3> QED BY <1>3, <1>7, <2>1, <2>2, <2>3, <2>5, <3>1
  <2>6. CASE l = "take_profit"
    <3>1. Taken(os, es, x, "stop") = Taken(os, ds, x, "stop")
      BY <1>7, <2>4, <2>6
    <3> QED BY <1>3, <1>7, <2>1, <2>2, <2>3, <2>6, <3>1
  <2> QED BY <2>4, <2>5, <2>6
<1>10. /\ IsFiniteSet(K) /\ x \in K
       /\ \A k \in K : b[k] \in Int /\ c[k] \in Int
       /\ \A i \in 1 .. n : w[i] \in Int
       /\ v[m] \in Int
  <2>1. IsFiniteSet(K) /\ (\A k \in K : b[k] \in Int) /\ (\A i \in DOMAIN ds : w[i] \in Int)
    BY TablesTyped, WeightsInt
  <2>2. (\A k \in K : c[k] \in Int) /\ (\A i \in DOMAIN es : v[i] \in Int)
    BY WeightsInt
  <2> QED BY <1>1, <2>1, <2>2
<1>11. /\ SumOver(w, 1 .. n) = SumOver(b, K)
       /\ \A k \in K : SoundOrder(os[k])
       /\ Matching(os, ds)
  BY <1>1 DEF SInv
<1>12. Matching(os, es)
  <2>1. \A k \in DOMAIN os : \E i \in DOMAIN es : es[i].id = Id(k, "parent")
    BY <1>1, <1>11 DEF Matching
  <2>2. \A i \in DOMAIN ds : RightSide(os, es, i)
    BY <1>1, <1>11 DEF Matching, RightSide
  <2>3. RightSide(os, es, m)
    BY <1>1, <1>2 DEF RightSide
  <2> QED BY <1>1, <2>1, <2>2, <2>3 DEF Matching
<1> HIDE DEF n, m, K, w, v, b, c, q
<1>13. /\ SumOver(w, 1 .. n) \in Int
       /\ SumOver(v, 1 .. m) = SumOver(w, 1 .. n) + v[m]
  <2>1. Longer(w, n, v, m)
    BY <1>1, <1>4, <1>10 DEF Longer
  <2> QED BY <2>1, SumGrows
<1>14. SumOver(c, K) = SumOver(b, K) + (c[x] - b[x])
  BY <1>8, <1>10, SumMoves
<1>15. SumOver(v, 1 .. m) = SumOver(c, K)
  BY <1>3, <1>5, <1>9, <1>11, <1>13, <1>14
<1> QED BY <1>1, <1>11, <1>12, <1>15 DEF SInv, K, v, c, m

\* A new order gets its row.
LEMMA OrderJoins ==
    ASSUME NEW os, NEW ds, Tables(os, ds), SInv(os, ds),
           NEW order \in Orders, SoundOrder(order),
           NEW qs, qs = Append(os, order),
           NEW row \in Rows, row.id = Id(Len(os) + 1, "parent"), row.action = order.action,
           NEW es, es = Append(ds, row), Tables(qs, es)
    PROVE  SInv(qs, es)
<1> DEFINE n == Len(ds)
           m == Len(es)
           o == Len(os)
           p == Len(qs)
           w == Moves(os, ds)
           v == Moves(qs, es)
           b == Booked(os, ds)
           c == Booked(qs, es)
<1>1. /\ DOMAIN ds = 1 .. n /\ n \in Nat /\ m = n + 1 /\ DOMAIN es = 1 .. m
      /\ \A i \in DOMAIN ds : i \in DOMAIN es /\ es[i] = ds[i]
      /\ \A i \in DOMAIN es : i \in DOMAIN ds \/ i = m
      /\ m \in DOMAIN es /\ m \notin DOMAIN ds /\ es[m] = row
  <2>1. ds \in Seq(Rows)
    BY DEF Tables
  <2> QED BY <2>1, OneMoreRow
<1>2. /\ o \in Nat /\ p = o + 1 /\ DOMAIN os = 1 .. o /\ DOMAIN qs = 1 .. p
      /\ (\A k \in 1 .. o : qs[k] = os[k]) /\ qs[p] = order
  <2>1. os \in Seq(Orders)
    BY DEF Tables
  <2> QED BY <2>1, Appended
<1>3. row.id.order = p /\ row.id.part = "parent"
  BY <1>2 DEF Id
<1>4. \A i \in DOMAIN ds : ds[i].id.order \in 1 .. o
  BY <1>2, TablesTyped
<1>5. \A i \in 1 .. n : v[i] = w[i]
  <2> SUFFICES ASSUME NEW i \in 1 .. n PROVE v[i] = w[i]
    OBVIOUS
  <2>1. es[i] = ds[i] /\ i \in DOMAIN ds /\ i \in DOMAIN es /\ ds[i].id.order \in 1 .. o
    BY <1>1, <1>4
  <2>2. qs[ds[i].id.order] = os[ds[i].id.order]
    BY <1>2, <2>1
  <2>3. Moved(qs, ds[i].id) = Moved(os, ds[i].id)
    BY <2>2 DEF Moved
  <2> QED BY <2>1, <2>3 DEF Moves
<1>6. v[m] = Basis(order)
  BY <1>1, <1>2, <1>3 DEF Moves, Moved
<1>7. \A k \in 1 .. o, z \in LegNames : Taken(qs, es, k, z) = Taken(os, ds, k, z)
  <2> SUFFICES ASSUME NEW k \in 1 .. o, NEW z \in LegNames
               PROVE  Taken(qs, es, k, z) = Taken(os, ds, k, z)
    OBVIOUS
  <2>1. row.id # Id(k, z)
    BY <1>3 DEF Id, LegNames
  <2>2. (\E i \in DOMAIN es : es[i].id = Id(k, z)) <=> (\E i \in DOMAIN ds : ds[i].id = Id(k, z))
    BY <1>1, <2>1
  <2> QED BY <1>2, <2>2 DEF Taken
<1>8. \A k \in 1 .. o : c[k] = b[k]
  <2>1. \A k \in 1 .. o : k \in DOMAIN qs /\ k \in DOMAIN os /\ qs[k] = os[k]
    BY <1>2
  <2> HIDE DEF o
  <2> QED BY <1>7, <2>1 DEF Booked, LegNames
<1>9. c[p] = Basis(order)
  <2>1. ASSUME NEW z \in LegNames
        PROVE  Taken(qs, es, p, z) = 0
    <3>1. row.id # Id(p, z)
      BY <1>3 DEF Id, LegNames
    <3>2. \A i \in DOMAIN ds : ds[i].id # Id(p, z)
      BY <1>2, <1>4 DEF Id
    <3>3. ~\E i \in DOMAIN es : es[i].id = Id(p, z)
      BY <1>1, <3>1, <3>2
    <3> QED BY <3>3 DEF Taken
  <2>2. Taken(qs, es, p, "stop") = 0 /\ Taken(qs, es, p, "take_profit") = 0
    BY <2>1 DEF LegNames
  <2>3. p \in DOMAIN qs /\ Basis(order) \in Int
    BY <1>2, OrderTyped
  <2>4. c[p] = Basis(order) - 0 - 0
    <3> HIDE DEF p
    <3> QED BY <1>2, <2>2, <2>3 DEF Booked
  <2> QED BY <2>3, <2>4
<1>10. /\ \A k \in 1 .. o : b[k] \in Int
       /\ \A i \in 1 .. n : w[i] \in Int
       /\ v[m] \in Int /\ c[p] \in Int
  <2>1. (\A k \in DOMAIN os : b[k] \in Int) /\ \A i \in DOMAIN ds : w[i] \in Int
    BY WeightsInt
  <2>2. Basis(order) \in Int
    BY OrderTyped
  <2> QED BY <1>1, <1>2, <1>6, <1>9, <2>1, <2>2
<1>11. /\ SumOver(w, 1 .. n) = SumOver(b, 1 .. o)
       /\ \A k \in 1 .. o : SoundOrder(os[k])
       /\ Matching(os, ds)
  BY <1>1, <1>2 DEF SInv
<1>12. \A k \in 1 .. p : k \in 1 .. o \/ k = p
  BY <1>2
<1>13. \A k \in DOMAIN qs : SoundOrder(qs[k])
  BY <1>2, <1>11, <1>12
<1>14. Matching(qs, es)
  <2>1. \A k \in DOMAIN qs : \E i \in DOMAIN es : es[i].id = Id(k, "parent")
    BY <1>1, <1>2, <1>11, <1>12 DEF Matching
  <2>2. ASSUME NEW i \in DOMAIN es
        PROVE  RightSide(qs, es, i)
    <3>1. CASE i = m
      BY <1>1, <1>2, <1>3, <3>1 DEF RightSide
    <3>2. CASE i # m
      <4>1. i \in DOMAIN ds /\ es[i] = ds[i] /\ ds[i].id.order \in 1 .. o
        BY <1>1, <1>4, <3>2
      <4>2. qs[ds[i].id.order] = os[ds[i].id.order]
        BY <1>2, <4>1
      <4>3. RightSide(os, ds, i)
        BY <1>11, <4>1 DEF Matching
      <4> QED BY <4>1, <4>2, <4>3 DEF RightSide
    <3> QED BY <3>1, <3>2
  <2> QED BY <2>1, <2>2 DEF Matching
<1> HIDE DEF n, m, o, p, w, v, b, c
<1>15. SumOver(v, 1 .. m) = SumOver(w, 1 .. n) + v[m] /\ SumOver(w, 1 .. n) \in Int
  <2>1. Longer(w, n, v, m)
    BY <1>1, <1>5, <1>10 DEF Longer
  <2> QED BY <2>1, SumGrows
<1>16. SumOver(c, 1 .. p) = SumOver(b, 1 .. o) + c[p] /\ SumOver(b, 1 .. o) \in Int
  <2>1. Longer(b, o, c, p)
    BY <1>2, <1>8, <1>10 DEF Longer
  <2> QED BY <2>1, SumGrows
<1>17. SumOver(v, 1 .. m) = SumOver(c, 1 .. p)
  BY <1>6, <1>9, <1>11, <1>15, <1>16
<1> QED BY <1>1, <1>2, <1>13, <1>14, <1>17 DEF SInv, v, c, m, p

-----------------------------------------------------------------------------
(* What trades and cancels do to one order.                                *)

LEMMA LegsFinite == IsFiniteSet(LegNames)
<1>1. LegNames = {"stop"} \cup {"take_profit"}
  BY DEF LegNames
<1>2. IsFiniteSet({"stop"})
  BY FS_Singleton
<1>3. IsFiniteSet({"stop"} \cup {"take_profit"})
  BY <1>2, FS_AddElement
<1> QED BY <1>1, <1>3

LEMMA SharesAreBoth ==
    ASSUME NEW legs, \A l \in LegNames : legs[l].filled \in Nat
    PROVE  Shares(legs) = legs["stop"].filled + legs["take_profit"].filled
<1> DEFINE w == [l \in LegNames |-> legs[l].filled]
           K == LegNames
<1>1. /\ IsFiniteSet(K) /\ "stop" \in K /\ "take_profit" \in K
      /\ \A k \in K : w[k] \in Int
      /\ w["stop"] = legs["stop"].filled /\ w["take_profit"] = legs["take_profit"].filled
      /\ K \ {"stop"} = {"take_profit"}
  BY LegsFinite DEF LegNames
<1>2. Shares(legs) = SumOver(w, K)
  <2>1. DOMAIN w = K
    OBVIOUS
  <2>2. Shares(legs) = SumFunction(w)
    BY DEF Shares
  <2> HIDE DEF w, K
  <2> QED BY <2>1, <2>2, SumOfAll
<1> HIDE DEF w, K
<1>3. SumOver(w, K) = w["stop"] + SumOver(w, K \ {"stop"})
  BY <1>1, SumLess
<1> DEFINE L == {"take_profit"}
<1>4. IsFiniteSet(L) /\ "take_profit" \in L /\ (\A k \in L : w[k] \in Int)
      /\ L \ {"take_profit"} = {}
  BY <1>1, FS_Singleton
<1> HIDE DEF L
<1>5. SumOver(w, L) = w["take_profit"] + SumOver(w, L \ {"take_profit"})
  BY <1>4, SumLess
<1>6. SumOver(w, {}) = 0
  BY SumOfNone
<1> DEFINE a == legs["stop"].filled
           b == legs["take_profit"].filled
<1>7. SumOver(w, L) = b /\ a \in Int /\ b \in Int
  <2>1. a \in Nat /\ b \in Nat
    BY DEF LegNames
  <2>2. SumOver(w, L) = b + SumOver(w, {}) /\ SumOver(w, {}) = 0
    BY <1>1, <1>4, <1>5, <1>6
  <2> HIDE DEF a, b
  <2>3. SumOver(w, L) = b
    BY <2>1, <2>2
  <2> QED BY <2>1, <2>3
<1>8. SumOver(w, K \ {"stop"}) = b
  BY <1>1, <1>7 DEF L
<1> QED BY <1>1, <1>2, <1>3, <1>8

LEMMA NothingGone ==
    ASSUME NEW order \in Orders, SoundOrder(order)
    PROVE  Gone(order, order)
BY DEF Gone

\* The exits that rest are canceled.
LEMMA RestCanceled ==
    ASSUME NEW order \in Orders, SoundOrder(order), NEW more, more = CancelLegs(order)
    PROVE  Gone(order, more) /\ Basis(more) = Basis(order)
<1> DEFINE legs == [l \in LegNames |-> CancelLeg(order.legs[l])]
<1>1. more = [order EXCEPT !.legs = legs]
  BY DEF CancelLegs
<1>2. \A l \in LegNames : order.legs[l] \in [status : {"none", "held", "filled", "canceled"},
                                             filled : Nat]
  BY DEF Orders, Legs
<1>3. \A l \in LegNames :
        /\ order.legs[l].status = "filled" => legs[l] = order.legs[l]
        /\ legs[l].status = "filled" => legs[l] = order.legs[l]
  BY <1>2 DEF CancelLeg
<1>4. more \in Orders
  BY CancelLegsKeeps
<1> HIDE DEF legs
<1>5. /\ more.action = order.action /\ more.legs = legs
      /\ more.status = order.status /\ more.filled = order.filled
  BY <1>1 DEF Orders
<1>6. SoundOrder(more)
  BY <1>3, <1>5 DEF SoundOrder
<1>7. Basis(more) = Basis(order)
  BY <1>5 DEF Basis
<1> QED BY <1>3, <1>4, <1>5, <1>6, <1>7 DEF Gone

\* An order ends with what it had filled, or had ended already.
LEMMA OrderCanceled ==
    ASSUME NEW order \in Orders, SoundOrder(order), NEW more, more = Cancel(order)
    PROVE  Gone(order, more) /\ Basis(more) = Basis(order)
<1> DEFINE status == IF order.status = "new" THEN "canceled" ELSE order.status
           closed == [order EXCEPT !.status = status]
<1>1. status \in {"new", "filled", "canceled"} /\ (status = "filled" => order.status = "filled")
  BY DEF Orders
<1>2. more = CancelLegs(closed)
  BY DEF Cancel
<1> HIDE DEF status
<1>3. /\ closed \in Orders /\ closed.legs = order.legs /\ closed.action = order.action
      /\ closed.filled = order.filled /\ closed.status = status
  BY <1>1 DEF Orders
<1> HIDE DEF closed
<1>4. SoundOrder(closed) /\ Basis(closed) = Basis(order)
  BY <1>1, <1>3 DEF SoundOrder, Basis
<1>5. Gone(closed, more) /\ Basis(more) = Basis(closed)
  BY <1>2, <1>3, <1>4, RestCanceled
<1> QED BY <1>3, <1>4, <1>5 DEF Gone

\* A share of an order trades.
LEMMA ShareFills ==
    ASSUME NEW order \in Orders, SoundOrder(order), NEW f, f = order.filled + 1, NEW more,
           more = [order EXCEPT !.filled = f,
                                !.status = IF f = order.qty THEN "filled" ELSE "new"]
    PROVE  Gone(order, more)
<1> DEFINE status == IF f = order.qty THEN "filled" ELSE "new"
<1>1. f \in Nat /\ f > 0 /\ status \in {"new", "filled"}
  BY OrderTyped
<1> HIDE DEF status
<1>2. more = [order EXCEPT !.filled = f, !.status = status]
  BY DEF status
<1>3. /\ more \in Orders /\ more.legs = order.legs /\ more.action = order.action
      /\ more.filled = f
  BY <1>1, <1>2 DEF Orders
<1>4. SoundOrder(more)
  BY <1>1, <1>3 DEF SoundOrder
<1> QED BY <1>3, <1>4 DEF Gone

\* A share of an exit trades; more is the order after it.
LegFills(order, l, more) ==
    LET legs == order.legs
        filled == legs[l].filled + 1
        last == Shares(legs) + 1 = order.filled
        others == [m \in LegNames |-> IF last THEN CancelLeg(legs[m]) ELSE legs[m]]
        traded == [status |-> IF last THEN "filled" ELSE "held", filled |-> filled]
    IN more = [order EXCEPT !.legs = [others EXCEPT ![l] = traded]]

LEMMA ExitFills ==
    ASSUME NEW order \in Orders, SoundOrder(order),
           NEW l \in LegNames, order.legs[l].status = "held",
           NEW more \in Orders, LegFills(order, l, more)
    PROVE  Gone(order, more) /\ Basis(more) = Basis(order)
<1> DEFINE legs == order.legs
           f == legs[l].filled + 1
           last == Shares(legs) + 1 = order.filled
           others == [m \in LegNames |-> IF last THEN CancelLeg(legs[m]) ELSE legs[m]]
           status == IF last THEN "filled" ELSE "held"
           traded == [status |-> status, filled |-> f]
           after == [others EXCEPT ![l] = traded]
<1>1. \A m \in LegNames : legs[m] \in [status : {"none", "held", "filled", "canceled"},
                                       filled : Nat]
  BY DEF Orders, Legs
<1>2. more = [order EXCEPT !.legs = after]
  BY DEF LegFills
<1>3. (\A m \in LegNames : m # l => after[m] = others[m]) /\ after[l] = traded
  OBVIOUS
<1>4. \A m \in LegNames :
        /\ legs[m].status = "filled" => others[m] = legs[m]
        /\ others[m].status = "filled" => others[m] = legs[m]
  BY <1>1 DEF CancelLeg
<1>5. traded.filled = f /\ f > 0
  <2>1. legs[l].filled \in Nat
    BY <1>1
  <2> QED BY <2>1
<1> HIDE DEF after, others, traded
<1>6. /\ more.action = order.action /\ more.legs = after
      /\ more.status = order.status /\ more.filled = order.filled
  BY <1>2 DEF Orders
<1>7. \A m \in LegNames : legs[m].status = "filled" => after[m] = legs[m]
  BY <1>3, <1>4
<1>8. \A m \in LegNames : after[m].status = "filled" => after[m].filled > 0
  <2>1. \A m \in LegNames : legs[m].status = "filled" => legs[m].filled > 0
    BY DEF SoundOrder
  <2> QED BY <1>3, <1>4, <1>5, <2>1
<1>9. SoundOrder(more)
  BY <1>6, <1>8 DEF SoundOrder
<1>10. Basis(more) = Basis(order)
  BY <1>6 DEF Basis
<1> QED BY <1>6, <1>7, <1>9, <1>10 DEF Gone

-----------------------------------------------------------------------------
(* Every step keeps it.                                                    *)

LEMMA TheirTables ==
    ASSUME RInv
    PROVE  Tables(orders, decisions)
BY DEF RInv, TypeOK, RowsExist, Tables

LEMMA TheirTablesNext ==
    ASSUME RInv'
    PROVE  Tables(orders', decisions')
BY DEF RInv, TypeOK, RowsExist, Tables

LEMMA NothingSoFar ==
    ASSUME NEW os, NEW ds, os = <<>>, ds = <<>>
    PROVE  SInv(os, ds)
<1>1. DOMAIN os = {} /\ DOMAIN ds = {}
  OBVIOUS
<1>2. Matching(os, ds)
  BY <1>1 DEF Matching
<1>3. SumOver(Moves(os, ds), {}) = 0 /\ SumOver(Booked(os, ds), {}) = 0
  BY SumOfNone
<1> QED BY <1>1, <1>2, <1>3 DEF SInv

LEMMA RecordingKeeps ==
    ASSUME TypeOK, SInv(orders, decisions), orders' = orders, NEW i, RecordFill(i),
           \A j \in DOMAIN decisions : decisions'[j].id = decisions[j].id
    PROVE  SInv(orders', decisions')
<1> DEFINE fill == ReadOrder(decisions[i].id)
           row == [decisions[i] EXCEPT !.status = fill.status, !.filled = fill.filled]
<1>1. decisions' = [decisions EXCEPT ![i] = row]
  BY DEF RecordFill
<1>2. \A j \in DOMAIN decisions : decisions[j] \in Rows
  BY ElementOfSeq, LenProperties DEF TypeOK
<1>3. i \in DOMAIN decisions => row.action = decisions[i].action
  BY <1>2 DEF Rows
<1> HIDE DEF row
<1>4. DOMAIN decisions' = DOMAIN decisions
  BY <1>1
<1>5. \A j \in DOMAIN decisions : decisions'[j].action = decisions[j].action
  BY <1>1, <1>3
<1>6. \A j \in DOMAIN decisions :
        decisions'[j].id = decisions[j].id /\ decisions'[j].action = decisions[j].action
  BY <1>5
<1>7. SInv(orders, decisions')
  BY <1>4, <1>6, RowsRewritten
<1> QED BY <1>7

\* The row of an exit is added.
LEMMA ExitRowKeeps ==
    ASSUME RInv, SInv(orders, decisions), RInv', OneRowPerOrder',
           NEW r \in Reconcilers, NEW i, RecordExit(r, i)
    PROVE  SInv(orders', decisions')
<1>1. orders' = orders
  BY DEF RecordExit
<1>2. i \in DOMAIN decisions /\ decisions[i] \in Rows
  <2>1. decisions \in Seq(Rows) /\ todo[r] \subseteq DOMAIN decisions
    BY DEF RInv, TypeOK
  <2>2. i \in todo[r]
    BY DEF RecordExit, At
  <2> QED BY <2>1, <2>2, ElementOfSeq, LenProperties
<1>3. PICK n \in Nat : n = decisions[i].id.order
  BY <1>2 DEF Rows, Ids
<1>4. n \in DOMAIN orders /\ orders[n] \in Orders
  BY <1>2, <1>3, ElementOfSeq, LenProperties DEF RInv, RowsExist, TypeOK
<1>5. PICK l \in NewExits(r, n) :
        decisions' = Append(decisions,
               [id |-> Id(n, l), action |-> ExitAction(orders[n].action),
                qty |-> orders[n].legs[l].filled, status |-> "null", filled |-> 0])
  BY <1>3 DEF RecordExit
<1>6. l \in LegNames /\ orders[n].legs[l].filled \in Nat
  BY <1>4, <1>5 DEF NewExits, Orders, Legs
<1>7. Id(n, l) \in Ids
  BY <1>6 DEF Ids, Id
<1> DEFINE row == [id |-> Id(n, l), action |-> ExitAction(orders[n].action),
                   qty |-> orders[n].legs[l].filled, status |-> "null", filled |-> 0]
<1>8. row \in Rows /\ row.id = Id(n, l) /\ row.action = ExitAction(orders[n].action)
  BY <1>6, <1>7 DEF Rows, ExitAction
<1>9. decisions' = Append(decisions, row)
  BY <1>5
<1> HIDE DEF row
<1>10. Tables(orders, decisions) /\ Tables(orders, decisions')
  BY <1>1, TheirTables, TheirTablesNext
<1>11. OneRow(decisions')
  BY DEF OneRow, OneRowPerOrder
<1>12. SInv(orders, decisions')
  BY <1>4, <1>6, <1>8, <1>9, <1>10, <1>11, ExitJoins
<1> QED BY <1>1, <1>12

\* One order of the book gives way to more.
LEMMA OneMoves ==
    ASSUME RInv, SInv(orders, decisions), OneRowPerOrder, RInv',
           NEW n \in DOMAIN orders, NEW more, orders' = [orders EXCEPT ![n] = more],
           Gone(orders[n], more), decisions' = decisions
    PROVE  SInv(orders', decisions')
<1>1. Tables(orders, decisions) /\ OneRow(decisions)
  BY TheirTables DEF OneRow, OneRowPerOrder
<1>2. orders' \in Seq(Orders) /\ DOMAIN orders' = DOMAIN orders
  BY DEF RInv, TypeOK
<1>3. \A m \in DOMAIN orders : m # n => orders'[m] = orders[m]
  OBVIOUS
<1>4. \A m \in DOMAIN orders : orders[m] \in Orders /\ SoundOrder(orders[m])
  BY <1>1, TablesTyped DEF SInv
<1>5. orders'[n] = more
  OBVIOUS
<1>6. \A m \in DOMAIN orders : Gone(orders[m], orders'[m])
  BY <1>3, <1>4, <1>5, NothingGone
<1>7. SInv(orders', decisions)
  BY <1>1, <1>2, <1>3, <1>6, OrderMoves
<1> QED BY <1>7

\* The same, when only its exits change.
LEMMA OneExits ==
    ASSUME RInv, SInv(orders, decisions), RInv',
           NEW n \in DOMAIN orders, NEW more, orders' = [orders EXCEPT ![n] = more],
           Gone(orders[n], more), Basis(more) = Basis(orders[n]), decisions' = decisions
    PROVE  SInv(orders', decisions')
<1>1. Tables(orders, decisions)
  BY TheirTables
<1>2. orders' \in Seq(Orders) /\ DOMAIN orders' = DOMAIN orders
  BY DEF RInv, TypeOK
<1>3. \A m \in DOMAIN orders : m # n => orders'[m] = orders[m]
  OBVIOUS
<1>4. \A m \in DOMAIN orders : orders[m] \in Orders /\ SoundOrder(orders[m])
  BY <1>1, TablesTyped DEF SInv
<1>5. orders'[n] = more
  OBVIOUS
<1>6. \A m \in DOMAIN orders :
        Gone(orders[m], orders'[m]) /\ Basis(orders'[m]) = Basis(orders[m])
  BY <1>3, <1>4, <1>5, NothingGone
<1>7. SInv(orders', decisions)
  BY <1>1, <1>2, <1>6, ExitsChange
<1> QED BY <1>7

LEMMA FillMoves ==
    ASSUME RInv, SInv(orders, decisions), OneRowPerOrder, RInv', NEW n, Fill(n)
    PROVE  SInv(orders', decisions')
<1> DEFINE filled == orders[n].filled + 1
           more == [orders[n] EXCEPT !.filled = filled,
                        !.status = IF filled = orders[n].qty THEN "filled" ELSE "new"]
<1>1. n \in DOMAIN orders /\ orders[n] \in Orders /\ orders[n].status = "new"
  BY TheirTables, TablesTyped DEF Fill
<1>2. orders' = [orders EXCEPT ![n] = more] /\ decisions' = decisions
  BY DEF Fill
<1>3. SoundOrder(orders[n])
  BY <1>1 DEF SInv
<1>4. Gone(orders[n], more)
  BY <1>1, <1>3, ShareFills
<1> HIDE DEF more
<1> QED BY <1>1, <1>2, <1>4, OneMoves

LEMMA ExpireMoves ==
    ASSUME RInv, SInv(orders, decisions), RInv', NEW n, Expire(n)
    PROVE  SInv(orders', decisions')
<1> DEFINE more == Cancel(orders[n])
<1>1. n \in DOMAIN orders /\ orders[n] \in Orders
  BY TheirTables, TablesTyped DEF Expire
<1>2. orders' = [orders EXCEPT ![n] = more] /\ decisions' = decisions
  BY DEF Expire
<1>3. SoundOrder(orders[n])
  BY <1>1 DEF SInv
<1>4. Gone(orders[n], more) /\ Basis(more) = Basis(orders[n])
  BY <1>1, <1>3, OrderCanceled
<1> HIDE DEF more
<1> QED BY <1>1, <1>2, <1>4, OneExits

LEMMA ExpireLegsMoves ==
    ASSUME RInv, SInv(orders, decisions), RInv', NEW n, ExpireLegs(n)
    PROVE  SInv(orders', decisions')
<1> DEFINE more == CancelLegs(orders[n])
<1>1. n \in DOMAIN orders /\ orders[n] \in Orders
  BY TheirTables, TablesTyped DEF ExpireLegs
<1>2. orders' = [orders EXCEPT ![n] = more] /\ decisions' = decisions
  BY DEF ExpireLegs
<1>3. SoundOrder(orders[n])
  BY <1>1 DEF SInv
<1>4. Gone(orders[n], more) /\ Basis(more) = Basis(orders[n])
  BY <1>1, <1>3, RestCanceled
<1> HIDE DEF more
<1> QED BY <1>1, <1>2, <1>4, OneExits

LEMMA FillLegMoves ==
    ASSUME RInv, SInv(orders, decisions), RInv', NEW n, NEW l \in LegNames, FillLeg(n, l)
    PROVE  SInv(orders', decisions')
<1> DEFINE legs == orders[n].legs
           filled == legs[l].filled + 1
           last == Shares(legs) + 1 = orders[n].filled
           others == [m \in LegNames |-> IF last THEN CancelLeg(legs[m]) ELSE legs[m]]
           traded == [status |-> IF last THEN "filled" ELSE "held", filled |-> filled]
           more == [orders[n] EXCEPT !.legs = [others EXCEPT ![l] = traded]]
<1>1. n \in DOMAIN orders /\ orders[n] \in Orders /\ orders[n].legs[l].status = "held"
  BY TheirTables, TablesTyped DEF FillLeg
<1>2. orders' = [orders EXCEPT ![n] = more] /\ decisions' = decisions
  BY DEF FillLeg
<1>3. SoundOrder(orders[n])
  BY <1>1 DEF SInv
<1>4. LegFills(orders[n], l, more)
  BY DEF LegFills
<1> HIDE DEF more
<1>5. more \in Orders
  <2>1. orders' \in Seq(Orders) /\ DOMAIN orders' = DOMAIN orders /\ orders'[n] = more
    BY <1>1, <1>2 DEF RInv, TypeOK
  <2> QED BY <1>1, <2>1, ElementOfSeq, LenProperties
<1>6. Gone(orders[n], more) /\ Basis(more) = Basis(orders[n])
  BY <1>1, <1>3, <1>4, <1>5, ExitFills
<1> QED BY <1>1, <1>2, <1>6, OneExits

\* Some of the name's orders are canceled.
LEMMA SomeCanceled ==
    ASSUME RInv, SInv(orders, decisions), NEW gone
    PROVE  /\ SInv(CancelOrders(gone), decisions)
           /\ Tables(CancelOrders(gone), decisions)
           /\ Len(CancelOrders(gone)) = Len(orders)
<1> DEFINE qs == CancelOrders(gone)
<1>1. Tables(orders, decisions)
  BY TheirTables
<1>2. \A n \in DOMAIN orders : orders[n] \in Orders /\ SoundOrder(orders[n])
  BY <1>1, TablesTyped DEF SInv
<1>3. qs \in Seq(Orders) /\ DOMAIN qs = DOMAIN orders /\ Len(qs) = Len(orders)
  BY CancelOrdersKeeps DEF RInv, TypeOK
<1>4. \A n \in DOMAIN orders : qs[n] = orders[n] \/ qs[n] = Cancel(orders[n])
  BY DEF CancelOrders
<1> HIDE DEF qs
<1>5. \A n \in DOMAIN orders : Gone(orders[n], qs[n]) /\ Basis(qs[n]) = Basis(orders[n])
  <2> TAKE n \in DOMAIN orders
  <2>1. CASE qs[n] = orders[n]
    BY <1>2, <2>1, NothingGone
  <2>2. CASE qs[n] = Cancel(orders[n])
    BY <1>2, <2>2, OrderCanceled
  <2> QED BY <1>4, <2>1, <2>2
<1>6. SInv(qs, decisions)
  BY <1>1, <1>3, <1>5, ExitsChange
<1>7. \A n \in DOMAIN orders : Gone(orders[n], qs[n])
  BY <1>5
<1>8. Tables(qs, decisions)
  BY <1>1, <1>3, <1>7, SameTables
<1> QED BY <1>3, <1>6, <1>8 DEF qs

LEMMA PlaceMoves ==
    ASSUME RInv, SInv(orders, decisions), RInv',
           NEW action \in {"buy", "sell"}, NEW qty \in 1 .. MaxQty, NEW legs, NEW gone,
           PlaceOrder(action, qty, legs, gone)
    PROVE  SInv(orders', decisions')
<1> DEFINE rs == CancelOrders(gone)
           order == NewOrder(action, qty, legs)
           row == [id |-> Id(Len(orders) + 1, "parent"), action |-> action, qty |-> qty,
                   status |-> "null", filled |-> 0]
<1>1. qty \in Nat
  BY ReconcileAssumption
<1>2. \/ orders' = Append(rs, order) /\ decisions' = Append(decisions, row)
      \/ orders' = rs /\ decisions' = decisions
  BY DEF PlaceOrder
<1>3. SInv(rs, decisions) /\ Tables(rs, decisions) /\ Len(rs) = Len(orders)
  BY SomeCanceled
<1>4. order \in Orders /\ order.action = action
  BY <1>1, NewOrderTyped DEF NewOrder
<1>5. SoundOrder(order)
  BY DEF SoundOrder, NewOrder
<1>6. Len(orders) \in Nat
  BY TheirTables, TablesTyped
<1>7. Id(Len(orders) + 1, "parent") \in Ids
  BY <1>6 DEF Ids, Id
<1>8. row \in Rows /\ row.id = Id(Len(rs) + 1, "parent") /\ row.action = order.action
  BY <1>1, <1>3, <1>4, <1>7 DEF Rows
<1>9. Tables(orders', decisions')
  BY TheirTablesNext
<1> HIDE DEF rs, order, row
<1>10. CASE orders' = Append(rs, order) /\ decisions' = Append(decisions, row)
  BY <1>3, <1>4, <1>5, <1>8, <1>9, <1>10, OrderJoins
<1>11. CASE orders' = rs /\ decisions' = decisions
  BY <1>3, <1>11
<1> QED BY <1>2, <1>10, <1>11

\* The invariant holds through every step, as long as no order has two rows.
LEMMA StepMoves ==
    ASSUME RInv, SInv(orders, decisions), OneRowPerOrder, [Next]_vars, RInv', OneRowPerOrder'
    PROVE  SInv(orders', decisions')
<1>1. CASE Trade
  <2>1. ASSUME NEW action \in {"buy", "sell"}, NEW qty \in 1 .. MaxQty, NEW legs \in LegSets,
               NEW gone \in SUBSET DOMAIN orders, PlaceOrder(action, qty, legs, gone)
        PROVE  SInv(orders', decisions')
    BY <2>1, PlaceMoves
  <2>2. ASSUME NEW n \in DOMAIN orders, Fill(n) \/ Expire(n) \/ ExpireLegs(n)
        PROVE  SInv(orders', decisions')
    BY <2>2, FillMoves, ExpireMoves, ExpireLegsMoves
  <2>3. ASSUME NEW n \in DOMAIN orders, NEW l \in LegNames, FillLeg(n, l)
        PROVE  SInv(orders', decisions')
    BY <2>3, FillLegMoves
  <2> QED BY <1>1, <2>1, <2>2, <2>3 DEF Trade
<1>2. ASSUME NEW r \in Reconcilers, Run(r)
      PROVE  SInv(orders', decisions')
  <2>1. CASE Begin(r) \/ StartExits(r) \/ Finish(r)
    BY <2>1 DEF Begin, StartExits, Finish
  <2>2. ASSUME NEW i \in todo[r], Visit(r, i)
        PROVE  SInv(orders', decisions')
    <3>1. CASE StillOpen(r, i) \/ ReadFails(r, i) \/ NoNewExit(r, i)
      BY <3>1 DEF StillOpen, ReadFails, NoNewExit
    <3>2. CASE ReconcileFill(r, i) \/ RecordExitFill(r, i)
      <4>1. \A j \in DOMAIN decisions : decisions'[j].id = decisions[j].id
        BY <3>2, FillWritten
      <4>2. RecordFill(i) /\ orders' = orders
        BY <3>2 DEF ReconcileFill, RecordExitFill
      <4> QED BY <4>1, <4>2, RecordingKeeps DEF RInv
    <3>3. CASE RecordExit(r, i)
      BY <3>3, ExitRowKeeps
    <3> QED BY <2>2, <3>1, <3>2, <3>3 DEF Visit
  <2> QED BY <1>2, <2>1, <2>2 DEF Run
<1>3. ASSUME NEW r \in Reconcilers, Crash(r)
      PROVE  SInv(orders', decisions')
  BY <1>3 DEF Crash
<1>4. CASE UNCHANGED vars
  BY <1>4 DEF vars
<1> QED BY <1>1, <1>2, <1>3, <1>4 DEF Next

LEMMA MovesInvariant ==
    ASSUME \A r, s \in Reconcilers : r = s
    PROVE  Spec => []SInv(orders, decisions)
<1>1. Init => SInv(orders, decisions)
  BY NothingSoFar DEF Init
<1>2. /\ RInv /\ RInv' /\ OneRowPerOrder /\ OneRowPerOrder'
      /\ SInv(orders, decisions) /\ [Next]_vars
      => SInv(orders, decisions)'
  BY StepMoves
<1>3. Spec => []RInv
  BY ReconcileInvariant
<1>4. Spec => []OneRowPerOrder
  BY OneReconcilerOneRow
<1> QED BY <1>1, <1>2, <1>3, <1>4, PTL DEF Spec

-----------------------------------------------------------------------------
(* What evaluate's report has bought: it is open, or in a round trip.      *)

Open(book) == SumOver(QtyOf(book.lots), DOMAIN book.lots)

Traded(book) == SumOver(QtyOf(book.trips), DOMAIN book.trips)

Bought(book) == Open(book) + Traded(book)

\* The quantities of a sequence of lots, or of trips.
LEMMA QtysTyped ==
    ASSUME NEW S, \A x \in S : x.qty \in Int, NEW s \in Seq(S)
    PROVE  /\ DOMAIN s = 1 .. Len(s) /\ Len(s) \in Nat
           /\ DOMAIN QtyOf(s) = DOMAIN s
           /\ \A k \in DOMAIN s : s[k] \in S /\ QtyOf(s)[k] = s[k].qty /\ QtyOf(s)[k] \in Int
           /\ SumOver(QtyOf(s), DOMAIN s) \in Int
<1>1. DOMAIN s = 1 .. Len(s) /\ Len(s) \in Nat /\ \A k \in DOMAIN s : s[k] \in S
  OBVIOUS
<1>2. DOMAIN QtyOf(s) = DOMAIN s /\ \A k \in DOMAIN s : QtyOf(s)[k] = s[k].qty
  BY DEF QtyOf
<1>3. \A k \in DOMAIN s : QtyOf(s)[k] \in Int
  BY <1>1, <1>2
<1>4. IsFiniteSet(DOMAIN s)
  BY <1>1, PlacesAreFinite
<1>5. SumOver(QtyOf(s), DOMAIN s) \in Int
  BY <1>3, <1>4, SumInt
<1> QED BY <1>1, <1>2, <1>3, <1>5

\* One more of them.
LEMMA QtysAppend ==
    ASSUME NEW S, \A x \in S : x.qty \in Int, NEW s \in Seq(S), NEW x \in S,
           NEW t, t = Append(s, x)
    PROVE  SumOver(QtyOf(t), DOMAIN t) = SumOver(QtyOf(s), DOMAIN s) + x.qty
<1> DEFINE n == Len(s)
           m == n + 1
           w == QtyOf(s)
           v == QtyOf(t)
<1>1. /\ t \in Seq(S) /\ n \in Nat
      /\ DOMAIN s = 1 .. n /\ DOMAIN t = 1 .. m
      /\ \A k \in 1 .. n : t[k] = s[k]
      /\ t[m] = x
  BY Appended
<1>2. \A k \in 1 .. n : w[k] = s[k].qty /\ w[k] \in Int
  BY <1>1, QtysTyped
<1>3. \A k \in 1 .. m : v[k] = t[k].qty /\ v[k] \in Int
  BY <1>1, QtysTyped
<1>4. m \in 1 .. m /\ m = n + 1 /\ \A k \in 1 .. n : k \in 1 .. m
  BY <1>1
<1> HIDE DEF n, m, w, v
<1>5. Longer(w, n, v, m)
  BY <1>1, <1>2, <1>3, <1>4 DEF Longer
<1>6. SumOver(v, 1 .. m) = SumOver(w, 1 .. n) + v[m]
  BY <1>5, SumGrows
<1>7. v[m] = x.qty
  BY <1>1, <1>3, <1>4
<1> QED BY <1>1, <1>6, <1>7 DEF w, v

LEMMA BookQtys ==
    /\ \A lot \in Lots : lot.qty \in Int
    /\ \A trip \in Trips : trip.qty \in Int
BY DEF Lots, Trips

LEMMA BoughtInt ==
    ASSUME NEW book \in Books
    PROVE  Open(book) \in Int /\ Traded(book) \in Int
<1>1. book.lots \in Seq(Lots) /\ book.trips \in Seq(Trips)
  BY DEF Books
<1>2. Open(book) \in Int
  BY <1>1, BookQtys, QtysTyped DEF Open
<1>3. Traded(book) \in Int
  BY <1>1, BookQtys, QtysTyped DEF Traded
<1> QED BY <1>2, <1>3

\* A pass of the loop leaves open what it does not trade.
LEMMA TakeLotBought ==
    ASSUME NEW book \in Books, NEW lot \in Lots, NEW more, more = TakeLot(book, lot)
    PROVE  more \in Books /\ Bought(more) = Bought(book) + lot.qty
<1> DEFINE q == Matched(book, lot)
           rest == [row |-> lot.row, qty |-> lot.qty - q]
           trip == [buy |-> lot.row, sell |-> book.sell, qty |-> q]
<1>1. Took(book, lot, q, more)
  BY TakeLotTakes
<1>2. /\ book.remaining \in Nat /\ book.sell \in Nat
      /\ book.lots \in Seq(Lots) /\ book.trips \in Seq(Trips)
      /\ lot.row \in Nat /\ lot.qty \in Nat /\ lot.qty > 0
  BY DEF Books, Lots
<1>3. q \in Nat /\ lot.qty - q \in Nat
  BY <1>2 DEF Matched
<1>4. /\ more \in Books
      /\ more.trips = IF q > 0 THEN Append(book.trips, trip) ELSE book.trips
      /\ more.lots = IF lot.qty - q > 0 THEN Append(book.lots, rest) ELSE book.lots
  BY <1>1 DEF Took
<1>5. (lot.qty - q > 0 => rest \in Lots) /\ rest.qty = lot.qty - q
  BY <1>2, <1>3 DEF Lots
<1>6. (q > 0 => trip \in Trips) /\ trip.qty = q
  BY <1>2, <1>3 DEF Trips
<1>7. Open(book) \in Int /\ Traded(book) \in Int
  BY BoughtInt
<1> HIDE DEF q, rest, trip
<1>8. Open(more) = Open(book) + (lot.qty - q)
  <2>1. CASE lot.qty - q > 0
    <3>1. more.lots = Append(book.lots, rest) /\ rest \in Lots
      BY <1>4, <1>5, <2>1
    <3>2. Open(more) = Open(book) + rest.qty
      BY <1>2, <3>1, BookQtys, QtysAppend DEF Open
    <3> QED BY <1>5, <3>2
  <2>2. CASE ~(lot.qty - q > 0)
    <3>1. Open(more) = Open(book)
      BY <1>4, <2>2 DEF Open
    <3>2. lot.qty - q = 0
      BY <1>3, <2>2
    <3> QED BY <1>7, <3>1, <3>2
  <2> QED BY <2>1, <2>2
<1>9. Traded(more) = Traded(book) + q
  <2>1. CASE q > 0
    <3>1. more.trips = Append(book.trips, trip) /\ trip \in Trips
      BY <1>4, <1>6, <2>1
    <3>2. Traded(more) = Traded(book) + trip.qty
      BY <1>2, <3>1, BookQtys, QtysAppend DEF Traded
    <3> QED BY <1>6, <3>2
  <2>2. CASE ~(q > 0)
    <3>1. Traded(more) = Traded(book)
      BY <1>4, <2>2 DEF Traded
    <3>2. q = 0
      BY <1>3, <2>2
    <3> QED BY <1>7, <3>1, <3>2
  <2> QED BY <2>1, <2>2
<1>10. Bought(more) = Bought(book) + lot.qty
  BY <1>2, <1>3, <1>7, <1>8, <1>9 DEF Bought
<1> QED BY <1>4, <1>10

\* A sell, after it has passed the first n of the lots it found.
Eaten(book, n, b) ==
    /\ b \in Books
    /\ Bought(b) = Traded(book) + SumOver(QtyOf(book.lots), 1 .. n)

LEMMA EatsOn ==
    ASSUME NEW book \in Books, NEW n \in 1 .. Len(book.lots),
           NEW b, Eaten(book, n - 1, b), NEW c, c = TakeLot(b, book.lots[n])
    PROVE  Eaten(book, n, c)
<1> DEFINE lots == book.lots
           w == QtyOf(lots)
           k == n - 1
<1>1. lots \in Seq(Lots) /\ n \in DOMAIN lots
  BY DEF Books
<1>2. /\ lots[n] \in Lots /\ w[n] = lots[n].qty
      /\ \A j \in 1 .. Len(lots) : w[j] \in Int
      /\ Len(lots) \in Nat
  BY <1>1, BookQtys, QtysTyped
<1>3. c \in Books /\ Bought(c) = Bought(b) + lots[n].qty
  BY <1>2, TakeLotBought DEF Eaten
<1>4. k \in Nat /\ n = k + 1 /\ (1 .. k) \subseteq 1 .. Len(lots) /\ n \in 1 .. Len(lots)
  BY <1>2
<1>5. Traded(book) \in Int
  BY BoughtInt
<1>6. Bought(b) = Traded(book) + SumOver(w, 1 .. k)
  BY DEF Eaten
<1> HIDE DEF lots, w, k
<1>7. Longer(w, k, w, n)
  BY <1>2, <1>4 DEF Longer
<1>8. SumOver(w, 1 .. k) \in Int /\ SumOver(w, 1 .. n) = SumOver(w, 1 .. k) + w[n]
  BY <1>7, SumGrows
<1>9. w[n] \in Int
  BY <1>2, <1>4
<1>10. Bought(c) = Traded(book) + SumOver(w, 1 .. n)
  BY <1>2, <1>3, <1>5, <1>6, <1>8, <1>9
<1> QED BY <1>3, <1>10 DEF Eaten, lots, w

\* A sell trades what it takes, and buys nothing.
LEMMA SellBuysNothing ==
    ASSUME NEW book \in Books, NEW fill, fill.row \in Nat, fill.qty \in Nat
    PROVE  Bought(MatchSell(book, fill)) = Bought(book)
<1> DEFINE base == [book EXCEPT !.lots = <<>>, !.sell = fill.row, !.remaining = fill.qty]
           lots == book.lots
           n == Len(lots)
<1>1. lots \in Seq(Lots) /\ DOMAIN lots = 1 .. n /\ n \in Nat
  BY DEF Books
<1>2. PICK f : Loops("take", base, lots, f)
  <2>1. \A s : DOMAIN s = 1 .. n /\ Len(s) = n => \E f : Loops("take", base, s, f)
    BY <1>1, FoldIsLoop
  <2> QED BY <1>1, <2>1
<1>3. /\ f[0] = base
      /\ \A m \in 1 .. n : f[m] = TakeLot(f[m - 1], lots[m])
      /\ MatchSell(book, fill) = f[n]
  BY <1>2 DEF Loops, Applied, Folds, MatchSell
<1>4. Eaten(book, 0, base)
  <2>1. base \in Books /\ base.lots = <<>> /\ base.trips = book.trips
    <3>1. <<>> \in Seq(Lots)
      OBVIOUS
    <3> QED BY <3>1 DEF Books
  <2>2. DOMAIN base.lots = {} /\ 1 .. 0 = {}
    BY <2>1
  <2> HIDE DEF base
  <2>3. Open(base) = 0 /\ SumOver(QtyOf(book.lots), 1 .. 0) = 0
    BY <2>2, SumOfNone DEF Open
  <2>4. Traded(base) = Traded(book) /\ Traded(book) \in Int
    BY <2>1, BoughtInt DEF Traded
  <2> QED BY <2>1, <2>3, <2>4 DEF Eaten, Bought
<1> DEFINE Bad == {m \in 0 .. n : ~Eaten(book, m, f[m])}
<1> HIDE DEF base
<1>5. Bad = {}
  <2> SUFFICES ASSUME Bad # {} PROVE FALSE
    OBVIOUS
  <2>1. PICK m \in Bad : \A k \in Bad : m <= k
    <3>1. Bad \subseteq Nat
      OBVIOUS
    <3> HIDE DEF Bad
    <3> QED BY <3>1, SmallestNat
  <2>2. CASE m = 0
    BY <1>3, <1>4, <2>1, <2>2
  <2>3. CASE m # 0
    <3>1. m \in 1 .. n /\ m - 1 \in 0 .. n /\ ~(m <= m - 1)
      BY <1>1, <2>1, <2>3
    <3>2. Eaten(book, m - 1, f[m - 1])
      BY <2>1, <3>1
    <3>3. Eaten(book, m, f[m])
      BY <1>3, <3>1, <3>2, EatsOn
    <3> QED BY <2>1, <3>3
  <2> QED BY <2>2, <2>3
<1>6. Eaten(book, n, f[n])
  <2>1. n \in 0 .. n
    BY <1>1
  <2> HIDE DEF n
  <2> QED BY <1>5, <2>1
<1>7. Bought(f[n]) = Traded(book) + Open(book)
  BY <1>1, <1>6 DEF Eaten, Open
<1>8. Open(book) \in Int /\ Traded(book) \in Int
  BY BoughtInt
<1>9. Bought(f[n]) = Bought(book)
  BY <1>7, <1>8 DEF Bought
<1> QED BY <1>3, <1>9

\* What the fills of one side add up to.
Side(fill, side) == IF fill.action = side THEN fill.qty ELSE 0

LEMMA FillBought ==
    ASSUME NEW book \in Books, NEW fill \in Fills
    PROVE  Bought(MatchFill(book, fill)) = Bought(book) + Side(fill, "buy")
<1>1. /\ fill.row \in Nat /\ fill.qty \in Nat /\ fill.action \in {"buy", "sell"}
      /\ book.lots \in Seq(Lots)
  BY DEF Fills, Books
<1>2. Open(book) \in Int /\ Traded(book) \in Int /\ Bought(book) \in Int
  BY BoughtInt DEF Bought
<1>3. CASE fill.qty <= 0
  <2>1. MatchFill(book, fill) = book
    BY <1>3 DEF MatchFill
  <2>2. Side(fill, "buy") = 0
    BY <1>1, <1>3 DEF Side
  <2> QED BY <1>2, <2>1, <2>2
<1>4. CASE ~(fill.qty <= 0) /\ fill.action = "buy"
  <2> DEFINE lot == [row |-> fill.row, qty |-> fill.qty]
             more == [book EXCEPT !.lots = Append(book.lots, lot)]
  <2>1. lot \in Lots /\ lot.qty = fill.qty
    BY <1>1, <1>4 DEF Lots
  <2>2. MatchFill(book, fill) = more
    BY <1>4 DEF MatchFill
  <2>3. more.lots = Append(book.lots, lot) /\ more.trips = book.trips
    BY DEF Books
  <2>4. Side(fill, "buy") = fill.qty
    BY <1>4 DEF Side
  <2> HIDE DEF lot, more
  <2>5. Open(more) = Open(book) + lot.qty
    BY <1>1, <2>1, <2>3, BookQtys, QtysAppend DEF Open
  <2>6. Traded(more) = Traded(book)
    BY <2>3 DEF Traded
  <2> QED BY <1>1, <1>2, <2>1, <2>2, <2>4, <2>5, <2>6 DEF Bought
<1>5. CASE ~(fill.qty <= 0) /\ fill.action = "sell"
  <2>1. MatchFill(book, fill) = MatchSell(book, fill)
    BY <1>5 DEF MatchFill
  <2>2. Side(fill, "buy") = 0
    BY <1>5 DEF Side
  <2>3. Bought(MatchSell(book, fill)) = Bought(book)
    BY <1>1, SellBuysNothing
  <2> QED BY <1>2, <2>1, <2>2, <2>3
<1> QED BY <1>1, <1>3, <1>4, <1>5

LEMMA ReportLoops ==
    ASSUME NEW fills \in Seq(Fills)
    PROVE  \E f : /\ f[0] = [lots |-> <<>>, trips |-> <<>>, sell |-> 0, remaining |-> 0]
                  /\ \A m \in 1 .. Len(fills) : f[m] = MatchFill(f[m - 1], fills[m])
                  /\ MatchRoundTrips(fills) = f[Len(fills)]
<1> DEFINE base == [lots |-> <<>>, trips |-> <<>>, sell |-> 0, remaining |-> 0]
           n == Len(fills)
<1>1. DOMAIN fills = 1 .. n /\ n \in Nat
  OBVIOUS
<1>2. PICK f : Loops("match", base, fills, f)
  <2>1. \A s : DOMAIN s = 1 .. n /\ Len(s) = n => \E f : Loops("match", base, s, f)
    BY <1>1, FoldIsLoop
  <2> QED BY <1>1, <2>1
<1>3. /\ f[0] = base
      /\ \A m \in 1 .. n : f[m] = MatchFill(f[m - 1], fills[m])
      /\ MatchRoundTrips(fills) = f[n]
  BY <1>2 DEF Loops, Applied, Folds, MatchRoundTrips
<1> QED BY <1>3

\* One fill more is one pass more.
LEMMA ReportAppends ==
    ASSUME NEW s \in Seq(Fills), NEW x \in Fills
    PROVE  MatchRoundTrips(Append(s, x)) = MatchFill(MatchRoundTrips(s), x)
<1> DEFINE t == Append(s, x)
           n == Len(s)
           base == [lots |-> <<>>, trips |-> <<>>, sell |-> 0, remaining |-> 0]
<1>1. /\ t \in Seq(Fills) /\ Len(t) = n + 1 /\ n \in Nat
      /\ \A i \in 1 .. n : t[i] = s[i]
      /\ t[n + 1] = x
  BY Appended
<1>2. PICK f : /\ f[0] = base
               /\ \A m \in 1 .. n : f[m] = MatchFill(f[m - 1], s[m])
               /\ MatchRoundTrips(s) = f[n]
  BY ReportLoops
<1>3. PICK g : /\ g[0] = base
               /\ \A m \in 1 .. Len(t) : g[m] = MatchFill(g[m - 1], t[m])
               /\ MatchRoundTrips(t) = g[Len(t)]
  BY <1>1, ReportLoops
<1> DEFINE Bad == {m \in 0 .. n : g[m] # f[m]}
<1> HIDE DEF base, t
<1>4. Bad = {}
  <2> SUFFICES ASSUME Bad # {} PROVE FALSE
    OBVIOUS
  <2>1. PICK m \in Bad : \A k \in Bad : m <= k
    <3>1. Bad \subseteq Nat
      OBVIOUS
    <3> HIDE DEF Bad
    <3> QED BY <3>1, SmallestNat
  <2>2. CASE m = 0
    BY <1>2, <1>3, <2>1, <2>2
  <2>3. CASE m # 0
    <3>1. m \in 1 .. n /\ m \in 1 .. Len(t) /\ m - 1 \in 0 .. n /\ ~(m <= m - 1)
      BY <1>1, <2>1, <2>3
    <3>2. g[m - 1] = f[m - 1]
      BY <2>1, <3>1
    <3>3. g[m] = f[m]
      BY <1>1, <1>2, <1>3, <3>1, <3>2
    <3> QED BY <2>1, <3>3
  <2> QED BY <2>2, <2>3
<1>5. g[n] = f[n]
  <2>1. n \in 0 .. n
    BY <1>1
  <2> HIDE DEF n
  <2> QED BY <1>4, <2>1
<1>6. g[n + 1] = MatchFill(g[n], t[n + 1])
  <2>1. n + 1 \in 1 .. Len(t) /\ (n + 1) - 1 = n
    BY <1>1
  <2> QED BY <1>3, <2>1
<1> QED BY <1>1, <1>2, <1>3, <1>5, <1>6 DEF t

\* The fills evaluate uses, of the first n rows, move what those moved.
Counted(n, usable) ==
    /\ Kept(n, usable)
    /\ Bought(MatchRoundTrips(usable)) - SumOver(Sells(usable), DOMAIN usable)
         = SumOver(Moves(orders, decisions), 1 .. n)

\* A row moves what evaluate reads in it.
ReadRight(i) ==
    /\ FillOf(i).status \in {"filled", "canceled"}
    /\ FillOf(i).status = "filled" =>
            Moves(orders, decisions)[i] = SignedQty(FillOf(i).action, FillOf(i).qty)
    /\ FillOf(i).status = "canceled" => Moves(orders, decisions)[i] = 0

LEMMA FillIsTyped ==
    ASSUME decisions \in Seq(Rows), NEW i \in DOMAIN decisions
    PROVE  FillOf(i) \in Fills /\ FillOf(i).row = i
<1>1. decisions[i] \in Rows /\ i \in Nat \ {0}
  OBVIOUS
<1> QED BY <1>1 DEF FillOf, Fills, Rows

\* What the sells of some fills add up to.
LEMMA SellsInt ==
    ASSUME NEW s \in Seq(Fills)
    PROVE  SumOver(Sells(s), DOMAIN s) \in Int
<1>1. DOMAIN s = 1 .. Len(s) /\ Len(s) \in Nat /\ \A k \in DOMAIN s : s[k] \in Fills
  OBVIOUS
<1>2. \A k \in DOMAIN s : Sells(s)[k] \in Int
  BY <1>1 DEF Sells, Fills
<1>3. IsFiniteSet(DOMAIN s)
  BY <1>1, PlacesAreFinite
<1> QED BY <1>2, <1>3, SumInt

\* And of one more.
LEMMA SellsAppend ==
    ASSUME NEW s \in Seq(Fills), NEW x \in Fills, NEW t, t = Append(s, x)
    PROVE  /\ SumOver(Sells(s), DOMAIN s) \in Int
           /\ SumOver(Sells(t), DOMAIN t) = SumOver(Sells(s), DOMAIN s) + Side(x, "sell")
<1> DEFINE n == Len(s)
           m == n + 1
           w == Sells(s)
           v == Sells(t)
<1>1. /\ t \in Seq(Fills) /\ n \in Nat
      /\ DOMAIN s = 1 .. n /\ DOMAIN t = 1 .. m
      /\ \A k \in 1 .. n : t[k] = s[k]
      /\ t[m] = x
  BY Appended
<1>2. m \in 1 .. m /\ m = n + 1 /\ \A k \in 1 .. n : k \in 1 .. m
  BY <1>1
<1>3. \A k \in 1 .. n : s[k] \in Fills
  BY <1>1
<1>4. \A y \in Fills : Side(y, "sell") \in Int
  BY DEF Side, Fills
<1>5. (\A k \in 1 .. n : w[k] = Side(s[k], "sell")) /\ (\A k \in 1 .. m : v[k] = Side(t[k], "sell"))
  BY <1>1 DEF Sells, Side
<1> HIDE DEF n, m, w, v
<1>6. v[m] = Side(x, "sell")
  BY <1>1, <1>2, <1>5
<1>7. \A k \in 1 .. n : w[k] \in Int /\ v[k] = w[k]
  BY <1>1, <1>2, <1>3, <1>4, <1>5
<1>8. v[m] \in Int
  BY <1>4, <1>6
<1>9. Longer(w, n, v, m)
  BY <1>1, <1>2, <1>7, <1>8 DEF Longer
<1>10. SumOver(w, 1 .. n) \in Int /\ SumOver(v, 1 .. m) = SumOver(w, 1 .. n) + v[m]
  BY <1>9, SumGrows
<1> QED BY <1>1, <1>6, <1>10 DEF w, v

LEMMA CountsOn ==
    ASSUME decisions \in Seq(Rows), NEW n \in Nat, NEW m \in DOMAIN decisions, m = n + 1,
           \A i \in DOMAIN decisions : Moves(orders, decisions)[i] \in Int,
           ReadRight(m),
           NEW usable, Counted(n, usable), NEW more, more = AddUsable(usable, FillOf(m))
    PROVE  Counted(m, more)
<1> DEFINE w == Moves(orders, decisions)
           fill == FillOf(m)
           b == MatchRoundTrips(usable)
           sold == SumOver(Sells(usable), DOMAIN usable)
<1>1. fill \in Fills /\ fill.row = n + 1
  BY FillIsTyped
<1>2. Kept(n, usable) /\ Bought(b) - sold = SumOver(w, 1 .. n)
  BY DEF Counted
<1>3. Kept(m, more)
  BY <1>1, <1>2, KeepGoesOn
<1>4. Longer(w, n, w, m)
  <2>1. DOMAIN decisions = 1 .. Len(decisions) /\ Len(decisions) \in Nat
    OBVIOUS
  <2>2. \A k \in 1 .. n : k \in DOMAIN decisions
    BY <2>1
  <2> HIDE DEF w
  <2>3. \A k \in 1 .. n : w[k] \in Int
    BY <2>2 DEF w
  <2>4. w[m] \in Int
    BY DEF w
  <2> QED BY <2>3, <2>4 DEF Longer
<1>5. SumOver(w, 1 .. n) \in Int /\ SumOver(w, 1 .. m) = SumOver(w, 1 .. n) + w[m]
  BY <1>4, SumGrows
<1>6. FillsOK(usable) /\ usable \in Seq(Fills)
  BY <1>2 DEF Kept, FillsOK
<1>7. b \in Books
  BY <1>6, ReportIsRight DEF Reported, InOrder
<1>8. Bought(MatchRoundTrips(more)) - SumOver(Sells(more), DOMAIN more) = SumOver(w, 1 .. m)
  <2>1. CASE fill.status = "filled"
    <3>1. more = Append(usable, fill)
      BY <2>1 DEF AddUsable
    <3>2. MatchRoundTrips(more) = MatchFill(b, fill)
      BY <1>1, <1>6, <3>1, ReportAppends
    <3>3. w[m] = SignedQty(fill.action, fill.qty)
      BY <2>1 DEF ReadRight
    <3>4. fill.qty \in Nat /\ fill.action \in {"buy", "sell"}
      BY <1>1 DEF Fills
    <3>5. sold \in Int /\ SumOver(Sells(more), DOMAIN more) = sold + Side(fill, "sell")
      BY <1>1, <1>6, <3>1, SellsAppend
    <3>6. Bought(b) \in Int
      BY <1>7, BoughtInt DEF Bought
    <3> HIDE DEF w, fill, b, sold
    <3>7. Bought(MatchFill(b, fill)) = Bought(b) + Side(fill, "buy")
      BY <1>1, <1>7, FillBought
    <3>8. CASE fill.action = "buy"
      <4>1. Side(fill, "buy") = fill.qty /\ Side(fill, "sell") = 0 /\ w[m] = fill.qty
        BY <3>3, <3>8 DEF Side, SignedQty
      <4> QED BY <1>2, <1>5, <3>2, <3>4, <3>5, <3>6, <3>7, <4>1
    <3>9. CASE fill.action = "sell"
      <4>1. Side(fill, "buy") = 0 /\ Side(fill, "sell") = fill.qty /\ w[m] = -fill.qty
        BY <3>3, <3>9 DEF Side, SignedQty
      <4> QED BY <1>2, <1>5, <3>2, <3>4, <3>5, <3>6, <3>7, <4>1
    <3> QED BY <3>4, <3>8, <3>9
  <2>2. CASE fill.status = "canceled"
    <3>1. more = usable
      BY <2>2 DEF AddUsable
    <3>2. w[m] = 0
      BY <2>2 DEF ReadRight
    <3> HIDE DEF w, fill
    <3> QED BY <1>2, <1>5, <3>1, <3>2 DEF b, sold
  <2> QED BY <2>1, <2>2 DEF ReadRight
<1> QED BY <1>3, <1>8 DEF Counted

\* The whole table, when every row can be read right.
LEMMA ReportCounts ==
    ASSUME TypeOK, Tables(orders, decisions), \A i \in DOMAIN decisions : ReadRight(i)
    PROVE  OpenAtEnd(Usable) - Skipped(Usable)
             = SumOver(Moves(orders, decisions), DOMAIN decisions)
<1> DEFINE all == [i \in DOMAIN decisions |-> FillOf(i)]
           n == Len(decisions)
<1>0. decisions \in Seq(Rows) /\ DOMAIN decisions = 1 .. n /\ n \in Nat
  BY DEF TypeOK
<1>1. DOMAIN all = 1 .. n /\ Len(all) = n /\ \A i \in 1 .. n : all[i] = FillOf(i)
  <2>1. DOMAIN all = 1 .. n
    BY <1>0
  <2> QED BY <1>0, <2>1
<1>2. PICK f : Loops("keep", <<>>, all, f)
  <2> HIDE DEF all, n
  <2> QED BY <1>0, <1>1, FoldIsLoop
<1>3. /\ f[0] = <<>>
      /\ \A m \in 1 .. n : f[m] = AddUsable(f[m - 1], FillOf(m))
      /\ Usable = f[n]
  BY <1>1, <1>2 DEF Loops, Applied, Folds, Usable
<1>4. Counted(0, <<>>)
  <2>1. <<>> \in Seq(Fills) /\ DOMAIN <<>> = {} /\ Len(<<>>) = 0
    OBVIOUS
  <2>2. Kept(0, <<>>)
    BY <2>1 DEF Kept, FillsOK
  <2>3. MatchRoundTrips(<<>>) = [lots |-> <<>>, trips |-> <<>>, sell |-> 0, remaining |-> 0]
    BY <2>1, ReportLoops
  <2>4. DOMAIN MatchRoundTrips(<<>>).lots = {} /\ DOMAIN MatchRoundTrips(<<>>).trips = {}
    BY <2>1, <2>3
  <2>5. Open(MatchRoundTrips(<<>>)) = 0 /\ Traded(MatchRoundTrips(<<>>)) = 0
    BY <2>4, SumOfNone DEF Open, Traded
  <2>6. SumOver(Sells(<<>>), DOMAIN <<>>) = 0
    BY <2>1, SumOfNone
  <2>7. 1 .. 0 = {}
    OBVIOUS
  <2>8. SumOver(Moves(orders, decisions), 1 .. 0) = 0
    BY <2>7, SumOfNone
  <2>9. Bought(MatchRoundTrips(<<>>)) = 0
    BY <2>5 DEF Bought
  <2>10. Bought(MatchRoundTrips(<<>>)) - SumOver(Sells(<<>>), DOMAIN <<>>) = 0
    BY <2>6, <2>9
  <2> QED BY <2>2, <2>8, <2>10 DEF Counted
<1>5. \A i \in DOMAIN decisions : Moves(orders, decisions)[i] \in Int
  BY WeightsInt
<1> DEFINE Bad == {m \in 0 .. n : ~Counted(m, f[m])}
<1> HIDE DEF all, n
<1>6. Bad = {}
  <2> SUFFICES ASSUME Bad # {} PROVE FALSE
    OBVIOUS
  <2>1. PICK m \in Bad : \A k \in Bad : m <= k
    <3>1. Bad \subseteq Nat
      OBVIOUS
    <3> HIDE DEF Bad
    <3> QED BY <3>1, SmallestNat
  <2>2. CASE m = 0
    BY <1>3, <1>4, <2>1, <2>2
  <2>3. CASE m # 0
    <3> DEFINE l == m - 1
    <3>1. /\ m \in 1 .. n /\ m \in 0 .. n /\ l \in 0 .. n /\ l \in Nat
          /\ ~(m <= l) /\ m = l + 1
      BY <1>0, <2>1, <2>3
    <3>2. f[m] = AddUsable(f[l], FillOf(m))
      BY <1>3, <3>1
    <3> HIDE DEF l
    <3>3. Counted(l, f[l])
      BY <2>1, <3>1
    <3>4. m \in DOMAIN decisions
      BY <1>0, <3>1
    <3>5. Counted(m, f[m])
      BY <1>0, <1>5, <3>1, <3>2, <3>3, <3>4, CountsOn
    <3> QED BY <2>1, <3>5
  <2> QED BY <2>2, <2>3
<1>7. Counted(n, Usable)
  <2>1. n \in 0 .. n
    BY <1>0
  <2> QED BY <1>3, <1>6, <2>1
<1> DEFINE book == MatchRoundTrips(Usable)
<1>8. FillsOK(Usable)
  BY <1>7 DEF Counted, Kept
<1>9. book \in Books
  BY <1>8, ReportIsRight DEF Reported, InOrder
<1>10. Open(book) \in Int /\ Traded(book) \in Int
  BY <1>9, BoughtInt
<1>11. OpenAtEnd(Usable) = Open(book)
  BY SumOfAll DEF OpenAtEnd, Open, QtyOf
<1>12. Skipped(Usable) = SumOver(Sells(Usable), DOMAIN Usable) - Traded(book)
  BY SumOfAll DEF Skipped, Traded, Sells, QtyOf
<1>13. SumOver(Sells(Usable), DOMAIN Usable) \in Int
  BY <1>8, SellsInt DEF FillsOK
<1>14. Open(book) + Traded(book) - SumOver(Sells(Usable), DOMAIN Usable)
         = SumOver(Moves(orders, decisions), 1 .. n)
  <2>1. Bought(book) - SumOver(Sells(Usable), DOMAIN Usable)
          = SumOver(Moves(orders, decisions), 1 .. n)
    BY <1>7 DEF Counted
  <2>2. Bought(book) = Open(book) + Traded(book)
    BY DEF Bought
  <2> HIDE DEF book
  <2> QED BY <2>1, <2>2, <1>10, <1>13
<1> HIDE DEF book
<1>15. OpenAtEnd(Usable) - Skipped(Usable)
         = Open(book) + Traded(book) - SumOver(Sells(Usable), DOMAIN Usable)
  BY <1>10, <1>11, <1>12, <1>13
<1> QED BY <1>0, <1>14, <1>15

\* Read back whole, what each order has booked is what it left in the account.
LEMMA BookedIsPosition ==
    ASSUME RInv, SInv(orders, decisions), Settled, WholeFills
    PROVE  SumOver(Booked(orders, decisions), DOMAIN orders) = Position
<1> DEFINE w == [n \in DOMAIN orders |-> Signed(n)]
<1>1. (\A n \in DOMAIN orders : orders[n] \in Orders) /\ IsFiniteSet(DOMAIN orders)
  BY TheirTables, TablesTyped
<1>2. \A n \in DOMAIN orders : \A l \in LegNames :
        Taken(orders, decisions, n, l) = Back(orders[n], l)
  <2> SUFFICES ASSUME NEW n \in DOMAIN orders, NEW l \in LegNames
               PROVE  Taken(orders, decisions, n, l) = Back(orders[n], l)
    OBVIOUS
  <2>1. CASE orders[n].legs[l].status = "filled"
    <3>1. Id(n, l) \in FilledLegs
      BY <2>1 DEF FilledLegs
    <3>2. \E i \in DOMAIN decisions : decisions[i].id = Id(n, l)
      BY <3>1 DEF Settled, Recorded
    <3> QED BY <3>2 DEF Taken
  <2>2. CASE orders[n].legs[l].status # "filled"
    <3>1. orders[n].legs[l].filled = 0
      BY <2>2 DEF WholeFills
    <3>2. orders[n].action \in {"buy", "sell"} /\ orders[n].legs[l].filled \in Nat
      BY <1>1, OrderTyped
    <3>3. Back(orders[n], l) = 0
      BY <3>1, <3>2, SignedNone DEF Back
    <3> QED BY <3>3 DEF Taken
  <2> QED BY <2>1, <2>2
<1>3. \A n \in DOMAIN orders : w[n] = Booked(orders, decisions)[n]
  <2> SUFFICES ASSUME NEW n \in DOMAIN orders
               PROVE  Signed(n) = Booked(orders, decisions)[n]
    OBVIOUS
  <2> DEFINE o == orders[n]
             a == o.legs["stop"].filled
             b == o.legs["take_profit"].filled
  <2>1. Booked(orders, decisions)[n] = Basis(o) - Back(o, "stop") - Back(o, "take_profit")
    BY <1>2 DEF Booked, LegNames
  <2>2. /\ o.filled \in Nat /\ o.action \in {"buy", "sell"}
        /\ \A l \in LegNames : o.legs[l].filled \in Nat
    BY <1>1, OrderTyped
  <2>3. Shares(o.legs) = a + b
    BY <2>2, SharesAreBoth
  <2>4. a \in Nat /\ b \in Nat
    BY <2>2 DEF LegNames
  <2>5. Signed(n) = SignedQty(o.action, o.filled - (a + b))
    BY <2>3 DEF Signed
  <2>6. Basis(o) = SignedQty(o.action, o.filled)
    BY DEF Basis
  <2>7. Back(o, "stop") = SignedQty(o.action, a) /\ Back(o, "take_profit") = SignedQty(o.action, b)
    BY DEF Back
  <2> HIDE DEF o, a, b
  <2>8. CASE o.action = "buy"
    BY <2>1, <2>2, <2>4, <2>5, <2>6, <2>7, <2>8 DEF SignedQty
  <2>9. CASE o.action = "sell"
    <3>1. Booked(orders, decisions)[n] = -o.filled - (-a) - (-b)
      BY <2>1, <2>6, <2>7, <2>9 DEF SignedQty
    <3>2. Signed(n) = -(o.filled - (a + b))
      BY <2>5, <2>9 DEF SignedQty
    <3> QED BY <2>2, <2>4, <3>1, <3>2
  <2> QED BY <2>2, <2>8, <2>9
<1>4. Position = SumOver(w, DOMAIN orders)
  <2>1. DOMAIN w = DOMAIN orders
    OBVIOUS
  <2>2. Position = SumFunction(w)
    BY DEF Position
  <2> HIDE DEF w
  <2> QED BY <2>1, <2>2, SumOfAll
<1> HIDE DEF w
<1>5. SumOver(w, DOMAIN orders) = SumOver(Booked(orders, decisions), DOMAIN orders)
  BY <1>1, <1>3, SumSame
<1> QED BY <1>4, <1>5

\* Read back whole, every row says what its order or exit has moved.
LEMMA RowsReadRight ==
    ASSUME RInv, SInv(orders, decisions), Settled, WholeFills, NEW i \in DOMAIN decisions
    PROVE  ReadRight(i)
<1> DEFINE row == decisions[i]
           n == row.id.order
           l == row.id.part
<1>1. /\ row \in Rows /\ n \in DOMAIN orders /\ l \in LegNames \cup {"parent"}
      /\ orders[n] \in Orders /\ SoundOrder(orders[n])
  BY TheirTables, TablesTyped, ElementOfSeq, LenProperties DEF SInv, RInv, TypeOK
<1>2. row.status # "null"
  BY DEF Settled, NullRows
<1>3. /\ row.status \in {"filled", "canceled"}
      /\ row.status = ReadOrder(row.id).status
      /\ row.filled = ReadOrder(row.id).filled
      /\ row.filled \in Nat /\ row.qty \in Nat /\ row.action \in {"buy", "sell"}
  BY <1>1, <1>2 DEF Rows, RInv, RecordedIsFinal
<1>4. /\ FillOf(i).status = row.status
      /\ FillOf(i).action = row.action
      /\ FillOf(i).qty = IF row.filled > 0 THEN row.filled ELSE row.qty
  BY DEF FillOf
<1>5. Moves(orders, decisions)[i] = Moved(orders, row.id)
  BY DEF Moves
<1>6. RightSide(orders, decisions, i)
  BY DEF SInv, Matching
<1>7. CASE l = "parent"
  <2>1. /\ row.status = orders[n].status
        /\ row.filled = orders[n].filled
        /\ row.action = orders[n].action
    BY <1>3, <1>6, <1>7 DEF ReadOrder, RightSide
  <2>2. Moved(orders, row.id) = SignedQty(row.action, row.filled)
    BY <1>7, <2>1 DEF Moved, Basis
  <2>3. CASE row.status = "filled"
    <3>1. row.filled > 0
      BY <1>1, <2>1, <2>3 DEF SoundOrder
    <3>2. FillOf(i).qty = row.filled
      BY <1>4, <3>1
    <3> QED BY <1>4, <1>5, <2>2, <2>3, <3>2 DEF ReadRight
  <2>4. CASE row.status = "canceled"
    <3>1. orders[n].filled = 0
      BY <1>1, <2>1, <2>4 DEF WholeFills
    <3>2. ~(row.filled > 0)
      BY <2>1, <3>1
    <3>3. SignedQty(row.action, row.filled) = 0
      BY <1>3, <3>2, SignedNone
    <3> QED BY <1>4, <1>5, <2>2, <2>4, <3>3 DEF ReadRight
  <2> QED BY <1>3, <2>3, <2>4
<1>8. CASE l # "parent"
  <2>1. l \in LegNames /\ orders[n].legs[l].status = "filled"
    BY <1>1, <1>8 DEF RInv, RowsExist
  <2>2. row.status = "filled" /\ row.filled = orders[n].legs[l].filled /\ row.filled > 0
    BY <1>1, <1>3, <1>8, <2>1 DEF ReadOrder, SoundOrder
  <2>3. row.action = ExitAction(orders[n].action)
    BY <1>6, <1>8 DEF RightSide
  <2>4. Moved(orders, row.id) = -SignedQty(orders[n].action, row.filled)
    BY <1>8, <2>2 DEF Moved, Back
  <2>5. FillOf(i).qty = row.filled
    BY <1>4, <2>2
  <2>6. orders[n].action \in {"buy", "sell"}
    BY <1>1, OrderTyped
  <2>7. -SignedQty(orders[n].action, row.filled) = SignedQty(row.action, row.filled)
    <3>1. CASE orders[n].action = "buy"
      BY <2>3, <3>1 DEF SignedQty, ExitAction
    <3>2. CASE orders[n].action = "sell"
      <4>1. row.action = "buy"
        BY <2>3, <3>2 DEF ExitAction
      <4>2. SignedQty(row.action, row.filled) = row.filled
        BY <4>1 DEF SignedQty
      <4>3. SignedQty(orders[n].action, row.filled) = -row.filled
        BY <3>2 DEF SignedQty
      <4>4. \A a \in Nat : -(-a) = a
        OBVIOUS
      <4> QED BY <1>3, <4>2, <4>3, <4>4
    <3> QED BY <2>6, <3>1, <3>2
  <2> QED BY <1>4, <1>5, <2>2, <2>4, <2>5, <2>7 DEF ReadRight
<1> QED BY <1>7, <1>8

LEMMA InventoryRight ==
    ASSUME RInv, SInv(orders, decisions)
    PROVE  ReportedInventory
<1> SUFFICES ASSUME Settled, WholeFills
             PROVE  OpenAtEnd(Usable) - Skipped(Usable) = Position
  BY DEF ReportedInventory
<1>1. \A i \in DOMAIN decisions : ReadRight(i)
  BY RowsReadRight
<1>2. OpenAtEnd(Usable) - Skipped(Usable)
        = SumOver(Moves(orders, decisions), DOMAIN decisions)
  BY <1>1, TheirTables, ReportCounts DEF RInv
<1>3. SumOver(Moves(orders, decisions), DOMAIN decisions)
        = SumOver(Booked(orders, decisions), DOMAIN orders)
  BY DEF SInv
<1> QED BY <1>2, <1>3, BookedIsPosition

\* With one reconciler at a time, long or short, however much is traded,
\* canceled, missed or lost to a crash on the way: once everything is read back
\* and no fill was partial, the shares evaluate reports open are those the
\* broker holds, but for the shares of sells it found no buy for and skipped.
THEOREM InventoryIsReported ==
    ASSUME \A r, s \in Reconcilers : r = s
    PROVE  Spec => []ReportedInventory
<1>1. RInv /\ SInv(orders, decisions) => ReportedInventory
  BY InventoryRight
<1>2. Spec => []RInv
  BY ReconcileInvariant
<1>3. Spec => []SInv(orders, decisions)
  BY MovesInvariant
<1> QED BY <1>1, <1>2, <1>3, PTL
=============================================================================
