--------------------------- MODULE ToolLoopProofs ---------------------------
(***************************************************************************)
(* What ToolLoop promises, for every set of names, every bound and every   *)
(* length of a result.                                                     *)
(***************************************************************************)
EXTENDS ToolLoop, TLAPS

\* No position, and none that its working order could make it, is past the bound.
NetOK == \A s \in Symbols : Net(s) \in Shares

TypeInv == TypeOK /\ NetOK

\* Sign rules, which the provers do not know of products.
LEMMA Signs ==
    \A m, n \in Int : m * n >= 0 => (m >= 0 /\ n >= 0) \/ (m <= 0 /\ n <= 0)
  BY SMT

LEMMA SharesAreInts == Shares \subseteq Int /\ 0 \in Shares
  BY ToolAssumption DEF Shares

LEMMA FlatIsBook == Flat \in Books
  BY SharesAreInts DEF Flat, Books

LEMMA NoOrderType == NoOrder \in [symbol : Symbols, qty : Shares, prior : Shares, before : Shares]
<1>1. (CHOOSE s \in Symbols : TRUE) \in Symbols
  BY ToolAssumption
<1> QED BY <1>1, SharesAreInts DEF NoOrder

\* What is rendered of a book is a book.
LEMMA RenderedType ==
    ASSUME NEW book \in Books, Rendered(book)
    PROVE  shown' \in Books
  BY SharesAreInts DEF Rendered, Books

\* A result is counted, and one block less is left to answer.
LEMMA ReplyType ==
    ASSUME TypeOK, NEW length \in Nat, Reply(length), pc \in {"answering", "sent"}
    PROVE  /\ chars' \in Nat /\ notes' \in Nat
           /\ blocks' \in 0 .. MaxBlocks
           /\ pc' \in {"asking", "answering"}
           /\ pc' = "answering" => blocks' > 0
  BY ToolAssumption DEF TypeOK, Reply, Fits, Truncated, LastBlock

\* What the broker accepts, it could fill: either way the position stays in bounds.
LEMMA AcceptedType ==
    ASSUME TypeInv, NEW s \in Symbols, NEW qty \in Shares, BrokerAccepts(s, qty)
    PROVE  /\ working[s] + qty \in Shares
           /\ Net(s) + qty \in Shares
           /\ [working EXCEPT ![s] = @ + qty] \in Books
<1> DEFINE w == working[s]
           h == held[s]
<1>1. w \in Int /\ h \in Int /\ qty \in Int /\ w \in Shares /\ h \in Shares /\ MaxPosition \in Nat
  BY ToolAssumption DEF TypeInv, TypeOK, Books, Shares
<1>2. w * qty >= 0 /\ (h * qty >= 0 \/ Abs(w + qty) <= Abs(h)) /\ h + w + qty \in Shares
  BY DEF BrokerAccepts, Net
<1>3. (w >= 0 /\ qty >= 0) \/ (w <= 0 /\ qty <= 0)
  BY <1>1, <1>2, Signs
<1>4. w + qty \in Shares
  <2> HIDE DEF w, h
  <2>1. CASE h * qty >= 0
    <3>1. (h >= 0 /\ qty >= 0) \/ (h <= 0 /\ qty <= 0)
      BY <1>1, <2>1, Signs
    <3> QED BY <1>1, <1>2, <1>3, <3>1 DEF Shares
  <2>2. CASE Abs(w + qty) <= Abs(h)
    BY <1>1, <2>2 DEF Shares, Abs
  <2> QED BY <1>2, <2>1, <2>2
<1>5. Net(s) + qty \in Shares
  BY DEF BrokerAccepts
<1>6. [working EXCEPT ![s] = @ + qty] \in Books
  <2> HIDE DEF w
  <2>1. [working EXCEPT ![s] = w + qty] \in Books
    BY <1>4 DEF TypeInv, TypeOK, Books
  <2> QED BY <2>1 DEF w
<1> QED BY <1>4, <1>5, <1>6

-----------------------------------------------------------------------------
(* Types: the broker.                                                      *)

LEMMA FillType ==
    ASSUME TypeInv, NEW s \in Symbols, Fill(s)
    PROVE  held' \in Books /\ working' \in Books /\ NetOK'
<1> DEFINE one == IF working[s] > 0 THEN 1 ELSE -1
<1>1. /\ working[s] \in Int /\ held[s] \in Int /\ working[s] # 0 /\ one \in Int
      /\ working[s] \in Shares /\ held[s] \in Shares /\ held[s] + working[s] \in Shares
  <2>1. working[s] \in Shares /\ held[s] \in Shares /\ held[s] + working[s] \in Shares
    BY DEF TypeInv, TypeOK, Books, NetOK, Net
  <2>2. working[s] # 0
    BY DEF Fill
  <2>3. one \in Int
    OBVIOUS
  <2>4. working[s] \in Int /\ held[s] \in Int
    BY <2>1, SharesAreInts
  <2> QED BY <2>1, <2>2, <2>3, <2>4
<1>2. held[s] + one \in Shares /\ working[s] - one \in Shares
  BY <1>1, ToolAssumption DEF Shares
<1>3. (held[s] + one) + (working[s] - one) = held[s] + working[s]
  BY <1>1
<1>4. /\ held' = [held EXCEPT ![s] = held[s] + one]
      /\ working' = [working EXCEPT ![s] = working[s] - one]
  BY DEF Fill
<1> HIDE DEF one
<1>5. held' \in Books /\ working' \in Books
  BY <1>2, <1>4 DEF TypeInv, TypeOK, Books
<1>6. \A y \in Symbols : held'[y] + working'[y] = held[y] + working[y]
  BY <1>3, <1>4 DEF TypeInv, TypeOK, Books
<1> QED BY <1>5, <1>6 DEF TypeInv, NetOK, Net

LEMMA ExitType ==
    ASSUME TypeInv, NEW s \in Symbols, ExitFires(s)
    PROVE  held' \in Books /\ NetOK' /\ held[s] # 0 /\ Net(s) # 0
<1>1. /\ working[s] \in Int /\ held[s] \in Int
      /\ working[s] \in Shares /\ held[s] \in Shares /\ held[s] + working[s] \in Shares
  BY SharesAreInts DEF TypeInv, TypeOK, Books, NetOK, Net
<1>2. PICK left \in Shares : /\ Abs(left) < Abs(held[s])
                             /\ left * held[s] >= 0
                             /\ held' = [held EXCEPT ![s] = left]
  BY DEF ExitFires
<1>3. /\ (held[s] >= 0 /\ working[s] >= 0) \/ (held[s] <= 0 /\ working[s] <= 0)
      /\ (left >= 0 /\ held[s] >= 0) \/ (left <= 0 /\ held[s] <= 0)
  BY <1>1, <1>2, Signs, SharesAreInts DEF ExitFires
<1>4. left + working[s] \in Shares /\ held[s] # 0 /\ held[s] + working[s] # 0
  BY <1>1, <1>2, <1>3, ToolAssumption DEF Abs, Shares
<1>5. held' \in Books
  BY <1>2 DEF TypeInv, TypeOK, Books
<1>6. \A y \in Symbols : held'[y] + working[y] \in Shares
  BY <1>2, <1>4 DEF TypeInv, TypeOK, Books, NetOK, Net
<1>7. working' = working
  BY DEF ExitFires
<1> QED BY <1>4, <1>5, <1>6, <1>7 DEF NetOK, Net

LEMMA ExpireType ==
    ASSUME TypeInv, NEW s \in Symbols, Expire(s)
    PROVE  working' \in Books /\ NetOK'
<1>1. working' = [working EXCEPT ![s] = 0] /\ held' = held
  BY DEF Expire
<1>2. working' \in Books
  BY <1>1, SharesAreInts DEF TypeInv, TypeOK, Books
<1>3. held[s] \in Shares /\ held[s] + 0 = held[s] /\ working'[s] = 0
  <2>1. held[s] \in Shares /\ working'[s] = 0
    BY <1>1 DEF TypeInv, TypeOK, Books
  <2>2. held[s] \in Int
    BY <2>1, SharesAreInts
  <2> QED BY <2>1, <2>2
<1>4. \A y \in Symbols \ {s} : working'[y] = working[y]
  BY <1>1 DEF TypeInv, TypeOK, Books
<1> QED BY <1>1, <1>2, <1>3, <1>4 DEF TypeInv, NetOK, Net

LEMMA BrokerKeepsTypes == TypeInv /\ Broker => TypeInv'
<1> SUFFICES ASSUME TypeInv, NEW s \in Symbols, Fill(s) \/ ExitFires(s) \/ Expire(s)
             PROVE  TypeInv'
  BY DEF Broker
<1>1. CASE Fill(s)
  BY <1>1, FillType DEF TypeInv, TypeOK, Fill, snapshots, talk
<1>2. CASE ExitFires(s)
  BY <1>2, ExitType DEF TypeInv, TypeOK, ExitFires, snapshots, talk
<1>3. CASE Expire(s)
  BY <1>3, ExpireType DEF TypeInv, TypeOK, Expire, snapshots, talk
<1> QED BY <1>1, <1>2, <1>3

-----------------------------------------------------------------------------
(* Types: the cycle.                                                       *)

LEMMA CycleKeepsTypes ==
    ASSUME TypeInv,
           ReadContext \/ ReadFails \/ RecordAccount \/ RecordPositions \/ Sweep \/ Skip
             \/ NoHeadroom \/ Begin \/ Ask \/ Conclude \/ AskFails \/ Malformed \/ Crash \/ Tick
    PROVE  TypeInv'
<1> USE DEF TypeInv, TypeOK, market, snapshots, talk, Pcs, Outcomes
<1>0. market' = market => NetOK'
  BY DEF NetOK, Net
<1>1. CASE ReadContext
  <2>1. held \in Books /\ Rendered(held)
    BY <1>1 DEF ReadContext
  <2>2. shown' \in Books
    BY <2>1, RenderedType
  <2> QED BY <1>0, <1>1, <2>2 DEF ReadContext
<1>2. CASE ReadFails
  BY <1>0, <1>2, ToolAssumption DEF ReadFails, Finish, EmptyTalk
<1>3. CASE RecordAccount
  BY <1>0, <1>3 DEF RecordAccount
<1>4. CASE RecordPositions
  BY <1>0, <1>4 DEF RecordPositions
<1>5. CASE Sweep
  <2>1. thesis' \in [Symbols -> {NoThesis} \cup 0 .. Grace]
    BY <1>5 DEF Sweep
  <2>2. excused' \subseteq Symbols
    BY <1>5 DEF Sweep
  <2> QED BY <1>0, <1>5, <2>1, <2>2 DEF Sweep
<1>6. CASE Skip \/ NoHeadroom
  BY <1>0, <1>6, ToolAssumption DEF Skip, NoHeadroom, Finish, EmptyTalk
<1>7. CASE Begin
  BY <1>0, <1>7, ToolAssumption DEF Begin, EmptyTalk
<1>8. CASE Ask
  BY <1>0, <1>8, ToolAssumption DEF Ask
<1>9. CASE Conclude \/ AskFails \/ Malformed
  BY <1>0, <1>9, ToolAssumption DEF Conclude, AskFails, Malformed, Finish, EmptyTalk
<1>10. CASE Crash
  BY <1>0, <1>10, NoOrderType, ToolAssumption DEF Crash, EmptyTalk
<1>11. CASE Tick
  <2>1. thesis' \in [Symbols -> {NoThesis} \cup 0 .. Grace]
    BY <1>11, ToolAssumption DEF Tick, NoThesis
  <2> QED BY <1>0, <1>11, <2>1 DEF Tick
<1> QED BY <1>1, <1>2, <1>3, <1>4, <1>5, <1>6, <1>7, <1>8, <1>9, <1>10, <1>11

LEMMA OrdersKeepTypes ==
    ASSUME TypeInv, Read \/ PlaceOrder
    PROVE  TypeInv'
<1> USE DEF TypeInv, TypeOK, market, snapshots, Pcs
<1>0. market' = market => NetOK'
  BY DEF NetOK, Net
<1>1. CASE Read
  <2>1. PICK length \in ReadLengths \cup {ErrorLength} : Reply(length)
    BY <1>1 DEF Read
  <2>2. length \in Nat /\ pc = "answering"
    BY <1>1, ToolAssumption DEF Read
  <2> QED BY <1>0, <1>1, <2>1, <2>2, ReplyType DEF Read
<1>2. CASE CapReached
  BY <1>0, <1>2, ReplyType, ToolAssumption DEF CapReached
<1>3. CASE OrderFails
  BY <1>0, <1>3, ReplyType, ToolAssumption DEF OrderFails
<1>4. CASE OrderRejected
  BY <1>0, <1>4, ReplyType, ToolAssumption DEF OrderRejected
<1>5. ASSUME NEW s \in Symbols, NEW qty \in Shares, OrderExecuted(s, qty) \/ ReplyLost(s, qty)
      PROVE  working' \in Books /\ NetOK' /\ held' = held
  <2>1. /\ working' = [working EXCEPT ![s] = @ + qty] /\ held' = held
        /\ BrokerAccepts(s, qty)
    BY <1>5 DEF OrderExecuted, ReplyLost
  <2>2. working' \in Books /\ Net(s) + qty \in Shares
    BY <2>1, AcceptedType
  <2>3. \A y \in Symbols : held[y] + working'[y] \in Shares
    <3>1. held[s] \in Int /\ working[s] \in Int /\ qty \in Int
      BY SharesAreInts DEF Books
    <3>2. working'[s] = working[s] + qty
      BY <2>1 DEF Books
    <3>3. held[s] + working'[s] \in Shares
      BY <2>2, <3>1, <3>2 DEF Net
    <3>4. \A y \in Symbols \ {s} : working'[y] = working[y]
      BY <2>1 DEF Books
    <3> QED BY <3>3, <3>4 DEF NetOK, Net
  <2> QED BY <2>1, <2>2, <2>3 DEF NetOK, Net
<1>6. ASSUME NEW s \in Symbols, NEW qty \in Shares, OrderExecuted(s, qty)
      PROVE  TypeInv'
  <2>1. order' \in [symbol : Symbols, qty : Shares, prior : Shares, before : Shares]
    BY <1>6 DEF OrderExecuted, Books, NetOK
  <2>2. working' \in Books /\ NetOK' /\ held' = held
    BY <1>5, <1>6
  <2> QED BY <1>6, <2>1, <2>2 DEF OrderExecuted
<1>7. ASSUME NEW s \in Symbols, NEW qty \in Shares, ReplyLost(s, qty)
      PROVE  TypeInv'
  <2>1. working' \in Books /\ NetOK' /\ held' = held
    BY <1>5, <1>7
  <2>2. excused' \subseteq Symbols
    BY <1>7 DEF ReplyLost
  <2> QED BY <1>7, <2>1, <2>2, ReplyType, ToolAssumption DEF ReplyLost
<1>8. CASE Refresh
  <2>1. held \in Books /\ Rendered(held) /\ pc = "sent"
    BY <1>8 DEF Refresh
  <2>2. shown' \in Books
    BY <2>1, RenderedType
  <2>3. ThesisAfter(thesis[order.symbol]) \in {NoThesis} \cup 0 .. Grace
    BY ToolAssumption DEF ThesisAfter
  <2>4. thesis' \in [Symbols -> {NoThesis} \cup 0 .. Grace]
    BY <1>8, <2>3 DEF Refresh
  <2>5. excused' \subseteq Symbols
    BY <1>8 DEF Refresh
  <2> QED BY <1>0, <1>8, <2>1, <2>2, <2>4, <2>5, NoOrderType, ReplyType, ToolAssumption DEF Refresh
<1>9. CASE RefreshFails
  BY <1>0, <1>9, NoOrderType, ReplyType, ToolAssumption DEF RefreshFails
<1> QED BY <1>1, <1>2, <1>3, <1>4, <1>6, <1>7, <1>8, <1>9 DEF PlaceOrder

-----------------------------------------------------------------------------
(* The specification's steps, each of a group above.                       *)

LEMMA NextCases ==
    ASSUME [Next]_vars
    PROVE  \/ ReadContext \/ ReadFails \/ RecordAccount \/ RecordPositions \/ Sweep \/ Skip
                \/ NoHeadroom \/ Begin \/ Ask \/ Conclude \/ AskFails \/ Malformed \/ Crash \/ Tick
           \/ Read \/ PlaceOrder
           \/ Broker
           \/ UNCHANGED vars
  BY DEF Next, Proceed

LEMMA TypeInvStep == TypeInv /\ [Next]_vars => TypeInv'
<1> SUFFICES ASSUME TypeInv, [Next]_vars PROVE TypeInv'
  OBVIOUS
<1>1. CASE UNCHANGED vars
  BY <1>1 DEF vars, market, snapshots, talk, TypeInv, TypeOK, NetOK, Net
<1> QED BY <1>1, NextCases, CycleKeepsTypes, OrdersKeepTypes, BrokerKeepsTypes

LEMMA TypeInvInit == Init => TypeInv
<1> SUFFICES ASSUME Init PROVE TypeInv
  OBVIOUS
<1>1. held \in Books /\ working \in Books /\ accountOf \in Books /\ lots \in Books /\ shown \in Books
  BY FlatIsBook DEF Init
<1>2. NetOK
  BY SharesAreInts DEF Init, NetOK, Net, Flat
<1>3. thesis \in [Symbols -> {NoThesis} \cup 0 .. Grace] /\ excused \subseteq Symbols
  BY DEF Init
<1>4. current \in BOOLEAN /\ torn \in BOOLEAN
  BY DEF Init
<1>5. TypeOK
  BY <1>1, <1>3, <1>4, ToolAssumption, NoOrderType DEF Init, TypeOK, Pcs, Outcomes
<1> QED BY <1>2, <1>5 DEF TypeInv

LEMMA TypeInvHolds == Spec => []TypeInv
  BY TypeInvInit, TypeInvStep, PTL DEF Spec

\* Every variable keeps its shape, positions within the bound a name has.
THEOREM ToolLoopTypes == Spec => []TypeOK
<1>1. TypeInv => TypeOK
  BY DEF TypeInv
<1> QED BY <1>1, TypeInvHolds, PTL

-----------------------------------------------------------------------------
(* What the tools returned.                                                *)

LEMMA ReplyBounded ==
    ASSUME TypeOK, ToolOutputBounded, NEW length \in Nat, Reply(length)
    PROVE  ToolOutputBounded'
<1>1. CASE Fits(length)
  <2>1. Note * notes >= 0 /\ Note * notes \in Int
    BY ToolAssumption DEF TypeOK
  <2>2. chars' <= Ceiling /\ notes' = notes
    BY <1>1 DEF Reply, Fits
  <2>3. chars' \in Int
    BY <1>1, ToolAssumption DEF Reply, Truncated, TypeOK
  <2> QED BY <2>1, <2>2, <2>3, ToolAssumption DEF ToolOutputBounded
<1>2. CASE ~Fits(length)
  <2>1. Note * (notes + 1) = Note * notes + Note /\ Note * notes \in Int
    BY ToolAssumption DEF TypeOK
  <2>2. chars' = chars + Note /\ notes' = notes + 1
    BY <1>2 DEF Reply
  <2> QED BY <2>1, <2>2, ToolAssumption DEF ToolOutputBounded, TypeOK
<1> QED BY <1>1, <1>2

\* Only an answer to a tool call changes the count; the others start it afresh.
LEMMA RepliesOrNot ==
    ASSUME [Next]_vars
    PROVE  \/ \E length \in Nat : Reply(length)
           \/ chars' = chars /\ notes' = notes
           \/ chars' = 0 /\ notes' = 0
<1> USE ToolAssumption DEF talk
<1>1. CASE \/ ReadContext \/ ReadFails \/ RecordAccount \/ RecordPositions \/ Sweep \/ Skip
           \/ NoHeadroom \/ Begin \/ Ask \/ Conclude \/ AskFails \/ Malformed \/ Crash \/ Tick
  BY <1>1 DEF ReadContext, ReadFails, RecordAccount, RecordPositions, Sweep, Skip, NoHeadroom,
              Begin, Ask, Conclude, AskFails, Malformed, Crash, Tick, Finish, EmptyTalk
<1>2. CASE Read
  BY <1>2 DEF Read
<1>3. CASE PlaceOrder
  BY <1>3 DEF PlaceOrder, CapReached, OrderFails, OrderRejected, OrderExecuted, ReplyLost,
              Refresh, RefreshFails
<1>4. CASE Broker
  BY <1>4 DEF Broker, Fill, ExitFires, Expire
<1>5. CASE UNCHANGED vars
  BY <1>5 DEF vars
<1> QED BY <1>1, <1>2, <1>3, <1>4, <1>5, NextCases

LEMMA OutputStep == TypeInv /\ ToolOutputBounded /\ [Next]_vars => ToolOutputBounded'
<1> SUFFICES ASSUME TypeInv, ToolOutputBounded, [Next]_vars PROVE ToolOutputBounded'
  OBVIOUS
<1>1. CASE \E length \in Nat : Reply(length)
  BY <1>1, ReplyBounded DEF TypeInv
<1>2. CASE chars' = chars /\ notes' = notes
  BY <1>2 DEF ToolOutputBounded
<1>3. CASE chars' = 0 /\ notes' = 0
  <2>1. Note * 0 = 0
    BY ToolAssumption
  <2> QED BY <1>3, <2>1, ToolAssumption DEF ToolOutputBounded
<1> QED BY <1>1, <1>2, <1>3, RepliesOrNot

\* The text of all the tools of a conversation stays under the ceiling, and one
\* note for each result that had to go.
THEOREM OutputIsBounded == Spec => []ToolOutputBounded
<1>1. Init => ToolOutputBounded
  <2>1. Note * 0 = 0
    BY ToolAssumption
  <2> QED BY <2>1, ToolAssumption DEF Init, ToolOutputBounded
<1> QED BY <1>1, OutputStep, TypeInvHolds, PTL DEF Spec

-----------------------------------------------------------------------------
(* The panel.                                                              *)

\* Between the two snapshots the account's is of the book that will be written.
SnapshotsOfOneBook ==
    /\ PanelShowsTheBook
    /\ pc = "accounted" => accountOf = shown /\ ~current

LEMMA SnapshotStep == SnapshotsOfOneBook /\ [Next]_vars => SnapshotsOfOneBook'
<1> SUFFICES ASSUME SnapshotsOfOneBook, [Next]_vars PROVE SnapshotsOfOneBook'
  OBVIOUS
<1> USE DEF SnapshotsOfOneBook, PanelShowsTheBook, CurrentPositions, snapshots
<1>1. CASE RecordAccount
  BY <1>1 DEF RecordAccount
<1>2. CASE RecordPositions
  BY <1>2 DEF RecordPositions
<1>3. CASE Crash
  BY <1>3 DEF Crash
<1>4. CASE ReadContext \/ ReadFails \/ Sweep \/ Skip \/ NoHeadroom \/ Begin
  BY <1>4 DEF ReadContext, ReadFails, Sweep, Skip, NoHeadroom, Begin, Finish
<1>5. CASE Ask \/ Conclude \/ AskFails \/ Malformed
  BY <1>5 DEF Ask, Conclude, AskFails, Malformed, Finish
<1>6. CASE Read
  BY <1>6 DEF Read, Reply
<1>7. CASE CapReached \/ OrderFails \/ OrderRejected \/ Refresh \/ RefreshFails
  BY <1>7 DEF CapReached, OrderFails, OrderRejected, Refresh, RefreshFails, Reply
<1>8. ASSUME NEW s \in Symbols, NEW qty \in Shares, OrderExecuted(s, qty) \/ ReplyLost(s, qty)
      PROVE  SnapshotsOfOneBook'
  BY <1>8 DEF OrderExecuted, ReplyLost, Reply
<1>9. CASE Broker
  BY <1>9 DEF Broker, Fill, ExitFires, Expire
<1>10. CASE Tick
  BY <1>10 DEF Tick
<1>11. CASE UNCHANGED vars
  BY <1>11 DEF vars
<1> QED BY <1>1, <1>2, <1>3, <1>4, <1>5, <1>6, <1>7, <1>8, <1>9, <1>10, <1>11, NextCases
        DEF PlaceOrder

\* The positions on the panel are those of the newest account snapshot, unless
\* a process died between the two.
THEOREM PanelIsOfOneBook == Spec => []PanelShowsTheBook
<1>1. Init => SnapshotsOfOneBook
  BY DEF Init, SnapshotsOfOneBook, PanelShowsTheBook, CurrentPositions
<1>2. SnapshotsOfOneBook => PanelShowsTheBook
  BY DEF SnapshotsOfOneBook
<1> QED BY <1>1, <1>2, SnapshotStep, PTL DEF Spec

-----------------------------------------------------------------------------
(* The record of the orders.                                               *)

Talking == {"asking", "answering", "sent"}

\* Sent orders are among the listed results, and those among the attempts.
Counted ==
    /\ sent <= OrderLimit
    /\ outcome = "no_action" => sent = 0
    /\ pc # "idle" => outcome = "running"
    /\ pc \notin Talking \cup {"idle"} => sent = 0
    /\ pc \in Talking => sent <= executions /\ executions <= attempts /\ attempts <= OrderLimit

LEMMA CountStep == TypeInv /\ Counted /\ [Next]_vars => Counted'
<1> SUFFICES ASSUME TypeInv, Counted, [Next]_vars PROVE Counted'
  OBVIOUS
<1>0. {sent, executions, attempts, OrderLimit} \subseteq Nat
  BY ToolAssumption DEF TypeInv, TypeOK
<1> USE DEF Counted, Talking, talk
<1>1. CASE ReadContext \/ ReadFails
  BY <1>0, <1>1 DEF ReadContext, ReadFails, Finish
<1>2. CASE RecordAccount \/ RecordPositions \/ Sweep \/ Skip \/ NoHeadroom
  BY <1>0, <1>2 DEF RecordAccount, RecordPositions, Sweep, Skip, NoHeadroom, Finish
<1>3. CASE Begin
  BY <1>0, <1>3 DEF Begin, EmptyTalk
<1>4. CASE Ask \/ Conclude \/ AskFails \/ Malformed
  BY <1>0, <1>4 DEF Ask, Conclude, AskFails, Malformed, Finish
<1>5. CASE Read
  BY <1>0, <1>5 DEF Read, Reply
<1>6. CASE CapReached \/ OrderFails \/ OrderRejected
  BY <1>0, <1>6 DEF CapReached, OrderFails, OrderRejected, MayAttempt, Reply
<1>7. ASSUME NEW s \in Symbols, NEW qty \in Shares, OrderExecuted(s, qty) \/ ReplyLost(s, qty)
      PROVE  Counted'
  BY <1>0, <1>7 DEF OrderExecuted, ReplyLost, MayAttempt, Reply
<1>8. CASE Refresh \/ RefreshFails
  BY <1>0, <1>8 DEF Refresh, RefreshFails, Reply
<1>9. CASE Crash
  BY <1>0, <1>9 DEF Crash
<1>10. CASE Broker \/ Tick
  BY <1>0, <1>10 DEF Broker, Fill, ExitFires, Expire, Tick
<1>11. CASE UNCHANGED vars
  BY <1>0, <1>11 DEF vars
<1> QED BY <1>1, <1>2, <1>3, <1>4, <1>5, <1>6, <1>7, <1>8, <1>9, <1>10, <1>11, NextCases
        DEF PlaceOrder

\* A cycle that says it did nothing sent nothing, and none sends more than it may.
THEOREM NoActionIsNone == Spec => []NoActionMeansNone
<1>1. Init => Counted
  BY ToolAssumption DEF Init, Counted, Talking
<1>2. Counted => NoActionMeansNone
  BY DEF Counted, NoActionMeansNone
<1> QED BY <1>1, <1>2, CountStep, TypeInvHolds, PTL DEF Spec

-----------------------------------------------------------------------------
(* The theses.                                                             *)

\* What _place_order may rely on after the receipt: a position the order
\* flattens is flat to the end of it, one it changes had a thesis before.
SentOK ==
    pc = "sent" /\ order.symbol \notin excused =>
        /\ order.before + order.qty = 0 => Net(order.symbol) = 0
        /\ order.before # 0 => thesis[order.symbol] # NoThesis

Theses == HeldNamesHaveTheses /\ SentOK

\* A name that is settled stays so if its thesis stays and it is as flat as it was.
LEMMA ThesesStay ==
    ASSUME Theses, pc' # "sent" \/ pc' = pc, pc = "sent" => pc' = pc, order' = order \/ pc # "sent",
           excused \subseteq excused',
           \A s \in Symbols \ excused' :
               /\ thesis[s] # NoThesis => thesis'[s] # NoThesis
               /\ Net(s) = 0 => Net(s)' = 0,
           order.symbol \in Symbols
    PROVE  Theses'
<1>1. HeldNamesHaveTheses'
  BY DEF Theses, HeldNamesHaveTheses
<1>2. SentOK'
  BY DEF Theses, SentOK
<1> QED BY <1>1, <1>2 DEF Theses

LEMMA CycleKeepsTheses ==
    ASSUME TypeInv, Theses,
           ReadContext \/ ReadFails \/ RecordAccount \/ RecordPositions \/ Sweep \/ Skip
             \/ NoHeadroom \/ Begin \/ Ask \/ Conclude \/ AskFails \/ Malformed \/ Crash \/ Tick
    PROVE  Theses'
<1> USE DEF market
<1>0. order.symbol \in Symbols /\ thesis \in [Symbols -> {NoThesis} \cup 0 .. Grace]
  BY DEF TypeInv, TypeOK
<1>1. (market' = market => \A s \in Symbols : Net(s) = 0 => Net(s)' = 0)
  BY DEF Net
<1>2. CASE \/ ReadContext \/ ReadFails \/ RecordAccount \/ RecordPositions \/ Skip
           \/ NoHeadroom \/ Begin \/ Ask \/ Conclude \/ AskFails \/ Malformed
  <2>1. /\ UNCHANGED <<market, thesis, excused>> /\ pc # "sent" /\ pc' # "sent"
    BY <1>2 DEF ReadContext, ReadFails, RecordAccount, RecordPositions, Skip, NoHeadroom, Begin,
                Ask, Conclude, AskFails, Malformed, Finish
  <2> QED BY <1>0, <1>1, <2>1, ThesesStay
<1>3. CASE Sweep
  <2>1. /\ UNCHANGED market /\ pc # "sent" /\ pc' # "sent"
        /\ thesis' = [s \in Symbols |-> IF s \in Orphans THEN NoThesis ELSE thesis[s]]
        /\ excused' = excused \cup {s \in Symbols : Net(s) # 0 /\ shown[s] = 0 /\ thesis[s] = Grace}
    BY <1>3 DEF Sweep
  <2>2. ASSUME NEW s \in Symbols \ excused', Net(s)' # 0
        PROVE  thesis'[s] # NoThesis
    <3>1. Net(s) # 0 /\ s \notin excused
      BY <2>1, <2>2 DEF Net
    <3>2. thesis[s] # NoThesis
      BY <2>1, <3>1 DEF Theses, HeldNamesHaveTheses
    <3>3. s \notin Orphans
      BY <2>1, <3>1 DEF Orphans
    <3> QED BY <2>1, <3>2, <3>3
  <2> QED BY <2>1, <2>2 DEF Theses, HeldNamesHaveTheses, SentOK
<1>4. CASE Crash
  <2>1. UNCHANGED <<market, thesis>> /\ pc' # "sent" /\ excused \subseteq excused'
    BY <1>4 DEF Crash
  <2>2. pc = "sent" => order.symbol \in excused'
    BY <1>4 DEF Crash
  <2>3. HeldNamesHaveTheses'
    BY <2>1, <2>2 DEF Theses, HeldNamesHaveTheses, Net
  <2> QED BY <2>1, <2>3 DEF Theses, SentOK
<1>5. CASE Tick
  <2>1. UNCHANGED <<market, pc, order, excused>>
        /\ thesis' = [s \in Symbols |-> IF thesis[s] \in 0 .. Grace - 1
                                        THEN thesis[s] + 1 ELSE thesis[s]]
    BY <1>5 DEF Tick
  <2>2. \A s \in Symbols : thesis[s] # NoThesis => thesis'[s] # NoThesis
    BY <1>0, <2>1, ToolAssumption DEF NoThesis
  <2> QED BY <1>0, <1>1, <2>1, <2>2, ThesesStay
<1> QED BY <1>2, <1>3, <1>4, <1>5

LEMMA BrokerKeepsTheses == TypeInv /\ Theses /\ Broker => Theses'
<1> SUFFICES ASSUME TypeInv, Theses, NEW s \in Symbols, Fill(s) \/ ExitFires(s) \/ Expire(s)
             PROVE  Theses'
  BY DEF Broker
<1>0. /\ order.symbol \in Symbols
      /\ \A y \in Symbols : held[y] \in Int /\ working[y] \in Int
      /\ held \in [Symbols -> Shares] /\ working \in [Symbols -> Shares]
  BY SharesAreInts DEF TypeInv, TypeOK, Books
<1>1. UNCHANGED <<thesis, pc, order>> /\ excused \subseteq excused'
  BY DEF Fill, ExitFires, Expire
<1>2. ASSUME NEW y \in Symbols \ excused', Net(y) = 0
      PROVE  Net(y)' = 0
  <2>1. CASE y # s
    <3>1. held'[y] = held[y] /\ working'[y] = working[y]
      BY <1>0, <2>1 DEF Fill, ExitFires, Expire
    <3> QED BY <1>2, <3>1 DEF Net
  <2>2. CASE y = s /\ Fill(s)
    <3> DEFINE one == IF working[s] > 0 THEN 1 ELSE -1
    <3>1. one \in Int
      OBVIOUS
    <3>2. held'[s] = held[s] + one /\ working'[s] = working[s] - one
      BY <1>0, <2>2 DEF Fill
    <3> HIDE DEF one
    <3> QED BY <1>0, <1>2, <2>2, <3>1, <3>2 DEF Net
  <2>3. CASE y = s /\ ExitFires(s)
    BY <1>2, <2>3, ExitType
  <2>4. CASE y = s /\ Expire(s)
    <3>1. held[s] = 0
      BY <1>2, <2>4 DEF Expire
    <3>2. held'[s] = 0 /\ working'[s] = 0
      BY <1>0, <2>4, <3>1 DEF Expire
    <3> QED BY <2>4, <3>2 DEF Net
  <2> QED BY <2>1, <2>2, <2>3, <2>4
<1> QED BY <1>0, <1>1, <1>2, ThesesStay

LEMMA OrdersKeepTheses ==
    ASSUME TypeInv, Theses, Read \/ PlaceOrder
    PROVE  Theses'
<1> USE DEF market
<1>0. /\ order.symbol \in Symbols
      /\ thesis \in [Symbols -> {NoThesis} \cup 0 .. Grace]
      /\ working \in [Symbols -> Shares]
      /\ {order.prior, order.before, order.qty} \subseteq Int
  BY SharesAreInts DEF TypeInv, TypeOK, Books
<1>1. CASE Read \/ CapReached \/ OrderFails \/ OrderRejected
  <2>1. /\ UNCHANGED <<market, thesis, excused>> /\ pc # "sent" /\ pc' # "sent"
    BY <1>1 DEF Read, CapReached, OrderFails, OrderRejected, Reply
  <2> QED BY <1>0, <2>1, ThesesStay DEF Net
<1>2. ASSUME NEW s \in Symbols, NEW qty \in Shares, OrderExecuted(s, qty)
      PROVE  Theses'
  <2>1. /\ pc = "answering" /\ pc' = "sent" /\ UNCHANGED <<held, thesis, excused>>
        /\ working' = [working EXCEPT ![s] = @ + qty]
        /\ order' = [symbol |-> s, qty |-> qty, prior |-> shown[s], before |-> Net(s)]
    BY <1>2 DEF OrderExecuted
  <2>2. \A y \in Symbols \ {s} : Net(y)' = Net(y)
    BY <1>0, <2>1 DEF Net
  <2>3. HeldNamesHaveTheses'
    BY <2>1, <2>2 DEF Theses, HeldNamesHaveTheses
  <2>4. Net(s)' = Net(s) + qty
    <3>1. held[s] \in Int /\ working[s] \in Int /\ qty \in Int
      BY SharesAreInts DEF TypeInv, TypeOK, Books
    <3>2. held' = held /\ working'[s] = working[s] + qty
      BY <1>0, <2>1
    <3> QED BY <3>1, <3>2 DEF Net
  <2>5. s \notin excused /\ Net(s) # 0 => thesis[s] # NoThesis
    BY <2>1 DEF Theses, HeldNamesHaveTheses
  <2>6. /\ order'.symbol = s /\ order'.before = Net(s) /\ order'.qty = qty
    BY <2>1
  <2>7. SentOK'
    BY <2>1, <2>4, <2>5, <2>6 DEF SentOK, Net
  <2> QED BY <2>3, <2>7 DEF Theses
<1>3. ASSUME NEW s \in Symbols, NEW qty \in Shares, ReplyLost(s, qty)
      PROVE  Theses'
  <2>1. /\ pc # "sent" /\ pc' # "sent" /\ UNCHANGED <<held, thesis>>
        /\ working' = [working EXCEPT ![s] = @ + qty]
        /\ excused' = excused \cup {s}
    BY <1>3 DEF ReplyLost, Reply
  <2>2. \A y \in Symbols \ excused' : Net(y) = 0 => Net(y)' = 0
    BY <1>0, <2>1 DEF Net
  <2> QED BY <1>0, <2>1, <2>2, ThesesStay
<1>4. CASE Refresh
  <2> DEFINE y == order.symbol
             after == ThesisAfter(thesis[y])
  <2>1. /\ pc = "sent" /\ pc' # "sent" /\ UNCHANGED market
        /\ thesis' = [thesis EXCEPT ![y] = after]
        /\ excused' = IF order.prior # order.before THEN excused \cup {y}
                      ELSE IF after = 0 THEN excused \ {y} ELSE excused
    BY <1>4 DEF Refresh, Reply
  <2>2. ASSUME y \notin excused', Net(y) # 0
        PROVE  after # NoThesis
    <3>1. order.prior = order.before
      BY <2>1, <2>2
    <3>2. CASE after = 0
      BY <3>2 DEF NoThesis
    <3>3. CASE after # 0
      <4>1. y \notin excused
        BY <2>1, <2>2, <3>1, <3>3
      <4>2. Resulting # 0
        BY <2>1, <2>2, <3>1, <4>1 DEF Theses, SentOK, Resulting
      <4>3. Reduced /\ after = thesis[y]
        BY <3>3, <4>2 DEF ThesisAfter
      <4>4. order.before # 0
        BY <1>0, <3>1, <4>3 DEF Reduced, Resulting, Abs
      <4> QED BY <2>1, <4>1, <4>3, <4>4 DEF Theses, SentOK
    <3> QED BY <3>2, <3>3
  <2> HIDE DEF after
  <2>3. HeldNamesHaveTheses'
    <3>1. SUFFICES ASSUME NEW s \in Symbols \ excused', Net(s) # 0
                   PROVE  thesis'[s] # NoThesis
      BY <2>1 DEF HeldNamesHaveTheses, Net
    <3>2. CASE s = y
      BY <1>0, <2>1, <2>2, <3>1, <3>2
    <3>3. CASE s # y
      BY <1>0, <2>1, <3>1, <3>3 DEF Theses, HeldNamesHaveTheses
    <3> QED BY <3>2, <3>3
  <2> QED BY <2>1, <2>3 DEF Theses, SentOK
<1>5. CASE RefreshFails
  <2>1. /\ pc' # "sent" /\ UNCHANGED <<market, thesis>> /\ excused' = excused \cup {order.symbol}
    BY <1>5 DEF RefreshFails, Reply
  <2> QED BY <2>1 DEF Theses, HeldNamesHaveTheses, SentOK, Net
<1> QED BY <1>1, <1>2, <1>3, <1>4, <1>5 DEF PlaceOrder

LEMMA ThesesStep == TypeInv /\ Theses /\ [Next]_vars => Theses'
<1> SUFFICES ASSUME TypeInv, Theses, [Next]_vars PROVE Theses'
  OBVIOUS
<1>1. CASE UNCHANGED vars
  BY <1>1 DEF vars, market, Theses, HeldNamesHaveTheses, SentOK, Net
<1> QED BY <1>1, NextCases, CycleKeepsTheses, OrdersKeepTheses, BrokerKeepsTheses

\* Whatever fills, stops out, expires, fails or dies in between: a name that is
\* held has a thesis, but for the mishaps listed.
THEOREM HeldNamesKeepTheses == Spec => []HeldNamesHaveTheses
<1>1. Init => Theses
  BY DEF Init, Theses, HeldNamesHaveTheses, SentOK, Net, Flat
<1>2. Theses => HeldNamesHaveTheses
  BY DEF Theses
<1> QED BY <1>1, <1>2, ThesesStep, TypeInvHolds, PTL DEF Spec
=============================================================================
