------------------------------ MODULE ToolLoop ------------------------------
(***************************************************************************)
(* What a cycle does around an order: the snapshots and the orphan sweep   *)
(* of cycle.run_cycle, the conversation of AnthropicAgent.run with its     *)
(* rounds, its budget of tool output and its errors, the order tool with   *)
(* the thesis that rides along, and the broker that fills, stops out and   *)
(* expires in between, cycle after cycle.                                  *)
(*                                                                         *)
(*   idle -ReadContext-> read -RecordAccount-> accounted -RecordPositions-> *)
(*     recorded -Sweep-> swept -Begin-> asking -Ask-> answering            *)
(*                                                                         *)
(* From answering each tool call leads back to answering, or to asking     *)
(* after the last one of the round; an executed order makes a stop at      *)
(* sent, before the book is read again.  The risk layer's verdict and the  *)
(* rows of an order are left open here: OrderGate has them.                *)
(***************************************************************************)
EXTENDS Integers, FiniteSets

CONSTANTS
    Symbols,
    MaxPosition,   \* bound: shares of one name, long or short, working ones included
    MaxHidden,     \* bound: names of Symbols that MAX_RENDERED_POSITIONS hides at once
    Grace,         \* close_orphan_theses: grace_minutes, in ticks
    OrderLimit,    \* RiskConfig.max_orders_per_cycle
    MaxRounds,     \* MAX_TOOL_ITERATIONS
    MaxBlocks,     \* bound: tool calls in one response
    Ceiling,       \* MAX_TOTAL_TOOL_RESULT_CHARS
    MaxResult,     \* MAX_TOOL_RESULT_CHARS
    Marker,        \* the length of "(truncated)"
    Note,          \* the length of the note that replaces a result
    ErrorLength,   \* the length of an error result
    VerdictLength, \* the length of place_order's result
    ReadLengths,   \* the lengths of what the read tools return
    MaxCrashes     \* bound: process deaths

ASSUME ToolAssumption ==
    /\ Symbols # {}
    /\ {MaxPosition, MaxHidden, Grace, OrderLimit, MaxRounds, MaxCrashes} \subseteq Nat
    /\ MaxBlocks \in Nat \ {0}
    /\ {Ceiling, MaxResult, Marker, Note, ErrorLength, VerdictLength} \subseteq Nat
    /\ ReadLengths \subseteq Nat

NoThesis == -1

VARIABLES
    held,       \* the broker's positions, in shares
    working,    \* shares of accepted orders that have not filled
    thesis,     \* ticks since the open thesis of a name was written, or NoThesis
    accountOf,  \* the book the newest account_snapshot belongs to
    lots,       \* the newest rows of positions_snapshot
    current,    \* lots is of the cycle of the newest account_snapshot
    pc,         \* where run_cycle is
    shown,      \* tc.ctx.positions
    order,      \* the order that was executed last: its symbol, shares and prior_qty
    round,      \* iteration
    blocks,     \* tool calls of the response still to be answered
    chars,      \* tool_result_chars
    attempts,   \* tc.orders_attempted
    executions, \* Len(tc.executions)
    outcome,    \* what the newest cycle's row and its own decision say
    crashes,
    \* History, read by properties only:
    sent,       \* orders the broker accepted in this cycle
    notes,      \* results of this cycle that the note replaced
    torn,       \* a process died between the two snapshots of the newest cycle
    excused     \* names whose thesis a known mishap took

market == <<held, working>>
snapshots == <<accountOf, lots, current, torn>>
talk == <<round, blocks, chars, attempts, executions, notes>>
vars == <<market, thesis, snapshots, pc, shown, order, talk, sent, outcome, crashes, excused>>

Flat == [s \in Symbols |-> 0]
Shares == -MaxPosition .. MaxPosition

Abs(n) == IF n < 0 THEN -n ELSE n

\* The locals of _place_order outside of it.
NoOrder == [symbol |-> CHOOSE s \in Symbols : TRUE, qty |-> 0, prior |-> 0, before |-> 0]

\* What is held of s once every working order has filled.
Net(s) == held[s] + working[s]

-----------------------------------------------------------------------------
Init ==
    /\ held = Flat
    /\ working = Flat
    /\ thesis = [s \in Symbols |-> NoThesis]
    /\ accountOf = Flat
    /\ lots = Flat
    /\ current = FALSE
    /\ pc = "idle"
    /\ shown = Flat
    /\ order = NoOrder
    /\ round = 0 /\ blocks = 0 /\ chars = 0 /\ attempts = 0 /\ executions = 0
    /\ outcome = "none"
    /\ crashes = 0
    /\ sent = 0 /\ notes = 0
    /\ torn = FALSE
    /\ excused = {}

-----------------------------------------------------------------------------
(* The cycle up to the model.                                              *)

\* get_positions and the render cap, which cuts the broker's list off at a
\* name; the names before it need not be in Symbols.
Rendered(book) ==
    \E hidden \in SUBSET {s \in Symbols : book[s] # 0} :
        /\ Cardinality(hidden) <= MaxHidden
        /\ shown' = [s \in Symbols |-> IF s \in hidden THEN 0 ELSE book[s]]

\* The conversation and its ToolContext: empty when it begins, gone when it ends.
EmptyTalk ==
    /\ round' = 0 /\ blocks' = 0 /\ chars' = 0
    /\ attempts' = 0 /\ executions' = 0 /\ notes' = 0

\* run_cycle.finish: the row gets its outcome.
Finish(result) ==
    /\ outcome' = result
    /\ pc' = "idle"
    /\ EmptyTalk

\* open_cycle and build_cycle_context.
ReadContext ==
    /\ pc = "idle"
    /\ pc' = "read"
    /\ outcome' = "running"
    /\ Rendered(held)
    /\ sent' = 0
    /\ UNCHANGED <<market, thesis, snapshots, order, talk, crashes, excused>>

\* A broker that does not answer fails the cycle.
ReadFails ==
    /\ pc = "idle"
    /\ Finish("error")
    /\ sent' = 0
    /\ UNCHANGED <<market, thesis, snapshots, shown, order, crashes, excused>>

RecordAccount ==
    /\ pc = "read"
    /\ pc' = "accounted"
    /\ accountOf' = shown
    /\ current' = FALSE
    /\ torn' = FALSE
    /\ UNCHANGED <<market, thesis, lots, shown, order, talk, sent, outcome, crashes,
                   excused>>

\* An empty book writes no rows.
RecordPositions ==
    /\ pc = "accounted"
    /\ pc' = "recorded"
    /\ IF shown = Flat THEN UNCHANGED <<lots, current>>
                       ELSE lots' = shown /\ current' = TRUE
    /\ UNCHANGED <<market, thesis, accountOf, torn, shown, order, talk, sent, outcome,
                   crashes, excused>>

\* db.current_positions: the rows of the cycle of the newest account snapshot.
\* Mutant: the newest rows there are.
NewestLots == lots
CurrentPositions == IF current THEN lots ELSE Flat

\* Mutants: names that were traded moments ago are swept too; an empty book
\* sweeps nothing.
OrphansWithoutGrace == {s \in Symbols : thesis[s] # NoThesis /\ shown[s] = 0}
OrphansOfABook == {s \in Symbols : shown # Flat /\ thesis[s] = Grace /\ shown[s] = 0}
Orphans == {s \in Symbols : thesis[s] = Grace /\ shown[s] = 0}

\* close_orphan_theses.  It is at fault only where it goes by the book: a name
\* past the render cap, an order that took longer than the grace window.
Sweep ==
    /\ pc = "recorded"
    /\ pc' = "swept"
    /\ thesis' = [s \in Symbols |-> IF s \in Orphans THEN NoThesis ELSE thesis[s]]
    /\ excused' = excused \cup {s \in Symbols : Net(s) # 0 /\ shown[s] = 0 /\ thesis[s] = Grace}
    /\ UNCHANGED <<market, snapshots, shown, order, talk, sent, outcome, crashes>>

\* The market is closed, or there is nothing left to do today.
Skip ==
    /\ pc = "swept"
    /\ Finish("skipped")
    /\ UNCHANGED <<market, thesis, snapshots, shown, order, sent, crashes, excused>>

\* _check_headroom: the first prompt is too long already.
NoHeadroom ==
    /\ pc = "swept"
    /\ Finish("no_action")
    /\ UNCHANGED <<market, thesis, snapshots, shown, order, sent, crashes, excused>>

\* AnthropicAgent.run: a new conversation and a new ToolContext.
Begin ==
    /\ pc = "swept"
    /\ pc' = "asking"
    /\ EmptyTalk
    /\ UNCHANGED <<market, thesis, snapshots, shown, order, sent, outcome, crashes, excused>>

-----------------------------------------------------------------------------
(* The conversation.                                                       *)

\* The model asks for some tools.
Ask ==
    /\ pc = "asking"
    /\ round < MaxRounds
    /\ pc' = "answering"
    /\ round' = round + 1
    /\ \E n \in 1 .. MaxBlocks : blocks' = n
    /\ UNCHANGED <<market, thesis, snapshots, shown, order, chars, attempts, executions,
                   sent, notes, outcome, crashes, excused>>

\* The model is done, refuses, or has had its rounds: _summarise, and what
\* run_cycle puts on record.
Conclude ==
    /\ pc = "asking"
    /\ Finish(IF executions = 0 THEN "no_action" ELSE "traded")
    /\ UNCHANGED <<market, thesis, snapshots, shown, order, sent, crashes, excused>>

\* _assert_budget raises, or the API does: the result is lost with its
\* executions, what was recorded of them is not.
AskFails ==
    /\ pc = "asking"
    /\ round < MaxRounds
    /\ Finish("error")
    /\ UNCHANGED <<market, thesis, snapshots, shown, order, sent, crashes, excused>>

Truncated(length) == IF length > MaxResult THEN MaxResult + Marker ELSE length

\* Mutant: what is there is counted, what is coming is not.
RoomLeft(length) == chars <= Ceiling
Fits(length) == chars + Truncated(length) <= Ceiling

\* Mutant: one block too many is answered.
NoBlockLeft == blocks = 0
LastBlock == blocks = 1

\* The end of the loop over the blocks: the result, or the note in its place.
Reply(length) ==
    /\ IF Fits(length)
       THEN chars' = chars + Truncated(length) /\ notes' = notes
       ELSE chars' = chars + Note /\ notes' = notes + 1
    /\ blocks' = blocks - 1
    /\ pc' = IF LastBlock THEN "asking" ELSE "answering"

\* A read tool, an unknown tool, or a tool that raises ToolError or BrokerError.
Read ==
    /\ pc = "answering"
    /\ \E length \in ReadLengths \cup {ErrorLength} : Reply(length)
    /\ UNCHANGED <<market, thesis, snapshots, shown, order, round, attempts, executions,
                   sent, outcome, crashes, excused>>

\* get_bars and get_recent_decisions with a limit that is not a number: int()
\* raises what dispatch does not catch, and so does agent.run.
Malformed ==
    /\ pc = "answering"
    /\ Finish("error")
    /\ UNCHANGED <<market, thesis, snapshots, shown, order, sent, crashes, excused>>

\* Mutant: one more.
MayStillAttempt == attempts <= OrderLimit
MayAttempt == attempts < OrderLimit

\* _place_order when the cycle has had its orders.
CapReached ==
    /\ pc = "answering"
    /\ ~MayAttempt
    /\ Reply(ErrorLength)
    /\ UNCHANGED <<market, thesis, snapshots, shown, order, round, attempts, executions,
                   sent, outcome, crashes, excused>>

\* A quantity that is not a number, a name without a price, a book that
\* place_order could not read: an attempt all the same.
OrderFails ==
    /\ pc = "answering"
    /\ MayAttempt
    /\ attempts' = attempts + 1
    /\ Reply(ErrorLength)
    /\ UNCHANGED <<market, thesis, snapshots, shown, order, round, executions,
                   sent, outcome, crashes, excused>>

\* The risk layer or the broker says no.
OrderRejected ==
    /\ pc = "answering"
    /\ MayAttempt
    /\ attempts' = attempts + 1
    /\ executions' = executions + 1
    /\ Reply(VerdictLength)
    /\ UNCHANGED <<market, thesis, snapshots, shown, order, round,
                   sent, outcome, crashes, excused>>

\* The broker takes no order against a working one, and none that would turn a
\* position over.
BrokerAccepts(s, qty) ==
    /\ qty # 0
    /\ working[s] * qty >= 0
    /\ held[s] * qty >= 0 \/ Abs(working[s] + qty) <= Abs(held[s])
    /\ Net(s) + qty \in Shares

\* Mutant: the result is listed only once the tool has come to its end.
OrderExecutedUnlisted(s, qty) ==
    /\ pc = "answering"
    /\ MayAttempt
    /\ BrokerAccepts(s, qty)
    /\ pc' = "sent"
    /\ attempts' = attempts + 1
    /\ sent' = sent + 1
    /\ working' = [working EXCEPT ![s] = @ + qty]
    /\ order' = [symbol |-> s, qty |-> qty, prior |-> shown[s], before |-> Net(s)]
    /\ UNCHANGED <<held, thesis, snapshots, shown, round, blocks, chars, executions, notes,
                   outcome, crashes, excused>>

\* _place_order up to the refresh: place_order has its receipt.
OrderExecuted(s, qty) ==
    /\ pc = "answering"
    /\ MayAttempt
    /\ BrokerAccepts(s, qty)
    /\ pc' = "sent"
    /\ attempts' = attempts + 1
    /\ executions' = executions + 1
    /\ sent' = sent + 1
    /\ working' = [working EXCEPT ![s] = @ + qty]
    /\ order' = [symbol |-> s, qty |-> qty, prior |-> shown[s], before |-> Net(s)]
    /\ UNCHANGED <<held, thesis, snapshots, shown, round, blocks, chars, notes,
                   outcome, crashes, excused>>

\* The broker has the order, its answer is lost: a result that was not executed.
ReplyLost(s, qty) ==
    /\ pc = "answering"
    /\ MayAttempt
    /\ BrokerAccepts(s, qty)
    /\ attempts' = attempts + 1
    /\ executions' = executions + 1
    /\ sent' = sent + 1
    /\ working' = [working EXCEPT ![s] = @ + qty]
    /\ excused' = excused \cup {s}
    /\ Reply(VerdictLength)
    /\ UNCHANGED <<held, thesis, snapshots, shown, order, round, outcome, crashes>>

Resulting == order.prior + order.qty

\* A partial exit.
Reduced == Abs(Resulting) < Abs(order.prior) /\ order.prior * Resulting > 0

\* _record_thesis: a flat position's thesis closes, a smaller one's stays,
\* any other is written over or opened.
ThesisAfter(age) ==
    IF Resulting = 0 THEN NoThesis ELSE IF Reduced THEN age ELSE 0

\* The refresh and the rest of _place_order.  The position before the order is
\* the one shown, not the broker's: where they differ, the wrong thing may be
\* done to the thesis.
Refresh ==
    /\ pc = "sent"
    /\ Rendered(held)
    /\ thesis' = [thesis EXCEPT ![order.symbol] = ThesisAfter(@)]
    /\ excused' = IF order.prior # order.before THEN excused \cup {order.symbol}
                  ELSE IF ThesisAfter(thesis[order.symbol]) = 0
                       THEN excused \ {order.symbol} ELSE excused
    /\ Reply(VerdictLength)
    /\ order' = NoOrder
    /\ UNCHANGED <<market, snapshots, round, attempts, executions, sent, outcome, crashes>>

\* The refresh raises BrokerError: the model reads an error for an order that
\* was executed, and the thesis is skipped.
RefreshFails ==
    /\ pc = "sent"
    /\ excused' = excused \cup {order.symbol}
    /\ Reply(ErrorLength)
    /\ order' = NoOrder
    /\ UNCHANGED <<market, thesis, snapshots, shown, round, attempts, executions, sent,
                   outcome, crashes>>

-----------------------------------------------------------------------------
(* Around the process.                                                     *)

\* Killed, out of memory, power cut; the row goes on saying running.
Crash ==
    /\ pc # "idle"
    /\ crashes < MaxCrashes
    /\ crashes' = crashes + 1
    /\ pc' = "idle"
    /\ torn' = (torn \/ pc = "accounted")
    /\ excused' = IF pc = "sent" THEN excused \cup {order.symbol} ELSE excused
    /\ EmptyTalk
    /\ order' = NoOrder
    /\ UNCHANGED <<market, thesis, accountOf, lots, current, shown, sent, outcome>>

\* One share of a working order.
Fill(s) ==
    /\ working[s] # 0
    /\ LET one == IF working[s] > 0 THEN 1 ELSE -1
       IN  /\ held' = [held EXCEPT ![s] = @ + one]
           /\ working' = [working EXCEPT ![s] = @ - one]
    /\ UNCHANGED <<thesis, snapshots, pc, shown, order, talk, sent, outcome, crashes,
                   excused>>

\* A stop or a target takes some of the position, or all of it; never while an
\* order that reduces it is working, as that order took the exits down.
ExitFires(s) ==
    /\ held[s] * working[s] >= 0
    /\ \E left \in Shares :
          /\ Abs(left) < Abs(held[s])
          /\ left * held[s] >= 0
          /\ held' = [held EXCEPT ![s] = left]
    /\ UNCHANGED <<working, thesis, snapshots, pc, shown, order, talk, sent, outcome,
                   crashes, excused>>

\* A DAY order ends with shares unfilled; one that was to flatten the position
\* has closed its thesis already.
Expire(s) ==
    /\ working[s] # 0
    /\ working' = [working EXCEPT ![s] = 0]
    /\ excused' = IF Net(s) = 0 /\ held[s] # 0 THEN excused \cup {s} ELSE excused
    /\ UNCHANGED <<held, thesis, snapshots, pc, shown, order, talk, sent, outcome, crashes>>

Tick ==
    /\ \E s \in Symbols : thesis[s] \in 0 .. Grace - 1
    /\ thesis' = [s \in Symbols |-> IF thesis[s] \in 0 .. Grace - 1
                                    THEN thesis[s] + 1 ELSE thesis[s]]
    /\ UNCHANGED <<market, snapshots, pc, shown, order, talk, sent, outcome, crashes, excused>>

-----------------------------------------------------------------------------
PlaceOrder ==
    \/ CapReached \/ OrderFails \/ OrderRejected
    \/ \E s \in Symbols, qty \in Shares : OrderExecuted(s, qty) \/ ReplyLost(s, qty)
    \/ Refresh \/ RefreshFails

\* Everything the process does with a cycle it has read the context of.
Proceed ==
    \/ RecordAccount \/ RecordPositions \/ Sweep
    \/ Skip \/ NoHeadroom \/ Begin
    \/ Ask \/ Conclude \/ AskFails
    \/ Read \/ Malformed \/ PlaceOrder

Broker == \E s \in Symbols : Fill(s) \/ ExitFires(s) \/ Expire(s)

Next == ReadContext \/ ReadFails \/ Proceed \/ Crash \/ Broker \/ Tick

\* The scheduler opens cycle after cycle, a broker does not fail to answer for
\* ever, a cycle that holds a context goes on, and time passes.
Fairness ==
    /\ WF_vars(ReadContext)
    /\ WF_vars(Proceed)
    /\ WF_vars(Tick)

Spec == Init /\ [][Next]_vars /\ Fairness

-----------------------------------------------------------------------------
Pcs == {"idle", "read", "accounted", "recorded", "swept", "asking", "answering", "sent"}
Outcomes == {"none", "running", "error", "skipped", "no_action", "traded"}
Books == [Symbols -> Shares]

\* The shape of every variable; who answers has something left to answer.
TypeOK ==
    /\ held \in Books /\ working \in Books
    /\ thesis \in [Symbols -> {NoThesis} \cup 0 .. Grace]
    /\ accountOf \in Books /\ lots \in Books /\ shown \in Books
    /\ current \in BOOLEAN /\ torn \in BOOLEAN
    /\ pc \in Pcs
    /\ order \in [symbol : Symbols, qty : Shares, prior : Shares, before : Shares]
    /\ round \in 0 .. MaxRounds
    /\ blocks \in 0 .. MaxBlocks
    /\ pc \in {"answering", "sent"} => blocks > 0
    /\ chars \in Nat /\ attempts \in Nat /\ executions \in Nat /\ sent \in Nat /\ notes \in Nat
    /\ outcome \in Outcomes
    /\ crashes \in 0 .. MaxCrashes
    /\ excused \subseteq Symbols

(* Every name that is held, or about to be, has an open thesis for the     *)
(* next cycle to judge it by, whatever filled, stopped out or expired in   *)
(* between.  What takes a thesis away, or keeps it from being written, is  *)
(* one of: a lost answer, a refresh that failed after the order, a crash   *)
(* there, an order decided on a position that was gone, an order unfilled  *)
(* for longer than the grace window, a name past the render cap, and an    *)
(* exit that never filled (db.close_orphan_theses, tools._place_order).    *)
HeldNamesHaveTheses ==
    \A s \in Symbols \ excused :
        Net(s) # 0 /\ ~(pc = "sent" /\ order.symbol = s) => thesis[s] # NoThesis

(* A cycle on record as one that chose to do nothing did nothing: neither  *)
(* an error answered for an executed order nor a spent budget makes        *)
(* run_cycle forget it.  And a cycle never sends more orders than it is    *)
(* allowed, though the model may have read an error for each.              *)
NoActionMeansNone ==
    /\ outcome = "no_action" => sent = 0
    /\ sent <= OrderLimit

(* "The loop stays bounded by construction": whatever the tools return and *)
(* in whatever order, their text adds up to the ceiling at most, and one   *)
(* note for each result that did not fit.                                  *)
ToolOutputBounded == chars <= Ceiling + Note * notes

(* "A flatten does not leave yesterday's lot on the panel": the positions  *)
(* of the dashboard and of trader status are those of the newest account   *)
(* snapshot, unless a process died between the two.                        *)
PanelShowsTheBook ==
    pc # "accounted" /\ ~torn => CurrentPositions = accountOf

(* "Nothing else would ever close its thesis": the thesis of a position    *)
(* that is gone is closed at last, in an empty book as well.               *)
StaleThesesClose ==
    \A s \in Symbols :
        thesis[s] # NoThesis /\ held[s] = 0 /\ working[s] = 0
            ~> thesis[s] = NoThesis \/ held[s] # 0 \/ working[s] # 0

=============================================================================
