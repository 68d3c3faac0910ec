--------------------------- MODULE RobinhoodTools ---------------------------
(***************************************************************************)
(* robinhood_mcp.py: a broker whose tools are not known until it lists     *)
(* them.  The adapter guesses from names, descriptions and parameters      *)
(* which tool does what, once, and calls by its guess from then on.        *)
(*                                                                         *)
(* A tool is a record: what it really does (kind, which the adapter cannot *)
(* see), the words its name is made of (is) or only contains (has), those  *)
(* its description says (of the words the adapter looks for), its          *)
(* parameters, whether its quantity is an integer, and whether its         *)
(* description speaks of profit taking.                                    *)
(***************************************************************************)
EXTENDS MarketClock, SequencesExt, FiniteSets

CONSTANTS
    Listings,  \* the sequences of tools that tools/list may return
    Times      \* the slots at which the clock is asked for

VARIABLES
    listed,  \* what tools/list returns
    caps,    \* self._caps, or Undiscovered
    call     \* what the newest request became: a tool called, an answer, a refusal

vars == <<listed, caps, call>>

NoTool == [kind |-> "none"]
Undiscovered == <<>>

-----------------------------------------------------------------------------
(* Discovery.                                                              *)

\* _NAME_HINTS.
NameHints == [write |-> {"place_order", "submit_order", "create_order", "place"},
              order_status |-> {"get_order", "order_status", "order_detail", "fetch_order"},
              account |-> {"account", "balance", "equity", "buying_power"},
              positions |-> {"position", "holding", "positions"},
              quote |-> {"quote", "price", "last_trade", "last_price", "ticker"},
              bars |-> {"bar", "ohlc", "candle", "history", "historical"},
              clock |-> {"clock", "hours", "market_status", "is_open", "session"}]

\* For each capability the sets of parameters one of its hints occurs in:
\* "id" is a part of side as it is of order_id.
PropHints == [write |-> {{"symbol"}, {"side"}, {"qty"}, {"quantity"}},
              order_status |-> {{"order_id"}, {"order_id", "id", "side"}},
              account |-> {},
              positions |-> {{"symbol"}, {"qty"}, {"quantity"}},
              quote |-> {{"symbol"}, {"ticker"}},
              bars |-> {{"timeframe"}},
              clock |-> {{"is_open"}}]

SoundsLikePlacing(tool) ==
    (tool.is \cup tool.has) \cap {"place", "create", "submit"} # {}

\* What the two corrections at the end of _score add ...
Bonus(tool, capability) ==
    IF capability = "write" /\ "place" \in tool.is \cup tool.has THEN 3 ELSE 0

\* ... and take away.
Malus(tool, capability) ==
    IF capability = "order_status" /\ SoundsLikePlacing(tool) THEN 6 ELSE 0

\* How many hints occur in a parameter of the tool.
ParameterHits(tool, capability) ==
    Cardinality({h \in PropHints[capability] : h \cap tool.params # {}})

Points(tool, capability) ==
    LET words == NameHints[capability]
    IN  5 * Cardinality(words \cap tool.is)
          + 3 * Cardinality((words \cap tool.has) \ tool.is)
          + Cardinality(words \cap tool.said)
          + 2 * ParameterHits(tool, capability)
          + Bonus(tool, capability)

\* _score, of which only what exceeds 0 matters.
Score(tool, capability) ==
    LET points == Points(tool, capability)
        loss == Malus(tool, capability)
    IN  IF points > loss THEN points - loss ELSE 0

\* Mutant: the first tool that scores 3 will do.
FirstFit(tools, used, capability) ==
    LET fits == {i \in DOMAIN tools : tools[i] \notin used /\ Score(tools[i], capability) >= 3}
    IN  {i \in fits : \A j \in fits : j >= i}

\* The earliest of the best scored tools nothing uses yet, if it scores 3.
Best(tools, used, capability) ==
    LET free == {i \in DOMAIN tools : tools[i] \notin used}
        score(i) == Score(tools[i], capability)
    IN  {i \in free : score(i) >= 3
                      /\ \A j \in free : score(j) < score(i)
                                         \/ (score(j) = score(i) /\ j >= i)}

Pick(tools, used, capability) ==
    LET best == Best(tools, used, capability)
    IN  IF best = {} THEN NoTool ELSE tools[CHOOSE i \in best : TRUE]

\* map_capabilities: the capabilities in turn, each from what those before it
\* left; the two that orders depend on come first.
MapCapabilities(tools) ==
    LET write  == Pick(tools, {}, "write")
        status == Pick(tools, {write}, "order_status")
        Also(mapped, c) ==
            mapped @@ (c :> Pick(tools, {write, status} \cup Range(mapped), c))
        reads  == FoldLeft(Also, <<>>, <<"account", "positions", "quote", "bars", "clock">>)
    IN  [write |-> write, order_status |-> status,
         account |-> reads["account"], positions |-> reads["positions"],
         quote |-> reads["quote"], bars |-> reads["bars"], clock |-> reads["clock"]]

\* _caps_for: the first session asks, the later ones remember.
CapsFor == IF caps = Undiscovered THEN MapCapabilities(listed) ELSE caps

-----------------------------------------------------------------------------
(* Arguments.                                                              *)

\* The parameters a value may be given by; a description that speaks of
\* profit taking turns the limit price into one of the target.
Keys(tool, what) ==
    CASE what = "symbol" -> {"symbol", "ticker", "instrument"}
      [] what = "qty"    -> {"qty", "quantity", "shares"}
      [] what = "side"   -> {"side", "action"}
      [] what = "stop"   -> {"stop_price", "stop", "stop_loss", "stop_loss_price"}
      [] what = "target" -> {"take_profit_price", "take_profit", "profit_price",
                              "target_price"}
                              \cup (IF tool.profit THEN {"limit_price"} ELSE {})
      [] what = "id"     -> {"order_id", "id"}

Slots(tool, what) == Keys(tool, what) \cap tool.params

\* The tool takes all an order needs, whatever it does with it.
TakesOrders(tool) == \A what \in {"symbol", "qty", "side"} : Slots(tool, what) # {}

\* Tool j is a better guess than tool i for where orders go.
Outranks(tools, j, i) ==
    \/ Score(tools[j], "write") > Score(tools[i], "write")
    \/ Score(tools[j], "write") = Score(tools[i], "write") /\ j < i

\* What the guessing relies on.  A tool that takes orders without placing them
\* (a preview, a replacement) is listed only with a placing tool that scores
\* better: where none does, orders go to it.  Tools that place orders say so in
\* their names, and are not named like those that report them.
LookAlikesAreOutranked(tools) ==
    \A i \in DOMAIN tools :
        tools[i].kind # "place" /\ TakesOrders(tools[i])
            => \E j \in DOMAIN tools : tools[j].kind = "place" /\ Outranks(tools, j, i)

PlainlyPlaces(tool) ==
    /\ SoundsLikePlacing(tool)
    /\ NameHints.order_status \cap (tool.is \cup tool.has) = {}

ASSUME ToolsAssumption ==
    /\ Times \subseteq Nat
    /\ \A tools \in Listings :
           /\ DOMAIN tools = 1 .. Len(tools)
           /\ LookAlikesAreOutranked(tools)
           /\ \A i \in DOMAIN tools : tools[i].kind = "place" => PlainlyPlaces(tools[i])

\* Mutant: a side the tool has no parameter for is left out.
RequiredWithoutSide(exits) == {"symbol", "qty"} \cup exits

\* What bind_order_args must find a parameter for.
Required(exits) == {"symbol", "qty", "side"} \cup exits

\* bind_order_args returns arguments: a fraction does not go to an integer.
Binds(tool, exits, whole) ==
    /\ \A what \in Required(exits) : Slots(tool, what) # {}
    /\ whole \/ ~tool.integer

\* The arguments: which parameter carries what.
Arguments(tool, wanted) ==
    [what \in {w \in wanted : Slots(tool, w) # {}} |-> CHOOSE p \in Slots(tool, what) : TRUE]

Refused(op) == [op |-> op, tool |-> NoTool]

-----------------------------------------------------------------------------
(* Requests.                                                               *)

\* submit_order: with the exits asked for, or not at all.
SubmitOrder(exits, whole) ==
    LET tool == caps'["write"]
    IN  /\ caps' = CapsFor
        /\ call' = IF tool # NoTool /\ Binds(tool, exits, whole)
                   THEN [op |-> "submit", tool |-> tool, exits |-> exits,
                         args |-> Arguments(tool, {"symbol", "qty", "side"} \cup exits)]
                   ELSE Refused("submit")
        /\ UNCHANGED listed

\* get_order: the fill of an order, by its id.
GetOrder ==
    LET tool == caps'["order_status"]
    IN  /\ caps' = CapsFor
        /\ call' = IF tool # NoTool /\ Slots(tool, "id") # {}
                   THEN [op |-> "status", tool |-> tool, args |-> Arguments(tool, {"id"})]
                   ELSE Refused("status")
        /\ UNCHANGED listed

\* get_account, get_positions, get_latest_price and get_bars.
Read(capability) ==
    LET tool == caps'[capability]
    IN  /\ caps' = CapsFor
        /\ call' = IF tool = NoTool THEN Refused(capability)
                   ELSE [op |-> capability, tool |-> tool,
                         args |-> Arguments(tool, IF capability \in {"quote", "bars"}
                                                  THEN {"symbol"} ELSE {})]
        /\ UNCHANGED listed

\* What the tool said, or else what the weekday clock says; 0 is nothing said.
Or(said, fallback) == IF said # 0 THEN said ELSE fallback

\* get_clock: the weekday clock when there is no clock tool, and for what the
\* tool does not say.
GetClock(now, open, opens, closes) ==
    LET tool == caps'["clock"]
    IN  /\ caps' = CapsFor
        /\ call' = [op |-> "clock", tool |-> tool, now |-> now,
                    stated |-> tool # NoTool /\ (opens # 0 \/ closes # 0),
                    is_open |-> IF tool = NoTool THEN InSession(now) ELSE open,
                    next_open |-> IF tool = NoTool THEN NextOpen(now)
                                  ELSE Or(opens, NextOpen(now)),
                    next_close |-> IF tool = NoTool THEN NextClose(now)
                                   ELSE Or(closes, NextClose(now))]
        /\ UNCHANGED listed

-----------------------------------------------------------------------------
Init == listed \in Listings /\ caps = Undiscovered /\ call = Refused("none")

\* A clock tool's times, if it says any, are later than now.
Next ==
    \/ \E exits \in SUBSET {"stop", "target"}, whole \in BOOLEAN : SubmitOrder(exits, whole)
    \/ GetOrder
    \/ \E capability \in {"account", "positions", "quote", "bars"} : Read(capability)
    \/ \E now \in Times, open \in BOOLEAN :
           \E opens, closes \in {0, now + 1} : GetClock(now, open, opens, closes)

Spec == Init /\ [][Next]_vars

-----------------------------------------------------------------------------
(* Whatever tools the broker lists and in whatever order, with previews    *)
(* and replacements that take the same parameters among them, an order     *)
(* goes only to a tool that places orders, with its symbol, quantity, side *)
(* and every exit asked for each in a parameter of its own; and asking     *)
(* what became of an order never reaches a tool that places one.           *)
OrdersReachThePlacementTool ==
    /\ call.op = "submit" /\ call.tool # NoTool =>
           /\ call.tool.kind = "place"
           /\ {"symbol", "qty", "side"} \cup call.exits = DOMAIN call.args
           /\ \A a, b \in DOMAIN call.args : call.args[a] = call.args[b] => a = b
    /\ call.op = "status" => call.tool.kind # "place"

\* The session begins or ends at slot u.
Opens(u) == InSession(u) /\ ~InSession(u - 1)
Closes(u) == InSession(u - 1) /\ ~InSession(u)

(* The times of the weekday clock are true of it: the session next opens   *)
(* at next_open and next closes at next_close, over nights and weekends,   *)
(* and it is open exactly when it closes before it opens.                  *)
NextOpenOpens ==
    call.op = "clock" /\ ~call.stated =>
        /\ call.tool = NoTool => call.is_open = (call.next_close < call.next_open)
        /\ Opens(call.next_open) /\ \A u \in call.now + 1 .. call.next_open - 1 : ~Opens(u)
        /\ Closes(call.next_close) /\ \A u \in call.now + 1 .. call.next_close - 1 : ~Closes(u)
=============================================================================
