-------------------------- MODULE MCRobinhoodTools --------------------------
\* The catalogue of tests/test_robinhood_mcp.py with five more tools; any of
\* those that could be mistaken may be missing, forwards or backwards.
EXTENDS RobinhoodTools

Tool(kind, is, has, params) ==
    [kind |-> kind, is |-> is, has |-> has, said |-> {}, params |-> params,
     integer |-> FALSE, profit |-> FALSE]

Catalogue == <<
    Tool("read", {"account"}, {}, {}),
    Tool("read", {"positions"}, {"position"}, {"symbol", "qty"}),
    Tool("read", {"quote"}, {}, {"symbol"}),
    Tool("order", {"get_order"}, {}, {"order_id"}),
    Tool("place", {"place_order", "place"}, {},
         {"symbol", "quantity", "side", "stop_price", "take_profit"}),
    Tool("hours", {"hours"}, {}, {"is_open"}),
    Tool("bars", {}, {"bar"}, {"symbol", "timeframe", "limit"}),
    [Tool("place", {"create_order"}, {"create"}, {"symbol", "quantity", "side", "order_id", "limit_price"})
        EXCEPT !.said = {"place"}, !.integer = TRUE, !.profit = TRUE],
    Tool("cancel", {}, {}, {"order_id"}),
    Tool("orders", {}, {"get_order"}, {"symbol"}),
    Tool("preview", {}, {}, {"symbol", "quantity", "side", "stop_price", "take_profit"}),
    Tool("replace", {}, {"place_order", "place"}, {"symbol", "quantity", "side", "order_id"})>>

Plain == {tool \in ToSet(Catalogue) : tool.is \cap {"account", "quote"} # {}}
Kind(k) == {tool \in ToSet(Catalogue) : tool.kind = k}
Named(name) == {tool \in ToSet(Catalogue) : name \in tool.is}

\* preview_order comes with a tool that places, replace_order with place_order:
\* create_order alone would not score better.
Offered(S) ==
    /\ Kind("preview") \cap S # {} => Kind("place") \cap S # {}
    /\ Kind("replace") \cap S # {} => Named("place_order") \cap S # {}

Listed(S) == SelectSeq(Catalogue, LAMBDA tool : tool \in S)
MCListings == UNION {{Listed(S), Listed(S \cup Plain), Reverse(Listed(S \cup Plain))} :
                         S \in {T \in SUBSET (ToSet(Catalogue) \ Plain) : Offered(T)}}
\* Friday before, in and after the session, Sunday, and Monday before it and at
\* its opening; a day has four slots.
MCTimes == {16, 18, 19, 24, 28, 29}
=============================================================================
