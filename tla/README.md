# A verification of day-trader

`day-trader` lets a language model trade a brokerage account. A scheduler opens
a cycle every few minutes of the session; a cycle reads the fills back, builds
a context, lets the model talk to tools, and every order the model asks for goes
through one function, `execution.place_order`, which evaluates sixteen risk
checks and only then talks to the broker. Everything that must survive a
restart is in SQLite (WAL, every statement its own commit).

The modules here model what decides whether an order reaches the broker and what
is remembered of it (`risk/`, `execution.py`, the tables and counters of `db.py`,
and the broker, the clock, the operator and the crashes around them); the life of
a cycle and the conversation in it; the way fills and exits come back into the
tables and the report; the control panel's start and stop of the loop; the opening
range as the scanner shows it and the backtest trades it; and the adapter that
guesses what a broker's tools do. All paths below are relative to
`src/src/trader/` unless they name another directory.

## 1. Inventory

| part | state | operations | talks to |
|---|---|---|---|
| risk layer (`risk/`) | none (pure) | 16 checks, `evaluate` | called by the order path |
| order path (`execution.py`) | none of its own | `place_order`, `reconcile_fills`, `record_bracket_exits`, `build_proposal` | database, broker, risk layer, alerts |
| database (`db.py`) | `cycles`, `decisions`, `risk_events`, `fills` columns, `flags`, `account_snapshots`, `position_snapshots`, `theses`, `prompts` | one commit each | every process |
| cycle context (`state.py`) | `CycleContext`, frozen, replaced by `refresh_cycle_context` | build, refresh, render | database, broker |
| cycle (`cycle.py`, `agent.py`) | the running row of `cycles` | `run_cycle` | all of the above |
| model loop and tools (`llm.py`, `tools.py`) | message list, counters, `ToolContext.executions` | tool rounds, budgets, order and thesis tools | order path, broker reads, theses |
| scheduler, alerts, startup | APScheduler job, `logs/heartbeat.json` | `run_scheduler`, alerts, orphan reconciliation | cycle |
| broker (`broker.py`, `brokers.py`) | the real account: orders, legs, positions | submit, cancel, read | order path, context, tools |
| command line (`cli.py`) | none | `run`, `cycle`, `reconcile`, `kill`, ... | all |
| dashboard (`dashboard.py`) | PID file of the loop | start, stop, kill switch, reconcile | database, loop process |
| scanner, backtest (`scanner.py`, `backtest.py`) | none | opening range, regime, table of the prompt; simulated trades | market data |
| evaluation, replay, critique | none | pure algorithms over rows | database, market data |
| Robinhood adapter (`robinhood_mcp.py`) | MCP session, capability map | discovery; submit, order status, reads, clock | MCP server |

**What is hard here.** One process acts, but what it acts on is shared: orders
fill and exits fire while it thinks; an order is at the broker before its row
is written, and a crash or a lost reply in between loses it to the counters;
the context is a snapshot, refreshed after an order but only in part (its time
and its market clock stay those of the cycle's start); two flags stop trading
and are read at one moment and enforced at another; caps are checked order by
order against filled positions while orders are still working; `trader cycle`,
`trader reconcile` and the dashboard write beside the loop; the model may read an
error for an order that was executed; the panel knows its loop only by a number in
a file. The full list, each at its line, is `hazards` in `PROJECT.json`.

**What makes each part correct.**

* Risk layer: nothing that is not a number passes; advice given with a
  rejection ("size down", "flatten first") works; no entry rule stops an exit.
* Order path and counters: the rate limits and one-shot-per-name hold of what
  is on record; a halt is on record before the rejection that caused it and
  holds for the day; the kill switch lets at most one order slip; exits are only
  taken down for an approved reduction; an order loses its row only by a mishap;
  single-order checks add up to a bound on the book.
* Cycle, scheduler: every opened cycle is closed once, after crashes too, and
  the loop comes back.
* Reconciliation: each fill and each exit gets one row, and gets it at last.
* Model loop: whatever is held has a thesis for the next cycle to judge it by, and
  what is gone loses it; a cycle on record as idle sent nothing; budgets bound the
  text; the panel's account and positions are of one book.
* Dashboard: one loop at most, the one the PID file names; what an answer says is so;
  every request ends.
* Scanner and backtest: they see one breakout at one bar; a bar that is still forming
  decides nothing; longs and shorts mirror one another; a loss is within the risk.
* Robinhood adapter: where tools look alike an order reaches one that places orders, with
  everything it asks for; a status request never does; the fallback clock's times are those of the
  next session.
* Round trips: shares are conserved.

## 2. Modules

| module | models | needs |
|---|---|---|
| `RiskChecks` | the sixteen checks and `evaluate`, as operators | - |
| `RiskReview` | one verdict over any proposal and risk state; properties of the checks together | `RiskChecks` |
| `OrderLedger` | abstract: a log of orders that grows only where all limits leave room *now* | - |
| `OrderGate` | `place_order` in a cycle, with tables, broker, operator, clock, crashes | `RiskChecks`, refines `OrderLedger` |
| `CycleBook` | abstract: the cycles table; a row is opened, perhaps marked interrupted, and given its outcome once | - |
| `CycleLoop` | `run_cycle` with every early return, run by loops and one-shots on one table, with stops, crashes and restarts | refines `CycleBook` |
| `Reconcile` | `reconcile_fills` and `record_bracket_exits`, run by any number of processes while orders fill | `RoundTrips` |
| `RoundTrips` | `evaluate._match_round_trips`, as operators | - |
| `ToolLoop` | a cycle around its orders: snapshots, the orphan sweep of theses, the conversation and its budgets, the order tool with its theses | - |
| `LoopProcess` | start and stop of the loop by the panel's threads, system call by system call | - |
| `OpeningRange` | closed bars, range, position to it and regime (`scanner.py`), as operators | - |
| `OrbTrade` | setup, entry, exit and result of a day's trade (`backtest.py`), as operators | `OpeningRange` |
| `SessionDay` | a day's bars as they come in, the scanner looking on and the backtest looking back | `OrbTrade` |
| `MarketClock` | the weekday clock of `broker.py`, as operators | - |
| `RobinhoodTools` | discovery of the tools, binding of arguments, every request | `MarketClock` |
| `OrderGateProofs` (with `OrderLedger`), `RiskReviewProofs`, `CycleLoopProofs`, `ReconcileProofs`, `ToolLoopProofs`, `LoopProcessProofs`, `SessionDayProofs`, `RobinhoodToolsProofs` | theorems | the module they name |
| `MCOrderGate`, `MCRiskReview`, `MCCycleLoop`, `MCReconcile`, `MCToolLoop`, `MCLoopProcess`, `MCSessionDay`, `MCRobinhoodTools` | instances for TLC | |

### How OrderGate corresponds to the code

| variable | in the code |
|---|---|
| `rows` | `decisions` rows with a `broker_order_id`: `submitted` and `broker_exit:<parent>` |
| `refusals` | the other rows, reduced to their day and whether the loss check failed |
| `kill`, `halted` | `flags['kill_switch']`, `flags['daily_loss_halt:<day>']` |
| `orders`, `book` | the broker's orders with their exit legs, and its positions |
| `cycle`, `ctx` | the last cycle id; `CycleContext`: id, `now`, market open |
| `pc`, `draft` | where `place_order` is, and its local variables |
| `now`, `mishaps` | the clock; how many crashes, lost submissions and toggles were spent |
| `unjudged`, `leaked` | history, read by properties only |

`place_order` is cut exactly where another party can act between two of its
effects: after the verdict (`Propose`), after the exits are canceled
(`CancelExits`), after the broker answered (`SubmitAccepted`, `SubmitBounced`,
`SubmitRefused`, `SubmitReplyLost`), after the risk events and the halt flag
(`RecordRiskEvents`), and after the decisions row (`RecordSubmitted`,
`RecordUndelivered`, `RecordRejected`). A crash may come at every cut. The
verdict's own reads are one step: the process writes nothing between them, and
a fill between two of them is, for the verdict, a fill after all of them. The
context keeps `ctx.at` and `ctx.open` for the whole cycle, as
`refresh_cycle_context` does, and `Rendered` keeps the render cap, which
truncates what the risk layer sees.

### How CycleLoop corresponds to the code

| variable | in the code |
|---|---|
| `cycles` | `cycles.status` by `cycle_id` |
| `pc`, `mine` | where a process is in `run_cycle`, and its `cycle_id` |
| `alerts` | `consecutive_error_cycles` lines of the alert file, by the newest cycle at that time |
| `kill`, `crashes` | the flag; how many deaths were spent |
| `left`, `unsent` | history, read by properties only |

`Start` is `cmd_run` or `cmd_cycle` with the orphan sweep; `OpenCycle`,
`CheckKillSwitch`, `BuildContext`, `AgentRuns`, `RouteOrder` and `RouteRaises`
are the parts of `run_cycle` between its early returns, `Close` is `finish`, and
`Alert` the look at the newest rows that follows an error in a commit of its
own. `OrderGate` is what happens inside `AgentRuns` and `RouteOrder`: there the
cycle is an id and a context, here the order path is its outcome.

### How Reconcile corresponds to the code

| variable | in the code |
|---|---|
| `orders` | the broker's orders, each with its stop and take-profit nested in it, as `get_order` returns them |
| `decisions` | `decisions` rows with a `broker_order_id`, in the order of their ids; `status` is `final_status`, `null` when NULL |
| `pc`, `todo` | where a reconciler is, and the rows its last query returned that it has not visited |
| `recordedParents`, `known` | the local variables of `record_bracket_exits` |
| `mishaps` | how many failed reads and deaths were spent |

A step is one row: reading the order and recording its answer may be one step
because only terminal answers are recorded and those do not change. The two
writes of an exit are two steps (`RecordExit`, `RecordExitFill`), with the row
NULL in between, and the two sets of `record_bracket_exits` are read once, at
`StartExits`. The broker fills share by share: an order or a leg can be half
filled when it is canceled. `canceled` stands for every terminal status but
`filled`. `PlaceOrder` is a `place_order` that passed its checks, of which the two
that look at the side are kept: `no_unintended_short`, off as `risk.toml:98` ships it
(`AllowShorts`), and `no_pyramid`. Both compare with filled shares, so orders that
work may take a position through zero. Buys and sells may carry exits, the name's
other orders are canceled first where the new one reduces the position, all or some
of them (`cancel_open_orders` stops at the first failure), and the broker may refuse
the order after that. Days pass unseen, so a name may be opened again. What
`place_order` can lose, a reply or its row, is the subject of `OrderGate`; there, in
turn, the exits recorded at a cycle's start are one step. `Usable` and
`MatchRoundTrips` are what `trader evaluate` makes of the rows in any state, and
`Skipped` the shares of sells that met no lot there.

Abstractions of `OrderGate`: money and quantities are integers and, in `OrderGate`, every
price is one unit (so `FreshBookWithinCaps` says nothing of prices that move); a fill is all or nothing; NaN is a constant that fails every
comparison; a trading day is `DayLen` ticks of which `OpenTicks` are open;
symbols are model values, so upper-casing is left out.

### How ToolLoop corresponds to the code

| variable | in the code |
|---|---|
| `held`, `working` | the broker's positions, and the unfilled shares of accepted orders, in shares |
| `thesis` | the ticks since the open row of `theses` of a name was written, up to the grace window of `close_orphan_theses` |
| `accountOf`, `lots`, `current` | the book the newest `account_snapshots` row belongs to, the newest `position_snapshots`, and whether the two are of one cycle |
| `pc`, `shown` | where `run_cycle` and `AnthropicAgent.run` are; `tc.ctx.positions`, render cap included |
| `order` | the locals of `_place_order` between the receipt and the refresh |
| `round`, `blocks`, `chars` | the iteration, the tool calls of the response still to be answered, `tool_result_chars` |
| `attempts`, `executions` | `tc.orders_attempted`, the length of `tc.executions` |
| `outcome`, `crashes` | what the cycle's row says; how many deaths were spent |
| `sent`, `notes`, `torn`, `excused` | history, read by properties only |

The two snapshots, the sweep, each tool call, and within the order tool the receipt
and the refresh that follows it are steps of their own, so a fill, a stop, an expiry or
a crash may come between any two. What a tool returns is a length. The verdict and the
rows of an order are left open: `OrderGate` has them, and its `Propose` to
`RecordSubmitted` is one `OrderExecuted`, `OrderRejected`, `OrderFails` or `ReplyLost`
here. The broker fills share by share and holds no order against another of the same
name. `excused` collects, by name, the mishaps that may part a position from its
thesis; the comment at `HeldNamesHaveTheses` lists them. They are how the code behaves;
the property is that there are no others.

### How LoopProcess corresponds to the code

| variable | in the code |
|---|---|
| `proc` | what the system has at each PID: nothing, a loop, a zombie, another program |
| `children` | what the running panel forked and has not waited for |
| `file` | `logs/trader.pid` |
| `pc`, `pid`, `answer` | where each request thread is, the PID it works on, what the last request answered |
| `strangers`, `crashes` | bounds: PIDs given to other programs, deaths of the panel |
| `disturbed` | history: a start ran beside another request, or the panel died between fork and file |

A step is a system call with what the code does until the next. A loop lives through a
restart of the panel (it has a session of its own) and is then no child of the new one.
`ThreadingHTTPServer` serves two requests at once and `LoopProcess` takes no lock, so
two starts do start two loops: no document denies it, and the properties speak of the
time since nothing overlapped (`Settle` begins it anew once no loop is left).

### How SessionDay corresponds to the code

`bars` is the day's list of bars by slot (a slot without a trade has none), `now` the
slot it is, and `signal` the history of what `compute_row` showed. A bar begins, widens
and closes; the scanner looks as it closes. That is a cycle every five minutes, the
default: `config.py:85` allows 1 to 60, and a loop that looks less often may show a
breakout later than the backtest enters, or not at all. The position to the range is
modelled, not the columns `or_high` and `or_low` of the table: those come from the third
bar while it is still forming (`scanner.py:117`). `OpeningRange` and `OrbTrade` follow
`_opening_range`, `_closed_bars`, `compute_row`, `classify_regime`, `_compute_orb`,
`_find_entry_bar`, `_simulate_trade` and `_trade_for_day`. A price that may fall on a
half (the middle of the range, the stop, the target at one and a half heights) is
written twice over; the range's height is compared in hundredths of a percent, as the
code's constants are. The regime is the traded symbol's own, as the backtest of QQQ has it.

### How RobinhoodTools corresponds to the code

`listed` is what `tools/list` answers, `caps` is `self._caps`, `call` what the newest
request became. A tool is a record: what it really does (`kind`, unseen by the adapter),
the words its name is or contains, those its description says, its parameters.
`Score`, `Best` and `MapCapabilities` are `_score` and `map_capabilities` with their
hints, order and thresholds; `Binds` and `Arguments` are `bind_order_args`, which looks at
the names of parameters and not at which of them a tool requires. Which tool really places
orders nobody tells the adapter, so the model assumes what the score relies on and no more:
`LookAlikesAreOutranked`, that a tool which takes symbol, quantity and side without placing
anything (a preview, a replacement) is listed only beside a placing one that scores better,
and `PlainlyPlaces`, how placing tools are named. Sessions that end
and begin again keep `caps`. `NextOpen` and `NextClose` are `weekday_rth_clock`.

## 3. Runs

| run | instance | shows |
|---|---|---|
| `gate_rates` | 2 names, limits 2/hour, 3/day, 2/cycle, 2 cycles, 4 orders, a day of 3 ticks and the first of the next, 1 crash | types, rate limits, one opening a day, refinement of `OrderLedger` |
| `gate_halts` | 1 name, 2 cycles, 2 orders, reports {flat, loss, unknown}, 1 crash, 1 lost submission, 2 toggles | halt and kill switch, lost orders |
| `gate_book` | 2 names, cap 2, sizes 1-2 with and without exits, 3 orders, 1 lost submission, no crash | caps of the whole book, protection of exits |
| `risk_review` | sizes {NaN, 0..3}, exits {none, NaN, below, at, above}, books -3..4 by {0, 2}, P/L {0, -2, unknown} | the checks together |
| `cycle_loop` | a loop and a one-shot, 3 cycles, threshold 2, 2 crashes | types, refinement of `CycleBook`, alerted streaks, and that no row says running for ever |
| `reconcile` | 1 reconciler, limit 1, 2 orders of 1-2 shares, bought or sold, plain or bracket, shorts allowed, 2 failed reads or crashes | types, final fills, one row per order, the FIFO report, and that every order and exit is recorded at last |
| `tool_loop` | 1 name, 2 shares, a grace window of 1 tick, 2 orders a cycle, 1 round of at most 3 calls, room for 2 results, 1 crash | types, theses of what is held, idle cycles that are idle, the text's budget, the panel's book, and that stale theses close |
| `loop_process` | 2 threads, 3 PIDs, 1 other program, 1 death of the panel | types, one loop, true answers, and that every request ends |
| `session_day` | 7 slots, 5 shapes of bars, ranges and periods of 3 bars, entries before slot 5, flat from slot 6 | scanner against backtest, mirror, losses, no look-ahead |
| `robinhood` | subsets of twelve tools, look-alikes beside a tool that outscores them, forwards and backwards; six moments from Friday to Monday | where requests go, the fallback clock |
| `reconcile_twice` | as `reconcile`, with 2 reconcilers and 1 order | a documented claim violated (section 5) |
| `orb_lookahead` | as `session_day` | a documented claim violated (section 5) |

The largest are `gate_book` (1.6 million distinct states), `session_day` (620,000),
`gate_rates` (450,000), `tool_loop` (330,000), `reconcile` (270,000) and `loop_process` (250,000).

*Why the bounds are enough.* Each limit can be reached and exceeded by one:
four orders against limits of two and three, three against caps two wide, two
against a switch that may leak one. The
hour window is one tick and the day three, so a cycle that starts on the last
open tick can count over a window that ended before its order is recorded, and
over a day that is not the row's. Two cycles are the least that separate the
cycle limit from the others and a restart from a fresh start. One crash at any
cut reaches every single-fault state; the proofs below cover every number.
`gate_book` needs no crash: rows play no part in its properties, and
one cycle with three orders reaches a full book, a reduction and an overshoot.
`cycle_loop` has the least of everything with which one streak can
replace another, two cycles be open at once and close in either order, and a
sweep meet a live and a dead cycle together.
`reconcile` has the least with which a limit bites (two orders against a limit of
one), a lot is matched in parts and lots queue (two buys working at once, of two
shares each), a partly filled leg is canceled by the other, a short is opened, covered by
an order or by its exit and reversed, and an order is sent after some of the cancels
failed. Two mishaps are a read that fails, or a death, twice over or one after the other. The code's limits
are 50 and 200; with DAY orders and the daily order limit they are far from
reached in a session, and the properties say what happens when they are.
`tool_loop` has the least with which a position is built, reduced and flattened by
orders and by exits, a result is replaced by the note, and the order limit refuses a
call. A name's thesis depends on no other name, so one is enough for theses, and the
shares of two names on the panel differ in nothing from those of one. A second round adds
a counter's value; the same run with two rounds of two calls (650,000 states) shows
nothing else, and the proofs cover every number of rounds, calls, names and shares.
`loop_process` has the least with which a PID comes back as another program while the file
still names it and a third process is started beside it; two threads meet in every pair of steps.
`session_day` has a range, an entry bar, a bar for a stop or a target and one for the
flatten, with bars that stay in the range, close outside of it and only poke out of it;
two whole periods of the regime filter fit, as they must for it to say anything. Prices are
near 200, so that a range of these shapes may be too flat, tradable or too wide by
the code's own percentages.
`robinhood` takes its catalogue from `src/tests/test_robinhood_mcp.py` and adds what may be mistaken
for something else: a second tool that places orders, one that cancels, one that lists, a
preview and a replacement that take all an order needs. The preview comes with either of
the placing tools, the replacement with `place_order`, before or behind it in the list.
The names are interchangeable, so `gate_rates` and `gate_book` use symmetry
(safety properties only).

*Deadlock.* The runs of `OrderGate`, `RiskReview` and `SessionDay` say `CHECK_DEADLOCK FALSE`: with the
bounds on time, cycles and orders spent, the instance stops; `RiskReview` ends with its
verdict and `SessionDay` with the day. The others are checked for deadlock: a process can
always be stopped or started, another run of the reconciler, another cycle or another
request can always begin.

*Fairness.* `CycleLoop`, `Reconcile`, `ToolLoop` and `LoopProcess` have some. In `CycleLoop`, a process that holds a cycle goes on:
`AnthropicAgent.run` counts its tool rounds, and a call to the model or the
broker is taken to answer or to raise, as `cycle.py:152` has it ("a broker
timeout fails the cycle loudly"). The code sets no timeout of its own on the
brokerage client, so this is an assumption about that client. A loop that is
down is started again, as `deploy/` sets up (`Restart=always`, `KeepAlive`); a loop started from the dashboard has
nobody to do so, and its rows wait for the next start by hand.
Nothing else is assumed to happen: not the cron trigger, a one-shot, a stop or
an end of the kill switch. `EveryCycleCloses` excepts a row whose process left it
while all loops were up, which no code looks at before the next start.
In `Reconcile`, reconcilers go on running, as every cycle calls `reconcile_fills`
unless the kill switch is engaged, and an order ends, as every order is a DAY
order (`broker.py:640`). Legs need not ever fill. Reads fail a bounded number of
times: a broker that never answers lets nothing be recorded.
In `ToolLoop`, the scheduler opens cycle after cycle, a broker does not fail to answer
for ever, a cycle that holds its context goes on (as in `CycleLoop`) and time passes. The
kill switch is off in the long run: a cycle returns at it before it reads a context or
sweeps a thesis (`cycle.py:125`), so while it stays on no stale thesis closes.
In `LoopProcess`, the request threads run and their sleeps end; no process need ever
exit, so a stop may not wait for one: `stop` counts to three seconds and kills.

## 4. Proofs

Assumed of the constants: `ConfigAssumption` (what `RiskConfig.__post_init__`
accepts), `SentinelAssumption` (NaN, None and Unknown are not integers),
`GateAssumption` (proposals are proposals, bounds are naturals, a day is not
empty), `LoopAssumption` (a process is a loop or a one-shot, not both; the
threshold is positive), `ReconcileAssumption` (the limit is positive, shorts are allowed or
not, exits are stops and targets, bounds are naturals),
`ToolAssumption` (lengths and limits are naturals, a response has room for a call), the
`LoopAssumption` of `LoopProcess` (there is a thread, no PID is the missing one),
`DayAssumption` (bars have low, close and high in that order, above zero; a range and a period
have bars) and `ToolsAssumption` (times are naturals; a tool that places orders sounds like it
and is not named like a status request; where another takes symbol, quantity and side, one that
places outscores it). The last is what the adapter's guessing relies on: with a catalogue that
breaks it an order goes astray (section 5). `PlainNamesOutscore` proves of the weights that a
plain name is enough. Nothing else, so the theorems hold for every limit, every window, every
number of names, cycles, crashes, orders, threads, PIDs and bars.

* `GateInvariant`: `IInv` is inductive. `TypeOK` alone says nothing of an order
  in hand. `RoomLeft` is the heart: from the verdict to the row, the counts the
  verdict saw over windows opened at the cycle's start are still those of the
  table, since only this process adds submitted rows. `Stamps` (no row is later
  than the clock, the context is not in the future) turns those windows into the
  ones that count when the row is written: a window that starts earlier and
  never ends contains the hour, the day or the cycle of the new row. `InHand`
  says what is in hand at each `pc`, `Halting` that an approved order means a
  day not halted, and `Killing` that a switch once engaged is seen by the next
  verdict. TLC checked `IInv` on `gate_rates` and `gate_halts` before it was proved.
* `GateTypes`, `BreachesAreLatched`, `KillSwitchLeak`, `HaltedDaysSendNothing`
  follow from it.
* `RejectionsKeepExits` needs, beside `IInv`, that an order approved with its exits still up
  reduces the position; only `CancelExits` takes exits down, and `OpenParts` lists none of
  another name.
* `FreshBooksFit` is about the book that sixteen checks of single orders add up to. Its
  invariant `FreshBook` says of a book no verdict has missed that it is within the caps
  (`Bounded`); that at most one order works, which keeps it so when it fills (`WorkingFits`);
  and that exits stand for the whole of one position (`GuardedHeld`), so that one which fires
  leaves the name flat. `Judged` carries the verdict to the submission. The exposure is a
  sum over a set: `ExposureMoves` proves that it moves with one name by that name's share, by
  a smallest counterexample along the order in which the sum takes the names. TLC checked
  `FreshBook` on `gate_book` first, and found a run nobody had thought of: section 5.
* `LostOrdersAreMishaps` counts the broker's orders that no row names. A submission adds one
  and a row takes one away, so between the two the process has a claim of one, which
  only a crash leaves behind (`Recorded`).
* `GateImplementsLedger`: each step of the gate is a step of the ledger or
  leaves it alone. `LedgerRateLimits` and `LedgerOneOpening` are proved once of
  the ledger, and carried over: `GateRateLimits`, `GateOneOpening`.
* `LoopInvariant`: types, `Owners` (a cycle in hand has no outcome yet and one
  owner) and `StreaksAreAlerted`, which is inductive as it stands: an error
  that closes a streak leaves its process about to look. `Owners` is what lets
  `close_cycle` do without a guard on the row's status: `LoopImplementsBook`.
* `ReconcileInvariant`: types, `RowsExist` (a row is of an order the broker
  knows, and the leg of an exit's row has filled), `ExitInHand` (between the two
  writes of an exit the row in hand is that exit's) and `RecordedIsFinal`. The
  broker's steps are summed up once, in `OrdersAdvance`: what is over stays as it
  is. `FillsAreFinal` follows, for any number of reconcilers.
  `OneReconcilerOneRow` needs `ExitsKnown`, that the exit pass knows every exit
  on record, which is what a second reconciler breaks; it assumes that all
  reconcilers are the same one, and the run `reconcile_twice` shows that the
  assumption is needed.
* `SharesAreSplit` is about what `evaluate` makes of the rows, whatever has been read back.
  A fold goes through a sequence as a loop does (`FoldIsLoop`: state by state, each from
  the one before), and a sum over a set does not depend on the order in which it is taken
  (`TalliesAgree`), so it grows by what a step adds (`AmountGrows`). `TakeLotTakes` and
  `SellKeeps` then say of one sell that it moves shares from the lots to the trips, from the
  front of a queue that stays in order, and `ReportGoesOn` that every row keeps `Kept`. What a
  fold computes is here a matter of its steps, by a smallest counterexample, so that no
  induction over data is needed.
* `InventoryIsReported` sets what the rows have moved beside what the orders have, with one
  reconciler as for `OneReconcilerOneRow`: two rows of one exit would count its shares twice.
  Its invariant `SInv` says that each order has its row, each row the side of its order or,
  for an exit, the other one (`Matching`), and that what all rows have moved (`Moves`) is what
  all orders have, less the exits without a row (`Booked`). A fill, a cancel, a new order and
  a recorded exit each move both sums alike (`OrderMoves`, `OrderJoins`, `ExitJoins`). Of the
  report, `TakeLotBought` and `SellBuysNothing` say that a sell moves shares from the lots to
  the trips and no buy is touched, so that what is open and what is traded are together what
  was bought, at every row (`ReportCounts`). What the sells found no lot for is then all that
  parts what the report holds open from the position, which is why the property counts it
  (`Skipped`): with shorts allowed it is not zero (section 5). The partial fills of canceled
  orders are what `WholeFills` sets aside: `evaluate` reads none of them. TLC checked `SInv`
  before it was proved.
* `NaNIsRejected`, `FlattenIsNeverSizedOut` and `SmallerOpeningsPass` hold of the checks under
  every configuration. `SmallerOpeningsPass` rests on `SmallerCosts` and `SmallerRisks`, which
  say that notional and risk grow with the quantity, and both on `ExposureNat`.
* `ToolLoopTypes` needs `NetOK`, that a name's shares with its working ones stay within
  bounds, or a fill would leave them. `OutputIsBounded` is inductive with the types.
  `PanelIsOfOneBook` needs `SnapshotsOfOneBook`, what each `pc` has written of the two
  snapshots. `NoActionIsNone` needs `Counted`: while the conversation lasts, what was sent is
  within the executions listed, and those within the attempts.
  `HeldNamesKeepTheses` needs `SentOK`, what the order in hand was decided on, for the step in
  which the thesis follows from the position shown rather than from the broker's.
* `OneLoopAtMost` and `RequestsAnswerTruly` follow from `SoleInv`: while nothing overlaps, a
  loop is named by the file or by the thread about to write it, and a thread that stops
  holds the one PID a loop can have. Both hold for any number of threads and PIDs.
* `TradeStaysWithinRisk` holds of any day of sound bars, and `LossesAreWithinRisk` of every
  day as it comes in. `ScannerAndBacktestMeet` needs that a signal lies after the range and
  before now (`Watch`): as a slot ends the newest bar is the only one the backtest may
  add, and the scanner looks at just that one. `NothingLooksAhead` compares two states of
  one slot, which have the same closed bars, and the days before and after a slot's end,
  of which the second only adds later bars to choose an exit from. `ShortsMirrorLongs` compares
  a day with its image: the highest of some bars is the mirrored lowest of the image's
  (`ExtremesMirror`), so regimes, entries, stops, targets and exits correspond one by one
  (`RegimeMirrors`, `TradeMirrors`). `Max` and `Min` are
  choices: that a non-empty set of slots has a largest and a smallest member is proved
  from the well-foundedness of the naturals (`LargestOf`, `MaxOfSlots`, `MinOfNats`).

* `OrdersArePlaced`: what the adapter remembers is what the tools listed map to (`Remembers`),
  the write capability is taken first and from tools of which none is used, and nothing
  listed scores better than what is taken (`PickFacts`), so what takes orders without placing
  them is not (`Mapped`);
  `PlacingIsNotReporting` adds up the points: a tool that sounds like placing reaches the
  threshold of a status tool only by hints its name lacks. `ClockIsRight` follows from
  `WeekdayClock`, day by day for every length of a session and a day; nothing of it depends on
  what the state was before.

Only model-checked: the liveness properties. Liveness, ENABLED and RECURSIVE operators stay
with TLC in any case.

## 5. Where code and documents disagree

Two runs show it:

* `reconcile_twice`: the docstring of `record_bracket_exits` says one decision
  per filled child. The loop, `trader reconcile` and the dashboard's button check
  before they insert, but not together with it, so two of them at once can
  record one exit twice, and the report sells its shares twice.
* `orb_lookahead`: `backtest.py` says it is honest about look-ahead. `backtest_orb`
  classifies the regime once, at the end of the session, and filters the entries of the
  morning by it.

Others were met on the way; no run is about them:

* `src/README.md:367`: a second full-cap name is rejected. The verdict reads filled
  positions, so it is not while the first order is working (`FreshBookWithinCaps`
  speaks of verdicts on a book that has not moved). Nor is it where exits make the second
  one: an order that reduces a position may carry a stop of its own. A name is sold with one,
  another is bought into the room this left, the stop fires and buys the first name back,
  past the cap, by an order no check saw.
* `src/README.md:368`: an oversized position can be unwound by sales. A sale that leaves
  more than the cap is rejected; a full flatten is not (`FlattenNeverSizedOut`).
* `evaluate.py:177`: a sell that finds no buy was of a position "opened before the window
  started". As `risk.toml:98` ships, it may as well open a short, inside the window. The sell
  is skipped all the same, and the buy that covers the short (an order, or one of its exits)
  becomes a lot: the report's "still open" line (`evaluate.py:400`) shows shares nobody holds,
  and a later sell is matched with it. `ReportedInventory` therefore counts the skipped shares.
  Shorts disabled do not rule it out: `no_unintended_short` (`checks.py:257`) compares with
  filled shares, so two sells that work together may take a position below zero.
* `execution.py:316`: when the cancel of resting orders fails and the broker rejects the
  order, "the position keeps its resting exits". `cancel_open_orders` stops at the first order it
  cannot cancel; those before it are gone.
* `src/README.md:251`: nothing alerts you of errors in a row. `check_consecutive_errors`
  (`alerts.py:68`) does; the sentence is older than the code.
* `robinhood_mcp.py:180`: `_score` tells tools apart by their names. `replace_order`, which
  has `place_order` in its name, outscores a placing tool called `create_order` with the same
  parameters, and a `preview_order` listed without a placing tool is taken for one, for the
  parameters it takes. No document names a catalogue it must work with; `ToolsAssumption`
  leaves these out.
* `models.py:91`: a name is closed to entries when it had an order or an exit
  *today*. The row of an exit is stamped when it is read back.
* `db.py:265`: rows left by a crash or kill are marked interrupted. `trader cycle`
  beside a running loop marks its live cycle too, until that cycle ends.
* `broker.py:638`: no order outlives the session its state was evaluated in. The market
  clock is read once a cycle, so an order sent after the close works the next day.
* `tools.py:423`: a malformed call becomes an error the model can read. A limit that is
  not a number (`tools.py:103`) raises what `dispatch` does not catch and fails the cycle
  (`Malformed` in `ToolLoop`).

## 6. Not modelled

* `replay.py`, `critique.py`: offline reports over stored cycles; they change no state.
* Rendering of contexts, prompts and pages, and parsing of `risk.toml`, of the model's
  answers and of broker payloads; OAuth of the Robinhood adapter. `RobinhoodTools` begins
  where the tools are listed and ends where a tool is called.
* VWAP, volume pace and the ranking of `scanner.py`, which no rule reads; the sums, the
  fixtures and the other symbols of the backtest's report; returns and the benchmark of
  `evaluate.py`.
* The cron trigger and the heartbeat file of the scheduler: APScheduler's clock is
  outside this code, so `CycleLoop` leaves open when cycles start.
* A check that raises (the engine counts it as failed), and `risk_events`, which nothing
  reads back.

`components` in `PROJECT.json` says for each part what is in and what is out.

## 7. What could follow

1. A second process in `OrderGate`: two `place_order` calls on one set of counters. The
   rate limits would then hold only up to one order in hand for each process.
2. The risk layer and `OrderGate` with fills in parts, as `Reconcile` and `ToolLoop` have them.
