# A TLA+ verification of PolyMarketPredictionBot

The bot is one Python process (asyncio, no threads of its own) that watches
crypto prices, lets five (strategy, asset) bots produce signals, places paper
trades on Polymarket's five- and fifteen-minute "Up or Down" markets, and
settles them when the markets close. This directory holds TLA+ modules of the
parts where something can really go wrong, TLC configurations that check them on
small instances, and proofs that TLAPS checks for every instance.

`PROJECT.json` maps every definition to the source lines it stands for. Paths
below are relative to `src/src/bot/` unless they start with `README`, `ROADMAP`
or `tests`.

## 1. Inventory

| Component | State | Operations | Talks to | Module |
|---|---|---|---|---|
| Ledger (`storage/database.py`) | `bankroll`, `trades`, `dead_letter_trades` in SQLite, one shared connection | seed, reserve and insert, deduct fee, resolve, find stale, move to dead letter | every task | `Ledger` |
| Postgres backend (`storage/postgres.py`) | the same tables behind a pool of connections | the ledger's, without the dead-letter queue | instead of SQLite | `PostgresLedger` |
| Resolver (`execution/resolver.py`) | list of open trades of the cycle | resolve cycle, dead-letter cycle, sleep | ledger, Gamma API, event bus | `Ledger`, `PostgresLedger`, `BotLoop` |
| Risk manager (`execution/risk.py`) | `_cb_cooldown` | drawdown, correlation, circuit breaker | ledger | `RiskGate`, `Ledger` |
| Executor (`execution/executor.py`) | `_WindowTracker._counts` | execute: nine checks, insertion, fee, count, event | all of the above, finder, sizer, VPN guard | `Executor` |
| Sizer (`execution/sizer.py`) | none | Kelly size from rolling statistics | ledger | `Ledger` (the cap) |
| Market finder (`market/finder.py`) | one cached market per asset | find market, entry price, elapsed fraction | Gamma API, order book | `Executor` |
| Order book (`market/orderbook.py`) | 5 s TTL cache | best ask | CLOB API | none |
| Bot loop (`main.py`) | task list, stop event | one loop per bot, background tasks, start, shutdown | everything | `BotLoop`, `Signals` |
| VPN guard, retry (`network/`, `core/retry.py`) | a cached answer, attempts | ask, try again | executor, resolver | `BotLoop` |
| Telegram (`notifications/`) | time stamps of the last minute, a lock | send | event bus, main | `Notifier` |
| Event bus, WebSocket broker (`core/events.py`, `dashboard/ws_*.py`) | handlers; clients, subscriptions, bounded queues, last snapshots | publish, subscribe, drain | bot loop, dashboard | `Stream` |
| Feeds (`feeds/`) | ages of prices, connection flags, backoff, retries | connect, tick, close, fail over, snapshot, stop | exchanges, bot loop | `Feeds` |
| Indicators, strategies (`feeds/rsi_feed.py`, `strategies/`) | candles, rolling windows, overrides | feed, evaluate, confirm, block | bot loop | `Signals`, `Indicators` |
| Composite score, regime (`strategies/`) | none | floating-point scores | bot loop | none |
| Backtest (`backtest/`, `dashboard/backtest_api.py`) | replayed bankroll, trades, windows, shuffles | replay, metrics, walk forward, Monte Carlo, evaluate all | API | `Backtest` |
| Dashboard server (`dashboard/`) | none of its own | hot swap, parameters, health, reading | selector, ledger, VPN guard | `BotLoop` (hot swap, health) |
| Reports, React dashboard, containers | none of their own | presentation, restart policy | the process | none |

What is hard here:

* **Interleaving.** Everything runs on one event loop, but every `await` is a
  scheduling point. Balances, counts, outcomes, markets, prices and clocks are
  read, awaited over, and used.
* **One connection for all tasks.** aiosqlite serialises statements, not
  transactions. A task's `commit()` makes every other task's half-done
  transaction durable, and nothing ever rolls back. On Postgres it is the other
  way round: transactions roll back, but a plain SELECT takes no lock, and a
  pool can be exhausted.
* **Failure.** Any call may raise. `run_bot` and the resolver log the error and
  go round their loops, leaving executed statements pending on the connection.
  Sockets break, close cleanly or fall silent; exchanges fail to close.
* **Stop and restart.** Shutdown cancels the tasks and closes the connection;
  `restart: unless-stopped` starts the process again with the committed tables
  and empty memory: no window counts, no cooldowns, no market cache.
* **Time.** Windows roll over between a check and the act it allows; cooldowns
  expire; markets close while they are cached; trades get stale; prices and
  answers grow old.
* **Two implementations of one thing.** Candles are built incrementally from
  ticks of whichever bot runs; the backtest has its own indicators, and its
  metrics are folds over the trade list.

What makes each component correct: the ledger pays a trade once and keeps
bankrolls sensible; a trade is decided once and in the end; the risk gate stops
what it says it stops; the executor keeps its limits per window and per market;
the feeds recover, do not call dead data healthy and serve the freshest price in
a fail-over; the indicators are those of the tick history; the gates of a turn
hold when it acts; loops go on; the broker delivers to each client a subsequence
of what was published, newest last; the backtest computes what its metrics name.

`PROJECT.json` lists the hazards one by one, at their lines.

## 2. Modules

### `TradeLifecycle`: what both ledgers promise

A trade row appears, is open, and is decided once (`WIN`, `LOSS` or `VOID`).
One step may advance several trades, because one commit may publish the work of
several tasks.

### `Ledger`: the SQLite ledger, its bots and its resolver

`live` is the state the shared connection sees and `disk` what was committed.
Each statement of `reserve_and_insert_trade`, `deduct_fee`, `resolve_trade` and
`move_to_dead_letter` is an action, since each is awaited; locals that survive
an await (`seen`, `seenPeak`, the list of trades) are in `bot[b]` and `resolver`.

| Action | Code |
|---|---|
| `Gate` | `execute` up to the size: bankroll at least 1, strategy drawdown, sizer |
| `ReserveSelect`, `ReserveUpdate`, `ReserveInsert`, `ReserveCommit` | database.py 210-240 |
| `DeductFee`, `FeeCommit` | database.py 193-199 |
| `Wake`, `Unsettled`, `Settle` | resolver.py 71-99 |
| `MarkOutcome`, `ReadBankroll`, `Credit`, `CommitOutcome` | database.py 242-268 |
| `StaleScan`, `DeadLetter`, `MarkVoid`, `CommitVoid`, `Sleep` | resolver.py 136-161, database.py 532-568 |
| `BotFault`, `ResolverFault` | any awaited call raises; the except clauses of main.py 249 and resolver.py 63, 160 |
| `BackgroundCommit` | the commit of `save_signal_state`, `record_price`, `log_risk_event`, `save_equity_snapshot`, `resolve_dead_letter` |
| `Age`, `Restart` | six hours pass; stop and start |

Abstractions: money in whole units; a stake is a pair (cost, gain if won) which
the sizer's cap admits; slippage and taker fee are inside the pair; `paid` is a
history column. The order in which the resolver visits trades is left open. A
second look at the bankroll before the size is merged with the first: only the
resolver writes that row in between, and it never lowers it, which is itself
one of the checked properties (`MoneyFlows`).

`LedgerBooks` recomputes a bankroll from the trades table, to compare it with
the one the tasks wrote. Only a run that ends in a counterexample uses it.

### `PostgresLedger`: the same ledger on a pool

A placement is a transaction of `Begin` (a connection of the pool),
`SelectBankroll`, `Debit` (which takes the row's lock), `InsertTrade` and
`CommitTrade`; `BeginFee` and `DeductFee` follow on another connection. A
settlement is `Settle`, `MarkOutcome`, `ReadBankroll`, `Credit`,
`CommitOutcome`. What a transaction writes is kept in the locals of its task and
reaches `db` when it commits, because nobody else sees it before. A fault rolls
back and releases the locks. `column` says whether table `trades` has
`indicators_json`: `_init_schema` creates it without, docker/postgres/init.sql
with it; without, every placement fails and takes its debit back.
`OtherBegins` and `OtherEnds` are the other tasks' use of the pool. The gates in
front of a placement are those of `Ledger` and are left out.

### `RiskGate`: correlation and circuit breaker

The trades of one asset as a sequence in the order of their ids; a bot signals
(`Signal`), has its exposure counted (`CountOpen`, `check_correlation` and the
look at the cooldown, which no await separates), its outcomes read
(`ReadOutcomes`), and places or gives up (`Place`, `Refuse`). `Resolve` decides
trades in any order, `Tick` lets cooldowns run, `Restart` forgets them. `late`
and `excess` are history counters: trades placed during a running streak and
during an imbalance.

### `Executor`: windows, markets, idempotency

Time is the number of the window. `CanPlace` and `Record` are the two critical
sections of `_WindowTracker`, `Lookup` and `Fetch` the finder's cache and its
search among the current, next and previous window's market, `Check` the
idempotency test of dynamic bots, `Insert`, `DeductFee`, `Publish` the rest of
`execute`. `Record` reads the clock twice as the code does, and so may clean up
the key it has just written.

### `Stream`: from an event to a browser

A publication is one step from `EventBus.publish` through `WSBridge` and
`WSBroker.publish` into every subscribed client's queue: no await lies between.
An endpoint is its coroutines. `Connect` registers a WebSocket and reads the
snapshot, `Greeted` follows when it has been sent; an SSE response is registered
by `Request` and reads its snapshot later, in `Start`. `Take` and `Sent` are the
two ends of the sender's turn, `Subscribe`, `Unsubscribe` and `ReceiverEnds` the
receiver. `gather` leaves the sender running when the receiver ends: `Spin` is
the moment it meets a queue that is gone, and while it spins (`hog`) no other
action but `SpinEnd` is possible, because nothing else on the event loop runs.
Messages are their numbers; `seen` and `due` are histories. Heartbeats may be due
after any `get_message`.

### `Feeds`: connections, ages and health

Prices are abstracted to their age, in units of a part of the 30 seconds that
data stays fresh. The primary's loop is `Connect`, `ConnectFails`, `Drop`,
`CleanClose` (the only way out of an open socket that does not clear the flag)
and `Wake` after its backoff; `AggTrade` is the one message that refreshes a
price. A secondary asks for one asset after the other: `WsTick`, `WsTimeout`,
`WsError`, `WsResume` over CCXT's WebSocket, `RestTick` and `PollMiss` over
REST, `DexTick` for DexScreener. `StopAll` is the shutdown, `IsHealthy` and
`Snapshot` what a bot reads between two awaits. `calm`, a history, is for how
long Binance could have been reached.

### `Signals` and `Indicators`: from ticks to decisions

The first half of a turn of `run_bot` has no await: it is one action, `Turn`
(`Blocked` when the selector or the composite score ends it early). It feeds the
candles of three frames, the samples of the adaptive thresholds and the
correlation filter's windows, evaluates the bot's strategy, and passes a signal
through trend confirmation and the correlation filter. `Minute` is the clock.
`Indicators` has the arithmetic, with every quotient compared by
cross-multiplication so that nothing is rounded: EMA trend, the side of 50 of
the RSI, bands, the 75th percentile between two samples, and the twins of RSI and
bands in backtest/data_provider.py. Scores, regimes and the Pearson coefficient
are verdicts that may go either way. `log` is the history of the ticks with a
price, one per asset, and `MaxTicks` bounds what all of them hold. `Old` and
`Since` are the loops that trim a deque from its old end; `Ranked` is the k-th of
the sorted samples. The names of the specification begin with S (`SInit`,
`SNext`, `SSpec`), because one module proves about it and about `RiskGate`.

### `Backtest`: replay, metrics, analyses

A request is a `job`: POST /backtest with what it wants appended, the evaluator
over all pairs, or `run_from_db` over records. `Replay` is one bar (one step of
`_replay_snapshots`: skip, size, cap, outcome, profit), `ReplayRecord` one record,
`CoreDone`, `TrainDone`, `TestDone`, `Shuffle`, `ShuffleDone`, `NextPair` the ends
of the parts, `CoreFails`, `WalkForwardFails` and `MonteCarloFails` their exceptions. `drawn` is
what the generator has produced since it was last seeded: a run that seeds it
again reads the same bars. `Metrics` is `compute_metrics`, `OverfittingScore`,
`OverfittingVerdict` and `MonteCarloVerdict` the conclusions. Amounts are
integers of a ten-thousandth of a dollar; percentiles of the Monte Carlo result,
profit factor, recovery factor and bets without Kelly (`use_kelly=False`) are left out.

### `BotLoop`: the process

`main()` is `Launch`, `Greeted`, `Cancel`, `Gathered`, `Close`. A turn of a bot is
`Idles`, `Skips` or `Signals` (the part that `Signals` looks into), `Saved` (where
the executor asks the VPN guard), `ProbeAnswers`, `LookupFails`, `Places`,
`Announces`, `Announced`; `Abandons` is any refusal or exception. The resolver's
cycle is `NextTrade`, `FetchRefused` (with_retry), `Unsettled`, `SettlesTrade`,
`ResolverAnnounces`. `HealthAsks` and `HealthAnswers` are GET /health, the other
user of the guard's cache, and `Enable`, `Disable`, `Reset`, `ResetAll` the hot
swap. Time is told in ages, which `Tick` increases: of the cached answer, of a
probe, of the tunnel's absence. `late` is a history. `Composite` is the switch
composite_confidence.enabled. A message to Telegram keeps its sender in "send",
or is dropped: which of the two is up to `Notifier`.

### `Notifier`: the rate limit of Telegram

`sender[s]` says where a task is in `TelegramNotifier.send`. `Admitted` and
`Refused` are what happens under the lock (telegram.py 61-69): stamps older than
the window are popped from the old end (`Recent`), and a message is stamped or
dropped. `Leaves` is the request going out of the client, outside the lock and up
to `SendMax` later (71-78), `Ends` its answer, or at any point its failure, timeout
or cancellation (79-85), which leaves the stamp where it is. `NTick` lets time
pass, but not while a request has been on its way for `SendMax`. `admitted` and
`left` are histories: when each message passed the limiter and when it left.
Senders are the loops of the bots and the resolver, through handlers of the event
bus that are awaited in turn, and main() with its greeting and its farewell.
What the limiter bounds is stamps: delayed requests and those stamped after the
delay may leave together, so within a whole window more than `rate_limit_per_min`
requests can leave. `TelegramRate` is what holds of the requests: the limit within
`Window - SendMax`, 50 of the 60 seconds if connecting takes at most the client's
timeout of 10 s. The bound is tight: in the run one instant more is refuted.

## 3. Runs

Passing runs:

| Run | Instance | Shows |
|---|---|---|
| `ledger` | 1 bot, 2 trades, 1 fault, 1 restart, fee 1, fair | type, high-water peak, solvency, direction of every stale write, one payment per trade, a letter for every void, refinement of `TradeLifecycle`, every committed open trade decided in the end |
| `postgres` | 2 bots, 2 trades, pool of 2, 1 fault, 1 restart, fee 1, fair | money and trades are committed together, refinement of `TradeLifecycle`, nobody waits for ever |
| `risk_gate` | 2 bots, 4 trades, streak of 2, imbalance from 2 open, 1 restart | a bot places at most one trade during a running streak, and adds at most one to an imbalance |
| `limits` | 1 dynamic bot, 3 windows, 3 trades, 1 fault, 1 restart | the cap is exceeded only by what a fault or restart forgot; one open order per market |
| `limits` | 3 senders, 2 messages per window of 4, requests delayed by up to 2, 5 messages | however requests are delayed, no more than the limit leave within the window less the delay |
| `stream_delivery` | 1 WebSocket, 1 SSE client, 2 channels, queues of 2, 3 messages, fair | order, join of snapshot and stream, only overflow loses, senders left behind end |
| `feeds` | 2 assets, a CCXT WebSocket and a polling adapter, backoff to 2, 1 retry, fair | a fail-over serves a fresh price if there is one, backoff bounds the outage, health is earned, the socket comes back, stop_all silences |
| `signals` | 4 strategies, 2 assets, 5 ticks, 3 minutes | candles are those of the tick history, no buy into a Bitcoin drop, adaptive strategies fail only on dead measures, live and backtest indicators agree |
| `backtest` | 4 bars of 3 kinds, 2 windows, 2 shuffles, 2 pairs, every job | debt of at most one gas, metrics by their definitions, walk-forward repeats itself, shuffles agree |
| `bot_loop` | 1 bot, resolver with 2 open trades, health request, answers cached for 2, 2 attempts, fair | the VPN gate saw the tunnel, a disabled bot places at most the order under way, loops and shutdown end |

Runs that end in a counterexample, each against something the repository says:

| Run | Says | Does |
|---|---|---|
| `ledger_books` | README:110 "CRUD, atomicity, stats, rolling aggregates" | a settlement and a placement of the same bot lose one of their amounts |
| `risk_release` | tests/test_execution/test_risk.py:196 "After cooldown time passes, circuit breaker allows trading again." | trips again on the same losses, for ever |
| `loop_orders` | main.py:167 "Replace confidence with composite" | the copy is built by `SignalResult`, which main.py does not import: every such signal ends in a NameError that the turn's catch-all logs, and with the default configuration no bot places an order |

The other modules follow the code as it is past that line: their bots place
orders, as the bots do with `composite_confidence.enabled = False`.

### Disagreements that need no run

Met while modelling; each can be read off the lines named.

* An outcome becomes durable without its payment when another task commits
  between database.py:250 and 264 and the process stops, whereas ROADMAP:507 says
  "recovery automatico, nessun dato perso". `PaidAtMostOnce` is the half that holds.
* executor.py:4 says "one order per window per market (idempotent)", but the check
  looks at open trades only and the finder hands out a cached market that has
  closed: a settled market gets a second order. `OneOpenPerMarket` holds.
* `_WindowTracker.record` says "return the new count" (executor.py:68) and raises
  KeyError when the window rolls over while more than 500 keys are held.
* A WebSocket sender left behind by its receiver does not suspend until its next
  heartbeat is due (ws_broker.py:177-179): the event loop stands still meanwhile.
* risk.py:90 says "Block if too many open trades in the same direction for this
  asset"; `check_correlation` only logs that (99-111).
* config.py:30 sets `bb_std` for the backtest's bands only; `run_bot` calls
  `get_bollinger` with its default of 2.0. `TwinsAgree` therefore goes one way.
* On Postgres the SELECT of a placement takes no lock, so the update lost on
  SQLite is lost there as well, although postgres.py:292 says "Atomically reserve
  bankroll and insert a new trade"; `_init_schema` creates `trades` without `indicators_json`,
  which every INSERT names.
* GET /health/deep reads the keys `healthy` and `total` (server.py:364-372) of a
  summary that has `healthy_exchanges` and `total_exchanges`
  (exchange_manager.py:242-257): it always reports a ratio of zero.
* POST /backtest "executes the backtest engine against historical data stored in
  the database" (backtest_api.py:182); the engine replays synthetic data with a
  fixed seed. `run_from_db` has no caller, counts a VOID as a loss and has no floor.
* With that seed walk-forward compares a market with itself, and Monte Carlo's
  probability of ruin, taken of the final equities only, is 0 or 1
  (`OutOfSampleRepeats`, `ShufflesAgree`).
* comparison.py:294 calls the recovery factor clamped to [0, 10]; it can be negative.

### Bounds

Two bots, or one, are enough for every interleaving property stated: each
relates one bot's row to the resolver, or one bot's check to another bot's
placement; on Postgres the second bot competes for the pool, and in the
risk gate for the limit. On SQLite a second bot's statements and commits touch
other rows, and its commit is one more `BackgroundCommit`. Two trades let one be
open while another is settled, voided or placed; one fault and one restart
reach every half-done state, because all the statements of an operation are
separate steps and the fault may hit any of them. Streaks of 2 with 4 trades
allow a streak to begin, to be joined by a late loss and to be broken. Three
windows hold a window, its successor and one more rollover inside `record()`.
Three messages overflow a queue of two, whether a fourth is in hand or not, and
one client of each kind suffices because clients share only the order of
publications and the event loop. A pool of two, with two bots, the resolver and
other tasks, is exhausted in many ways. In `feeds` a backoff of 1, 2, 2 reaches
its cap, one retry makes REST take over, two assets let one be fresh and the
other dead. In `signals` periods are shrunk (EMA 2, RSI 1, bands 2, candles 2)
so that five ticks over three minutes fill, roll and trim every window; all
ratios are as in the code. In `backtest` a bankroll of 1150 with gas of 100 is
nearly emptied by two losses; four bars give losses, wins and skips in all
orders, two windows and two shuffles every comparison. In `bot_loop` ages of 0,
1 and "older" suffice because each rule compares one age with one limit; both
users of every shared object are there. Of the notifier in `limits`, three senders are one more
than the limit, a delay of 2 in a window of 4 lets two requests wait while time
passes and two more be stamped after the first stamps are old, and 5 messages are
two limits and one more.

Deadlock is checked everywhere but in `stream_delivery` and `signals`, where
messages, connections and time are used up. Symmetry is used in `risk_gate`
and among the senders in `limits` only, whose properties are safety. `limits` checks
two components that share no variable, `Executor` and `Notifier`: in each behaviour
one of them moves and the other stays at its start, since their interleavings could
show nothing more.

### Fairness

* `ledger`: weak fairness of the resolver's steps (`while True` with a catch-all,
  resolver.py 58-65), of the background commit (`equity_snapshot_task` commits
  every five minutes inside a try, main.py 280-299) and of a trade's ageing;
  nothing of the bots or the markets.
* `postgres`: strong fairness of each bot's call and of the resolver's steps,
  because asyncpg's pool and Postgres' row locks queue those who wait; others
  give their connections back.
* `stream_delivery`: asyncio runs a sender that can go on, `get_message` times
  out, sending on a closed socket fails and `HEARTBEAT_INTERVAL` passes: one weak
  fairness per client.
* `feeds`: the event loop runs the reconnect loop, and time passes. No peer is
  fair: `Recovers` assumes reachability in its premise.
* `bot_loop`: weak fairness of each turn, of the resolver's cycle and of main's
  steps: probes, requests and messages have timeouts.
* `risk_release` assumes more than the code promises (signals keep coming, trades
  are decided), and the property fails even so; `loop_orders` assumes the fairness
  of `bot_loop`.

## 4. Proofs

Constants are arbitrary: any finite or infinite set of bots where the code
allows it, any limits, any number of trades, faults and restarts.

* `LedgerProofs`. Two inductive invariants. `TradeInv` (with `Accounted`,
  `Ahead`, `Working`) says what the resolver knows about the trade it is working
  on, that the live tables are ahead of the committed ones row by row, and that
  paid and voided trades have what they need in both. It is needed because a
  commit by anyone may freeze any half-done state. From it follow
  `PaidAtMostOnce`, `VoidHasLetter` and the step-by-step refinement of
  `TradeLifecycle`. `MoneyInv` (`Sound`, `UpToDate`, `Funded`) relates every
  stale local to the row it was read from: a bot's copy is at most the live
  balance, the resolver's at least, and a bot past the gate can still pay its
  stake and the fee. From it follow `Solvency`, `PeakIsHighWater`,
  `ResolverNeverDebits` and `BotNeverCredits`, together `MoneyFlows`.
  Assumptions: `LedgerAssumption` (types) and `FeeAssumption`: the fee is at
  most the smallest bet, the cap at most half the bankroll, and what the
  drawdown limit leaves covers a smallest bet and a fee. The defaults (40, 25%,
  10%, 1 and 0.01) satisfy it.
* `SignalPathProofs` is about the two gates in front of an order. For `RiskGate`,
  `GateInv` bounds the two history counters by whether a bot is past the check in
  question, so one late trade and one excess trade per bot are all there can be.
  For `Signals`, `SInv` says that all that is kept of the past fits the history:
  a deque is the end of it and what it has lost is older than its width
  (`WindowsFit`); a candle is of the bucket of the last tick, and its closes are
  those of the latest buckets that another one followed (`CandlesFit`, counted from
  the end so that a full list may lose its first). It is needed because each
  property compares a derived value with the history. `RecordedFits`, `FedFits`
  and `ClosingGrows` carry a tick through the feeds; `TrimmedFits` turns a trimmed
  deque into a part of the history, hence `NoBuyIntoDrop` (`FirstYoung`: the sample the
  filter starts from is the first tick of the drop window) and, with
  `PercentileZero` (a 75th percentile of zero needs three quarters of zeros) and
  `WindowCounts`, `MutedOnlyByZeros`. `CandlesMatchTicks` is a part of `SInv`.
  `TwinsAgree` is arithmetic (`Wider`, `GainTyped`). Sums and percentiles of any
  length are proved by a least counterexample (`EveryNumber`, `SumTyped`,
  `LargestSample`). Assumptions: `SignalsAssumption` (types; the drop window is at
  most the correlation window, 300 and 1800 s in the code; thresholds are
  positive) and `IndicatorAssumption`: the backtest's bands are the narrower ones
  (std_mult 1.5 against 2.0 over 20 closes, 36 * 20 <= 64 * 19), without which
  `TwinsAgree` is false.
* `ExecutorProofs`. `MarketInv`: a dynamic bot past the idempotency check has no
  open order on its market (only the bot itself could add one). `CapInv`: for
  every bot and window, the orders in the table are at most the count plus one
  in flight plus what was forgotten, and a bot past `can_place` in the current
  window is below its maximum.
* `StreamProofs`. `LineInv` takes what a client gets apart into what it has
  received, what is in hand and what is queued: each part increases, each is
  newer than the one before and than the snapshot, and all are at most the
  number of the last message. `OfferAppends` (a full queue is shortened at the
  old end) and `IncreasingJoin` (parts make one increasing line) carry it.
  `LossInv` says what is lost: a message ever queued for a connected client is
  received, in hand or queued, or at least `MaxQueue` newer ones were queued after
  it: a message is dropped from a full queue, whose others and the new one are all
  newer (`FiniteSetTheorems` counts them).
* `PostgresProofs`. `PgInv` says what is committed together and who writes a row:
  the sequence has an id left for every call that will draw one (`SerialInv`), a
  row names its bot from the moment it exists (`RowInv`), an id drawn by an open
  transaction is its own and has no row yet (`DrawnInv`), and the resolver, the
  only writer of an outcome, holds open trades (`QueueInv`): with that the missing
  guard on the old outcome does no harm. From it follow `MoneyFollowsTrades` and
  the refinement of `TradeLifecycle`. Locks and connections play no part.
  Assumption: `PostgresAssumption`, with a finite set of bots (a list in the code).
* `FeedsProofs`. `SleepInv`: while the reconnect loop sleeps, the time it has left
  and the time since the last failure add up to at most `MaxBackoff`. `EarnedInv`:
  the age of a health record is that of the adapter's tick of some asset, or no tick
  has ever come. `RetryInv`: a loop still on its WebSocket has not used up its retries. `FailoverIsFresh` rests on the types alone and on
  well-foundedness: the newest of some ages exists.
* `BotLoopProofs`. `SeenInv`: a cached yes that still counts is older than the
  absence of the tunnel; it holds for two probes at once because each answer
  carries the time its probe took. `LateInv`: a bot of a disabled strategy has
  placed its late order or has it under way, and not both. The module proves
  about `Notifier` as well. `NotifierInv`: the stamps the limiter keeps, once the
  old ones at the left end are dropped, are those of the messages admitted in the
  window; a request on its way was stamped at most `SendMax` ago (`OnTheWay`), so
  one that has left was stamped at most `SendMax` before (`InTime`). A request that
  left within `Window - SendMax` was therefore stamped within the window, and
  `FiniteSetTheorems` counts: `TelegramRate`. `RecentIs` is the lemma about
  dropping, `GrownRecent` and `RecentAppend` take it through time and admission.
  Assumption: `NotifierAssumption`, the delay is no longer than the window.
  `NTypeOK`, the notifier's type invariant, is proved and not among the run's invariants.
* `BacktestProofs`. Trade lists have any length, so its theorems are inductions
  over data: `AllNumbers` proves what holds at zero and is kept by a successor by
  a least counterexample, and `Recursion` that a function defined from its value
  one step before exists (built value by value), which a proof about `Sum`,
  `EquityCurve`, `MaxDrawdown` or `Streak` needs first. `Balanced` says that the
  bankroll of a run is the last point of its equity curve; with `BetBounded`
  (a bet is never negative and never above the bankroll), `PnlBounded` (a trade
  loses at most its bet and its gas) and the limit of 1 % it gives
  `DebtIsOneGas`, and with `EquityIs`, `FinalIsSum`, `DrawdownFits` and
  `StreakFits` it gives `MetricsMatch` (`CoreInv`). `SeedInv` says that every run
  of a walk-forward pair reads the same draws (`Replayed`, `Whole`) and so ends
  alike; `SharpeInt`, `RatioOfEqual` and `EqualIsRobust` take that to the score
  (`OutOfSampleRepeats`). `ShuffleInv` says that what a shuffle still has to
  draw and what it has drawn add up to the same profit (`ShuffleKept`), hence
  `ShufflesAgree`.

Only model-checked: `EventuallyDecided`, `ZombiesEnd`, `Recovers`, `StopQuiets`,
`CallsEnd` and `LoopsGoOn` (liveness under fairness is out of the prover's reach),
and all counterexamples. Every invariant and every other action property that a
passing run checks is a theorem.

## 5. Not modelled

* Floating-point scores: composite confidence, regime, Pearson coefficient,
  confidence values. The models let every verdict happen.
* The portfolio drawdown, the order book's cache and the entry price: they only
  refuse an order or scale a stake, and stakes are left open.
* POST /params changes limits at run time without validation; the models take the
  limits as constants.
* The synthetic market's random walk, profit factor, percentiles, reports, HTML,
  React, log and metric formatting: nothing in the system reads them back.
* The measures that the Binance feed computes from trades (CVD, VWAP, liquidations),
  outlier detection, the aggregated price and the price itself: numbers without
  control. A CCXT answer without a price counts as a tick in `Feeds`, as in
  `_update_tick`, which stores zero and refreshes its age (ccxt_adapter.py:253): a
  fresh tick, not a sensible one, is what `FailoverIsFresh` promises.
* Bets of a backtest without Kelly, and the switch that disables the VPN check.
