------------------------------- MODULE Ledger -------------------------------
(***************************************************************************)
(* The paper-trading ledger of the bot on its SQLite backend: the tables   *)
(* bankroll, trades and dead_letter_trades, the bot tasks that place       *)
(* trades and the resolver task that settles or voids them.                *)
(*                                                                         *)
(* All tasks share ONE aiosqlite connection, and every await is a point    *)
(* where another task may run.  "live" is what that connection sees (its   *)
(* uncommitted statements included), "disk" is what was last committed.    *)
(* A commit by any task publishes the pending statements of all of them.   *)
(* A crash, or the shutdown that cancels every task and closes the         *)
(* connection, drops the pending statements.                               *)
(*                                                                         *)
(* Each bot is one (strategy, asset) pair of ACTIVE_BOTS with one bankroll *)
(* row.  Money is counted in whole units.  The gates that look at other    *)
(* rows (portfolio drawdown, correlation, circuit breaker) only remove     *)
(* placements and are in module RiskGate.                                  *)
(***************************************************************************)
EXTENDS Integers, FiniteSets

CONSTANTS
  Bots,         \* (strategy, asset) pairs, one task and one bankroll row each
  NoBot,        \* the owner of a row that does not exist yet
  MaxTrades,    \* bound: how many trade rows a behaviour may insert
  Stakes,       \* the [cost, gain] pairs of a fill: entry*bet, and pnl if won
  Initial,      \* settings.initial_bankroll
  MinBankroll,  \* executor: bankroll < 1.0 returns
  MinBet,       \* executor: max(1.0, bet_size * size_multiplier)
  MaxPct,       \* sizer max_pct, in percent of the bankroll
  DdLimit,      \* risk strategy_drawdown_disable, in percent of the peak
  Gas,          \* fees.gas_per_trade
  MaxFaults,    \* bound: how many database calls may raise
  MaxCrashes    \* bound: how many times the process may stop and restart

ASSUME LedgerAssumption ==
  /\ NoBot \notin Bots
  /\ MaxTrades \in Nat
  /\ Stakes \subseteq [cost: Nat, gain: Nat]
  /\ {Initial, MinBankroll, MinBet, MaxPct, DdLimit, Gas} \subseteq Nat
  /\ {MaxFaults, MaxCrashes} \subseteq Nat

(* The defaults leave room for the fee: a bet is at most a tenth of the    *)
(* bankroll or one dollar, gas is one cent, and three quarters of the      *)
(* initial forty dollars are much more than both.                          *)
ASSUME FeeAssumption ==
  /\ DdLimit <= 100 /\ MaxPct <= 50 /\ Gas <= MinBet
  /\ 100 * (MinBet + Gas) <= (100 - DdLimit) * Initial

TradeIds == 1 .. MaxTrades
Settled  == {"WIN", "LOSS"}
Outcomes == Settled \cup {"VOID"}

VARIABLES
  live,      \* the tables as the shared connection sees them
  disk,      \* the tables as last committed
  bot,       \* bot[b]: where task b is in Executor.execute, and its locals
  resolver,  \* where the resolver task is, and its locals
  stale,     \* trades whose timestamp is more than six hours old
  faults, crashes

vars == <<live, disk, bot, resolver, stale, faults, crashes>>

-----------------------------------------------------------------------------
(* Data                                                                    *)

Row == [out: {"none", "open"} \cup Outcomes, bot: Bots \cup {NoBot},
        cost: Nat, gain: Nat]

NoRow == [out |-> "none", bot |-> NoBot, cost |-> 0, gain |-> 0]

(* paid[t] is a history column: how often trade t's settlement was added   *)
(* to its bankroll.  letters[t] counts t's rows in dead_letter_trades.     *)
Store == [bal: [Bots -> Int], peak: [Bots -> Int], trades: [TradeIds -> Row],
          letters: [TradeIds -> Nat], paid: [TradeIds -> Nat]]

Seeded == [bal     |-> [b \in Bots |-> Initial],
           peak    |-> [b \in Bots |-> Initial],
           trades  |-> [t \in TradeIds |-> NoRow],
           letters |-> [t \in TradeIds |-> 0],
           paid    |-> [t \in TradeIds |-> 0]]

BotPcs == {"idle", "select", "update", "insert", "commit", "fee", "feeCommit"}
ResolverPcs == {"sleep", "next", "mark", "read", "credit", "commit",
                "dlq", "void", "dlqCommit"}

BotState == [pc: BotPcs, seen: Int, cost: Nat, gain: Nat]
ResolverState == [pc: ResolverPcs, queue: SUBSET TradeIds, t: TradeIds \cup {0},
                  outcome: Outcomes, seen: Int, seenPeak: Int]

Idle   == [pc |-> "idle", seen |-> 0, cost |-> 0, gain |-> 0]
Asleep == [pc |-> "sleep", queue |-> {}, t |-> 0, outcome |-> "VOID",
           seen |-> 0, seenPeak |-> 0]

Open(s)  == {t \in TradeIds : s.trades[t].out = "open"}
Free(s)  == {t \in TradeIds : s.trades[t].out = "none"}
Rows(s)  == {t \in TradeIds : s.trades[t].out # "none"}
Owned(s) == \A t \in Rows(s) : s.trades[t].bot \in Bots
InFlight == {b \in Bots : bot[b].pc # "idle"}
Busy     == resolver.pc \notin {"sleep", "next", "dlq"}

(* SQLite gives a new row max(rowid) + 1, the lowest unused id here.       *)
IsNextId(s, t) == t \in Free(s) /\ \A u \in Free(s) : t <= u

(* _calculate_pnl: a LOSS returns nothing, a WIN the stake and its gain.   *)
Pnl(row, outcome) == IF outcome = "WIN" THEN row.gain ELSE -row.cost

Init ==
  /\ live = Seeded
  /\ disk = Seeded
  /\ bot = [b \in Bots |-> Idle]
  /\ resolver = Asleep
  /\ stale = {}
  /\ faults = 0
  /\ crashes = 0

-----------------------------------------------------------------------------
(* A bot task: Executor.execute from the bankroll check to the fee         *)

(* The bankroll pre-check and the strategy drawdown limit.                 *)
Tradable(b) ==
  /\ live.bal[b] >= MinBankroll
  /\ 100 * (live.peak[b] - live.bal[b]) < DdLimit * live.peak[b]

(* Mutated: the cap on the bet is forgotten.                              *)
SizedWithoutCap(k, bankroll) == k.cost <= bankroll

(* kelly_size: at most max_pct of the bankroll, or the floor of one unit.  *)
Sized(k, bankroll) == k.cost <= MinBet \/ 100 * k.cost <= MaxPct * bankroll

(* The code reads the balance for the pre-check and the size, then again   *)
(* with the peak for the drawdown.  Only the resolver writes b's row in    *)
(* between, and it never lowers the balance or the peak, so one look at    *)
(* the time of the drawdown check admits every bet the code admits.        *)
Gate(b) ==
  /\ bot[b].pc = "idle"
  /\ Cardinality(Free(live)) > Cardinality(InFlight)
  /\ Tradable(b)
  /\ \E k \in Stakes :
       /\ Sized(k, live.bal[b])
       /\ bot' = [bot EXCEPT ![b] = [pc |-> "select", seen |-> 0,
                                     cost |-> k.cost, gain |-> k.gain]]
  /\ UNCHANGED <<live, disk, resolver, stale, faults, crashes>>

ReserveSelect(b) ==
  /\ bot[b].pc = "select"
  /\ bot' = [bot EXCEPT ![b] =
               IF live.bal[b] < @.cost
               THEN Idle
               ELSE [@ EXCEPT !.pc = "update", !.seen = live.bal[b]]]
  /\ UNCHANGED <<live, disk, resolver, stale, faults, crashes>>

(* The new balance is computed from the balance SELECTed one await ago.    *)
ReserveUpdate(b) ==
  /\ bot[b].pc = "update"
  /\ live' = [live EXCEPT !.bal[b] = bot[b].seen - bot[b].cost]
  /\ bot' = [bot EXCEPT ![b].pc = "insert"]
  /\ UNCHANGED <<disk, resolver, stale, faults, crashes>>

ReserveInsert(b) ==
  /\ bot[b].pc = "insert"
  /\ \E t \in TradeIds :
       /\ IsNextId(live, t)
       /\ live' = [live EXCEPT !.trades[t] =
                     [out |-> "open", bot |-> b,
                      cost |-> bot[b].cost, gain |-> bot[b].gain]]
       /\ stale' = stale \ {t}
  /\ bot' = [bot EXCEPT ![b].pc = "commit"]
  /\ UNCHANGED <<disk, resolver, faults, crashes>>

ReserveCommit(b) ==
  /\ bot[b].pc = "commit"
  /\ disk' = live
  /\ bot' = [bot EXCEPT ![b].pc = "fee"]
  /\ UNCHANGED <<live, resolver, stale, faults, crashes>>

(* deduct_fee: one relative UPDATE, with no lower bound, then its commit.  *)
DeductFee(b) ==
  /\ bot[b].pc = "fee"
  /\ live' = [live EXCEPT !.bal[b] = @ - Gas]
  /\ bot' = [bot EXCEPT ![b].pc = "feeCommit"]
  /\ UNCHANGED <<disk, resolver, stale, faults, crashes>>

FeeCommit(b) ==
  /\ bot[b].pc = "feeCommit"
  /\ disk' = live
  /\ bot' = [bot EXCEPT ![b] = Idle]
  /\ UNCHANGED <<live, resolver, stale, faults, crashes>>

(* A database call raises: run_bot logs it and goes round its loop.  The   *)
(* statements already executed stay pending on the connection.             *)
BotFault(b) ==
  /\ bot[b].pc # "idle"
  /\ faults < MaxFaults
  /\ faults' = faults + 1
  /\ bot' = [bot EXCEPT ![b] = Idle]
  /\ UNCHANGED <<live, disk, resolver, stale, crashes>>

-----------------------------------------------------------------------------
(* The resolver task: _resolve_cycle, then _dlq_cycle, then sleep          *)

(* Mutated: the filter outcome IS NULL is forgotten.                       *)
WakeOnAllRows ==
  /\ resolver.pc = "sleep"
  /\ resolver' = [resolver EXCEPT !.pc = "next",
                                  !.queue = Rows(live)]
  /\ UNCHANGED <<live, disk, bot, stale, faults, crashes>>

Wake ==
  /\ resolver.pc = "sleep"
  /\ resolver' = [resolver EXCEPT !.pc = "next", !.queue = Open(live)]
  /\ UNCHANGED <<live, disk, bot, stale, faults, crashes>>

(* The market of t is not settled, or cannot be fetched.                   *)
Unsettled(t) ==
  /\ resolver.pc = "next"
  /\ t \in resolver.queue
  /\ resolver' = [resolver EXCEPT !.queue = @ \ {t}]
  /\ UNCHANGED <<live, disk, bot, stale, faults, crashes>>

(* The market of t is settled; resolve_trade looks t up and finds it.      *)
Settle(t, outcome) ==
  /\ resolver.pc = "next"
  /\ t \in resolver.queue
  /\ resolver' = [resolver EXCEPT !.pc = "mark", !.queue = @ \ {t},
                                  !.t = t, !.outcome = outcome]
  /\ UNCHANGED <<live, disk, bot, stale, faults, crashes>>

(* Mutated: the market's resolution is stored where the outcome belongs.   *)
MarkResolution ==
  /\ resolver.pc = "mark"
  /\ live' = [live EXCEPT !.trades[resolver.t].out = "1"]
  /\ resolver' = [resolver EXCEPT !.pc = "read"]
  /\ UNCHANGED <<disk, bot, stale, faults, crashes>>

MarkOutcome ==
  /\ resolver.pc = "mark"
  /\ live' = [live EXCEPT !.trades[resolver.t].out = resolver.outcome]
  /\ resolver' = [resolver EXCEPT !.pc = "read"]
  /\ UNCHANGED <<disk, bot, stale, faults, crashes>>

(* Mutated: the bankroll is read once per cycle, not once per trade.       *)
ReadBankrollOnce ==
  LET b == live.trades[resolver.t].bot IN
  /\ resolver.pc = "read"
  /\ resolver' = IF resolver.seenPeak = 0
                 THEN [resolver EXCEPT !.pc = "credit", !.seen = live.bal[b],
                                       !.seenPeak = live.peak[b]]
                 ELSE [resolver EXCEPT !.pc = "credit"]
  /\ UNCHANGED <<live, disk, bot, stale, faults, crashes>>

ReadBankroll ==
  LET b == live.trades[resolver.t].bot IN
  /\ resolver.pc = "read"
  /\ resolver' = [resolver EXCEPT !.pc = "credit", !.seen = live.bal[b],
                                  !.seenPeak = live.peak[b]]
  /\ UNCHANGED <<live, disk, bot, stale, faults, crashes>>

(* Mutated: the peak is written back as it was read.                       *)
CreditKeepingPeak ==
  LET row == live.trades[resolver.t] IN
  /\ resolver.pc = "credit"
  /\ live' = [live EXCEPT
                !.bal[row.bot]     = resolver.seen + row.cost
                                       + Pnl(row, resolver.outcome),
                !.paid[resolver.t] = @ + 1]
  /\ resolver' = [resolver EXCEPT !.pc = "commit"]
  /\ UNCHANGED <<disk, bot, stale, faults, crashes>>

Credit ==
  LET row     == live.trades[resolver.t]
      balance == resolver.seen + row.cost + Pnl(row, resolver.outcome)
  IN
  /\ resolver.pc = "credit"
  /\ live' = [live EXCEPT
                !.bal[row.bot]     = balance,
                !.peak[row.bot]    = IF balance > resolver.seenPeak
                                     THEN balance ELSE resolver.seenPeak,
                !.paid[resolver.t] = @ + 1]
  /\ resolver' = [resolver EXCEPT !.pc = "commit"]
  /\ UNCHANGED <<disk, bot, stale, faults, crashes>>

CommitOutcome ==
  /\ resolver.pc = "commit"
  /\ disk' = live
  /\ resolver' = [resolver EXCEPT !.pc = "next"]
  /\ UNCHANGED <<live, bot, stale, faults, crashes>>

(* Mutated: age alone sends a trade to the dead-letter queue.              *)
StaleScanByAge ==
  /\ resolver.pc = "next"
  /\ resolver.queue = {}
  /\ resolver' = [resolver EXCEPT !.pc = "dlq", !.queue = stale]
  /\ UNCHANGED <<live, disk, bot, stale, faults, crashes>>

(* Mutated: the dead-letter cycle finds nothing, as on a backend without   *)
(* get_stale_open_trades.                                                  *)
StaleScanMissing ==
  /\ resolver.pc = "next"
  /\ resolver.queue = {}
  /\ resolver' = [resolver EXCEPT !.pc = "dlq"]
  /\ UNCHANGED <<live, disk, bot, stale, faults, crashes>>

(* All markets visited: get_stale_open_trades starts the dead-letter cycle. *)
StaleScan ==
  /\ resolver.pc = "next"
  /\ resolver.queue = {}
  /\ resolver' = [resolver EXCEPT !.pc = "dlq", !.queue = Open(live) \cap stale]
  /\ UNCHANGED <<live, disk, bot, stale, faults, crashes>>

(* Mutated: the trade is voided before its letter is written.              *)
DeadLetterVoidingFirst(t) ==
  /\ resolver.pc = "dlq"
  /\ t \in resolver.queue
  /\ live' = [live EXCEPT !.trades[t].out = "VOID"]
  /\ resolver' = [resolver EXCEPT !.pc = "void", !.queue = @ \ {t}, !.t = t]
  /\ UNCHANGED <<disk, bot, stale, faults, crashes>>

DeadLetter(t) ==
  /\ resolver.pc = "dlq"
  /\ t \in resolver.queue
  /\ live' = [live EXCEPT !.letters[t] = @ + 1]
  /\ resolver' = [resolver EXCEPT !.pc = "void", !.queue = @ \ {t}, !.t = t]
  /\ UNCHANGED <<disk, bot, stale, faults, crashes>>

MarkVoid ==
  /\ resolver.pc = "void"
  /\ live' = [live EXCEPT !.trades[resolver.t].out = "VOID"]
  /\ resolver' = [resolver EXCEPT !.pc = "dlqCommit"]
  /\ UNCHANGED <<disk, bot, stale, faults, crashes>>

CommitVoid ==
  /\ resolver.pc = "dlqCommit"
  /\ disk' = live
  /\ resolver' = [resolver EXCEPT !.pc = "dlq"]
  /\ UNCHANGED <<live, bot, stale, faults, crashes>>

Sleep ==
  /\ resolver.pc = "dlq"
  /\ resolver.queue = {}
  /\ resolver' = Asleep
  /\ UNCHANGED <<live, disk, bot, stale, faults, crashes>>

(* A database call raises: the rest of the cycle is skipped.               *)
ResolverFault ==
  /\ resolver.pc # "sleep"
  /\ faults < MaxFaults
  /\ faults' = faults + 1
  /\ resolver' = Asleep
  /\ UNCHANGED <<live, disk, bot, stale, crashes>>

-----------------------------------------------------------------------------
(* The rest of the process                                                 *)

(* save_signal_state, record_price, log_risk_event and                     *)
(* save_equity_snapshot end in a commit, which is everybody's commit; so    *)
(* does resolve_dead_letter, which writes columns nobody reads.            *)
BackgroundCommit ==
  /\ live # disk
  /\ disk' = live
  /\ UNCHANGED <<live, bot, resolver, stale, faults, crashes>>

(* Trade t has been open for more than DEAD_LETTER_AFTER_HOURS.            *)
Age(t) ==
  /\ t \in Open(live) \ stale
  /\ stale' = stale \cup {t}
  /\ UNCHANGED <<live, disk, bot, resolver, faults, crashes>>

(* A crash, or main()'s shutdown, and the next start: nothing but the      *)
(* committed tables survives, and seed_bankroll ignores existing rows.     *)
Restart ==
  /\ crashes < MaxCrashes
  /\ crashes' = crashes + 1
  /\ live' = disk
  /\ bot' = [b \in Bots |-> Idle]
  /\ resolver' = Asleep
  /\ stale' = stale \ Free(disk)
  /\ UNCHANGED <<disk, faults>>

BotStep(b) ==
  \/ Gate(b) \/ ReserveSelect(b) \/ ReserveUpdate(b) \/ ReserveInsert(b)
  \/ ReserveCommit(b) \/ DeductFee(b) \/ FeeCommit(b)

ResolverStep ==
  \/ Wake
  \/ \E t \in TradeIds : Unsettled(t)
  \/ \E t \in TradeIds, outcome \in Settled : Settle(t, outcome)
  \/ MarkOutcome \/ ReadBankroll \/ Credit \/ CommitOutcome
  \/ StaleScan
  \/ \E t \in TradeIds : DeadLetter(t)
  \/ MarkVoid \/ CommitVoid \/ Sleep

Next ==
  \/ \E b \in Bots : BotStep(b)
  \/ \E b \in Bots : BotFault(b)
  \/ ResolverStep
  \/ ResolverFault
  \/ BackgroundCommit
  \/ \E t \in TradeIds : Age(t)
  \/ Restart

Spec == Init /\ [][Next]_vars

(* The resolver loop never stops, time passes, and price_recorder and the  *)
(* signal loops keep committing.  Bots need no fairness, and the markets   *)
(* owe nobody an answer: Unsettled may be taken for ever.                  *)
Fairness ==
  /\ WF_vars(ResolverStep)
  /\ WF_vars(BackgroundCommit)
  /\ \A t \in TradeIds : WF_vars(Age(t))

FairSpec == Spec /\ Fairness

-----------------------------------------------------------------------------
(* Properties                                                              *)

(* Every table cell, local and program point has its type, a row that      *)
(* exists has an owner, and the resolver handles rows that exist.          *)
TypeOK ==
  /\ live \in Store /\ Owned(live)
  /\ disk \in Store /\ Owned(disk)
  /\ bot \in [Bots -> BotState]
  /\ resolver \in ResolverState
  /\ resolver.queue \subseteq Rows(live)
  /\ Busy => resolver.t \in Rows(live)
  /\ stale \in SUBSET TradeIds
  /\ faults \in 0 .. MaxFaults /\ crashes \in 0 .. MaxCrashes

(* The peak is a high-water mark: no bankroll is above its peak, although  *)
(* both are written from values read an await earlier.  check_drawdown     *)
(* relies on it, a bankroll above its peak would be a negative drawdown.   *)
PeakIsHighWater ==
  \A b \in Bots : live.bal[b] <= live.peak[b] /\ disk.bal[b] <= disk.peak[b]

(* No bankroll ever goes negative, in the live tables or in the committed  *)
(* ones, although deduct_fee has no guard and reserve writes a balance     *)
(* computed from an old one.                                               *)
Solvency ==
  \A b \in Bots : live.bal[b] >= 0 /\ disk.bal[b] >= 0

(* resolve_trade adds a trade's settlement to its bankroll at most once,   *)
(* and never for a voided trade, whatever cycle, error or restart repeats. *)
PaidAtMostOnce ==
  \A s \in {live, disk} : \A t \in TradeIds :
    s.paid[t] # 0 => s.paid[t] = 1 /\ s.trades[t].out \in Settled

(* No trade is VOID, not even in a table half written at a crash, without  *)
(* a dead_letter_trades row that tells the operator about it.              *)
VoidHasLetter ==
  \A s \in {live, disk} : \A t \in TradeIds :
    s.trades[t].out = "VOID" => s.letters[t] > 0

(* A step of the resolver never lowers a bankroll: the value it writes     *)
(* back can only be too high, because every writer in between is a bot.    *)
ResolverNeverDebits ==
  [][resolver' # resolver /\ crashes' = crashes
       => \A b \in Bots : live'.bal[b] >= live.bal[b]]_vars

(* A step of a bot never raises a bankroll: the value it writes back can   *)
(* only be too low, because every writer in between is the resolver.       *)
BotNeverCredits ==
  [][bot' # bot /\ crashes' = crashes
       => \A b \in Bots : live'.bal[b] <= live.bal[b]]_vars

(* Stale writes go one way: the resolver's only raise a bankroll, a bot's  *)
(* only lower it, so that a lost update never turns a payment round.       *)
MoneyFlows == ResolverNeverDebits /\ BotNeverCredits

(* The committed trades table keeps the promise of TradeLifecycle across   *)
(* interleavings, failed calls and restarts: a decided trade stays as it   *)
(* was decided, and no committed trade disappears or reopens.              *)
Lifecycle == INSTANCE TradeLifecycle
               WITH status <- [t \in TradeIds |-> disk.trades[t].out]
TradesKeepLifecycle == Lifecycle!Spec

(* Every committed open trade is decided in the committed table in the     *)
(* end, even if its market never answers: the dead-letter queue voids it   *)
(* once it is stale.                                                       *)
EventuallyDecided ==
  \A t \in TradeIds :
    disk.trades[t].out = "open" ~> disk.trades[t].out \in Outcomes
=============================================================================
