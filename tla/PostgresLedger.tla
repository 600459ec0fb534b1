--------------------------- MODULE PostgresLedger ---------------------------
(* The ledger on its other backend (src/src/bot/storage/postgres.py): the   *)
(* same tables behind a pool of connections.  A placement and a settlement  *)
(* are READ COMMITTED transactions, a statement of another task sees what   *)
(* was committed before it, an UPDATE takes the lock of its row until the   *)
(* transaction ends, and a call that raises rolls its transaction back.     *)
(*                                                                          *)
(* The gates in front of a placement are those of Ledger and are left out.  *)
EXTENDS Integers, FiniteSets

CONSTANTS Bots,       \* (strategy, asset) pairs of ACTIVE_BOTS
          NoBot,
          MaxTrades,  \* bound: ids the sequence may hand out
          Stakes,     \* [cost, gain] pairs of a fill
          Initial,    \* settings.initial_bankroll
          Gas,        \* fees.gas_per_trade
          MaxPool,    \* max_pool, 10
          MaxFaults,  \* bound: how many calls may raise
          MaxCrashes  \* bound: how often the process may stop

ASSUME PostgresAssumption ==
    /\ IsFiniteSet(Bots) /\ NoBot \notin Bots /\ MaxTrades \in Nat
    /\ Stakes \subseteq [cost : Nat, gain : Nat]
    /\ Initial \in Nat /\ Gas \in Nat /\ MaxPool \in Nat \ {0}
    /\ MaxFaults \in Nat /\ MaxCrashes \in Nat

TradeIds == 1..MaxTrades
Settled == {"WIN", "LOSS"}

VARIABLES db,        \* what is committed
          column,    \* does table trades have indicators_json
          serial,    \* the last id of the sequence: not transactional
          bot,       \* bot[b]: where execute is, and its locals
          resolver,  \* the same of the resolver task
          lock,      \* lock[b]: who holds the lock of b's bankroll row
          others,    \* connections in use by the other tasks
          faults, crashes

vars == <<db, column, serial, bot, resolver, lock, others, faults, crashes>>

Free == "free"
Resolver == "resolver"

NoRow == [out |-> "none", bot |-> NoBot, cost |-> 0, gain |-> 0]
Row == [out : {"none", "open"} \cup Settled, bot : Bots \cup {NoBot}, cost : Nat, gain : Nat]

(* paid[t] and debits[b] are history: settlements of t added to a bankroll, *)
(* stakes taken from b.                                                     *)
Store == [bal : [Bots -> Int], peak : [Bots -> Int], trades : [TradeIds -> Row],
          paid : [TradeIds -> Nat], debits : [Bots -> Nat]]

Idle == [pc |-> "idle", seen |-> 0, cost |-> 0, gain |-> 0, id |-> 0]
Asleep == [pc |-> "sleep", queue |-> {}, t |-> 0, outcome |-> "LOSS", seen |-> 0, seenPeak |-> 0]

(* A task holds a connection of the pool from acquire to release.           *)
BotHolds(b) == bot[b].pc \in {"select", "debit", "insert", "commit", "feeExec"}
ResolverHolds == resolver.pc \in {"mark", "read", "credit", "commit"}
InUse == Cardinality({b \in Bots : BotHolds(b)}) + (IF ResolverHolds THEN 1 ELSE 0) + others
Available == InUse < MaxPool

TypeOK ==
    /\ db \in Store /\ column \in BOOLEAN /\ serial \in 0..MaxTrades
    /\ bot \in [Bots -> [pc : {"idle", "begin", "select", "debit", "insert", "commit", "fee", "feeExec"},
                         seen : Int, cost : Nat, gain : Nat, id : 0..MaxTrades]]
    /\ resolver \in [pc : {"sleep", "next", "mark", "read", "credit", "commit"},
                     queue : SUBSET TradeIds, t : 0..MaxTrades, outcome : Settled,
                     seen : Int, seenPeak : Int]
    /\ lock \in [Bots -> {Free, Resolver} \cup Bots]
    /\ others \in 0..MaxPool
    /\ faults \in 0..MaxFaults /\ crashes \in 0..MaxCrashes

(* seed_bankroll has run.  The table may be the one of docker/postgres or   *)
(* the one that _init_schema created, which lacks a column.                 *)
Init ==
    /\ db = [bal |-> [b \in Bots |-> Initial], peak |-> [b \in Bots |-> Initial],
             trades |-> [t \in TradeIds |-> NoRow], paid |-> [t \in TradeIds |-> 0],
             debits |-> [b \in Bots |-> 0]]
    /\ column \in BOOLEAN /\ serial = 0
    /\ bot = [b \in Bots |-> Idle] /\ resolver = Asleep
    /\ lock = [b \in Bots |-> Free] /\ others = 0 /\ faults = 0 /\ crashes = 0

(* Locks that a transaction leaves behind: none of its own.                 *)
Unlocked(owner) == [b \in Bots |-> IF lock[b] = owner THEN Free ELSE lock[b]]

-----------------------------------------------------------------------------
(* reserve_and_insert_trade and deduct_fee.                                 *)

Place(b) ==
    /\ bot[b].pc = "idle" /\ serial + Cardinality({c \in Bots : bot[c].pc # "idle"}) < MaxTrades
    /\ \E k \in Stakes : bot' = [bot EXCEPT ![b] = [Idle EXCEPT !.pc = "begin", !.cost = k.cost,
                                                                 !.gain = k.gain]]
    /\ UNCHANGED <<db, column, serial, resolver, lock, others, faults, crashes>>

Begin(b) ==
    /\ bot[b].pc = "begin" /\ Available
    /\ bot' = [bot EXCEPT ![b].pc = "select"]
    /\ UNCHANGED <<db, column, serial, resolver, lock, others, faults, crashes>>

SelectBankroll(b) ==
    /\ bot[b].pc = "select"
    /\ bot' = [bot EXCEPT ![b] = IF db.bal[b] < @.cost THEN Idle
                                 ELSE [@ EXCEPT !.pc = "debit", !.seen = db.bal[b]]]
    /\ UNCHANGED <<db, column, serial, resolver, lock, others, faults, crashes>>

DebitAtOnce(b) ==                           \* mutant: on the pool, outside of the transaction
    /\ bot[b].pc = "debit" /\ lock[b] = Free
    /\ db' = [db EXCEPT !.bal[b] = bot[b].seen - bot[b].cost, !.debits[b] = @ + 1]
    /\ bot' = [bot EXCEPT ![b].pc = "insert"]
    /\ UNCHANGED <<column, serial, resolver, lock, others, faults, crashes>>
Debit(b) ==
    /\ bot[b].pc = "debit" /\ lock[b] = Free
    /\ lock' = [lock EXCEPT ![b] = b]
    /\ bot' = [bot EXCEPT ![b].pc = "insert"]
    /\ UNCHANGED <<db, column, serial, resolver, others, faults, crashes>>

InsertTradeThenFee(b) ==                    \* mutant: the fee is deducted before the commit
    /\ bot[b].pc = "insert" /\ serial < MaxTrades /\ serial' = serial + 1
    /\ bot' = [bot EXCEPT ![b].pc = IF column THEN "fee" ELSE "commit", ![b].id = serial + 1]
    /\ UNCHANGED <<db, column, resolver, lock, others, faults, crashes>>
(* Without the column the statement raises and the debit is rolled back.    *)
InsertTrade(b) ==
    /\ bot[b].pc = "insert"
    /\ IF column
       THEN /\ serial' = serial + 1 /\ UNCHANGED lock
            /\ bot' = [bot EXCEPT ![b].pc = "commit", ![b].id = serial + 1]
       ELSE bot' = [bot EXCEPT ![b] = Idle] /\ lock' = Unlocked(b) /\ UNCHANGED serial
    /\ UNCHANGED <<db, column, resolver, others, faults, crashes>>

CommitTrade(b) ==
    /\ bot[b].pc = "commit"
    /\ db' = [db EXCEPT
         !.bal[b] = bot[b].seen - bot[b].cost, !.debits[b] = @ + 1,
         !.trades[bot[b].id] = [out |-> "open", bot |-> b, cost |-> bot[b].cost, gain |-> bot[b].gain]]
    /\ bot' = [bot EXCEPT ![b] = [Idle EXCEPT !.pc = "fee"]] /\ lock' = Unlocked(b)
    /\ UNCHANGED <<column, serial, resolver, others, faults, crashes>>

(* pool.execute acquires a connection and waits with it for the row.        *)
BeginFee(b) ==
    /\ bot[b].pc = "fee" /\ Available
    /\ bot' = [bot EXCEPT ![b].pc = "feeExec"]
    /\ UNCHANGED <<db, column, serial, resolver, lock, others, faults, crashes>>

DeductFee(b) ==
    /\ bot[b].pc = "feeExec" /\ lock[b] = Free
    /\ db' = [db EXCEPT !.bal[b] = @ - Gas]
    /\ bot' = [bot EXCEPT ![b] = Idle]
    /\ UNCHANGED <<column, serial, resolver, lock, others, faults, crashes>>

BotFault(b) ==
    /\ bot[b].pc # "idle" /\ faults < MaxFaults /\ faults' = faults + 1
    /\ bot' = [bot EXCEPT ![b] = Idle] /\ lock' = Unlocked(b)
    /\ UNCHANGED <<db, column, serial, resolver, others, crashes>>

-----------------------------------------------------------------------------
(* The resolver: get_open_trades, then resolve_trade per settled trade.     *)

Rows == {t \in TradeIds : db.trades[t].out # "none"}
Open == {t \in TradeIds : db.trades[t].out = "open"}

WakeOnAllRows ==                            \* mutant: without "outcome IS NULL"
    /\ resolver.pc = "sleep" /\ Available
    /\ resolver' = [resolver EXCEPT !.pc = "next", !.queue = Rows]
    /\ UNCHANGED <<db, column, serial, bot, lock, others, faults, crashes>>
Wake ==
    /\ resolver.pc = "sleep" /\ Available
    /\ resolver' = [resolver EXCEPT !.pc = "next", !.queue = Open]
    /\ UNCHANGED <<db, column, serial, bot, lock, others, faults, crashes>>

Unsettled(t) ==
    /\ resolver.pc = "next" /\ t \in resolver.queue
    /\ resolver' = [resolver EXCEPT !.queue = @ \ {t}]
    /\ UNCHANGED <<db, column, serial, bot, lock, others, faults, crashes>>

Settle(t, outcome) ==
    /\ resolver.pc = "next" /\ t \in resolver.queue /\ Available
    /\ resolver' = [resolver EXCEPT !.pc = "mark", !.queue = @ \ {t}, !.t = t, !.outcome = outcome]
    /\ UNCHANGED <<db, column, serial, bot, lock, others, faults, crashes>>

(* The UPDATE has no guard on the old outcome; nobody else writes the row.  *)
MarkOutcome ==
    /\ resolver.pc = "mark" /\ resolver' = [resolver EXCEPT !.pc = "read"]
    /\ UNCHANGED <<db, column, serial, bot, lock, others, faults, crashes>>

ReadBankroll ==
    LET b == db.trades[resolver.t].bot IN
    /\ resolver.pc = "read"
    /\ resolver' = [resolver EXCEPT !.pc = "credit", !.seen = db.bal[b], !.seenPeak = db.peak[b]]
    /\ UNCHANGED <<db, column, serial, bot, lock, others, faults, crashes>>

Credit ==
    LET b == db.trades[resolver.t].bot IN
    /\ resolver.pc = "credit" /\ lock[b] = Free
    /\ lock' = [lock EXCEPT ![b] = Resolver]
    /\ resolver' = [resolver EXCEPT !.pc = "commit"]
    /\ UNCHANGED <<db, column, serial, bot, others, faults, crashes>>

Pnl(row, outcome) == IF outcome = "WIN" THEN row.gain ELSE -row.cost

CommitOutcome ==
    LET row == db.trades[resolver.t]
        balance == resolver.seen + row.cost + Pnl(row, resolver.outcome)
    IN
    /\ resolver.pc = "commit"
    /\ db' = [db EXCEPT
         !.trades[resolver.t].out = resolver.outcome, !.paid[resolver.t] = @ + 1,
         !.bal[row.bot] = balance,
         !.peak[row.bot] = IF balance > resolver.seenPeak THEN balance ELSE resolver.seenPeak]
    /\ resolver' = [resolver EXCEPT !.pc = "next"] /\ lock' = Unlocked(Resolver)
    /\ UNCHANGED <<column, serial, bot, others, faults, crashes>>

(* This backend has no get_stale_open_trades: the dead-letter cycle ends in *)
(* an AttributeError that is logged at debug level.                         *)
DlqFails ==
    /\ resolver.pc = "next" /\ resolver.queue = {} /\ resolver' = Asleep
    /\ UNCHANGED <<db, column, serial, bot, lock, others, faults, crashes>>

ResolverFault ==
    /\ resolver.pc # "sleep" /\ faults < MaxFaults /\ faults' = faults + 1
    /\ resolver' = Asleep /\ lock' = Unlocked(Resolver)
    /\ UNCHANGED <<db, column, serial, bot, others, crashes>>

-----------------------------------------------------------------------------
(* The price recorder, the signal loops and the dashboard use the pool for  *)
(* statements on tables of their own.                                       *)
OtherBegins ==
    /\ Available /\ others' = others + 1
    /\ UNCHANGED <<db, column, serial, bot, resolver, lock, faults, crashes>>
OtherEnds ==
    /\ others > 0 /\ others' = others - 1
    /\ UNCHANGED <<db, column, serial, bot, resolver, lock, faults, crashes>>

Restart ==
    /\ crashes < MaxCrashes /\ crashes' = crashes + 1
    /\ bot' = [b \in Bots |-> Idle] /\ resolver' = Asleep
    /\ lock' = [b \in Bots |-> Free] /\ others' = 0
    /\ UNCHANGED <<db, column, serial, faults>>

Call(b) ==
    \/ Begin(b) \/ SelectBankroll(b) \/ Debit(b) \/ InsertTrade(b) \/ CommitTrade(b)
    \/ BeginFee(b) \/ DeductFee(b)

Visit(t) == Unsettled(t) \/ (\E outcome \in Settled : Settle(t, outcome))
Payment == MarkOutcome \/ ReadBankroll \/ Credit \/ CommitOutcome
ResolverStep == Wake \/ (\E t \in TradeIds : Visit(t)) \/ Payment \/ DlqFails

Next ==
    \/ \E b \in Bots : Place(b) \/ Call(b) \/ BotFault(b)
    \/ ResolverStep \/ ResolverFault
    \/ OtherBegins \/ OtherEnds
    \/ Restart

(* The event loop goes on and the server executes what is not waiting for a *)
(* lock.  A task that asks for a connection queues for it, in turn.         *)
Fairness ==
    /\ \A b \in Bots : SF_vars(Call(b))
    /\ SF_vars(ResolverStep) /\ WF_vars(OtherEnds)

Spec == Init /\ [][Next]_vars /\ Fairness

-----------------------------------------------------------------------------
(* Properties.                                                              *)

(* Stakes and trades, outcomes and payments are committed together, across  *)
(* failing statements, a missing column and a crash: no bankroll is debited *)
(* without its trade, no trade is settled without its payment or paid twice.*)
MoneyFollowsTrades ==
    /\ \A b \in Bots : db.debits[b] = Cardinality({t \in TradeIds : db.trades[t].bot = b})
    /\ \A t \in TradeIds : db.paid[t] = IF db.trades[t].out \in Settled THEN 1 ELSE 0

(* The trades table keeps the promise of TradeLifecycle on this backend as  *)
(* well, without the guard and without the dead-letter queue.               *)
Lifecycle == INSTANCE TradeLifecycle WITH status <- [t \in TradeIds |-> db.trades[t].out]
TradesKeepLifecycle == Lifecycle!Spec

(* Nobody waits for ever: whoever holds a row lock needs no more than the   *)
(* connection it has, so every placement and every cycle comes to its end,  *)
(* even when the pool is exhausted.                                         *)
CallsEnd ==
    /\ \A b \in Bots : bot[b].pc # "idle" ~> bot[b].pc = "idle"
    /\ resolver.pc # "sleep" ~> resolver.pc = "sleep"
=============================================================================
