------------------------------ MODULE Executor ------------------------------
(***************************************************************************)
(* Executor.execute for the bots of one asset: the window tracker, the     *)
(* market finder with its cache, the idempotency check, the insertion, and *)
(* what is left to do once the trade is in the database (the fee, the      *)
(* window count, the trade.placed event).                                  *)
(*                                                                         *)
(* Time is the number of the current window, which is also the number of   *)
(* the market that opens in it.  Every await may let the window roll over, *)
(* a market close, the resolver decide a trade or another bot run.  The    *)
(* risk gate (module RiskGate) and the entry price only refuse, and the    *)
(* money is in module Ledger: the insertion is one step here.              *)
(***************************************************************************)
EXTENDS Integers, Sequences, FiniteSets

CONSTANTS
  Bots,        \* the strategies that trade this asset
  Dynamic,     \* those with sizing_mode "dynamic"
  MaxOrders,   \* max_orders_per_window
  MaxKeys,     \* _MAX_STALE_KEYS
  MaxWindow,   \* bound: the last window of a behaviour
  MaxTrades,   \* bound: how many trades a behaviour may insert
  MaxFaults,   \* bound: how many calls may raise
  MaxCrashes   \* bound: how many times the process may restart

ASSUME ExecutorAssumption ==
  /\ IsFiniteSet(Bots) /\ Dynamic \subseteq Bots
  /\ {MaxOrders, MaxKeys, MaxTrades, MaxFaults, MaxCrashes} \subseteq Nat
  /\ MaxWindow \in Nat \ {0}

Windows == 1 .. MaxWindow
Markets == 0 .. MaxWindow + 1      \* a window's own market and its neighbours
NoMarket == -1

Pcs ==
  {"idle", "lookup", "fetch", "check", "insert", "fee", "record", "publish"}
Trade == [bot: Bots, market: Markets, window: Windows, open: BOOLEAN]
BotState ==
  [pc: Pcs, market: Markets \cup {NoMarket}, ts: Windows \cup {0}, id: Nat]

VARIABLES
  window,     \* the current window
  closed,     \* the markets that have closed
  cache,      \* MarketFinder._cache: the market found and the window it is for
  counts,     \* _WindowTracker._counts; 0 where there is no key
  trades,     \* the trades of the asset by id
  published,  \* the trades announced by a trade.placed event
  bot,        \* bot[b]: where task b is in execute, and its locals
  faults, crashes

vars ==
  <<window, closed, cache, counts, trades, published, bot, faults, crashes>>

Idle    == [pc |-> "idle", market |-> NoMarket, ts |-> 0, id |-> 0]
NoCache == [market |-> NoMarket, ts |-> 0]
NoKeys  == [b \in Bots |-> [w \in Windows |-> 0]]

Init ==
  /\ window = 1
  /\ closed = {}
  /\ cache = NoCache
  /\ counts = NoKeys
  /\ trades = <<>>
  /\ published = {}
  /\ bot = [b \in Bots |-> Idle]
  /\ faults = 0
  /\ crashes = 0

(* len(_counts): a key is there once something was counted under it.       *)
Keys(c) == {k \in Bots \X Windows : c[k[1]][k[2]] > 0}

Orders(b, w) ==
  {i \in DOMAIN trades : trades[i].bot = b /\ trades[i].window = w}
OpenOn(b, m) ==
  {i \in DOMAIN trades :
     trades[i].bot = b /\ trades[i].market = m /\ trades[i].open}

-----------------------------------------------------------------------------
(* A bot task                                                              *)

(* A signal: can_place, then the risk gate lets it pass.                   *)
CanPlace(b) ==
  /\ bot[b].pc = "idle"
  /\ bot' = IF counts[b][window] < MaxOrders
            THEN [bot EXCEPT ![b].pc = "lookup"]
            ELSE bot
  /\ UNCHANGED <<window, closed, cache, counts, trades, published, faults,
                 crashes>>

(* find_market: the cached market serves the whole window it was found in. *)
Lookup(b) ==
  /\ bot[b].pc = "lookup"
  /\ bot' = [bot EXCEPT ![b] =
               IF cache.ts = window
               THEN [@ EXCEPT !.pc = "check", !.market = cache.market]
               ELSE [@ EXCEPT !.pc = "fetch", !.ts = window]]
  /\ UNCHANGED <<window, closed, cache, counts, trades, published, faults,
                 crashes>>

(* The API lists this window's market, or failing that the next one's or   *)
(* the previous one's, if it has not closed.                               *)
Fetch(b) ==
  LET ts == bot[b].ts IN
  /\ bot[b].pc = "fetch"
  /\ \E m \in {ts - 1, ts, ts + 1} \ closed :
       /\ cache' = [market |-> m, ts |-> ts]
       /\ bot' = [bot EXCEPT ![b].pc = "check", ![b].market = m]
  /\ UNCHANGED <<window, closed, counts, trades, published, faults, crashes>>

(* Mutated: the idempotency check looks at the announced trades.           *)
CheckPublished(b) ==
  /\ bot[b].pc = "check"
  /\ b \in Dynamic => OpenOn(b, bot[b].market) \cap published = {}
  /\ bot' = [bot EXCEPT ![b].pc = "insert"]
  /\ UNCHANGED <<window, closed, cache, counts, trades, published, faults,
                 crashes>>

(* Dynamic mode: no order on a market where the bot has one open.          *)
Check(b) ==
  /\ bot[b].pc = "check"
  /\ b \in Dynamic => OpenOn(b, bot[b].market) = {}
  /\ bot' = [bot EXCEPT ![b].pc = "insert"]
  /\ UNCHANGED <<window, closed, cache, counts, trades, published, faults,
                 crashes>>

(* No market, an order that is open already, a bad price, no balance.      *)
Refuse(b) ==
  /\ bot[b].pc \in {"fetch", "check", "insert"}
  /\ bot' = [bot EXCEPT ![b] = Idle]
  /\ UNCHANGED <<window, closed, cache, counts, trades, published, faults,
                 crashes>>

(* Mutated: the id of the new row is not kept.                             *)
InsertWithoutId(b) ==
  /\ bot[b].pc = "insert"
  /\ Len(trades) < MaxTrades
  /\ trades' = Append(trades, [bot |-> b, market |-> bot[b].market,
                               window |-> window, open |-> TRUE])
  /\ bot' = [bot EXCEPT ![b].pc = "fee"]
  /\ UNCHANGED <<window, closed, cache, counts, published, faults, crashes>>

(* reserve_and_insert_trade returns the id of the new row.                 *)
Insert(b) ==
  /\ bot[b].pc = "insert"
  /\ Len(trades) < MaxTrades
  /\ trades' = Append(trades, [bot |-> b, market |-> bot[b].market,
                               window |-> window, open |-> TRUE])
  /\ bot' = [bot EXCEPT ![b].pc = "fee", ![b].id = Len(trades) + 1]
  /\ UNCHANGED <<window, closed, cache, counts, published, faults, crashes>>

DeductFee(b) ==
  /\ bot[b].pc = "fee"
  /\ bot' = [bot EXCEPT ![b].pc = "record"]
  /\ UNCHANGED <<window, closed, cache, counts, trades, published, faults,
                 crashes>>

(* _cleanup: too many keys, and only those of the windows in current are   *)
(* kept.  Keys are compared by their time alone, so a key of this asset    *)
(* also stays while it is the start of another asset's current window.     *)
Cleaned(c, current) ==
  IF Cardinality(Keys(c)) <= MaxKeys THEN c
  ELSE [b \in Bots |-> [v \in Windows |-> IF v \in current THEN c[b][v] ELSE 0]]

(* Mutated: the order is counted in the window that its market belongs to. *)
RecordInMarketWindow(b) ==
  LET w == bot[b].market IN
  /\ bot[b].pc = "record"
  /\ counts' = IF w \in Windows
               THEN Cleaned([counts EXCEPT ![b][w] = @ + 1], {window})
               ELSE counts
  /\ bot' = [bot EXCEPT ![b].pc = "publish"]
  /\ UNCHANGED <<window, closed, cache, trades, published, faults, crashes>>

(* record: the clock is read once for the key and again in _cleanup, where *)
(* another asset's window may have started in v.  If the window rolls over *)
(* in between and the table is full, the key may be gone when record       *)
(* returns its count: KeyError, and execute is left.                       *)
Record(b) ==
  /\ bot[b].pc = "record"
  /\ \E w \in {window, window + 1} \cap Windows, v \in Windows :
       LET c == Cleaned([counts EXCEPT ![b][window] = @ + 1], {w, v}) IN
       /\ v <= w
       /\ counts' = c
       /\ window' = w
       /\ bot' = [bot EXCEPT ![b] =
                    IF c[b][window] > 0
                    THEN [@ EXCEPT !.pc = "publish"] ELSE Idle]
  /\ UNCHANGED <<closed, cache, trades, published, faults, crashes>>

(* The bus swallows what its subscribers raise.                            *)
Publish(b) ==
  /\ bot[b].pc = "publish"
  /\ published' = published \cup {bot[b].id}
  /\ bot' = [bot EXCEPT ![b] = Idle]
  /\ UNCHANGED <<window, closed, cache, counts, trades, faults, crashes>>

(* A call raises and run_bot goes round its loop: no count, no event.      *)
Fault(b) ==
  /\ bot[b].pc \notin {"idle", "publish"}
  /\ faults < MaxFaults
  /\ faults' = faults + 1
  /\ bot' = [bot EXCEPT ![b] = Idle]
  /\ UNCHANGED <<window, closed, cache, counts, trades, published, crashes>>

-----------------------------------------------------------------------------
(* The clock, the markets, the resolver and the process                    *)

Roll ==
  /\ window < MaxWindow
  /\ window' = window + 1
  /\ UNCHANGED <<closed, cache, counts, trades, published, bot, faults,
                 crashes>>

(* A market closes some time after its window is over.                     *)
Close(m) ==
  /\ m < window
  /\ m \notin closed
  /\ closed' = closed \cup {m}
  /\ UNCHANGED <<window, cache, counts, trades, published, bot, faults,
                 crashes>>

(* The resolver decides an open trade on a closed market.                  *)
Resolve(i) ==
  /\ i \in DOMAIN trades
  /\ trades[i].open
  /\ trades[i].market \in closed
  /\ trades' = [trades EXCEPT ![i].open = FALSE]
  /\ UNCHANGED <<window, closed, cache, counts, published, bot, faults,
                 crashes>>

(* The window counts and the market cache are in memory only.              *)
Restart ==
  /\ crashes < MaxCrashes
  /\ crashes' = crashes + 1
  /\ bot' = [b \in Bots |-> Idle]
  /\ counts' = NoKeys
  /\ cache' = NoCache
  /\ UNCHANGED <<window, closed, trades, published, faults>>

Next ==
  \/ \E b \in Bots :
       \/ CanPlace(b) \/ Lookup(b) \/ Fetch(b) \/ Check(b) \/ Refuse(b)
       \/ Insert(b) \/ DeductFee(b) \/ Record(b) \/ Publish(b) \/ Fault(b)
  \/ Roll
  \/ \E m \in Markets : Close(m)
  \/ \E i \in 1 .. MaxTrades : Resolve(i)
  \/ Restart

Spec == Init /\ [][Next]_vars

-----------------------------------------------------------------------------
(* Properties                                                              *)

(* The locals that a program point uses have been set.                     *)
Located(r, ids) ==
  /\ r.pc = "fetch" => r.ts \in Windows
  /\ r.pc \in {"check", "insert"} => r.market \in Markets
  /\ r.pc \in {"fee", "record", "publish"} => r.id \in ids

(* Every table, cache entry, key and local has its type.                   *)
TypeOK ==
  /\ window \in Windows
  /\ closed \in SUBSET Markets
  /\ cache \in [market: Markets, ts: Windows] \cup {NoCache}
  /\ counts \in [Bots -> [Windows -> Nat]]
  /\ trades \in Seq(Trade)
  /\ published \subseteq DOMAIN trades
  /\ bot \in [Bots -> BotState]
  /\ \A b \in Bots : Located(bot[b], DOMAIN trades)
  /\ faults \in 0 .. MaxFaults /\ crashes \in 0 .. MaxCrashes

(* A bot places at most max_orders_per_window orders in a window, although *)
(* it checks the count in one window, inserts in a later one and counts in *)
(* a third, and although _cleanup drops counts.  Only a failed call        *)
(* between insertion and count, or a restart, forgets orders.              *)
WindowCapUpToFaults ==
  \A b \in Bots, w \in Windows :
    Cardinality(Orders(b, w)) <= MaxOrders * (1 + crashes) + faults

(* In dynamic mode a bot never has two open orders on one market, whatever *)
(* window and cache the market came from.                                  *)
OneOpenPerMarket ==
  \A b \in Dynamic, m \in Markets : Cardinality(OpenOn(b, m)) <= 1
=============================================================================
