------------------------------- MODULE Feeds -------------------------------
(* The market data of the bots (src/src/bot/feeds): the primary Binance     *)
(* socket with its reconnect loop, the secondary adapters (CCXT over a      *)
(* WebSocket with its fall-back to REST, and REST-only adapters such as     *)
(* DexScreener), and the ExchangeManager that tells a bot whether an asset  *)
(* is healthy and which snapshot to trade on.                               *)
(*                                                                          *)
(* Prices are abstracted to their AGE.  One unit of time is a part of the   *)
(* 30 s that data stays fresh; ages stop counting at Stale, where nothing   *)
(* the code computes tells them apart, and Never is "no tick yet".          *)
EXTENDS Naturals, Sequences

CONSTANTS Assets,       \* ASSETS, in the order the rounds ask for them
          WsAdapter,    \* CCXT exchanges in WS_CAPABLE_EXCHANGES
          RestAdapter,  \* the other CCXT exchanges
          DexAdapter,   \* DexScreener
          FreshFor,     \* 30 s: ExchangeHealth.is_healthy, BinanceFeed.is_healthy
          MaxBackoff,   \* 60 s: cap of the reconnect backoff
          MaxWsRetries  \* 5: failing rounds before REST takes over

Asset == {Assets[i] : i \in DOMAIN Assets}

ASSUME FeedsAssumption ==
    /\ Assets \in Seq(Asset) /\ Assets # <<>>
    /\ FreshFor \in Nat \ {0} /\ MaxBackoff \in Nat \ {0} /\ MaxWsRetries \in Nat
    /\ WsAdapter \cap RestAdapter = {}
    /\ DexAdapter \cap (WsAdapter \cup RestAdapter) = {}

Ccxt == WsAdapter \cup RestAdapter
Secondary == Ccxt \cup DexAdapter
Stale == FreshFor
Never == FreshFor + 1
Age == 0..Never
Fresh(x) == x < FreshFor
Older(x) == IF x < Stale THEN x + 1 ELSE x

VARIABLES net,        \* can Binance be reached at all
          calm,       \* how long it could since the last failure, to MaxBackoff + 1
          link,       \* _ws_loop: "connecting", "open" or "waiting" (asleep)
          connected,  \* s["connected"], which the loop sets for every asset at once
          wait,       \* what is left of the sleep
          backoff,    \* the next sleep
          age,        \* age of last_price of each asset at the primary
          smode,      \* loop of a secondary: "ws", "sleep", "rest" or "off"
          turn,       \* the asset a secondary asks next, as an index of Assets
          retries,    \* ws_retries
          sage,       \* age of the tick of each asset at each secondary
          health,     \* ExchangeHealth of a secondary: connected and last_update
          running     \* between start_all and stop_all

primary == <<net, calm, link, connected, wait, backoff, age>>
secondaries == <<smode, turn, retries, sage, health>>
vars == <<net, calm, link, connected, wait, backoff, age,
          smode, turn, retries, sage, health, running>>

TypeOK ==
    /\ net \in BOOLEAN /\ connected \in BOOLEAN /\ running \in BOOLEAN
    /\ calm \in 0..MaxBackoff + 1
    /\ link \in {"connecting", "open", "waiting", "cancelled"}
    /\ wait \in 0..MaxBackoff /\ backoff \in 1..MaxBackoff
    /\ age \in [Asset -> Age]
    /\ smode \in [Secondary -> {"ws", "sleep", "rest", "off"}]
    /\ turn \in [Secondary -> 1..Len(Assets)]
    /\ retries \in [Secondary -> 0..MaxWsRetries + 1]
    /\ sage \in [Secondary -> [Asset -> Age]]
    /\ health \in [Secondary -> [up : BOOLEAN, age : 0..Stale]]

(* start_all: every adapter starts at once and calls itself connected, with *)
(* last_update "now", before it has any tick.                               *)
Init ==
    /\ net = TRUE /\ calm = 0 /\ link = "connecting" /\ connected = FALSE
    /\ wait = 0 /\ backoff = 1 /\ age = [a \in Asset |-> Never]
    /\ smode = [s \in Secondary |-> IF s \in WsAdapter THEN "ws" ELSE "rest"]
    /\ turn = [s \in Secondary |-> 1]
    /\ retries = [s \in Secondary |-> 0]
    /\ sage = [s \in Secondary |-> [a \in Asset |-> Never]]
    /\ health = [s \in Secondary |-> [up |-> TRUE, age |-> 0]]
    /\ running = TRUE

-----------------------------------------------------------------------------
(* The primary: BinanceFeed._ws_loop.                                       *)

Connect ==
    /\ link = "connecting" /\ net
    /\ link' = "open" /\ connected' = TRUE /\ backoff' = 1
    /\ UNCHANGED <<net, calm, wait, age, secondaries, running>>

DisconnectedUncapped ==                   \* mutant: the backoff keeps doubling
    /\ connected' = FALSE /\ link' = "waiting" /\ wait' = backoff
    /\ backoff' = 2 * backoff /\ backoff < 8 * MaxBackoff
    /\ calm' = 0
    /\ UNCHANGED <<net, age, secondaries, running>>
(* The except branch: every asset is flagged down before the sleep.         *)
Disconnected ==
    /\ connected' = FALSE /\ link' = "waiting" /\ wait' = backoff
    /\ backoff' = IF 2 * backoff < MaxBackoff THEN 2 * backoff ELSE MaxBackoff
    /\ calm' = 0
    /\ UNCHANGED <<net, age, secondaries, running>>

ConnectFails == link = "connecting" /\ ~net /\ Disconnected

(* The socket breaks, a ping is not answered, or a message does not parse.  *)
Drop == link = "open" /\ Disconnected

CleanCloseEnding ==                       \* mutant: the loop ends with its socket
    /\ link = "open" /\ link' = "cancelled"
    /\ UNCHANGED <<net, calm, connected, wait, backoff, age, secondaries, running>>
(* The server closes the socket cleanly: the "async for" just ends and the  *)
(* loop connects again.  Nothing clears the flag.                           *)
CleanClose ==
    /\ link = "open" /\ link' = "connecting"
    /\ UNCHANGED <<net, calm, connected, wait, backoff, age, secondaries, running>>

Wake ==
    /\ link = "waiting" /\ wait = 0 /\ link' = "connecting"
    /\ UNCHANGED <<net, calm, connected, wait, backoff, age, secondaries, running>>

(* Only aggTrade messages refresh last_price and last_update; markPrice,    *)
(* bookTicker and forceOrder leave them as they are.                        *)
AggTrade(a) ==
    /\ link = "open" /\ age' = [age EXCEPT ![a] = 0]
    /\ UNCHANGED <<net, calm, link, connected, wait, backoff, secondaries, running>>

-----------------------------------------------------------------------------
(* The secondaries.  A round asks for one asset after the other.            *)

LastOf(s) == turn[s] = Len(Assets)
Asked(s, a) ==
    /\ a = Assets[turn[s]]
    /\ turn' = [turn EXCEPT ![s] = IF LastOf(s) THEN 1 ELSE @ + 1]

(* _update_tick: the tick, last_update and the flag are set together.       *)
UpdateTick(s, a) ==
    /\ sage' = [sage EXCEPT ![s][a] = 0]
    /\ health' = [health EXCEPT ![s] = [up |-> TRUE, age |-> 0]]

(* A round that raised nothing sets ws_retries back, even when every asset  *)
(* of it timed out.                                                         *)
WsRound(s, a) ==
    /\ smode[s] = "ws" /\ Asked(s, a)
    /\ retries' = IF LastOf(s) THEN [retries EXCEPT ![s] = 0] ELSE retries
    /\ UNCHANGED <<primary, smode, running>>

WsTick(s, a) == WsRound(s, a) /\ UpdateTick(s, a)
WsTimeout(s, a) == WsRound(s, a) /\ UNCHANGED <<sage, health>>

WsErrorRetrying(s) ==                     \* mutant: never falls back to REST
    /\ smode[s] = "ws" /\ retries[s] < 4 * (MaxWsRetries + 1)
    /\ retries' = [retries EXCEPT ![s] = @ + 1] /\ smode' = [smode EXCEPT ![s] = "sleep"]
    /\ turn' = [turn EXCEPT ![s] = 1]
    /\ UNCHANGED <<primary, sage, health, running>>
WsError(s) ==
    /\ smode[s] = "ws"
    /\ retries' = [retries EXCEPT ![s] = @ + 1]
    /\ smode' = [smode EXCEPT ![s] = IF retries[s] + 1 > MaxWsRetries THEN "rest" ELSE "sleep"]
    /\ turn' = [turn EXCEPT ![s] = 1]
    /\ UNCHANGED <<primary, sage, health, running>>

WsResume(s) ==
    /\ smode[s] = "sleep" /\ smode' = [smode EXCEPT ![s] = "ws"]
    /\ UNCHANGED <<primary, turn, retries, sage, health, running>>

(* One request of a REST loop; a failing one is swallowed, and the end of   *)
(* the round flags the adapter connected whether or not anything was read.  *)
RestTick(s, a) ==
    /\ s \in Ccxt /\ smode[s] = "rest" /\ Asked(s, a)
    /\ UpdateTick(s, a)
    /\ UNCHANGED <<primary, smode, retries, running>>

PollMissRefreshing(s, a) ==               \* mutant: a failing round refreshes last_update
    /\ smode[s] = "rest" /\ Asked(s, a)
    /\ health' = [health EXCEPT ![s] = [up |-> @.up \/ LastOf(s), age |-> 0]]
    /\ UNCHANGED <<primary, smode, retries, sage, running>>
PollMiss(s, a) ==
    /\ smode[s] = "rest" /\ Asked(s, a)
    /\ health' = [health EXCEPT ![s].up = @ \/ LastOf(s)]
    /\ UNCHANGED <<primary, smode, retries, sage, running>>

(* DexScreener answers with pairs, of which a liquid one may be missing;    *)
(* its tick refreshes last_update and leaves the flag to the round.         *)
DexTick(s, a) ==
    /\ s \in DexAdapter /\ smode[s] = "rest" /\ Asked(s, a)
    /\ sage' = [sage EXCEPT ![s][a] = 0]
    /\ health' = [health EXCEPT ![s] = [up |-> @.up \/ LastOf(s), age |-> 0]]
    /\ UNCHANGED <<primary, smode, retries, running>>

-----------------------------------------------------------------------------
StopAllLeavingLoops ==                    \* mutant: the tasks of the adapters go on
    /\ running /\ running' = FALSE /\ link' = "cancelled"
    /\ health' = [s \in Secondary |-> [health[s] EXCEPT !.up = FALSE]]
    /\ calm' = 0 /\ wait' = 0 /\ backoff' = 1
    /\ UNCHANGED <<net, connected, age, sage, smode, turn, retries>>
(* Shutdown: the feed task is cancelled, which no handler of the loop sees, *)
(* then stop_all stops the adapters.  Closing an exchange may raise: gather *)
(* swallows it and that adapter keeps its flag.  The counters are locals of *)
(* the tasks and end with them.                                             *)
StopAll ==
    /\ running /\ running' = FALSE /\ link' = "cancelled"
    /\ smode' = [s \in Secondary |-> "off"]
    /\ \E raised \in SUBSET Secondary :
         health' = [s \in Secondary |-> [health[s] EXCEPT !.up = @ /\ s \in raised]]
    /\ calm' = 0 /\ wait' = 0 /\ backoff' = 1
    /\ turn' = [s \in Secondary |-> 1]
    /\ retries' = [s \in Secondary |-> 0]
    /\ UNCHANGED <<net, connected, age, sage>>

NetChange ==
    /\ running /\ net' = ~net /\ calm' = 0
    /\ UNCHANGED <<link, connected, wait, backoff, age, secondaries, running>>

(* Time passes.  A connection attempt takes less than a unit (its timeout   *)
(* is 10 s) and a sleep that has ended is not slept on.                     *)
Tick ==
    /\ link = "waiting" => wait > 0
    /\ link # "connecting"
    /\ wait' = IF link = "waiting" THEN wait - 1 ELSE wait
    /\ calm' = IF net /\ running /\ calm <= MaxBackoff THEN calm + 1 ELSE calm
    /\ age' = [a \in Asset |-> Older(age[a])]
    /\ sage' = [s \in Secondary |-> [a \in Asset |-> Older(sage[s][a])]]
    /\ health' = [s \in Secondary |-> [health[s] EXCEPT !.age = Older(@)]]
    /\ UNCHANGED <<net, link, connected, backoff, smode, turn, retries, running>>

SecondaryStep(s) ==
    \/ WsError(s)
    \/ WsResume(s)
    \/ \E a \in Asset :
         \/ WsTick(s, a) \/ WsTimeout(s, a)
         \/ RestTick(s, a) \/ DexTick(s, a) \/ PollMiss(s, a)

PrimaryStep ==
    \/ Connect \/ ConnectFails \/ Drop \/ CleanClose \/ Wake
    \/ \E a \in Asset : AggTrade(a)

Next == PrimaryStep \/ (\E s \in Secondary : SecondaryStep(s)) \/ StopAll \/ NetChange \/ Tick

(* The event loop runs the socket loop and time passes; no peer is fair.    *)
Fairness == WF_vars(Connect \/ ConnectFails) /\ WF_vars(Wake) /\ WF_vars(Tick)
Spec == Init /\ [][Next]_vars /\ Fairness

-----------------------------------------------------------------------------
(* What a bot reads: is_healthy(asset) and, with no await in between,       *)
(* get_snapshot(asset).                                                     *)

(* BinanceAdapter.get_health takes the freshness of ANY asset.              *)
PrimaryHealthy == running /\ connected /\ \E b \in Asset : Fresh(age[b])
SecondaryHealthy(s) == health[s].up /\ Fresh(health[s].age)

IsHealthy(a) ==
    \/ age[a] # Never /\ PrimaryHealthy
    \/ \E s \in Secondary : sage[s][a] # Never /\ SecondaryHealthy(s)

(* get_all_ticks, as the ages of the ticks there are.                       *)
Ticks(a) == ({age[a]} \cup {sage[s][a] : s \in Secondary}) \ {Never}
NewestOldest(S) == CHOOSE x \in S : \A y \in S : x >= y    \* mutant: ticks sorted the wrong way
Newest(S) == CHOOSE x \in S : \A y \in S : x <= y

Snapshot(a) ==
    CASE connected -> [source |-> "primary", age |-> age[a]]
      [] ~connected /\ Ticks(a) # {} -> [source |-> "tick", age |-> Newest(Ticks(a))]
      [] OTHER -> [source |-> "none", age |-> Never]

-----------------------------------------------------------------------------
(* Properties.                                                              *)

(* Fail-over: with the primary flagged down, an asset some adapter has a    *)
(* fresh tick of is served at a fresh price, whatever the other adapters    *)
(* (the primary's own last trade included) still hold.                      *)
FailoverIsFresh ==
    \A a \in Asset :
        ~connected /\ (\E s \in Secondary : Fresh(sage[s][a])) => Fresh(Snapshot(a).age)

(* The cap of the backoff bounds the outage: once Binance has been          *)
(* reachable for longer than MaxBackoff since the last failure, the loop is *)
(* not asleep any more, however many attempts had failed before.            *)
ReconnectBound == calm > MaxBackoff => link # "waiting"

(* A secondary that is called healthy has received a tick of some asset     *)
(* within the freshness limit, or has only just started: rounds in which    *)
(* every request fails do not keep it alive.                                *)
HealthIsEarned ==
    \A s \in Secondary :
        SecondaryHealthy(s) =>
            \/ \E a \in Asset : sage[s][a] = health[s].age
            \/ \A a \in Asset : sage[s][a] = Never

(* If Binance stays reachable the socket is open again and again.           *)
Recovers == <>[](net /\ running) => []<>(link = "open")

(* After stop_all every asset becomes unhealthy and stays so, even when an  *)
(* exchange failed to close and kept its flag.                              *)
StopQuiets == ~running ~> [](\A a \in Asset : ~IsHealthy(a))
=============================================================================
