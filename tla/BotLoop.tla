------------------------------ MODULE BotLoop ------------------------------
(* The process around the ledger (src/src/bot/main.py): one loop per bot,   *)
(* the resolver's loop, the background tasks, start and shutdown, and what  *)
(* they share: the VPN guard's cache and the strategy selector's overrides. *)
(* Time is told in ages: a Tick lets everything grow older.  What a signal  *)
(* looks at is in Signals, what an order does in Executor and Ledger, and   *)
(* what becomes of a message to Telegram in Notifier: here it is sent or    *)
(* dropped, whichever the limiter says.                                     *)
EXTENDS Integers

CONSTANTS Bots,         \* <<strategy, asset>> pairs of ACTIVE_BOTS
          Background,   \* the other tasks that main() creates
          Composite,    \* composite_confidence.enabled
          Ttl,          \* _CACHE_TTL of the VPN guard
          ProbeMax,     \* timeout of the interface listing
          MaxAttempts,  \* of with_retry and of find_market
          MaxOpen       \* bound: open trades of one resolver cycle

ASSUME LoopAssumption ==
    /\ "price_rec" \in Background
    /\ Composite \in BOOLEAN
    /\ {Ttl, ProbeMax, MaxAttempts, MaxOpen} \subseteq Nat \ {0}

VARIABLES main,      \* where main() is
          stop,      \* the event that a SIGINT or SIGTERM sets
          tasks,     \* background tasks that run
          bot,       \* bot[b]: where run_bot is
          resolver,  \* where Resolver.run is
          health,    \* GET /health, which asks the VPN guard as well
          tunnel,    \* is a VPN interface up; dark: for how long it was not
          dark,
          cache,     \* _cache of the VPN guard
          override,  \* _overrides of the selector, per strategy
          late       \* late[b], a history: orders of b since it was disabled

vars == <<main, stop, tasks, bot, resolver, health, tunnel, dark, cache, override, late>>
process == <<main, stop, tasks>>
guard == <<tunnel, dark, cache>>
selector == <<override, late>>

Strategy(b) == b[1]
Strategies == {Strategy(b) : b \in Bots}

(* DEFAULT_REGIME_RULES: who may trade in which regime.                     *)
Turbos == {"TURBO_CVD", "TURBO_VWAP"}
Rules == [TRENDING |-> Turbos \cup {"MOMENTUM"}, RANGING |-> Turbos \cup {"BOLLINGER"},
          VOLATILE |-> Turbos, UNKNOWN |-> Turbos \cup {"MOMENTUM", "BOLLINGER"}]

At(where) == [pc |-> where, n |-> 0]
Older(age, cap) == IF age < cap THEN age + 1 ELSE cap

(* n is the age of a probe, the number of an attempt.                       *)
TypeOK ==
    /\ main \in {"warmup", "greet", "wait", "gather", "close", "closed"} /\ stop \in BOOLEAN
    /\ tasks \subseteq Background
    /\ bot \in [Bots -> [pc : {"off", "turn", "sleep", "save", "probe", "lookup", "placed", "send"},
                         n : 0..(MaxAttempts + ProbeMax)]]
    /\ resolver \in [pc : {"off", "sleep", "next", "fetch", "settled", "send"},
                     n : 0..MaxAttempts, left : 0..MaxOpen]
    /\ health \in [pc : {"idle", "probe"}, n : 0..ProbeMax]
    /\ tunnel \in BOOLEAN /\ dark \in 0..(Ttl + ProbeMax)
    /\ cache \in [active : BOOLEAN, age : 0..Ttl]
    /\ override \in [Strategies -> {"none", "on", "off"}] /\ late \in [Bots -> 0..2]

Init ==
    /\ main = "warmup" /\ stop = FALSE /\ tasks = {}
    /\ bot = [b \in Bots |-> At("off")]
    /\ resolver = [pc |-> "off", n |-> 0, left |-> 0] /\ health = At("idle")
    /\ tunnel \in BOOLEAN /\ dark = IF tunnel THEN 0 ELSE Ttl + ProbeMax
    /\ cache = [active |-> FALSE, age |-> Ttl]
    /\ override = [s \in Strategies |-> "none"] /\ late = [b \in Bots |-> 0]

-----------------------------------------------------------------------------
(* is_vpn_active: the clock is read first, the answer of the probe is kept  *)
(* with that reading, also over the answer of a later probe.                *)

Cached == cache.age < Ttl

AnsweredNow(active, n) == [active |-> active, age |-> 0]   \* mutant: stamped when it answers
Answered(active, n) == [active |-> active, age |-> n]

HealthAsks ==
    /\ main \in {"greet", "wait"} /\ health.pc = "idle" /\ ~Cached
    /\ health' = At("probe")
    /\ UNCHANGED <<process, bot, resolver, guard, selector>>

(* The interfaces are listed in a thread, some time before the answer, and  *)
(* a listing that fails says no.                                            *)
Listing(n) == IF dark <= n THEN BOOLEAN ELSE {FALSE}

HealthAnswers ==
    /\ health.pc = "probe" /\ health' = At("idle")
    /\ \E active \in Listing(health.n) : cache' = Answered(active, health.n)
    /\ UNCHANGED <<process, bot, resolver, tunnel, dark, selector>>

TunnelChanges ==
    /\ tunnel' = ~tunnel /\ dark' = 0
    /\ UNCHANGED <<process, bot, resolver, health, cache, selector>>

Probing == {b \in Bots : bot[b].pc = "probe"}

Tick ==
    /\ \A b \in Probing : bot[b].n < ProbeMax
    /\ health.pc = "probe" => health.n < ProbeMax
    /\ bot' = [b \in Bots |-> IF b \in Probing THEN [bot[b] EXCEPT !.n = @ + 1] ELSE bot[b]]
    /\ health' = IF health.pc = "probe" THEN [health EXCEPT !.n = @ + 1] ELSE health
    /\ dark' = IF tunnel THEN 0 ELSE Older(dark, Ttl + ProbeMax)
    /\ cache' = [cache EXCEPT !.age = Older(@, Ttl)]
    /\ UNCHANGED <<process, resolver, tunnel, selector>>

-----------------------------------------------------------------------------
(* run_bot.                                                                 *)

Goes(b, where) == bot' = [bot EXCEPT ![b] = At(where)]

AllowedByRuleToo(s, regime) ==              \* mutant: an override can only add
    override[s] = "on" \/ s \in Rules[regime]
Allowed(s, regime) ==
    IF override[s] = "none" THEN s \in Rules[regime] ELSE override[s] = "on"

Wake(b) ==
    /\ bot[b].pc = "sleep" /\ Goes(b, "turn")
    /\ UNCHANGED <<process, resolver, health, guard, selector>>

(* No feed is healthy, the selector says no, or something raises.           *)
Idles(b) ==
    /\ bot[b].pc = "turn" /\ Goes(b, "sleep")
    /\ UNCHANGED <<process, resolver, health, guard, selector>>

(* SKIP, or a signal that a filter turns into SKIP: only its state is saved.*)
Skips(b) ==
    /\ bot[b].pc = "turn" /\ \E regime \in DOMAIN Rules : Allowed(Strategy(b), regime)
    /\ Goes(b, "save")
    /\ UNCHANGED <<process, resolver, health, guard, selector>>

(* A signal that reaches the minimum score and passes the filters.  With    *)
(* composite confidence its copy is built by a name that main.py lacks, and *)
(* the NameError ends the turn.                                             *)
Signals(b) ==
    /\ bot[b].pc = "turn" /\ \E regime \in DOMAIN Rules : Allowed(Strategy(b), regime)
    /\ bot' = [bot EXCEPT ![b] = IF Composite THEN At("sleep") ELSE [pc |-> "save", n |-> 1]]
    /\ UNCHANGED <<process, resolver, health, guard, selector>>

(* The state is saved; for a signal executor.execute asks the VPN guard.    *)
Saved(b) ==
    /\ bot[b].pc = "save"
    /\ Goes(b, IF bot[b].n = 0 THEN "sleep"
               ELSE IF ~Cached THEN "probe"
               ELSE IF cache.active THEN "lookup" ELSE "sleep")
    /\ UNCHANGED <<process, resolver, health, guard, selector>>

ProbeAnswers(b) ==
    /\ bot[b].pc = "probe"
    /\ \E active \in Listing(bot[b].n) :
         /\ cache' = Answered(active, bot[b].n)
         /\ Goes(b, IF active THEN "lookup" ELSE "sleep")
    /\ UNCHANGED <<process, resolver, health, tunnel, dark, selector>>

(* find_market fails and tries again, or gives up.                          *)
LookupFails(b) ==
    /\ bot[b].pc = "lookup"
    /\ bot' = [bot EXCEPT ![b] = IF @.n + 1 < MaxAttempts THEN [bot[b] EXCEPT !.n = @ + 1]
                                 ELSE At("sleep")]
    /\ UNCHANGED <<process, resolver, health, guard, selector>>

(* A market is found, every check passes, the trade is inserted.            *)
Places(b) ==
    /\ bot[b].pc = "lookup" /\ Goes(b, "placed")
    /\ late' = [late EXCEPT ![b] = IF override[Strategy(b)] = "off" THEN @ + 1 ELSE @]
    /\ UNCHANGED <<process, resolver, health, guard, override>>

(* trade.placed: the notifier is a handler of the bus, awaited in turn; it  *)
(* sends the message, or drops it at its limit.                             *)
Announces(b) ==
    /\ bot[b].pc = "placed" /\ (Goes(b, "send") \/ Goes(b, "sleep"))
    /\ UNCHANGED <<process, resolver, health, guard, selector>>

Announced(b) ==
    /\ bot[b].pc = "send" /\ Goes(b, "sleep")
    /\ UNCHANGED <<process, resolver, health, guard, selector>>

(* A check of the executor refuses, or any call raises and is logged.       *)
Abandons(b) ==
    /\ bot[b].pc \in {"save", "probe", "lookup", "placed"} /\ Goes(b, "sleep")
    /\ UNCHANGED <<process, resolver, health, guard, selector>>

Turn(b) ==
    \/ Idles(b) \/ Skips(b) \/ Signals(b) \/ Saved(b) \/ ProbeAnswers(b)
    \/ LookupFails(b) \/ Places(b) \/ Announces(b) \/ Announced(b)

-----------------------------------------------------------------------------
(* Resolver.run: its lookups are wrapped by with_retry.                     *)

Resolves(where) == resolver' = [resolver EXCEPT !.pc = where, !.n = 0]

ResolverWakes ==
    /\ resolver.pc = "sleep"
    /\ \E open \in 0..MaxOpen : resolver' = [pc |-> "next", n |-> 0, left |-> open]
    /\ UNCHANGED <<process, bot, health, guard, selector>>

NextTrade ==
    /\ resolver.pc = "next"
    /\ resolver' = IF resolver.left = 0 THEN [resolver EXCEPT !.pc = "sleep"]
                   ELSE [pc |-> "fetch", n |-> 1, left |-> resolver.left - 1]
    /\ UNCHANGED <<process, bot, health, guard, selector>>

FetchRefusedForever ==                      \* mutant: the attempts are counted anew
    /\ resolver.pc = "fetch" /\ resolver' = [resolver EXCEPT !.n = (@ % MaxAttempts) + 1]
    /\ UNCHANGED <<process, bot, health, guard, selector>>
(* Refused with 429 or disconnected: wait and try again, up to the limit.   *)
FetchRefused ==
    /\ resolver.pc = "fetch"
    /\ resolver' = IF resolver.n < MaxAttempts THEN [resolver EXCEPT !.n = @ + 1]
                   ELSE [resolver EXCEPT !.pc = "next", !.n = 0]
    /\ UNCHANGED <<process, bot, health, guard, selector>>

(* Another error propagates at once; or the market is not settled yet.      *)
Unsettled ==
    /\ resolver.pc = "fetch" /\ Resolves("next")
    /\ UNCHANGED <<process, bot, health, guard, selector>>

SettlesTrade ==
    /\ resolver.pc = "fetch" /\ Resolves("settled")
    /\ UNCHANGED <<process, bot, health, guard, selector>>

ResolverAnnounces ==
    /\ resolver.pc = "settled" /\ (Resolves("send") \/ Resolves("next"))
    /\ UNCHANGED <<process, bot, health, guard, selector>>

ResolverAnnounced ==
    /\ resolver.pc = "send" /\ Resolves("next")
    /\ UNCHANGED <<process, bot, health, guard, selector>>

ResolverFails ==
    /\ resolver.pc \in {"next", "settled"} /\ resolver' = [pc |-> "sleep", n |-> 0, left |-> 0]
    /\ UNCHANGED <<process, bot, health, guard, selector>>

Cycle ==
    \/ NextTrade \/ FetchRefused \/ Unsettled \/ SettlesTrade
    \/ ResolverAnnounces \/ ResolverAnnounced

-----------------------------------------------------------------------------
(* The dashboard's hot swap.  The override is set before the audit row is   *)
(* awaited, so it holds also when that fails.                               *)

Disable(s) ==
    /\ main \in {"greet", "wait"} /\ override[s] # "off"
    /\ override' = [override EXCEPT ![s] = "off"]
    /\ late' = [b \in Bots |-> IF Strategy(b) = s THEN 0 ELSE late[b]]
    /\ UNCHANGED <<process, bot, resolver, health, guard>>

Overrides(to) ==
    /\ main \in {"greet", "wait"} /\ override' = to
    /\ late' = [b \in Bots |-> IF to[Strategy(b)] = "off" THEN late[b] ELSE 0]
    /\ UNCHANGED <<process, bot, resolver, health, guard>>

Enable(s) == Overrides([override EXCEPT ![s] = "on"])
Reset(s) == Overrides([override EXCEPT ![s] = "none"])
ResetAll == Overrides([s \in Strategies |-> "none"])

-----------------------------------------------------------------------------
(* main(): warm up, launch, wait, cancel, gather, close.                    *)

(* During the start the signal is only kept; later it wakes main() up.       *)
Signalled ==
    /\ ~stop /\ main \in {"warmup", "greet"} /\ stop' = TRUE
    /\ UNCHANGED <<main, tasks, bot, resolver, health, guard, selector>>

(* The tasks are created and the greeting is sent.                          *)
Launch ==
    /\ main = "warmup" /\ tasks' = Background
    /\ bot' = [b \in Bots |-> At("turn")] /\ resolver' = [resolver EXCEPT !.pc = "sleep"]
    /\ main' = "greet"
    /\ UNCHANGED <<stop, health, guard, selector>>

(* Every task ends at the await it is in, without another step of its own:  *)
(* CancelledError is no Exception.                                          *)
CancelTasks ==
    /\ main' = "gather" /\ stop' = TRUE /\ tasks' = {}
    /\ bot' = [b \in Bots |-> At("off")] /\ resolver' = [pc |-> "off", n |-> 0, left |-> 0]

Greeted ==
    /\ main = "greet"
    /\ IF stop THEN CancelTasks ELSE main' = "wait" /\ UNCHANGED <<stop, tasks, bot, resolver>>
    /\ UNCHANGED <<health, guard, selector>>

Cancel ==
    /\ main = "wait" /\ CancelTasks
    /\ UNCHANGED <<health, guard, selector>>

(* price_recorder has no try: a failing record_price ends it for good.      *)
RecorderRaises ==
    /\ "price_rec" \in tasks /\ tasks' = tasks \ {"price_rec"}
    /\ UNCHANGED <<main, stop, bot, resolver, health, guard, selector>>

Gathered ==
    /\ main = "gather" /\ main' = "close"
    /\ UNCHANGED <<stop, tasks, bot, resolver, health, guard, selector>>

Close ==
    /\ main = "close" /\ main' = "closed"
    /\ UNCHANGED <<stop, tasks, bot, resolver, health, guard, selector>>

MainStep == Launch \/ Greeted \/ Gathered \/ Close

Next ==
    \/ \E b \in Bots : Wake(b) \/ Turn(b) \/ Abandons(b)
    \/ ResolverWakes \/ Cycle \/ ResolverFails
    \/ HealthAsks \/ HealthAnswers \/ TunnelChanges \/ Tick
    \/ \E s \in Strategies : Enable(s) \/ Disable(s) \/ Reset(s)
    \/ ResetAll
    \/ Signalled \/ MainStep \/ Cancel \/ RecorderRaises

(* Probes, requests and messages have timeouts, the retries a last attempt, *)
(* and the event loop gets round to every task.                             *)
Fairness ==
    /\ \A b \in Bots : WF_vars(Turn(b))
    /\ WF_vars(Cycle) /\ WF_vars(MainStep)

Spec == Init /\ [][Next]_vars /\ Fairness

-----------------------------------------------------------------------------
(* Properties.                                                              *)

(* No order passes the VPN guard unless the tunnel was seen less than       *)
(* _CACHE_TTL before the guard was asked, however long a probe took and     *)
(* whichever of two probes answered last.                                   *)
GateSawTunnel ==
    [][\A b \in Bots : bot[b].pc # "lookup" /\ bot'[b].pc = "lookup"
           => dark < Ttl + (IF bot[b].pc = "probe" THEN bot[b].n ELSE 0)]_vars

(* Once its strategy is disabled by hand a bot places the one order it may  *)
(* have under way and no other, whatever the regime.                        *)
DisableStopsBots == \A b \in Bots : override[Strategy(b)] = "off" => late[b] <= 1

(* Every turn and every cycle comes to its end whatever fails in it, and a  *)
(* signal to stop ends all tasks and the process.                           *)
LoopsGoOn ==
    /\ \A b \in Bots : bot[b].pc = "turn" ~> bot[b].pc \in {"sleep", "off"}
    /\ resolver.pc = "next" ~> resolver.pc \in {"sleep", "off"}
    /\ stop ~> main = "closed"

(* "Integrated in the main loop, replaces single-indicator confidence": a   *)
(* bot whose signals keep passing the score and the filters gets as far as  *)
(* the executor.                                                            *)
SignalsReachExecutor ==
    \A b \in Bots : []<><<Signals(b)>>_vars => <>(bot[b].pc = "save" /\ bot[b].n = 1)
=============================================================================
