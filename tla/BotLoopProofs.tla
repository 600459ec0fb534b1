---------------------------- MODULE BotLoopProofs ----------------------------
(* What the gates of a turn guarantee for any number of bots, any time to   *)
(* live of the cached answer, any time a probe may take and any number of   *)
(* attempts; and what the limiter of the notifier guarantees for any limit, *)
(* window and delay of a request.  The two specifications share no          *)
(* variable; the names of the second begin with N where both have them.     *)
EXTENDS BotLoop, Notifier, SequenceTheorems, FiniteSetTheorems, WellFoundedInduction, TLAPS

(* The part of the type invariant that the gates rest on.                   *)
Where == {"off", "turn", "sleep", "save", "probe", "lookup", "placed", "send"}
GateTyped ==
    /\ bot \in [Bots -> [pc : Where, n : Nat]]
    /\ health \in [pc : {"idle", "probe"}, n : Nat]
    /\ tunnel \in BOOLEAN /\ dark \in Nat
    /\ cache \in [active : BOOLEAN, age : Nat]
    /\ override \in [Strategies -> {"none", "on", "off"}] /\ late \in [Bots -> Nat]

(* A cached yes is older than the absence of the tunnel.                    *)
SeenInv == cache.active /\ cache.age < Ttl => dark <= cache.age

(* A bot whose strategy is disabled has placed its order or has it under    *)
(* way, and not both.                                                       *)
UnderWay(b) == bot[b].pc \in {"save", "probe", "lookup"}
LateInv ==
    \A b \in Bots :
        IF override[Strategy(b)] = "off"
        THEN late[b] <= 1 /\ (UnderWay(b) => late[b] = 0)
        ELSE late[b] = 0

LoopInv == GateTyped /\ SeenInv /\ LateInv

-----------------------------------------------------------------------------
LEMMA StrategyTyped == \A b \in Bots : Strategy(b) \in Strategies
BY DEF Strategies

LEMMA OlderTyped == \A age, cap \in Nat : Older(age, cap) \in Nat
BY DEF Older

LEMMA InitInv == Init => LoopInv
<1> SUFFICES ASSUME Init PROVE LoopInv
  OBVIOUS
<1>1. bot \in [Bots -> [pc : Where, n : Nat]]
  BY DEF Init, At, Where
<1>2. health \in [pc : {"idle", "probe"}, n : Nat]
  BY DEF Init, At
<1>3. dark \in Nat /\ cache \in [active : BOOLEAN, age : Nat]
  BY LoopAssumption DEF Init, LoopAssumption
<1>4. override \in [Strategies -> {"none", "on", "off"}] /\ late \in [Bots -> Nat]
  BY DEF Init
<1>5. GateTyped
  BY <1>1, <1>2, <1>3, <1>4 DEF GateTyped, Init
<1>6. SeenInv
  BY DEF Init, SeenInv
<1>7. LateInv
  BY StrategyTyped DEF Init, LateInv
<1> QED BY <1>5, <1>6, <1>7 DEF LoopInv

-----------------------------------------------------------------------------
(* Steps of the bots.                                                       *)

(* A bot that goes elsewhere, asking nobody, keeps the invariant unless it  *)
(* sets out for an order although its strategy is disabled.                 *)
LEMMA GoingKeeps ==
    ASSUME LoopInv, NEW b \in Bots, NEW to \in [pc : Where, n : Nat],
           bot' = [bot EXCEPT ![b] = to], UNCHANGED <<health, guard, selector>>,
           \/ to.pc \notin {"save", "probe", "lookup"}
           \/ UnderWay(b)
           \/ override[Strategy(b)] # "off"
    PROVE  LoopInv'
<1>1. bot \in [Bots -> [pc : Where, n : Nat]]
  BY DEF LoopInv, GateTyped
<1>2. GateTyped'
  BY <1>1 DEF LoopInv, GateTyped, guard, selector
<1>3. SeenInv'
  BY DEF LoopInv, SeenInv, guard
<1>4. LateInv'
  <2> SUFFICES ASSUME NEW c \in Bots
               PROVE  IF override[Strategy(c)] = "off"
                      THEN late[c] <= 1 /\ (UnderWay(c)' => late[c] = 0)
                      ELSE late[c] = 0
    BY DEF LateInv, selector
  <2>1. CASE c = b
    <3>1. bot'[b].pc = to.pc
      BY <1>1
    <3> QED BY <2>1, <3>1 DEF LoopInv, LateInv, UnderWay
  <2>2. CASE c # b
    <3>1. bot'[c] = bot[c]
      BY <1>1, <2>2
    <3> QED BY <3>1 DEF LoopInv, LateInv, UnderWay
  <2> QED BY <2>1, <2>2
<1> QED BY <1>2, <1>3, <1>4 DEF LoopInv

(* Goes, as the record it writes.                                           *)
LEMMA AtTyped == \A where \in Where : At(where) \in [pc : Where, n : Nat] /\ At(where).pc = where
BY DEF At

(* An override of "off" forbids the strategy in every regime.               *)
LEMMA OffForbids == \A s, regime : Allowed(s, regime) => override[s] # "off"
BY DEF Allowed

LEMMA IdleMovesKeep ==
    ASSUME LoopInv, NEW b \in Bots,
           Wake(b) \/ Idles(b) \/ Announced(b) \/ Abandons(b)
    PROVE  LoopInv'
<1>1. bot' = [bot EXCEPT ![b] = At("turn")] \/ bot' = [bot EXCEPT ![b] = At("sleep")]
  BY DEF Wake, Idles, Announced, Abandons, Goes
<1>2. UNCHANGED <<health, guard, selector>>
  BY DEF Wake, Idles, Announced, Abandons
<1>3. "turn" \in Where /\ "sleep" \in Where
  BY DEF Where
<1> QED BY <1>1, <1>2, <1>3, AtTyped, GoingKeeps

LEMMA SignalsKeep ==
    ASSUME LoopInv, NEW b \in Bots, Skips(b) \/ Signals(b)
    PROVE  LoopInv'
<1>1. override[Strategy(b)] # "off"
  BY OffForbids DEF Skips, Signals
<1>2. "save" \in Where /\ "sleep" \in Where
  BY DEF Where
<1>3. UNCHANGED <<health, guard, selector>>
  BY DEF Skips, Signals
<1>4. CASE Skips(b)
  BY <1>1, <1>2, <1>3, <1>4, AtTyped, GoingKeeps DEF Skips, Goes
<1>5. CASE Signals(b)
  <2>1. [pc |-> "save", n |-> 1] \in [pc : Where, n : Nat]
    BY <1>2
  <2>2. \/ bot' = [bot EXCEPT ![b] = At("sleep")]
        \/ bot' = [bot EXCEPT ![b] = [pc |-> "save", n |-> 1]]
    BY <1>5 DEF Signals
  <2> QED BY <1>1, <1>2, <1>3, <2>1, <2>2, AtTyped, GoingKeeps
<1> QED BY <1>4, <1>5

LEMMA OrderMovesKeep ==
    ASSUME LoopInv, NEW b \in Bots, Saved(b) \/ LookupFails(b)
    PROVE  LoopInv'
<1>1. UnderWay(b) /\ UNCHANGED <<health, guard, selector>>
  BY DEF Saved, LookupFails, UnderWay
<1>2. bot[b] \in [pc : Where, n : Nat]
  BY DEF LoopInv, GateTyped
<1>3. {"sleep", "probe", "lookup"} \subseteq Where
  BY DEF Where
<1>4. CASE Saved(b)
  <2> DEFINE where == IF bot[b].n = 0 THEN "sleep"
                      ELSE IF ~Cached THEN "probe"
                      ELSE IF cache.active THEN "lookup" ELSE "sleep"
             there == At(where)
  <2>1. bot' = [bot EXCEPT ![b] = there]
    BY <1>4 DEF Saved, Goes
  <2>2. there \in [pc : Where, n : Nat]
    <3>1. where \in Where
      BY <1>3
    <3> QED BY <3>1, AtTyped
  <2> HIDE DEF there
  <2> QED BY <1>1, <2>1, <2>2, GoingKeeps
<1>5. CASE LookupFails(b)
  <2>1. [bot[b] EXCEPT !.n = bot[b].n + 1] \in [pc : Where, n : Nat]
    BY <1>2
  <2>2. \/ bot' = [bot EXCEPT ![b] = [bot[b] EXCEPT !.n = bot[b].n + 1]]
        \/ bot' = [bot EXCEPT ![b] = At("sleep")]
    BY <1>5 DEF LookupFails
  <2> QED BY <1>1, <1>3, <2>1, <2>2, AtTyped, GoingKeeps
<1> QED BY <1>4, <1>5

LEMMA AnnouncesKeep ==
    ASSUME LoopInv, NEW b \in Bots, Announces(b)
    PROVE  LoopInv'
<1>1. bot' = [bot EXCEPT ![b] = At("send")] \/ bot' = [bot EXCEPT ![b] = At("sleep")]
  BY DEF Announces, Goes
<1>2. UNCHANGED <<health, guard, selector>>
  BY DEF Announces
<1>3. "send" \in Where /\ "sleep" \in Where
  BY DEF Where
<1> QED BY <1>1, <1>2, <1>3, AtTyped, GoingKeeps

(* A probe answers: a yes is no older than the absence of the tunnel.       *)
LEMMA AnswerSeen ==
    ASSUME NEW n, NEW active \in Listing(n), cache' = Answered(active, n), dark' = dark
    PROVE  SeenInv'
<1>1. cache'.active = active /\ cache'.age = n
  BY DEF Answered
<1>2. active \in BOOLEAN /\ (active => dark <= n)
  BY DEF Listing
<1> QED BY <1>1, <1>2 DEF SeenInv

LEMMA ProbeAnswersKeeps ==
    ASSUME LoopInv, NEW b \in Bots, ProbeAnswers(b)
    PROVE  LoopInv'
<1>1. bot \in [Bots -> [pc : Where, n : Nat]] /\ bot[b].n \in Nat
  BY DEF LoopInv, GateTyped
<1>2. PICK active \in Listing(bot[b].n) :
        /\ cache' = Answered(active, bot[b].n)
        /\ bot' = [bot EXCEPT ![b] = At(IF active THEN "lookup" ELSE "sleep")]
  BY DEF ProbeAnswers, Goes
<1>3. UNCHANGED <<health, tunnel, dark, selector>> /\ UnderWay(b)
  BY DEF ProbeAnswers, UnderWay
<1>4. SeenInv'
  BY <1>2, <1>3, AnswerSeen
<1>5. cache' \in [active : BOOLEAN, age : Nat]
  <2>1. active \in BOOLEAN
    BY <1>2 DEF Listing
  <2> QED BY <1>1, <1>2, <2>1 DEF Answered
<1>6. At(IF active THEN "lookup" ELSE "sleep") \in [pc : Where, n : Nat]
  BY AtTyped DEF Where
<1>7. GateTyped'
  BY <1>1, <1>2, <1>3, <1>5, <1>6 DEF LoopInv, GateTyped, selector
<1>8. LateInv'
  <2> SUFFICES ASSUME NEW c \in Bots
               PROVE  IF override[Strategy(c)] = "off"
                      THEN late[c] <= 1 /\ (UnderWay(c)' => late[c] = 0)
                      ELSE late[c] = 0
    BY <1>3 DEF LateInv, selector
  <2>1. CASE c = b
    BY <1>3, <2>1 DEF LoopInv, LateInv
  <2>2. CASE c # b
    <3>1. bot'[c] = bot[c]
      BY <1>1, <1>2, <2>2
    <3> QED BY <3>1 DEF LoopInv, LateInv, UnderWay
  <2> QED BY <2>1, <2>2
<1> QED BY <1>4, <1>7, <1>8 DEF LoopInv

(* The one order that was under way is placed.                              *)
LEMMA PlacesKeeps ==
    ASSUME LoopInv, NEW b \in Bots, Places(b)
    PROVE  LoopInv'
<1>1. bot \in [Bots -> [pc : Where, n : Nat]] /\ late \in [Bots -> Nat]
  BY DEF LoopInv, GateTyped
<1>2. bot' = [bot EXCEPT ![b] = At("placed")] /\ UnderWay(b)
  BY DEF Places, Goes, UnderWay
<1>3. late' = [late EXCEPT ![b] = IF override[Strategy(b)] = "off" THEN late[b] + 1 ELSE late[b]]
  BY DEF Places
<1>4. UNCHANGED <<health, guard, override>>
  BY DEF Places
<1>5. At("placed") \in [pc : Where, n : Nat] /\ At("placed").pc = "placed"
  BY AtTyped DEF Where
<1>6. late' \in [Bots -> Nat]
  BY <1>1, <1>3
<1>7. GateTyped'
  BY <1>1, <1>2, <1>4, <1>5, <1>6 DEF LoopInv, GateTyped, guard
<1>8. SeenInv'
  BY <1>4 DEF LoopInv, SeenInv, guard
<1>9. LateInv'
  <2> SUFFICES ASSUME NEW c \in Bots
               PROVE  IF override[Strategy(c)] = "off"
                      THEN late'[c] <= 1 /\ (UnderWay(c)' => late'[c] = 0)
                      ELSE late'[c] = 0
    BY <1>4 DEF LateInv
  <2>1. CASE c = b
    <3>1. ~UnderWay(b)'
      BY <1>1, <1>2, <1>5 DEF UnderWay
    <3>2. late[b] = 0
      BY <1>2 DEF LoopInv, LateInv
    <3> QED BY <1>1, <1>3, <2>1, <3>1, <3>2
  <2>2. CASE c # b
    <3>1. bot'[c] = bot[c] /\ late'[c] = late[c]
      BY <1>1, <1>2, <1>3, <2>2
    <3> QED BY <3>1 DEF LoopInv, LateInv, UnderWay
  <2> QED BY <2>1, <2>2
<1> QED BY <1>7, <1>8, <1>9 DEF LoopInv

LEMMA BotKeeps ==
    ASSUME LoopInv, NEW b \in Bots, Wake(b) \/ Turn(b) \/ Abandons(b)
    PROVE  LoopInv'
BY IdleMovesKeep, SignalsKeep, OrderMovesKeep, AnnouncesKeep, ProbeAnswersKeeps, PlacesKeeps
   DEF Turn

-----------------------------------------------------------------------------
(* The health request, the tunnel and the clock.                            *)

LEMMA HealthKeeps ==
    ASSUME LoopInv, HealthAsks \/ HealthAnswers
    PROVE  LoopInv'
<1>1. bot' = bot /\ UNCHANGED <<tunnel, dark, selector>>
  BY DEF HealthAsks, HealthAnswers, guard
<1>2. LateInv'
  BY <1>1 DEF LoopInv, LateInv, UnderWay, selector
<1>3. CASE HealthAsks
  <2>1. cache' = cache /\ health' = At("probe")
    BY <1>3 DEF HealthAsks, guard
  <2>2. health' \in [pc : {"idle", "probe"}, n : Nat]
    BY <2>1 DEF At
  <2> QED BY <1>1, <1>2, <2>1, <2>2 DEF LoopInv, GateTyped, SeenInv, selector
<1>4. CASE HealthAnswers
  <2>1. health' = At("idle") /\ health.n \in Nat
    BY <1>4 DEF HealthAnswers, LoopInv, GateTyped
  <2>2. health' \in [pc : {"idle", "probe"}, n : Nat]
    BY <2>1 DEF At
  <2>3. PICK active \in Listing(health.n) : cache' = Answered(active, health.n)
    BY <1>4 DEF HealthAnswers
  <2>4. SeenInv'
    BY <1>1, <2>3, AnswerSeen
  <2>5. cache' \in [active : BOOLEAN, age : Nat]
    <3>1. active \in BOOLEAN
      BY <2>3 DEF Listing
    <3> QED BY <2>1, <2>3, <3>1 DEF Answered
  <2> QED BY <1>1, <1>2, <2>2, <2>4, <2>5 DEF LoopInv, GateTyped, selector
<1> QED BY <1>3, <1>4

LEMMA TunnelChangesKeeps ==
    ASSUME LoopInv, TunnelChanges
    PROVE  LoopInv'
<1>1. cache.age \in Nat /\ cache' = cache /\ dark' = 0
  BY DEF LoopInv, GateTyped, TunnelChanges
<1>2. GateTyped'
  BY DEF LoopInv, GateTyped, TunnelChanges, selector
<1>3. SeenInv'
  BY <1>1 DEF SeenInv
<1>4. LateInv'
  BY DEF LoopInv, LateInv, UnderWay, TunnelChanges, selector
<1> QED BY <1>2, <1>3, <1>4 DEF LoopInv

LEMMA TickKeeps ==
    ASSUME LoopInv, Tick
    PROVE  LoopInv'
<1>1. /\ bot \in [Bots -> [pc : Where, n : Nat]] /\ health \in [pc : {"idle", "probe"}, n : Nat]
      /\ cache \in [active : BOOLEAN, age : Nat] /\ dark \in Nat
      /\ Ttl \in Nat /\ ProbeMax \in Nat
  BY LoopAssumption DEF LoopInv, GateTyped, LoopAssumption
<1>2. bot' = [b \in Bots |-> IF b \in Probing THEN [bot[b] EXCEPT !.n = bot[b].n + 1] ELSE bot[b]]
  BY DEF Tick
<1>3. bot' \in [Bots -> [pc : Where, n : Nat]]
  <2>1. ASSUME NEW b \in Bots
        PROVE  [bot[b] EXCEPT !.n = bot[b].n + 1] \in [pc : Where, n : Nat]
    BY <1>1
  <2> QED BY <1>1, <1>2, <2>1
<1>4. \A b \in Bots : bot'[b].pc = bot[b].pc
  BY <1>1, <1>2
<1>5. health' \in [pc : {"idle", "probe"}, n : Nat]
  BY <1>1 DEF Tick
<1>6. cache' = [cache EXCEPT !.age = Older(cache.age, Ttl)]
  BY DEF Tick
<1>7. cache' \in [active : BOOLEAN, age : Nat] /\ cache'.active = cache.active
      /\ cache'.age = Older(cache.age, Ttl)
  BY <1>1, <1>6, OlderTyped
<1>8. dark' \in Nat /\ dark' <= dark + 1
  BY <1>1 DEF Tick, Older
<1>9. GateTyped'
  BY <1>3, <1>5, <1>7, <1>8 DEF LoopInv, GateTyped, Tick, selector
<1>10. SeenInv'
  BY <1>1, <1>7, <1>8 DEF LoopInv, SeenInv, Older
<1>11. LateInv'
  BY <1>4 DEF LoopInv, LateInv, UnderWay, Tick, selector
<1> QED BY <1>9, <1>10, <1>11 DEF LoopInv

-----------------------------------------------------------------------------
(* The hot swap and main().                                                 *)

LEMMA DisableKeeps ==
    ASSUME LoopInv, NEW s \in Strategies, Disable(s)
    PROVE  LoopInv'
<1>1. /\ override \in [Strategies -> {"none", "on", "off"}] /\ late \in [Bots -> Nat]
      /\ override' = [override EXCEPT ![s] = "off"]
      /\ late' = [b \in Bots |-> IF Strategy(b) = s THEN 0 ELSE late[b]]
  BY DEF LoopInv, GateTyped, Disable
<1>2. bot' = bot /\ UNCHANGED <<health, guard>>
  BY DEF Disable
<1>3. GateTyped'
  BY <1>1, <1>2 DEF LoopInv, GateTyped, guard
<1>4. SeenInv'
  BY <1>2 DEF LoopInv, SeenInv, guard
<1>5. LateInv'
  BY <1>1, <1>2, StrategyTyped DEF LoopInv, LateInv, UnderWay
<1> QED BY <1>3, <1>4, <1>5 DEF LoopInv

(* The other requests disable nothing that was not disabled before.         *)
LEMMA OverridesKeeps ==
    ASSUME LoopInv, NEW to \in [Strategies -> {"none", "on", "off"}], Overrides(to),
           \A s \in Strategies : to[s] = "off" => override[s] = "off"
    PROVE  LoopInv'
<1>1. /\ late \in [Bots -> Nat] /\ override' = to
      /\ late' = [b \in Bots |-> IF to[Strategy(b)] = "off" THEN late[b] ELSE 0]
  BY DEF LoopInv, GateTyped, Overrides
<1>2. bot' = bot /\ UNCHANGED <<health, guard>>
  BY DEF Overrides
<1>3. GateTyped'
  BY <1>1, <1>2 DEF LoopInv, GateTyped, guard
<1>4. SeenInv'
  BY <1>2 DEF LoopInv, SeenInv, guard
<1>5. LateInv'
  BY <1>1, <1>2, StrategyTyped DEF LoopInv, LateInv, UnderWay
<1> QED BY <1>3, <1>4, <1>5 DEF LoopInv

LEMMA HotSwapKeeps ==
    ASSUME LoopInv,
           (\E s \in Strategies : Enable(s) \/ Disable(s) \/ Reset(s)) \/ ResetAll
    PROVE  LoopInv'
<1>0. override \in [Strategies -> {"none", "on", "off"}]
  BY DEF LoopInv, GateTyped
<1>1. ASSUME NEW s \in Strategies, Enable(s) PROVE LoopInv'
  <2> DEFINE to == [override EXCEPT ![s] = "on"]
  <2>1. to \in [Strategies -> {"none", "on", "off"}] /\ Overrides(to)
    BY <1>0, <1>1 DEF Enable
  <2>2. \A r \in Strategies : to[r] = "off" => override[r] = "off"
    BY <1>0
  <2> HIDE DEF to
  <2> QED BY <2>1, <2>2, OverridesKeeps
<1>2. ASSUME NEW s \in Strategies, Reset(s) PROVE LoopInv'
  <2> DEFINE to == [override EXCEPT ![s] = "none"]
  <2>1. to \in [Strategies -> {"none", "on", "off"}] /\ Overrides(to)
    BY <1>0, <1>2 DEF Reset
  <2>2. \A r \in Strategies : to[r] = "off" => override[r] = "off"
    BY <1>0
  <2> HIDE DEF to
  <2> QED BY <2>1, <2>2, OverridesKeeps
<1>3. CASE ResetAll
  <2> DEFINE to == [s \in Strategies |-> "none"]
  <2>1. to \in [Strategies -> {"none", "on", "off"}] /\ Overrides(to)
    BY <1>3 DEF ResetAll
  <2>2. \A r \in Strategies : to[r] = "off" => override[r] = "off"
    OBVIOUS
  <2> HIDE DEF to
  <2> QED BY <2>1, <2>2, OverridesKeeps
<1> QED BY <1>1, <1>2, <1>3, DisableKeeps

(* All bots start a turn, or end where they are.                            *)
LEMMA AllGoKeeps ==
    ASSUME LoopInv, NEW where \in {"turn", "off"},
           bot' = [b \in Bots |-> At(where)], UNCHANGED <<health, guard, selector>>
    PROVE  LoopInv'
<1>1. At(where) \in [pc : Where, n : Nat] /\ At(where).pc = where
  BY AtTyped DEF Where
<1>2. bot' \in [Bots -> [pc : Where, n : Nat]]
  BY <1>1
<1>3. GateTyped'
  BY <1>2 DEF LoopInv, GateTyped, guard, selector
<1>4. SeenInv'
  BY DEF LoopInv, SeenInv, guard
<1>5. LateInv'
  BY <1>1 DEF LoopInv, LateInv, UnderWay, selector
<1> QED BY <1>3, <1>4, <1>5 DEF LoopInv

LEMMA BotsUntouched ==
    ASSUME LoopInv, UNCHANGED <<bot, health, guard, selector>>
    PROVE  LoopInv'
BY DEF LoopInv, GateTyped, SeenInv, LateInv, UnderWay, guard, selector

LEMMA MainKeeps ==
    ASSUME LoopInv, MainStep \/ Cancel \/ Signalled \/ RecorderRaises
    PROVE  LoopInv'
<1>1. CASE Launch
  BY <1>1, AllGoKeeps DEF Launch
<1>2. CASE Greeted \/ Cancel
  <2>1. UNCHANGED <<health, guard, selector>>
    BY <1>2 DEF Greeted, Cancel
  <2>2. bot' = [b \in Bots |-> At("off")] \/ bot' = bot
    BY <1>2 DEF Greeted, Cancel, CancelTasks
  <2> QED BY <2>1, <2>2, AllGoKeeps, BotsUntouched
<1>3. CASE Gathered \/ Close \/ Signalled \/ RecorderRaises
  BY <1>3, BotsUntouched DEF Gathered, Close, Signalled, RecorderRaises
<1> QED BY <1>1, <1>2, <1>3 DEF MainStep

LEMMA ResolverKeeps ==
    ASSUME LoopInv, ResolverWakes \/ Cycle \/ ResolverFails
    PROVE  LoopInv'
BY BotsUntouched DEF ResolverWakes, Cycle, ResolverFails, NextTrade, FetchRefused, Unsettled,
   SettlesTrade, ResolverAnnounces, ResolverAnnounced

-----------------------------------------------------------------------------
LEMMA StepKeeps == LoopInv /\ [Next]_vars => LoopInv'
<1> SUFFICES ASSUME LoopInv, [Next]_vars PROVE LoopInv'
  OBVIOUS
<1>1. CASE Next
  BY <1>1, BotKeeps, ResolverKeeps, HealthKeeps, TunnelChangesKeeps, TickKeeps, HotSwapKeeps,
     MainKeeps DEF Next
<1>2. CASE UNCHANGED vars
  BY <1>2, BotsUntouched DEF vars, guard, selector
<1> QED BY <1>1, <1>2

(* The invariant, for every behaviour.                                      *)
THEOREM LoopInvariant == Spec => []LoopInv
BY InitInv, StepKeeps, PTL DEF Spec

(* An operator who disables a strategy meets at most one more order of each *)
(* of its bots, the one that run_bot had under way.                         *)
THEOREM BotLoopDisableStopsBots == Spec => []DisableStopsBots
<1>1. LoopInv => DisableStopsBots
  BY DEF LoopInv, GateTyped, LateInv, DisableStopsBots
<1> QED BY <1>1, LoopInvariant, PTL

(* Only a probe's answer or a cached one lets execute go on.                *)
LEMMA LookupByGate ==
    ASSUME LoopInv, [Next]_vars, NEW b \in Bots, bot[b].pc # "lookup", bot'[b].pc = "lookup"
    PROVE  Saved(b) \/ ProbeAnswers(b)
<1>0. bot \in [Bots -> [pc : Where, n : Nat]]
  BY DEF LoopInv, GateTyped
<1>1. bot' # bot
  OBVIOUS
<1>2. ASSUME NEW c \in Bots, Wake(c) \/ Turn(c) \/ Abandons(c)
      PROVE  Saved(b) \/ ProbeAnswers(b)
  <2>1. CASE Saved(c) \/ ProbeAnswers(c)
    <3>1. PICK to : bot' = [bot EXCEPT ![c] = to]
      BY <2>1 DEF Saved, ProbeAnswers, Goes
    <3>2. c = b
      BY <1>0, <3>1
    <3> QED BY <2>1, <3>2
  <2>2. CASE LookupFails(c)
    <3>1. PICK to : bot' = [bot EXCEPT ![c] = to]
      BY <2>2 DEF LookupFails
    <3>2. c = b
      BY <1>0, <3>1
    <3> QED BY <2>2, <3>2 DEF LookupFails
  <2>3. CASE Wake(c) \/ Idles(c) \/ Skips(c) \/ Signals(c) \/ Places(c) \/ Announces(c)
             \/ Announced(c) \/ Abandons(c)
    <3>1. PICK to : bot' = [bot EXCEPT ![c] = to] /\ to.pc # "lookup"
      BY <2>3 DEF Wake, Idles, Skips, Signals, Places, Announces, Announced, Abandons, Goes, At
    <3> QED BY <1>0, <3>1
  <2> QED BY <1>2, <2>1, <2>2, <2>3 DEF Turn
<1>3. CASE Tick
  <2>1. bot'[b].pc = bot[b].pc
    BY <1>0, <1>3 DEF Tick
  <2> QED BY <2>1
<1>4. CASE Launch \/ Greeted \/ Cancel
  <2>1. bot' = bot \/ \E where \in {"turn", "off"} : bot' = [c \in Bots |-> At(where)]
    BY <1>4 DEF Launch, Greeted, Cancel, CancelTasks
  <2> QED BY <1>1, <2>1 DEF At
<1>5. CASE ResolverWakes \/ Cycle \/ ResolverFails \/ HealthAsks \/ HealthAnswers \/ TunnelChanges
           \/ (\E s \in Strategies : Enable(s) \/ Disable(s) \/ Reset(s)) \/ ResetAll
           \/ Signalled \/ Gathered \/ Close \/ RecorderRaises
  BY <1>1, <1>5 DEF ResolverWakes, Cycle, ResolverFails, NextTrade, FetchRefused, Unsettled,
     SettlesTrade, ResolverAnnounces, ResolverAnnounced, HealthAsks, HealthAnswers, TunnelChanges,
     Enable, Disable, Reset, ResetAll, Overrides, Signalled, Gathered, Close, RecorderRaises
<1>6. CASE UNCHANGED vars
  BY <1>1, <1>6 DEF vars
<1> QED BY <1>2, <1>3, <1>4, <1>5, <1>6 DEF Next, MainStep

(* No order passes the VPN guard on an answer that the tunnel gave longer   *)
(* than _CACHE_TTL before the guard was asked.                              *)
THEOREM BotLoopGateSawTunnel == Spec => GateSawTunnel
<1>1. LoopInv /\ [Next]_vars =>
        [\A b \in Bots : bot[b].pc # "lookup" /\ bot'[b].pc = "lookup"
             => dark < Ttl + (IF bot[b].pc = "probe" THEN bot[b].n ELSE 0)]_vars
  <2> SUFFICES ASSUME LoopInv, [Next]_vars, NEW b \in Bots,
                      bot[b].pc # "lookup", bot'[b].pc = "lookup"
               PROVE  dark < Ttl + (IF bot[b].pc = "probe" THEN bot[b].n ELSE 0)
    OBVIOUS
  <2>0. /\ bot \in [Bots -> [pc : Where, n : Nat]] /\ dark \in Nat /\ Ttl \in Nat \ {0}
        /\ cache \in [active : BOOLEAN, age : Nat]
    BY LoopAssumption DEF LoopInv, GateTyped, LoopAssumption
  <2>1. CASE Saved(b)
    <3>1. bot[b].pc = "save" /\ Cached /\ cache.active
      BY <2>0, <2>1 DEF Saved, Goes, At
    <3>2. dark <= cache.age /\ cache.age < Ttl
      BY <3>1 DEF LoopInv, SeenInv, Cached
    <3> QED BY <2>0, <3>1, <3>2
  <2>2. CASE ProbeAnswers(b)
    <3>1. PICK active \in Listing(bot[b].n) :
            bot' = [bot EXCEPT ![b] = At(IF active THEN "lookup" ELSE "sleep")]
      BY <2>2 DEF ProbeAnswers, Goes
    <3>2. active
      BY <2>0, <3>1 DEF At
    <3>3. dark <= bot[b].n
      BY <3>1, <3>2 DEF Listing
    <3>4. bot[b].pc = "probe" /\ bot[b].n \in Nat
      BY <2>0, <2>2 DEF ProbeAnswers
    <3> QED BY <2>0, <3>3, <3>4
  <2> QED BY <2>1, <2>2, LookupByGate
<1> QED BY <1>1, LoopInvariant, PTL DEF Spec, GateSawTunnel

-----------------------------------------------------------------------------
(* The limiter.  The stamps it remembers, the old ones forgotten, are those *)
(* of the messages admitted in the window, and no message left later than   *)
(* SendMax after its stamp.                                                 *)
OnTheWay ==
    \A s \in Senders : sender[s].pc = "send" =>
        sender[s].msg \in 1..Len(admitted) /\ admitted[sender[s].msg] <= SendMax
InTime == \A i \in 1..Len(left) : left[i] <= Window => admitted[i] <= left[i] + SendMax
NotifierInv == NTypeOK /\ Recent(stamps) = Recent(admitted) /\ OnTheWay /\ InTime

LEMMA LimitNat == Window \in Nat /\ Limit \in Nat /\ SendMax \in Nat /\ Far = Window + 1
BY NotifierAssumption DEF NotifierAssumption, Far

(* What the limiter forgets is what a scan from the old end stops at: there *)
(* is such a place ...                                                      *)
LEMMA OldEnds ==
    ASSUME NEW s \in Seq(Nat)
    PROVE  \E n \in 0..Len(s) : AllOld(s, n)
<1> DEFINE young == {k \in 1..Len(s) : s[k] <= Window}
<1>1. CASE young = {}
  <2>1. \A i \in 1..Len(s) : s[i] > Window
    BY <1>1, LimitNat
  <2> QED BY <2>1 DEF AllOld
<1>2. CASE young # {}
  <2>1. PICK m \in young : \A y \in young : <<y, m>> \notin OpToRel(<, Nat)
    <3>1. young \subseteq Nat
      OBVIOUS
    <3> HIDE DEF young
    <3> QED BY <1>2, <3>1, WFMin, NatLessThanWellFounded, Zenon
  <2>2. \A y \in young : ~(y < m)
    <3>1. young \subseteq Nat
      OBVIOUS
    <3> HIDE DEF young
    <3> QED BY <2>1, <3>1, Zenon DEF OpToRel
  <2>3. m - 1 \in 0..Len(s) /\ m \in 1..Len(s) /\ (m - 1) + 1 = m /\ s[m] <= Window
    OBVIOUS
  <2>4. \A i \in 1..m - 1 : s[i] > Window
    <3> SUFFICES ASSUME NEW i \in 1..m - 1 PROVE s[i] > Window
      OBVIOUS
    <3>1. i \in 1..Len(s) /\ i < m /\ s[i] \in Nat
      BY <2>3
    <3> QED BY <2>2, <3>1, LimitNat
  <2>5. AllOld(s, m - 1)
    BY <2>3, <2>4 DEF AllOld
  <2> QED BY <2>3, <2>5
<1> QED BY <1>1, <1>2

(* ... and only one.                                                        *)
LEMMA RecentIs ==
    ASSUME NEW s \in Seq(Nat), NEW n \in 0..Len(s), AllOld(s, n)
    PROVE  Recent(s) = SubSeq(s, n + 1, Len(s))
<1> DEFINE old == CHOOSE k \in 0..Len(s) : AllOld(s, k)
<1>1. old \in 0..Len(s) /\ AllOld(s, old)
  BY Zenon
<1>2. Recent(s) = SubSeq(s, old + 1, Len(s))
  BY DEF Recent
<1> HIDE DEF old
<1>3. old = n
  <2>1. CASE old < n
    <3>1. old + 1 \in 1..n /\ old < Len(s)
      BY <1>1, <2>1
    <3>2. s[old + 1] > Window /\ s[old + 1] <= Window /\ s[old + 1] \in Nat
      BY <1>1, <3>1 DEF AllOld
    <3> QED BY <3>2, LimitNat
  <2>2. CASE n < old
    <3>1. n + 1 \in 1..old /\ n < Len(s)
      BY <1>1, <2>2
    <3>2. s[n + 1] > Window /\ s[n + 1] <= Window /\ s[n + 1] \in Nat
      BY <1>1, <3>1 DEF AllOld
    <3> QED BY <3>2, LimitNat
  <2> QED BY <1>1, <2>1, <2>2
<1> QED BY <1>2, <1>3

LEMMA SubSeqFacts ==
    ASSUME NEW s \in Seq(Nat), NEW n \in 0..Len(s)
    PROVE  /\ SubSeq(s, n + 1, Len(s)) \in Seq(Nat)
           /\ Len(SubSeq(s, n + 1, Len(s))) = Len(s) - n
           /\ n < Len(s) => SubSeq(s, n + 1, Len(s))[1] = s[n + 1]
<1>1. n \in Nat /\ Len(s) \in Nat /\ n <= Len(s)
  OBVIOUS
<1>2. SubSeq(s, n + 1, Len(s)) \in Seq(Nat)
  <2>1. \A i \in (n + 1)..Len(s) : s[i] \in Nat
    OBVIOUS
  <2> QED BY <1>1, <2>1
<1>3. Len(SubSeq(s, n + 1, Len(s))) = Len(s) - n
  BY <1>1
<1>4. ASSUME n < Len(s) PROVE SubSeq(s, n + 1, Len(s))[1] = s[n + 1]
  <2>1. 1 \in 1..(Len(s) - n) /\ (n + 1) + 1 - 1 = n + 1
    BY <1>1, <1>4
  <2> QED BY <1>1, <2>1
<1> QED BY <1>2, <1>3, <1>4

(* What is left starts with a young stamp, if there is any.                 *)
LEMMA RecentYoung ==
    ASSUME NEW s \in Seq(Nat)
    PROVE  /\ Recent(s) \in Seq(Nat) /\ Len(Recent(s)) <= Len(s)
           /\ Recent(s) # <<>> => Recent(s)[1] <= Window
<1>1. PICK n \in 0..Len(s) : AllOld(s, n)
  BY OldEnds
<1>2. Recent(s) = SubSeq(s, n + 1, Len(s))
  BY <1>1, RecentIs
<1>3. /\ SubSeq(s, n + 1, Len(s)) \in Seq(Nat) /\ Len(SubSeq(s, n + 1, Len(s))) = Len(s) - n
      /\ n < Len(s) => SubSeq(s, n + 1, Len(s))[1] = s[n + 1]
  BY SubSeqFacts
<1>4. SubSeq(s, n + 1, Len(s)) # <<>> => n < Len(s)
  BY <1>3
<1> QED BY <1>1, <1>2, <1>3, <1>4 DEF AllOld

(* Nothing is forgotten of a queue that starts with a young stamp.          *)
LEMMA RecentKeeps ==
    ASSUME NEW s \in Seq(Nat), s # <<>> => s[1] <= Window
    PROVE  Recent(s) = s
<1>1. 0 \in 0..Len(s) /\ AllOld(s, 0)
  BY DEF AllOld
<1>2. Recent(s) = SubSeq(s, 1, Len(s))
  BY <1>1, RecentIs
<1> QED BY <1>2

(* A message that is sent is stamped.                                       *)
LEMMA StampedRecent ==
    ASSUME NEW s \in Seq(Nat)
    PROVE  /\ Append(Recent(s), 0) \in Seq(Nat)
           /\ Recent(Append(Recent(s), 0)) = Append(Recent(s), 0)
           /\ Recent(Recent(s)) = Recent(s)
<1> DEFINE q == Recent(s)
<1>1. q \in Seq(Nat) /\ (q # <<>> => q[1] <= Window)
  BY RecentYoung
<1> HIDE DEF q
<1>2. Append(q, 0) \in Seq(Nat) /\ Append(q, 0)[1] = IF q = <<>> THEN 0 ELSE q[1]
  BY <1>1
<1>3. Append(q, 0)[1] <= Window
  BY <1>1, <1>2, LimitNat
<1>4. Recent(Append(q, 0)) = Append(q, 0) /\ Recent(q) = q
  BY <1>1, <1>2, <1>3, RecentKeeps
<1> QED BY <1>2, <1>4 DEF q

LEMMA GrownTyped ==
    ASSUME NEW s \in Seq(Nat)
    PROVE  /\ Grown(s) \in Seq(Nat) /\ Len(Grown(s)) = Len(s)
           /\ \A i \in 1..Len(s) : Grown(s)[i] = Aged(s[i])
           /\ \A i \in 1..Len(s) : s[i] > Window => Grown(s)[i] > Window
<1>1. \A i \in 1..Len(s) : s[i] \in Nat /\ Aged(s[i]) \in Nat
  <2>1. \A i \in 1..Len(s) : s[i] \in Nat
    OBVIOUS
  <2> QED BY <2>1, LimitNat DEF Aged
<1>2. Grown(s) \in Seq(Nat) /\ Len(Grown(s)) = Len(s)
  BY <1>1 DEF Grown
<1>3. \A i \in 1..Len(s) : Grown(s)[i] = Aged(s[i])
  BY DEF Grown
<1>4. \A i \in 1..Len(s) : s[i] > Window => Grown(s)[i] > Window
  BY <1>1, <1>3, LimitNat DEF Aged
<1> QED BY <1>2, <1>3, <1>4

(* Growing older first and forgetting then leaves what forgetting before    *)
(* and after leaves.                                                        *)
LEMMA GrownRecent ==
    ASSUME NEW s \in Seq(Nat)
    PROVE  Recent(Grown(Recent(s))) = Recent(Grown(s))
<1>1. PICK n \in 0..Len(s) : AllOld(s, n)
  BY OldEnds
<1> DEFINE q == SubSeq(s, n + 1, Len(s))
<1>2. Recent(s) = q
  BY <1>1, RecentIs
<1>3. /\ q \in Seq(Nat) /\ Len(q) = Len(s) - n
      /\ \A i \in 1..Len(q) : q[i] = s[n + i] /\ n + i \in 1..Len(s)
  OBVIOUS
<1> HIDE DEF q
<1>4. PICK m \in 0..Len(q) : AllOld(Grown(q), m)
  <2>1. Grown(q) \in Seq(Nat) /\ Len(Grown(q)) = Len(q)
    BY <1>3, GrownTyped
  <2> QED BY <2>1, OldEnds
<1> DEFINE t == Grown(s)
           u == Grown(q)
<1>5. /\ t \in Seq(Nat) /\ Len(t) = Len(s) /\ u \in Seq(Nat) /\ Len(u) = Len(q)
      /\ \A i \in 1..Len(s) : t[i] = Aged(s[i])
      /\ \A i \in 1..Len(s) : s[i] > Window => t[i] > Window
      /\ \A i \in 1..Len(q) : u[i] = Aged(q[i])
  BY <1>3, GrownTyped
<1> HIDE DEF t, u
<1>6. \A i \in 1..Len(u) : u[i] = t[n + i] /\ n + i \in 1..Len(t)
  BY <1>3, <1>5
<1>7. AllOld(t, n + m)
  <2>1. \A i \in 1..n + m : t[i] > Window
    <3> SUFFICES ASSUME NEW i \in 1..n + m PROVE t[i] > Window
      OBVIOUS
    <3>1. CASE i <= n
      <4>1. s[i] > Window /\ i \in 1..Len(s)
        BY <1>1, <3>1 DEF AllOld
      <4> QED BY <1>5, <4>1
    <3>2. CASE i > n
      <4>1. i - n \in 1..m /\ i - n \in 1..Len(u) /\ n + (i - n) = i
        BY <1>3, <1>4, <1>5, <3>2
      <4>2. u[i - n] > Window
        BY <1>4, <4>1 DEF AllOld, u
      <4> QED BY <1>6, <4>1, <4>2
    <3> QED BY <3>1, <3>2
  <2>2. n + m < Len(t) => t[(n + m) + 1] <= Window
    <3> SUFFICES ASSUME n + m < Len(t) PROVE t[(n + m) + 1] <= Window
      OBVIOUS
    <3>1. /\ n \in Nat /\ m \in Nat /\ Len(s) \in Nat
          /\ Len(t) = Len(s) /\ Len(u) = Len(s) - n
      BY <1>3, <1>4, <1>5
    <3>2. m < Len(u) /\ m + 1 \in 1..Len(u) /\ n + (m + 1) = (n + m) + 1
      BY ONLY <3>1, n + m < Len(t)
    <3>3. u[m + 1] <= Window
      BY <1>4, <3>2 DEF AllOld, u
    <3> QED BY <1>6, <3>2, <3>3
  <2> QED BY <2>1, <2>2 DEF AllOld
<1>8. n + m \in 0..Len(t)
  BY <1>3, <1>4, <1>5
<1>9. Recent(t) = SubSeq(t, (n + m) + 1, Len(t))
  BY <1>5, <1>7, <1>8, RecentIs
<1>10. Recent(u) = SubSeq(u, m + 1, Len(u))
  <2>1. m \in 0..Len(u) /\ AllOld(u, m)
    BY <1>4, <1>5 DEF u
  <2> QED BY <1>5, <2>1, RecentIs
<1>11. SubSeq(t, (n + m) + 1, Len(t)) = SubSeq(u, m + 1, Len(u))
  <2> DEFINE x == SubSeq(t, (n + m) + 1, Len(t))
             y == SubSeq(u, m + 1, Len(u))
  <2>1. /\ x \in Seq(Nat) /\ Len(x) = Len(t) - (n + m)
        /\ \A i \in 1..Len(x) : x[i] = t[(n + m) + i]
    BY <1>5, <1>8, SMTT(30)
  <2>2. /\ y \in Seq(Nat) /\ Len(y) = Len(u) - m
        /\ \A i \in 1..Len(y) : y[i] = u[m + i] /\ m + i \in 1..Len(u)
    BY <1>5, <1>4, SMTT(30)
  <2>3. Len(x) = Len(y)
    BY <2>1, <2>2, <1>3, <1>5
  <2> HIDE DEF x, y
  <2>4. \A i \in 1..Len(x) : x[i] = y[i]
    <3> SUFFICES ASSUME NEW i \in 1..Len(x) PROVE x[i] = y[i]
      OBVIOUS
    <3>1. n + (m + i) = (n + m) + i
      BY <2>1
    <3>2. x[i] = t[(n + m) + i] /\ y[i] = u[m + i] /\ m + i \in 1..Len(u)
      BY <2>1, <2>2, <2>3
    <3> QED BY <1>6, <3>1, <3>2
  <2>5. x = y
    BY <2>1, <2>2, <2>3, <2>4, SeqEqual
  <2> QED BY <2>5 DEF x, y
<1> QED BY <1>2, <1>9, <1>10, <1>11 DEF t, u

(* A stamp that is added is recent.                                         *)
LEMMA RecentAppend ==
    ASSUME NEW s \in Seq(Nat)
    PROVE  Recent(Append(s, 0)) = Append(Recent(s), 0)
<1>1. PICK n \in 0..Len(s) : AllOld(s, n)
  BY OldEnds
<1> DEFINE t == Append(s, 0)
           q == SubSeq(s, n + 1, Len(s))
           x == SubSeq(t, n + 1, Len(t))
<1>2. t \in Seq(Nat) /\ Len(t) = Len(s) + 1 /\ t[Len(s) + 1] = 0
      /\ \A i \in 1..Len(s) : t[i] = s[i]
  OBVIOUS
<1>3. /\ q \in Seq(Nat) /\ Len(q) = Len(s) - n
      /\ \A i \in 1..Len(q) : q[i] = s[n + i] /\ n + i \in 1..Len(s)
  OBVIOUS
<1> HIDE DEF t, q
<1>4. n \in 0..Len(t) /\ AllOld(t, n)
  <2>1. \A i \in 1..n : t[i] > Window
    <3> SUFFICES ASSUME NEW i \in 1..n PROVE t[i] > Window
      OBVIOUS
    <3>1. i \in 1..Len(s) /\ s[i] > Window
      BY <1>1 DEF AllOld
    <3> QED BY <1>2, <3>1
  <2>2. t[n + 1] <= Window
    <3>1. CASE n < Len(s)
      <4>1. n + 1 \in 1..Len(s) /\ s[n + 1] <= Window
        BY <1>1, <3>1 DEF AllOld
      <4> QED BY <1>2, <4>1
    <3>2. CASE n = Len(s)
      BY <1>2, <3>2, LimitNat
    <3> QED BY <3>1, <3>2
  <2> QED BY <1>2, <2>1, <2>2 DEF AllOld
<1>5. x \in Seq(Nat) /\ Len(x) = Len(t) - n /\ \A i \in 1..Len(x) : x[i] = t[n + i]
  BY <1>2, <1>4, SMTT(30)
<1>6. Append(q, 0) \in Seq(Nat) /\ Len(Append(q, 0)) = Len(q) + 1
      /\ \A i \in 1..Len(q) : Append(q, 0)[i] = q[i]
      /\ Append(q, 0)[Len(q) + 1] = 0
  BY <1>3
<1> DEFINE y == Append(q, 0)
<1> HIDE DEF x, y
<1>7. Len(x) = Len(y)
  BY <1>2, <1>3, <1>5, <1>6 DEF y
<1>8. ASSUME NEW i \in 1..Len(x) PROVE x[i] = y[i]
  <2>1. CASE i \in 1..Len(q)
    BY <1>2, <1>3, <1>5, <1>6, <1>8, <2>1 DEF y
  <2>2. CASE i = Len(q) + 1
    <3>1. n + i = Len(s) + 1
      BY <1>3, <2>2
    <3> QED BY <1>2, <1>5, <1>6, <1>8, <2>2, <3>1 DEF y
  <2>3. i \in 1..Len(q) \/ i = Len(q) + 1
    BY <1>2, <1>3, <1>5, <1>8
  <2> QED BY <2>1, <2>2, <2>3
<1>9. x = y
  BY <1>5, <1>6, <1>7, <1>8, SeqEqual DEF y
<1>10. Recent(t) = x
  BY <1>2, <1>4, RecentIs DEF x
<1>11. Recent(s) = q
  BY <1>1, RecentIs DEF q
<1> QED BY <1>9, <1>10, <1>11 DEF t, y

LEMMA AdmittedKeeps ==
    ASSUME NotifierInv, NEW s \in Senders, Admitted(s)
    PROVE  NotifierInv'
<1> DEFINE i == Len(admitted) + 1
<1>1. /\ sender \in [Senders -> [pc : {"idle", "send", "answer"}, msg : 0..MaxMessages]]
      /\ stamps \in Seq(Nat) /\ admitted \in Seq(Nat) /\ left \in Seq(Nat)
      /\ Len(left) = Len(admitted) /\ Recent(stamps) = Recent(admitted)
  BY DEF NotifierInv, NTypeOK
<1>2. /\ Len(admitted) < MaxMessages /\ Len(Recent(stamps)) < Limit
      /\ stamps' = Append(Recent(stamps), 0)
      /\ admitted' = Append(admitted, 0) /\ left' = Append(left, Far)
      /\ sender' = [sender EXCEPT ![s] = [pc |-> "send", msg |-> i]]
  BY DEF Admitted, Moves
<1>3. /\ admitted' \in Seq(Nat) /\ Len(admitted') = i /\ admitted'[i] = 0
      /\ \A k \in 1..Len(admitted) : admitted'[k] = admitted[k]
  BY <1>1, <1>2
<1>4. /\ left' \in Seq(Nat) /\ Len(left') = i /\ left'[i] = Far
      /\ \A k \in 1..Len(left) : left'[k] = left[k]
  BY <1>1, <1>2, LimitNat
<1>5. NTypeOK'
  <2>1. Recent(stamps) \in Seq(Nat)
    BY <1>1, RecentYoung
  <2>2. stamps' \in Seq(Nat) /\ Len(stamps') <= Limit
    BY <1>2, <2>1, LimitNat
  <2>3. MaxMessages \in Nat /\ i \in 0..MaxMessages
    BY <1>1, <1>2, NotifierAssumption DEF NotifierAssumption
  <2>4. [pc |-> "send", msg |-> i] \in [pc : {"idle", "send", "answer"}, msg : 0..MaxMessages]
    BY <2>3
  <2>5. sender' \in [Senders -> [pc : {"idle", "send", "answer"}, msg : 0..MaxMessages]]
    BY <1>1, <1>2, <2>4
  <2> QED BY <1>3, <1>4, <2>2, <2>3, <2>5 DEF NTypeOK
<1>6. (Recent(stamps) = Recent(admitted))'
  BY <1>1, <1>2, StampedRecent, RecentAppend
<1>7. OnTheWay'
  <2> SUFFICES ASSUME NEW r \in Senders, sender'[r].pc = "send"
               PROVE  sender'[r].msg \in 1..Len(admitted') /\ admitted'[sender'[r].msg] <= SendMax
    BY DEF OnTheWay
  <2>1. CASE r = s
    BY <1>1, <1>2, <1>3, <2>1, LimitNat
  <2>2. CASE r # s
    <3>1. sender'[r] = sender[r]
      BY <1>1, <1>2, <2>2
    <3>2. sender[r].msg \in 1..Len(admitted) /\ admitted[sender[r].msg] <= SendMax
      BY <3>1 DEF NotifierInv, OnTheWay
    <3> QED BY <1>3, <3>1, <3>2
  <2> QED BY <2>1, <2>2
<1>8. InTime'
  <2> SUFFICES ASSUME NEW k \in 1..Len(left'), left'[k] <= Window
               PROVE  admitted'[k] <= left'[k] + SendMax
    BY DEF InTime
  <2>1. k # i
    BY <1>4, LimitNat
  <2>2. k \in 1..Len(left)
    BY <1>1, <1>4, <2>1
  <2> QED BY <1>1, <1>3, <1>4, <2>2 DEF NotifierInv, InTime
<1> QED BY <1>5, <1>6, <1>7, <1>8 DEF NotifierInv

LEMMA LeavesKeeps ==
    ASSUME NotifierInv, NEW s \in Senders, Leaves(s)
    PROVE  NotifierInv'
<1> DEFINE i == sender[s].msg
<1>1. /\ sender \in [Senders -> [pc : {"idle", "send", "answer"}, msg : 0..MaxMessages]]
      /\ admitted \in Seq(Nat) /\ left \in Seq(Nat) /\ Len(left) = Len(admitted)
  BY DEF NotifierInv, NTypeOK
<1>2. /\ sender' = [sender EXCEPT ![s] = [pc |-> "answer", msg |-> i]]
      /\ left' = [left EXCEPT ![i] = 0] /\ stamps' = stamps /\ admitted' = admitted
  BY DEF Leaves, Moves
<1>3. i \in 1..Len(left) /\ admitted[i] <= SendMax
  BY <1>1 DEF Leaves, NotifierInv, OnTheWay
<1>4. /\ left' \in Seq(Nat) /\ Len(left') = Len(left) /\ left'[i] = 0
      /\ \A k \in 1..Len(left) : k # i => left'[k] = left[k]
  BY <1>1, <1>2, <1>3
<1>5. NTypeOK'
  <2>1. [pc |-> "answer", msg |-> i] \in [pc : {"idle", "send", "answer"}, msg : 0..MaxMessages]
    BY <1>1
  <2>2. sender' \in [Senders -> [pc : {"idle", "send", "answer"}, msg : 0..MaxMessages]]
    BY <1>1, <1>2, <2>1
  <2> QED BY <1>2, <1>4, <2>2 DEF NotifierInv, NTypeOK
<1>6. OnTheWay'
  <2>1. \A r \in Senders : sender'[r].pc = "send" => sender'[r] = sender[r]
    BY <1>1, <1>2
  <2> QED BY <1>2, <2>1 DEF NotifierInv, OnTheWay
<1>7. InTime'
  <2> SUFFICES ASSUME NEW k \in 1..Len(left), left'[k] <= Window
               PROVE  admitted[k] <= left'[k] + SendMax
    BY <1>2, <1>4 DEF InTime
  <2>1. CASE k = i
    BY <1>3, <1>4, <2>1, LimitNat
  <2>2. CASE k # i
    BY <1>4, <2>2 DEF NotifierInv, InTime
  <2> QED BY <2>1, <2>2
<1> QED BY <1>2, <1>5, <1>6, <1>7 DEF NotifierInv

LEMMA NTickKeeps ==
    ASSUME NotifierInv, NTick
    PROVE  NotifierInv'
<1>1. /\ stamps \in Seq(Nat) /\ admitted \in Seq(Nat) /\ left \in Seq(Nat)
      /\ Len(left) = Len(admitted) /\ Recent(stamps) = Recent(admitted)
  BY DEF NotifierInv, NTypeOK
<1>2. /\ stamps' = Grown(stamps) /\ admitted' = Grown(admitted) /\ left' = Grown(left)
      /\ sender' = sender
      /\ \A s \in Senders : sender[s].pc = "send" => admitted[sender[s].msg] < SendMax
  BY DEF NTick
<1>3. /\ admitted' \in Seq(Nat) /\ Len(admitted') = Len(admitted)
      /\ \A k \in 1..Len(admitted) : admitted[k] \in Nat /\ admitted'[k] = Aged(admitted[k])
  <2>1. /\ Grown(admitted) \in Seq(Nat) /\ Len(Grown(admitted)) = Len(admitted)
        /\ \A k \in 1..Len(admitted) : Grown(admitted)[k] = Aged(admitted[k])
    BY <1>1, GrownTyped
  <2>2. \A k \in 1..Len(admitted) : admitted[k] \in Nat
    BY <1>1
  <2> QED BY <1>2, <2>1, <2>2
<1>4. /\ left' \in Seq(Nat) /\ Len(left') = Len(left)
      /\ \A k \in 1..Len(left) : left[k] \in Nat /\ left'[k] = Aged(left[k])
  <2>1. /\ Grown(left) \in Seq(Nat) /\ Len(Grown(left)) = Len(left)
        /\ \A k \in 1..Len(left) : Grown(left)[k] = Aged(left[k])
    BY <1>1, GrownTyped
  <2>2. \A k \in 1..Len(left) : left[k] \in Nat
    BY <1>1
  <2> QED BY <1>2, <2>1, <2>2
<1>5. NTypeOK'
  <2>1. stamps' \in Seq(Nat) /\ Len(stamps') = Len(stamps)
    BY <1>1, <1>2, GrownTyped
  <2> QED BY <1>2, <1>3, <1>4, <2>1 DEF NotifierInv, NTypeOK
<1>6. (Recent(stamps) = Recent(admitted))'
  BY <1>1, <1>2, GrownRecent
<1>7. OnTheWay'
  <2> SUFFICES ASSUME NEW s \in Senders, sender[s].pc = "send"
               PROVE  sender[s].msg \in 1..Len(admitted') /\ admitted'[sender[s].msg] <= SendMax
    BY <1>2 DEF OnTheWay
  <2>1. sender[s].msg \in 1..Len(admitted) /\ admitted[sender[s].msg] < SendMax
    BY <1>2 DEF NotifierInv, OnTheWay
  <2>2. /\ admitted[sender[s].msg] \in Nat
        /\ admitted'[sender[s].msg] = Aged(admitted[sender[s].msg])
    BY <1>3, <2>1
  <2>3. SendMax <= Window
    BY NotifierAssumption DEF NotifierAssumption
  <2> QED BY <1>3, <2>1, <2>2, <2>3, LimitNat DEF Aged
<1>8. InTime'
  <2> SUFFICES ASSUME NEW k \in 1..Len(left), left'[k] <= Window
               PROVE  admitted'[k] <= left'[k] + SendMax
    BY <1>4 DEF InTime
  <2>1. /\ left[k] \in Nat /\ left'[k] = Aged(left[k])
        /\ admitted[k] \in Nat /\ admitted'[k] = Aged(admitted[k])
    BY <1>1, <1>3, <1>4
  <2>2. left[k] <= Window /\ left'[k] = left[k] + 1
    BY <2>1, LimitNat DEF Aged
  <2>3. admitted[k] <= left[k] + SendMax
    BY <2>2 DEF NotifierInv, InTime
  <2>4. admitted'[k] <= admitted[k] + 1
    BY <2>1, LimitNat DEF Aged
  <2>5. admitted'[k] \in Nat
    BY <2>1, LimitNat DEF Aged
  <2> QED BY <2>1, <2>2, <2>3, <2>4, <2>5, LimitNat
<1> QED BY <1>5, <1>6, <1>7, <1>8 DEF NotifierInv

LEMMA SenderKeeps ==
    ASSUME NotifierInv, NEW s \in Senders, Refused(s) \/ Ends(s)
    PROVE  NotifierInv'
<1>1. /\ sender \in [Senders -> [pc : {"idle", "send", "answer"}, msg : 0..MaxMessages]]
      /\ stamps \in Seq(Nat) /\ Len(stamps) <= Limit /\ Recent(stamps) = Recent(admitted)
  BY DEF NotifierInv, NTypeOK
<1>2. admitted' = admitted /\ left' = left
  BY DEF Refused, Ends
<1>3. CASE Refused(s)
  <2>1. stamps' = Recent(stamps) /\ sender' = sender
    BY <1>3 DEF Refused
  <2>2. /\ Recent(stamps) \in Seq(Nat) /\ Len(Recent(stamps)) <= Len(stamps)
        /\ Recent(Recent(stamps)) = Recent(stamps)
    BY <1>1, RecentYoung, StampedRecent
  <2>3. Len(stamps') <= Limit
    BY <1>1, <2>1, <2>2, LimitNat
  <2> QED BY <1>1, <1>2, <2>1, <2>2, <2>3 DEF NotifierInv, NTypeOK, OnTheWay, InTime
<1>4. CASE Ends(s)
  <2>1. stamps' = stamps /\ sender' = [sender EXCEPT ![s] = Free]
    BY <1>4 DEF Ends
  <2>2. Free \in [pc : {"idle", "send", "answer"}, msg : 0..MaxMessages] /\ Free.pc = "idle"
    BY NotifierAssumption DEF Free, NotifierAssumption
  <2>3. sender' \in [Senders -> [pc : {"idle", "send", "answer"}, msg : 0..MaxMessages]]
    BY <1>1, <2>1, <2>2
  <2>4. \A r \in Senders : sender'[r].pc = "send" => sender'[r] = sender[r]
    BY <1>1, <2>1, <2>2
  <2> QED BY <1>2, <2>1, <2>3, <2>4 DEF NotifierInv, NTypeOK, OnTheWay, InTime
<1> QED BY <1>3, <1>4

(* The invariant, for every behaviour.                                      *)
THEOREM NotifierInvariant == NSpec => []NotifierInv
<1>1. NInit => NotifierInv
  <2> SUFFICES ASSUME NInit PROVE NotifierInv
    OBVIOUS
  <2>1. sender = [s \in Senders |-> Free] /\ stamps = <<>> /\ admitted = <<>> /\ left = <<>>
    BY DEF NInit
  <2>2. Free \in [pc : {"idle", "send", "answer"}, msg : 0..MaxMessages] /\ Free.pc = "idle"
    BY NotifierAssumption DEF Free, NotifierAssumption
  <2>3. <<>> \in Seq(Nat) /\ Len(<<>>) = 0 /\ 1..0 = {}
    OBVIOUS
  <2>4. Len(<<>>) <= Limit /\ Len(<<>>) <= MaxMessages
    BY <2>3, LimitNat, NotifierAssumption DEF NotifierAssumption
  <2>5. NTypeOK
    BY <2>1, <2>2, <2>3, <2>4 DEF NTypeOK
  <2>6. OnTheWay
    BY <2>1, <2>2 DEF OnTheWay
  <2>7. InTime
    BY <2>1, <2>3 DEF InTime
  <2> QED BY <2>1, <2>5, <2>6, <2>7 DEF NotifierInv
<1>2. NotifierInv /\ [NNext]_nvars => NotifierInv'
  <2> SUFFICES ASSUME NotifierInv, [NNext]_nvars PROVE NotifierInv'
    OBVIOUS
  <2>1. CASE NNext
    BY <2>1, NTickKeeps, AdmittedKeeps, LeavesKeeps, SenderKeeps DEF NNext
  <2>2. CASE UNCHANGED nvars
    BY <2>2 DEF nvars, NotifierInv, NTypeOK, OnTheWay, InTime
  <2> QED BY <2>1, <2>2
<1> QED BY <1>1, <1>2, PTL DEF NSpec

(* Type correctness of the notifier; its deque never exceeds the limit.     *)
THEOREM NotifierTyped == NSpec => []NTypeOK
<1>1. NotifierInv => NTypeOK
  BY DEF NotifierInv
<1> QED BY <1>1, NotifierInvariant, PTL

(* However many tasks send, and however long each request takes to get out, *)
(* up to SendMax, no more than Limit messages leave within the window less  *)
(* that delay: all of them were stamped within the window.                  *)
THEOREM NotifierTelegramRate == NSpec => []TelegramRate
<1>1. NotifierInv => TelegramRate
  <2> SUFFICES ASSUME NotifierInv PROVE TelegramRate
    OBVIOUS
  <2>1. /\ stamps \in Seq(Nat) /\ Len(stamps) <= Limit /\ Recent(stamps) = Recent(admitted)
        /\ admitted \in Seq(Nat) /\ left \in Seq(Nat) /\ Len(left) = Len(admitted)
    BY DEF NotifierInv, NTypeOK
  <2>2. PICK n \in 0..Len(admitted) : AllOld(admitted, n)
    BY <2>1, OldEnds
  <2>3. Len(admitted) - n <= Limit
    <3>1. Len(Recent(admitted)) = Len(admitted) - n
      BY <2>1, <2>2, RecentIs, SubSeqFacts
    <3>2. Len(Recent(stamps)) <= Len(stamps) /\ Len(Recent(stamps)) \in Nat
      BY <2>1, RecentYoung
    <3> QED BY <2>1, <3>1, <3>2, LimitNat
  <2> DEFINE young == {i \in DOMAIN left : left[i] <= Window - SendMax}
             kept == (n + 1)..Len(admitted)
  <2>4. young \subseteq kept
    <3> SUFFICES ASSUME NEW i \in 1..Len(left), left[i] <= Window - SendMax
                 PROVE  i \in kept
      BY <2>1
    <3>1. left[i] \in Nat /\ admitted[i] \in Nat /\ i \in 1..Len(admitted)
      BY <2>1
    <3>2. admitted[i] <= Window
      <4>1. left[i] <= Window
        BY <3>1, LimitNat
      <4>2. admitted[i] <= left[i] + SendMax
        BY <4>1 DEF NotifierInv, InTime
      <4> QED BY <3>1, <4>2, LimitNat
    <3>3. ~(i \in 1..n)
      BY <2>2, <3>1, <3>2, LimitNat DEF AllOld
    <3> QED BY <2>1, <3>1, <3>3
  <2>5. IsFiniteSet(kept) /\ Cardinality(kept) <= Limit
    <3>1. n + 1 \in Int /\ Len(admitted) \in Int
      BY <2>1
    <3>2. /\ IsFiniteSet(kept)
          /\ Cardinality(kept) = IF n + 1 > Len(admitted) THEN 0 ELSE Len(admitted) - (n + 1) + 1
      BY <3>1, FS_Interval
    <3> QED BY <2>1, <2>3, <3>2, LimitNat
  <2>6. Cardinality(young) <= Cardinality(kept) /\ Cardinality(young) \in Nat
    <3>1. IsFiniteSet(young) /\ Cardinality(young) <= Cardinality(kept)
      BY <2>4, <2>5, FS_Subset
    <3> QED BY <3>1, FS_CardinalityType
  <2>7. Cardinality(kept) \in Nat
    BY <2>5, FS_CardinalityType
  <2>8. Cardinality(young) <= Limit
    BY <2>5, <2>6, <2>7, LimitNat
  <2> QED BY <2>8 DEF TelegramRate
<1> QED BY <1>1, NotifierInvariant, PTL
=============================================================================
