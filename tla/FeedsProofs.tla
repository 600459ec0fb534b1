----------------------------- MODULE FeedsProofs -----------------------------
(* What the feeds guarantee for any assets and adapters, any freshness      *)
(* limit, any cap of the backoff and any number of retries.                 *)
EXTENDS Feeds, WellFoundedInduction, TLAPS

(* What is slept and what has passed since the failure make no more than    *)
(* the longest backoff.                                                     *)
SleepInv == link = "waiting" => calm + wait <= MaxBackoff

(* last_update of an adapter is the arrival of the tick of some asset, or   *)
(* of its start, healthy or not.                                            *)
EarnedInv ==
    \A s \in Secondary :
        \/ \E a \in Asset : sage[s][a] = health[s].age
        \/ \A a \in Asset : sage[s][a] = Never

(* A loop that is still on its WebSocket has not used up its retries.       *)
RetryInv == \A s \in Secondary : smode[s] \in {"ws", "sleep"} => retries[s] <= MaxWsRetries

FeedsInv == TypeOK /\ SleepInv /\ EarnedInv /\ RetryInv

-----------------------------------------------------------------------------
(* Ages.                                                                    *)

LEMMA AgesTyped ==
    /\ Stale \in Nat \ {0} /\ Never = Stale + 1 /\ Never \in Age
    /\ \A x \in Age : Older(x) \in Age
    /\ \A x \in 0..Stale : x \in Age /\ Older(x) \in 0..Stale
BY FeedsAssumption DEF Stale, Never, Age, Older

LEMMA NeverGrows == Older(Never) = Never
BY AgesTyped DEF Older

LEMMA RoundTyped == Len(Assets) \in Nat \ {0}
<1>1. Assets \in Seq(Asset) /\ Assets # <<>>
  BY FeedsAssumption
<1> QED BY <1>1

(* The turn stays within the round.                                         *)
LEMMA AskedTyped ==
    ASSUME TypeOK, NEW s \in Secondary, NEW a, Asked(s, a)
    PROVE  turn' \in [Secondary -> 1..Len(Assets)]
<1>1. turn[s] \in 1..Len(Assets) /\ turn \in [Secondary -> 1..Len(Assets)]
  BY DEF TypeOK
<1>2. (IF LastOf(s) THEN 1 ELSE turn[s] + 1) \in 1..Len(Assets)
  BY <1>1, RoundTyped DEF LastOf
<1> QED BY <1>1, <1>2 DEF Asked

(* A tick keeps ages and health typed.                                      *)
LEMMA TickTyped ==
    ASSUME TypeOK, NEW s \in Secondary, NEW a \in Asset, NEW up \in BOOLEAN,
           sage' = [sage EXCEPT ![s][a] = 0],
           health' = [health EXCEPT ![s] = [up |-> up, age |-> 0]]
    PROVE  /\ sage' \in [Secondary -> [Asset -> Age]]
           /\ health' \in [Secondary -> [up : BOOLEAN, age : 0..Stale]]
<1>1. 0 \in Age /\ 0 \in 0..Stale
  BY AgesTyped
<1>2. [up |-> up, age |-> 0] \in [up : BOOLEAN, age : 0..Stale]
  BY <1>1
<1>3. health' \in [Secondary -> [up : BOOLEAN, age : 0..Stale]]
  BY <1>2 DEF TypeOK
<1>4. sage[s] \in [Asset -> Age]
  BY DEF TypeOK
<1>5. [sage[s] EXCEPT ![a] = 0] \in [Asset -> Age]
  BY <1>1, <1>4
<1>6. sage' \in [Secondary -> [Asset -> Age]]
  BY <1>5 DEF TypeOK
<1> QED BY <1>3, <1>6

(* ... and is the tick that last_update speaks of.                          *)
LEMMA TickEarns ==
    ASSUME TypeOK, EarnedInv, NEW s \in Secondary, NEW a \in Asset, NEW up,
           sage' = [sage EXCEPT ![s][a] = 0],
           health' = [health EXCEPT ![s] = [up |-> up, age |-> 0]]
    PROVE  EarnedInv'
<1> SUFFICES ASSUME NEW r \in Secondary
             PROVE  \/ \E c \in Asset : sage'[r][c] = health'[r].age
                    \/ \A c \in Asset : sage'[r][c] = Never
  BY DEF EarnedInv
<1>0. sage \in [Secondary -> [Asset -> Age]] /\ health \in [Secondary -> [up : BOOLEAN, age : 0..Stale]]
  BY DEF TypeOK
<1>1. CASE r = s
  <2>1. sage'[s][a] = 0 /\ health'[s].age = 0
    BY <1>0
  <2> QED BY <1>1, <2>1
<1>2. CASE r # s
  <2>1. sage'[r] = sage[r] /\ health'[r] = health[r]
    BY <1>0, <1>2
  <2> QED BY <2>1 DEF EarnedInv
<1> QED BY <1>1, <1>2

-----------------------------------------------------------------------------
LEMMA InitInv == Init => FeedsInv
<1> SUFFICES ASSUME Init PROVE FeedsInv
  OBVIOUS
<1>1. 1 \in 1..Len(Assets) /\ 0 \in 0..Stale /\ Never \in Age /\ MaxWsRetries \in Nat
  BY RoundTyped, AgesTyped, FeedsAssumption
<1>2. TypeOK
  <2>1. /\ net \in BOOLEAN /\ connected \in BOOLEAN /\ running \in BOOLEAN
        /\ link \in {"connecting", "open", "waiting", "cancelled"}
    BY DEF Init
  <2>2. calm \in 0..MaxBackoff + 1 /\ wait \in 0..MaxBackoff /\ backoff \in 1..MaxBackoff
    BY FeedsAssumption DEF Init
  <2>3. /\ age \in [Asset -> Age] /\ sage \in [Secondary -> [Asset -> Age]]
        /\ smode \in [Secondary -> {"ws", "sleep", "rest", "off"}]
        /\ turn \in [Secondary -> 1..Len(Assets)]
    BY <1>1 DEF Init
  <2>4. retries \in [Secondary -> 0..MaxWsRetries + 1]
    BY <1>1 DEF Init
  <2>5. health \in [Secondary -> [up : BOOLEAN, age : 0..Stale]]
    BY <1>1 DEF Init
  <2> QED BY <2>1, <2>2, <2>3, <2>4, <2>5 DEF TypeOK
<1>3. SleepInv /\ EarnedInv
  BY DEF Init, SleepInv, EarnedInv
<1>4. RetryInv
  BY <1>1 DEF Init, RetryInv
<1> QED BY <1>2, <1>3, <1>4 DEF FeedsInv

-----------------------------------------------------------------------------
(* The primary.                                                             *)

LEMMA SecondariesUntouched ==
    ASSUME FeedsInv, UNCHANGED secondaries
    PROVE  EarnedInv' /\ RetryInv'
BY DEF FeedsInv, EarnedInv, RetryInv, secondaries

LEMMA DisconnectedKeeps ==
    ASSUME FeedsInv, Disconnected
    PROVE  FeedsInv'
<1>1. backoff \in 1..MaxBackoff /\ MaxBackoff \in Nat \ {0}
  BY FeedsAssumption DEF FeedsInv, TypeOK
<1>2. TypeOK'
  <2>1. backoff' \in 1..MaxBackoff
    BY <1>1 DEF Disconnected
  <2>2. wait' \in 0..MaxBackoff /\ calm' \in 0..MaxBackoff + 1
    BY <1>1 DEF Disconnected
  <2>3. link' \in {"connecting", "open", "waiting", "cancelled"} /\ connected' \in BOOLEAN
    BY DEF Disconnected
  <2> QED BY <2>1, <2>2, <2>3 DEF FeedsInv, TypeOK, Disconnected, secondaries
<1>3. SleepInv'
  BY <1>1 DEF Disconnected, SleepInv
<1>4. EarnedInv' /\ RetryInv'
  BY SecondariesUntouched DEF Disconnected
<1> QED BY <1>2, <1>3, <1>4 DEF FeedsInv

LEMMA PrimaryKeeps ==
    ASSUME FeedsInv, PrimaryStep
    PROVE  FeedsInv'
<1>0. TypeOK /\ SleepInv
  BY DEF FeedsInv
<1>1. CASE Connect
  <2>1. TypeOK'
    BY <1>0, <1>1, FeedsAssumption DEF Connect, TypeOK, secondaries
  <2>2. SleepInv'
    BY <1>1 DEF Connect, SleepInv
  <2> QED BY <1>1, <2>1, <2>2, SecondariesUntouched DEF Connect, FeedsInv
<1>2. CASE ConnectFails \/ Drop
  BY <1>2, DisconnectedKeeps DEF ConnectFails, Drop
<1>3. CASE CleanClose
  <2>1. TypeOK'
    BY <1>0, <1>3 DEF CleanClose, TypeOK, secondaries
  <2>2. SleepInv'
    BY <1>3 DEF CleanClose, SleepInv
  <2> QED BY <1>3, <2>1, <2>2, SecondariesUntouched DEF CleanClose, FeedsInv
<1>4. CASE Wake
  <2>1. TypeOK'
    BY <1>0, <1>4 DEF Wake, TypeOK, secondaries
  <2>2. SleepInv'
    BY <1>4 DEF Wake, SleepInv
  <2> QED BY <1>4, <2>1, <2>2, SecondariesUntouched DEF Wake, FeedsInv
<1>5. ASSUME NEW a \in Asset, AggTrade(a) PROVE FeedsInv'
  <2>1. age' \in [Asset -> Age]
    <3>1. 0 \in Age /\ age \in [Asset -> Age]
      BY <1>0, AgesTyped DEF TypeOK
    <3> QED BY <1>5, <3>1 DEF AggTrade
  <2>2. TypeOK'
    BY <1>0, <1>5, <2>1 DEF AggTrade, TypeOK, secondaries
  <2>3. SleepInv'
    BY <1>0, <1>5 DEF AggTrade, SleepInv
  <2> QED BY <1>5, <2>2, <2>3, SecondariesUntouched DEF AggTrade, FeedsInv
<1> QED BY <1>1, <1>2, <1>3, <1>4, <1>5 DEF PrimaryStep

-----------------------------------------------------------------------------
(* The secondaries.                                                         *)

(* What a step of an adapter leaves alone.                                  *)
LEMMA PrimaryUntouched ==
    ASSUME FeedsInv, UNCHANGED <<primary, running>>,
           smode' \in [Secondary -> {"ws", "sleep", "rest", "off"}],
           turn' \in [Secondary -> 1..Len(Assets)],
           retries' \in [Secondary -> 0..MaxWsRetries + 1],
           sage' \in [Secondary -> [Asset -> Age]],
           health' \in [Secondary -> [up : BOOLEAN, age : 0..Stale]]
    PROVE  TypeOK' /\ SleepInv'
BY DEF FeedsInv, TypeOK, SleepInv, primary

LEMMA WsErrorKeeps ==
    ASSUME FeedsInv, NEW s \in Secondary, WsError(s)
    PROVE  FeedsInv'
<1>0. /\ smode \in [Secondary -> {"ws", "sleep", "rest", "off"}]
      /\ turn \in [Secondary -> 1..Len(Assets)]
      /\ retries \in [Secondary -> 0..MaxWsRetries + 1]
      /\ sage \in [Secondary -> [Asset -> Age]]
      /\ health \in [Secondary -> [up : BOOLEAN, age : 0..Stale]]
  BY DEF FeedsInv, TypeOK
<1>1. MaxWsRetries \in Nat /\ retries[s] \in 0..MaxWsRetries
  <2>1. MaxWsRetries \in Nat /\ retries[s] \in 0..MaxWsRetries + 1
    BY <1>0, FeedsAssumption
  <2>2. retries[s] <= MaxWsRetries
    BY DEF FeedsInv, RetryInv, WsError
  <2> QED BY <2>1, <2>2
<1>2. retries' \in [Secondary -> 0..MaxWsRetries + 1]
  <2>1. retries[s] + 1 \in 0..MaxWsRetries + 1
    BY <1>1
  <2> QED BY <1>0, <2>1 DEF WsError
<1>3. smode' \in [Secondary -> {"ws", "sleep", "rest", "off"}]
  BY <1>0 DEF WsError
<1>4. turn' \in [Secondary -> 1..Len(Assets)]
  <2>1. 1 \in 1..Len(Assets)
    BY RoundTyped
  <2> QED BY <1>0, <2>1 DEF WsError
<1>5. TypeOK' /\ SleepInv'
  <2>1. sage' = sage /\ health' = health /\ UNCHANGED <<primary, running>>
    BY DEF WsError
  <2> QED BY <1>0, <1>2, <1>3, <1>4, <2>1, PrimaryUntouched
<1>6. EarnedInv'
  BY DEF WsError, FeedsInv, EarnedInv
<1>7. RetryInv'
  <2> SUFFICES ASSUME NEW r \in Secondary, smode'[r] \in {"ws", "sleep"}
               PROVE  retries'[r] <= MaxWsRetries
    BY DEF RetryInv
  <2>1. CASE r = s
    <3>1. retries'[s] = retries[s] + 1 /\ ~(retries[s] + 1 > MaxWsRetries)
      BY <1>0, <2>1 DEF WsError
    <3> QED BY <1>1, <2>1, <3>1
  <2>2. CASE r # s
    <3>1. retries'[r] = retries[r] /\ smode'[r] = smode[r]
      BY <1>0, <2>2 DEF WsError
    <3> QED BY <3>1 DEF FeedsInv, RetryInv
  <2> QED BY <2>1, <2>2
<1> QED BY <1>5, <1>6, <1>7 DEF FeedsInv

LEMMA WsResumeKeeps ==
    ASSUME FeedsInv, NEW s \in Secondary, WsResume(s)
    PROVE  FeedsInv'
<1>0. /\ smode \in [Secondary -> {"ws", "sleep", "rest", "off"}]
      /\ turn \in [Secondary -> 1..Len(Assets)]
      /\ retries \in [Secondary -> 0..MaxWsRetries + 1]
      /\ sage \in [Secondary -> [Asset -> Age]]
      /\ health \in [Secondary -> [up : BOOLEAN, age : 0..Stale]]
  BY DEF FeedsInv, TypeOK
<1>1. smode' \in [Secondary -> {"ws", "sleep", "rest", "off"}]
  BY <1>0 DEF WsResume
<1>2. TypeOK' /\ SleepInv'
  <2>1. UNCHANGED <<turn, retries, sage, health, primary, running>>
    BY DEF WsResume
  <2> QED BY <1>0, <1>1, <2>1, PrimaryUntouched
<1>3. EarnedInv'
  BY DEF WsResume, FeedsInv, EarnedInv
<1>4. RetryInv'
  BY <1>0 DEF WsResume, FeedsInv, RetryInv
<1> QED BY <1>2, <1>3, <1>4 DEF FeedsInv

(* A round of the WebSocket.                                                *)
LEMMA WsRoundTyped ==
    ASSUME FeedsInv, NEW s \in Secondary, NEW a, WsRound(s, a)
    PROVE  /\ turn' \in [Secondary -> 1..Len(Assets)]
           /\ retries' \in [Secondary -> 0..MaxWsRetries + 1]
           /\ smode' = smode /\ RetryInv'
<1>0. TypeOK /\ retries \in [Secondary -> 0..MaxWsRetries + 1] /\ MaxWsRetries \in Nat
  BY FeedsAssumption DEF FeedsInv, TypeOK
<1>1. turn' \in [Secondary -> 1..Len(Assets)]
  BY <1>0, AskedTyped DEF WsRound
<1>2. retries' \in [Secondary -> 0..MaxWsRetries + 1]
  BY <1>0 DEF WsRound
<1>3. RetryInv'
  <2> SUFFICES ASSUME NEW r \in Secondary, smode'[r] \in {"ws", "sleep"}
               PROVE  retries'[r] <= MaxWsRetries
    BY DEF RetryInv
  <2>1. retries[r] <= MaxWsRetries
    BY DEF WsRound, FeedsInv, RetryInv
  <2>2. retries'[r] = retries[r] \/ retries'[r] = 0
    BY <1>0 DEF WsRound
  <2> QED BY <1>0, <2>1, <2>2
<1> QED BY <1>1, <1>2, <1>3 DEF WsRound

LEMMA WsTurnKeeps ==
    ASSUME FeedsInv, NEW s \in Secondary, NEW a \in Asset, WsTick(s, a) \/ WsTimeout(s, a)
    PROVE  FeedsInv'
<1>0. TypeOK /\ EarnedInv /\ WsRound(s, a)
  BY DEF FeedsInv, WsTick, WsTimeout
<1>1. /\ turn' \in [Secondary -> 1..Len(Assets)]
      /\ retries' \in [Secondary -> 0..MaxWsRetries + 1]
      /\ smode' \in [Secondary -> {"ws", "sleep", "rest", "off"}] /\ RetryInv'
  BY <1>0, WsRoundTyped DEF TypeOK
<1>2. UNCHANGED <<primary, running>>
  BY <1>0 DEF WsRound
<1>3. CASE WsTick(s, a)
  <2>1. /\ sage' = [sage EXCEPT ![s][a] = 0]
        /\ health' = [health EXCEPT ![s] = [up |-> TRUE, age |-> 0]]
    BY <1>3 DEF WsTick, UpdateTick
  <2>2. /\ sage' \in [Secondary -> [Asset -> Age]]
        /\ health' \in [Secondary -> [up : BOOLEAN, age : 0..Stale]]
    BY <1>0, <2>1, TickTyped
  <2>3. EarnedInv'
    BY <1>0, <2>1, TickEarns
  <2> QED BY <1>1, <1>2, <2>2, <2>3, PrimaryUntouched DEF FeedsInv
<1>4. CASE WsTimeout(s, a)
  <2>1. sage' = sage /\ health' = health
    BY <1>4 DEF WsTimeout
  <2>2. EarnedInv'
    BY <1>0, <2>1 DEF EarnedInv
  <2>3. /\ sage' \in [Secondary -> [Asset -> Age]]
        /\ health' \in [Secondary -> [up : BOOLEAN, age : 0..Stale]]
    BY <1>0, <2>1 DEF TypeOK
  <2> QED BY <1>1, <1>2, <2>2, <2>3, PrimaryUntouched DEF FeedsInv
<1> QED BY <1>3, <1>4

(* A request of a REST loop that brings a tick.                             *)
LEMMA PollTickKeeps ==
    ASSUME FeedsInv, NEW s \in Secondary, NEW a \in Asset, RestTick(s, a) \/ DexTick(s, a)
    PROVE  FeedsInv'
<1>0. TypeOK /\ EarnedInv /\ RetryInv
  BY DEF FeedsInv
<1>1. UNCHANGED <<primary, running, smode, retries>> /\ Asked(s, a)
  BY DEF RestTick, DexTick
<1>2. /\ turn' \in [Secondary -> 1..Len(Assets)]
      /\ retries' \in [Secondary -> 0..MaxWsRetries + 1]
      /\ smode' \in [Secondary -> {"ws", "sleep", "rest", "off"}] /\ RetryInv'
  BY <1>0, <1>1, AskedTyped DEF TypeOK, RetryInv
<1>3. PICK up \in BOOLEAN : /\ sage' = [sage EXCEPT ![s][a] = 0]
                            /\ health' = [health EXCEPT ![s] = [up |-> up, age |-> 0]]
  <2>1. CASE RestTick(s, a)
    BY <2>1 DEF RestTick, UpdateTick
  <2>2. CASE DexTick(s, a)
    <3>1. (health[s].up \/ LastOf(s)) \in BOOLEAN
      OBVIOUS
    <3>2. health' = [health EXCEPT ![s] = [up |-> health[s].up \/ LastOf(s), age |-> 0]]
      BY <2>2 DEF DexTick
    <3> QED BY <2>2, <3>1, <3>2 DEF DexTick
  <2> QED BY <2>1, <2>2
<1>4. /\ sage' \in [Secondary -> [Asset -> Age]]
      /\ health' \in [Secondary -> [up : BOOLEAN, age : 0..Stale]]
  BY <1>0, <1>3, TickTyped
<1>5. EarnedInv'
  BY <1>0, <1>3, TickEarns
<1> QED BY <1>1, <1>2, <1>4, <1>5, PrimaryUntouched DEF FeedsInv

LEMMA PollMissKeeps ==
    ASSUME FeedsInv, NEW s \in Secondary, NEW a \in Asset, PollMiss(s, a)
    PROVE  FeedsInv'
<1>0. TypeOK /\ EarnedInv /\ RetryInv
  BY DEF FeedsInv
<1>1. UNCHANGED <<primary, running, smode, retries, sage>> /\ Asked(s, a)
  BY DEF PollMiss
<1>2. /\ turn' \in [Secondary -> 1..Len(Assets)]
      /\ retries' \in [Secondary -> 0..MaxWsRetries + 1]
      /\ smode' \in [Secondary -> {"ws", "sleep", "rest", "off"}] /\ RetryInv'
      /\ sage' \in [Secondary -> [Asset -> Age]]
  BY <1>0, <1>1, AskedTyped DEF TypeOK, RetryInv
<1>3. health \in [Secondary -> [up : BOOLEAN, age : 0..Stale]]
  BY <1>0 DEF TypeOK
<1>4. health' = [health EXCEPT ![s].up = health[s].up \/ LastOf(s)]
  BY DEF PollMiss
<1>5. health' \in [Secondary -> [up : BOOLEAN, age : 0..Stale]]
  <2>1. (health[s].up \/ LastOf(s)) \in BOOLEAN
    OBVIOUS
  <2> HIDE DEF LastOf
  <2>2. [health[s] EXCEPT !.up = health[s].up \/ LastOf(s)] \in [up : BOOLEAN, age : 0..Stale]
    BY <1>3, <2>1
  <2> QED BY <1>3, <1>4, <2>2
<1>6. \A r \in Secondary : health'[r].age = health[r].age
  BY <1>3, <1>4
<1>7. EarnedInv'
  BY <1>0, <1>1, <1>6 DEF EarnedInv
<1> QED BY <1>1, <1>2, <1>5, <1>7, PrimaryUntouched DEF FeedsInv

LEMMA SecondaryKeeps ==
    ASSUME FeedsInv, NEW s \in Secondary, SecondaryStep(s)
    PROVE  FeedsInv'
BY WsErrorKeeps, WsResumeKeeps, WsTurnKeeps, PollTickKeeps, PollMissKeeps DEF SecondaryStep

-----------------------------------------------------------------------------
(* The rest.                                                                *)

LEMMA StopAllKeeps ==
    ASSUME FeedsInv, StopAll
    PROVE  FeedsInv'
<1>0. TypeOK /\ EarnedInv
  BY DEF FeedsInv
<1>1. health \in [Secondary -> [up : BOOLEAN, age : 0..Stale]]
  BY <1>0 DEF TypeOK
<1>2. PICK raised \in SUBSET Secondary :
        health' = [s \in Secondary |-> [health[s] EXCEPT !.up = @ /\ s \in raised]]
  BY DEF StopAll
<1>3. health' \in [Secondary -> [up : BOOLEAN, age : 0..Stale]]
  <2>1. ASSUME NEW s \in Secondary
        PROVE  [health[s] EXCEPT !.up = @ /\ s \in raised] \in [up : BOOLEAN, age : 0..Stale]
    BY <1>1
  <2> QED BY <1>2, <2>1
<1>4. \A s \in Secondary : health'[s].age = health[s].age
  BY <1>1, <1>2
<1>5. EarnedInv'
  BY <1>0, <1>4 DEF EarnedInv, StopAll
<1>6. TypeOK'
  <2>1. /\ smode' \in [Secondary -> {"ws", "sleep", "rest", "off"}]
        /\ link' \in {"connecting", "open", "waiting", "cancelled"} /\ running' \in BOOLEAN
    BY DEF StopAll
  <2>2. calm' \in 0..MaxBackoff + 1 /\ wait' \in 0..MaxBackoff /\ backoff' \in 1..MaxBackoff
    BY FeedsAssumption DEF StopAll
  <2>3. turn' \in [Secondary -> 1..Len(Assets)]
    <3>1. 1 \in 1..Len(Assets)
      BY RoundTyped
    <3> QED BY <3>1 DEF StopAll
  <2>4. retries' \in [Secondary -> 0..MaxWsRetries + 1]
    <3>1. 0 \in 0..MaxWsRetries + 1
      BY FeedsAssumption
    <3> QED BY <3>1 DEF StopAll
  <2> QED BY <1>0, <1>3, <2>1, <2>2, <2>3, <2>4 DEF TypeOK, StopAll
<1>7. SleepInv'
  BY DEF StopAll, SleepInv
<1>8. RetryInv'
  BY DEF StopAll, RetryInv
<1> QED BY <1>5, <1>6, <1>7, <1>8 DEF FeedsInv

LEMMA NetChangeKeeps ==
    ASSUME FeedsInv, NetChange
    PROVE  FeedsInv'
<1>0. TypeOK /\ SleepInv
  BY DEF FeedsInv
<1>1. net' \in BOOLEAN
  BY <1>0 DEF TypeOK, NetChange
<1>2. MaxBackoff \in Nat /\ wait \in 0..MaxBackoff /\ calm' = 0
  BY <1>0, FeedsAssumption DEF TypeOK, NetChange
<1>3. calm' \in 0..MaxBackoff + 1
  BY <1>2
<1>4. TypeOK'
  BY <1>0, <1>1, <1>3 DEF TypeOK, NetChange, secondaries
<1>5. SleepInv'
  BY <1>2 DEF NetChange, SleepInv
<1> QED BY <1>4, <1>5, SecondariesUntouched DEF NetChange, FeedsInv

LEMMA TickKeeps ==
    ASSUME FeedsInv, Tick
    PROVE  FeedsInv'
<1>0. TypeOK /\ EarnedInv /\ SleepInv
  BY DEF FeedsInv
<1>1. health \in [Secondary -> [up : BOOLEAN, age : 0..Stale]] /\ sage \in [Secondary -> [Asset -> Age]]
  BY <1>0 DEF TypeOK
<1>2. health' = [s \in Secondary |-> [health[s] EXCEPT !.age = Older(health[s].age)]]
  BY DEF Tick
<1>3. sage' = [s \in Secondary |-> [a \in Asset |-> Older(sage[s][a])]]
  BY DEF Tick
<1>4. health' \in [Secondary -> [up : BOOLEAN, age : 0..Stale]]
  <2>1. ASSUME NEW s \in Secondary
        PROVE  [health[s] EXCEPT !.age = Older(health[s].age)] \in [up : BOOLEAN, age : 0..Stale]
    <3>1. health[s] \in [up : BOOLEAN, age : 0..Stale]
      BY <1>1
    <3>2. Older(health[s].age) \in 0..Stale
      BY <3>1, AgesTyped
    <3> QED BY <3>1, <3>2
  <2> QED BY <1>2, <2>1
<1>5. sage' \in [Secondary -> [Asset -> Age]]
  BY <1>1, <1>3, AgesTyped
<1>6. age' \in [Asset -> Age]
  BY <1>0, AgesTyped DEF TypeOK, Tick
<1>7. wait' \in 0..MaxBackoff /\ calm' \in 0..MaxBackoff + 1
  BY <1>0, FeedsAssumption DEF TypeOK, Tick
<1>8. TypeOK'
  BY <1>0, <1>4, <1>5, <1>6, <1>7 DEF TypeOK, Tick
<1>9. SleepInv'
  <2>1. wait \in 0..MaxBackoff /\ calm \in 0..MaxBackoff + 1 /\ MaxBackoff \in Nat
    BY <1>0, FeedsAssumption DEF TypeOK
  <2> QED BY <1>0, <2>1 DEF SleepInv, Tick
<1>10. EarnedInv'
  <2> SUFFICES ASSUME NEW s \in Secondary
               PROVE  \/ \E a \in Asset : sage'[s][a] = health'[s].age
                      \/ \A a \in Asset : sage'[s][a] = Never
    BY DEF EarnedInv
  <2>1. health'[s].age = Older(health[s].age)
    BY <1>1, <1>2
  <2>2. \A a \in Asset : sage'[s][a] = Older(sage[s][a])
    BY <1>3
  <2> QED BY <1>0, <2>1, <2>2, NeverGrows DEF EarnedInv
<1>11. RetryInv'
  BY DEF FeedsInv, RetryInv, Tick
<1> QED BY <1>8, <1>9, <1>10, <1>11 DEF FeedsInv

-----------------------------------------------------------------------------
(* The invariant, for every behaviour.                                      *)
THEOREM FeedsInvariant == Spec => []FeedsInv
<1>1. Init => FeedsInv
  BY InitInv
<1>2. FeedsInv /\ [Next]_vars => FeedsInv'
  <2> SUFFICES ASSUME FeedsInv, [Next]_vars PROVE FeedsInv'
    OBVIOUS
  <2>1. CASE Next
    BY <2>1, PrimaryKeeps, SecondaryKeeps, StopAllKeeps, NetChangeKeeps, TickKeeps DEF Next
  <2>2. CASE UNCHANGED vars
    BY <2>2 DEF FeedsInv, TypeOK, SleepInv, EarnedInv, RetryInv, vars
  <2> QED BY <2>1, <2>2
<1> QED BY <1>1, <1>2, PTL DEF Spec

(* Type correctness: no counter of the reconnect loops leaves its range.    *)
THEOREM FeedsTyped == Spec => []TypeOK
<1>1. FeedsInv => TypeOK
  BY DEF FeedsInv
<1> QED BY <1>1, FeedsInvariant, PTL

(* The newest of some ages is none older than any of them.                  *)
LEMMA NewestIsLeast ==
    ASSUME NEW S, S \subseteq Nat, NEW x \in S
    PROVE  Newest(S) \in S /\ Newest(S) <= x
<1>1. PICK m \in S : \A y \in S : <<y, m>> \notin OpToRel(<, Nat)
  BY WFMin, NatLessThanWellFounded, Zenon
<1>2. \A y \in S : ~(y < m)
  BY <1>1, Zenon DEF OpToRel
<1>3. \E z \in S : \A y \in S : z <= y
  BY <1>2
<1> QED BY <1>3 DEF Newest

(* With the primary down get_snapshot takes the newest tick: a fresh one,   *)
(* when any adapter has one of the asset.                                   *)
THEOREM FeedsFailoverIsFresh == Spec => []FailoverIsFresh
<1>1. TypeOK => FailoverIsFresh
  <2> SUFFICES ASSUME TypeOK, NEW a \in Asset, ~connected,
                      NEW s \in Secondary, Fresh(sage[s][a])
               PROVE  Fresh(Snapshot(a).age)
    BY DEF FailoverIsFresh
  <2>1. /\ sage[s][a] \in Age /\ age[a] \in Age
        /\ \A r \in Secondary : sage[r][a] \in Age
    BY DEF TypeOK
  <2>2. FreshFor \in Nat /\ Age \subseteq Nat /\ Age = 0..FreshFor + 1 /\ Never = FreshFor + 1
    BY FeedsAssumption DEF Age, Never
  <2>3. Ticks(a) \subseteq Nat
    BY <2>1, <2>2 DEF Ticks
  <2>4. sage[s][a] \in Ticks(a)
    <3>1. sage[s][a] # Never
      BY <2>1, <2>2 DEF Fresh
    <3> QED BY <3>1 DEF Ticks
  <2>5. Newest(Ticks(a)) \in Nat /\ Newest(Ticks(a)) <= sage[s][a]
    BY <2>3, <2>4, NewestIsLeast
  <2>6. Snapshot(a) = [source |-> "tick", age |-> Newest(Ticks(a))]
    BY <2>4 DEF Snapshot
  <2> HIDE DEF Newest, Ticks
  <2>7. Snapshot(a).age <= sage[s][a] /\ Snapshot(a).age \in Nat
    BY <2>5, <2>6
  <2> QED BY <2>1, <2>2, <2>7 DEF Fresh
<1> QED BY <1>1, FeedsTyped, PTL

(* However often _ws_loop has failed, once Binance has been reachable for   *)
(* longer than the cap of the backoff the loop does not sleep.              *)
THEOREM FeedsReconnectBound == Spec => []ReconnectBound
<1>1. FeedsInv => ReconnectBound
  BY FeedsAssumption DEF FeedsInv, TypeOK, SleepInv, ReconnectBound
<1> QED BY <1>1, FeedsInvariant, PTL

(* An ExchangeHealth that calls itself healthy owes that to a tick, or to   *)
(* its start: failing rounds of any loop do not refresh it.                 *)
THEOREM FeedsHealthIsEarned == Spec => []HealthIsEarned
<1>1. FeedsInv => HealthIsEarned
  BY DEF FeedsInv, EarnedInv, HealthIsEarned
<1> QED BY <1>1, FeedsInvariant, PTL
=============================================================================
