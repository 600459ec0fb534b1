-------------------------- MODULE SignalPathProofs --------------------------
(* What holds on the way of a signal, for any bots, assets, windows and      *)
(* thresholds: in the filters of the turn that produced it (Signals), and at *)
(* the risk gate in front of the ledger (RiskGate).  The two specifications  *)
(* share no variable; the names of the first begin with S.                   *)
EXTENDS Signals, RiskGate, SequenceTheorems, FiniteSetTheorems, WellFoundedInduction, TLAPS

-----------------------------------------------------------------------------
(* The risk gate.  Streak and Lopsided are never expanded: the bounds hold   *)
(* for any test that a task makes on the table one await before it places.   *)

(* No bot is past a check that it is known to have failed, and a bot that  *)
(* has placed against a closed gate has used up what it had in flight.     *)
GateInv ==
  \A b \in Bots :
    /\ late[b] > 0 => late[b] = 1 /\ Streak(trades, b)
    /\ bot[b].pc = "place" => late[b] = 0
    /\ excess[b] > 0 => excess[b] = 1 /\ Lopsided(trades)
    /\ bot[b].pc \in {"outcomes", "place"} => excess[b] = 0 /\ cool[b] = Off

-----------------------------------------------------------------------------
(* Type correctness                                                        *)

LEMMA InitTypeOK == Init => TypeOK
BY RiskAssumption DEF Init, TypeOK, Pcs, Off, RiskAssumption

(* The history counters keep their type whatever happens to the table.     *)
LEMMA FollowTyped ==
  ASSUME TypeOK, NEW s, NEW placer, Follow(s, placer)
  PROVE  late' \in [Bots -> Nat] /\ excess' \in [Bots -> Nat]
<1>1. late \in [Bots -> Nat] /\ excess \in [Bots -> Nat]
  BY DEF TypeOK
<1>2. late' \in [Bots -> Nat]
  BY <1>1 DEF Follow
<1>3. excess' \in [Bots -> Nat]
  BY <1>1 DEF Follow
<1> QED BY <1>2, <1>3

(* Moving a bot that has a direction leaves it typed.                      *)
LEMMA GotoTyped ==
  ASSUME TypeOK, NEW b \in Bots, bot[b].pc # "idle", NEW pc \in Pcs, Goto(b, pc)
  PROVE  /\ bot' \in [Bots -> [pc: Pcs, dir: Directions \cup {"none"}]]
         /\ \A c \in Bots : bot'[c].pc # "idle" => bot'[c].dir \in Directions
<1>1. bot \in [Bots -> [pc: Pcs, dir: Directions \cup {"none"}]]
  BY DEF TypeOK
<1>2. \A c \in Bots : bot[c].pc # "idle" => bot[c].dir \in Directions
  BY DEF TypeOK
<1>3. bot' = [bot EXCEPT ![b].pc = pc]
  BY DEF Goto
<1> QED BY <1>1, <1>2, <1>3

(* The range of the cooldowns.                                             *)
LEMMA CoolTyped ==
  /\ Off \in Off .. Cooldown /\ Cooldown \in Off .. Cooldown
  /\ \A n \in Off .. Cooldown : n > 0 => n - 1 \in Off .. Cooldown
BY RiskAssumption DEF RiskAssumption, Off

LEMMA NextTypeOK == TypeOK /\ [Next]_vars => TypeOK'
<1> SUFFICES ASSUME TypeOK, [Next]_vars PROVE TypeOK'
  OBVIOUS
<1> USE RiskAssumption DEF RiskAssumption
<1>1. ASSUME NEW b \in Bots, NEW d \in Directions, Signal(b, d)
      PROVE  TypeOK'
  BY <1>1 DEF Signal, TypeOK, Pcs
<1>2. ASSUME NEW b \in Bots, CountOpen(b)
      PROVE  TypeOK'
  <2>1. PICK pc \in Pcs : Goto(b, pc)
    BY <1>2 DEF CountOpen, Pcs
  <2>2. bot[b].pc # "idle"
    BY <1>2 DEF CountOpen
  <2>3. cool' \in [Bots -> Off .. Cooldown]
    BY <1>2, CoolTyped DEF CountOpen, TypeOK
  <2> QED BY <1>2, <2>1, <2>2, <2>3, GotoTyped DEF CountOpen, TypeOK
<1>3. ASSUME NEW b \in Bots, ReadOutcomes(b)
      PROVE  TypeOK'
  <2>1. PICK pc \in Pcs : Goto(b, pc)
    BY <1>3 DEF ReadOutcomes, Pcs
  <2>2. bot[b].pc # "idle"
    BY <1>3 DEF ReadOutcomes
  <2>3. cool' \in [Bots -> Off .. Cooldown]
    BY <1>3, CoolTyped DEF ReadOutcomes, TypeOK
  <2> QED BY <1>3, <2>1, <2>2, <2>3, GotoTyped DEF ReadOutcomes, TypeOK
<1>4. ASSUME NEW b \in Bots, Refuse(b)
      PROVE  TypeOK'
  <2>1. Goto(b, "idle") /\ bot[b].pc # "idle" /\ "idle" \in Pcs
    BY <1>4 DEF Refuse, Pcs
  <2> QED BY <1>4, <2>1, GotoTyped DEF Refuse, TypeOK
<1>5. ASSUME NEW b \in Bots, Place(b)
      PROVE  TypeOK'
  <2>1. bot[b].dir \in Directions
    BY <1>5 DEF Place, TypeOK
  <2>2. [bot |-> b, dir |-> bot[b].dir, out |-> "open"] \in Trade
    BY <2>1 DEF Trade
  <2>3. trades' \in Seq(Trade) /\ Len(trades') <= MaxTrades
    BY <1>5, <2>2 DEF Place, TypeOK
  <2>4. late' \in [Bots -> Nat] /\ excess' \in [Bots -> Nat]
    BY <1>5, FollowTyped DEF Place
  <2>5. Goto(b, "idle") /\ bot[b].pc # "idle" /\ "idle" \in Pcs
    BY <1>5 DEF Place, Pcs
  <2> QED BY <1>5, <2>3, <2>4, <2>5, GotoTyped DEF Place, TypeOK
<1>6. ASSUME NEW i \in 1 .. MaxTrades, NEW outcome \in Decided, Resolve(i, outcome)
      PROVE  TypeOK'
  <2>1. trades \in Seq(Trade) /\ i \in 1 .. Len(trades)
    BY <1>6 DEF Resolve, TypeOK
  <2>a. trades[i] \in Trade
    BY <2>1
  <2>2. [trades[i] EXCEPT !.out = outcome] \in Trade
    BY <2>a DEF Trade
  <2>3. trades' = [trades EXCEPT ![i] = [trades[i] EXCEPT !.out = outcome]]
    BY <1>6 DEF Resolve
  <2>4. trades' \in Seq(Trade) /\ Len(trades') = Len(trades)
    BY <2>1, <2>2, <2>3
  <2>5. late' \in [Bots -> Nat] /\ excess' \in [Bots -> Nat]
    BY <1>6, FollowTyped DEF Resolve
  <2> QED BY <1>6, <2>4, <2>5 DEF Resolve, TypeOK
<1>7. ASSUME Tick PROVE TypeOK'
  <2>1. cool' = [b \in Bots |-> IF cool[b] > 0 THEN cool[b] - 1 ELSE cool[b]]
    BY <1>7 DEF Tick
  <2>2. cool' \in [Bots -> Off .. Cooldown]
    BY <2>1, CoolTyped DEF TypeOK
  <2> QED BY <1>7, <2>2 DEF Tick, TypeOK
<1>8. ASSUME Restart PROVE TypeOK'
  BY <1>8 DEF Restart, TypeOK, Pcs, Off
<1>9. CASE UNCHANGED vars
  BY <1>9 DEF vars, TypeOK
<1> QED
  BY <1>1, <1>2, <1>3, <1>4, <1>5, <1>6, <1>7, <1>8, <1>9 DEF Next, Check

(* Rows, program points, cooldowns and counters keep their types.          *)
THEOREM RiskGateTyped == Spec => []TypeOK
BY InitTypeOK, NextTypeOK, PTL DEF Spec

-----------------------------------------------------------------------------
(* The gate                                                                *)

LEMMA InitGateInv == Init => GateInv
BY DEF Init, GateInv, Off

LEMMA NextGateInv == TypeOK /\ GateInv /\ [Next]_vars => GateInv'
<1> SUFFICES ASSUME TypeOK, GateInv, [Next]_vars PROVE GateInv'
  OBVIOUS
<1> USE RiskAssumption DEF RiskAssumption
<1>t. /\ bot \in [Bots -> [pc: Pcs, dir: Directions \cup {"none"}]]
      /\ cool \in [Bots -> Off .. Cooldown]
      /\ late \in [Bots -> Nat]
      /\ excess \in [Bots -> Nat]
  BY DEF TypeOK
<1>1. ASSUME NEW b \in Bots, NEW d \in Directions, Signal(b, d)
      PROVE  GateInv'
  BY <1>t, <1>1 DEF Signal, GateInv
<1>2. ASSUME NEW b \in Bots, CountOpen(b)
      PROVE  GateInv'
  <2>1. CASE Lopsided(trades) \/ cool[b] > 0
    BY <1>t, <1>2, <2>1 DEF CountOpen, Goto, GateInv
  <2>2. CASE ~ (Lopsided(trades) \/ cool[b] > 0)
    BY <1>t, <1>2, <2>2 DEF CountOpen, Goto, GateInv
  <2> QED BY <2>1, <2>2
<1>3. ASSUME NEW b \in Bots, ReadOutcomes(b)
      PROVE  GateInv'
  <2>1. CASE Streak(trades, b)
    BY <1>t, <1>3, <2>1 DEF ReadOutcomes, Goto, GateInv
  <2>2. CASE ~ Streak(trades, b)
    BY <1>t, <1>3, <2>2 DEF ReadOutcomes, Goto, GateInv
  <2> QED BY <2>1, <2>2
<1>4. ASSUME NEW b \in Bots, Refuse(b)
      PROVE  GateInv'
  BY <1>t, <1>4 DEF Refuse, Goto, GateInv
<1>5. ASSUME NEW b \in Bots, Place(b)
      PROVE  GateInv'
  <2> DEFINE s == Append(trades, [bot |-> b, dir |-> bot[b].dir, out |-> "open"])
  <2> HIDE DEF s
  <2>1. /\ bot[b].pc = "place" /\ bot' = [bot EXCEPT ![b].pc = "idle"]
        /\ trades' = s /\ cool' = cool /\ Follow(s, {b})
    BY <1>5 DEF Place, Goto, s
  <2>2. \A c \in Bots : c # b => bot'[c] = bot[c]
    BY <1>t, <2>1
  <2>3. bot'[b].pc = "idle"
    BY <1>t, <2>1
  <2>4. late[b] = 0 /\ excess[b] = 0
    BY <2>1 DEF GateInv
  <2> SUFFICES ASSUME NEW c \in Bots
               PROVE  /\ late'[c] > 0 => late'[c] = 1 /\ Streak(s, c)
                      /\ bot'[c].pc = "place" => late'[c] = 0
                      /\ excess'[c] > 0 => excess'[c] = 1 /\ Lopsided(s)
                      /\ bot'[c].pc \in {"outcomes", "place"} =>
                           excess'[c] = 0 /\ cool'[c] = Off
    BY <2>1 DEF GateInv
  <2>5. CASE c = b
    BY <1>t, <2>1, <2>3, <2>4, <2>5 DEF Follow
  <2>6. CASE c # b
    <3>1. late'[c] = (IF ~Streak(s, c) \/ ~Streak(trades, c) THEN 0 ELSE late[c])
      BY <2>1, <2>6 DEF Follow
    <3>2. excess'[c] = (IF ~Lopsided(s) \/ ~Lopsided(trades) THEN 0 ELSE excess[c])
      BY <2>1, <2>6 DEF Follow
    <3> QED BY <1>t, <2>1, <2>2, <2>6, <3>1, <3>2 DEF GateInv
  <2> QED BY <2>5, <2>6
<1>6. ASSUME NEW i \in 1 .. MaxTrades, NEW outcome \in Decided, Resolve(i, outcome)
      PROVE  GateInv'
  BY <1>t, <1>6 DEF Resolve, Follow, GateInv
<1>7. ASSUME Tick PROVE GateInv'
  BY <1>t, <1>7 DEF Tick, GateInv, Off
<1>8. ASSUME Restart PROVE GateInv'
  BY <1>t, <1>8 DEF Restart, GateInv
<1>9. CASE UNCHANGED vars
  BY <1>9 DEF vars, GateInv
<1> QED
  BY <1>1, <1>2, <1>3, <1>4, <1>5, <1>6, <1>7, <1>8, <1>9 DEF Next, Check

THEOREM GateHolds == Spec => [](TypeOK /\ GateInv)
BY InitTypeOK, NextTypeOK, InitGateInv, NextGateInv, PTL DEF Spec

(* A streak of losses lets at most one more trade of its bot through.      *)
THEOREM RiskGateStreakStopsBot == Spec => []StreakStopsBot
<1>1. TypeOK /\ GateInv => StreakStopsBot
  <2>1. ASSUME TypeOK, GateInv, NEW b \in Bots PROVE late[b] <= 1
    <3>1. late[b] \in Nat
      BY <2>1 DEF TypeOK
    <3> QED BY <2>1, <3>1 DEF GateInv
  <2> QED BY <2>1 DEF StreakStopsBot
<1> QED BY <1>1, GateHolds, PTL

(* Out-of-balance exposure lets at most one more trade of each bot through. *)
THEOREM RiskGateImbalanceStopsBots == Spec => []ImbalanceStopsBots
<1>1. TypeOK /\ GateInv => ImbalanceStopsBots
  <2>1. ASSUME TypeOK, GateInv, NEW b \in Bots PROVE excess[b] <= 1
    <3>1. excess[b] \in Nat
      BY <2>1 DEF TypeOK
    <3> QED BY <2>1, <3>1 DEF GateInv
  <2> QED BY <2>1 DEF ImbalanceStopsBots
<1> QED BY <1>1, GateHolds, PTL

(* Only a placement makes the table longer.                                *)
LEMMA OnlyPlaceAppends ==
  ASSUME TypeOK, [Next]_vars, Len(trades') > Len(trades)
  PROVE  \E b \in Bots :
           /\ bot[b].pc = "place"
           /\ trades'[Len(trades')].bot = b
<1>1. trades \in Seq(Trade)
  BY DEF TypeOK
<1>2. ASSUME NEW b \in Bots, Place(b)
      PROVE  bot[b].pc = "place" /\ trades'[Len(trades')].bot = b
  BY <1>1, <1>2 DEF Place
<1>3. ASSUME NEW i \in 1 .. MaxTrades, NEW outcome \in Decided, Resolve(i, outcome)
      PROVE  FALSE
  <2>1. Len(trades') = Len(trades)
    BY <1>1, <1>3 DEF Resolve
  <2> QED BY <1>1, <2>1
<1>4. ASSUME trades' = trades PROVE FALSE
  BY <1>1, <1>4
<1>5. \/ \E b \in Bots : Place(b)
      \/ \E i \in 1 .. MaxTrades, outcome \in Decided : Resolve(i, outcome)
      \/ trades' = trades
  BY DEF Next, Check, Signal, CountOpen, ReadOutcomes, Refuse, Tick, Restart, vars
<1> QED BY <1>2, <1>3, <1>4, <1>5

(* Nothing is placed by a bot whose breaker is armed.                      *)
THEOREM RiskGateCooldownHolds == Spec => CooldownHolds
<1>1. TypeOK /\ GateInv /\ [Next]_vars
        => [\A b \in Bots :
              cool[b] > 0 => ~ (Len(trades') > Len(trades)
                                /\ trades'[Len(trades')].bot = b)]_vars
  <2> SUFFICES ASSUME TypeOK, GateInv, [Next]_vars, NEW b \in Bots, cool[b] > 0,
                      Len(trades') > Len(trades), trades'[Len(trades')].bot = b
               PROVE  FALSE
    OBVIOUS
  <2>1. bot[b].pc = "place"
    BY OnlyPlaceAppends
  <2> QED BY <2>1 DEF GateInv, Off
<1> QED BY <1>1, GateHolds, PTL DEF CooldownHolds, Spec

-----------------------------------------------------------------------------
(* Induction over the numbers: a set that has zero and all successors has    *)
(* them all, since there is no least number that it lacks.                   *)
LEMMA EveryNumber ==
  ASSUME NEW S, 0 \in S, \A n \in Nat : n \in S => n + 1 \in S
  PROVE  Nat \subseteq S
<1> DEFINE T == Nat \ S
<1> SUFFICES ASSUME T # {} PROVE FALSE
  OBVIOUS
<1>1. T \subseteq Nat
  OBVIOUS
<1>2. PICK m \in T : \A y \in T : <<y, m>> \notin OpToRel(<, Nat)
  <2> HIDE DEF T
  <2> QED BY <1>1, WFMin, NatLessThanWellFounded, Zenon
<1>3. \A y \in T : ~(y < m)
  BY <1>2, Zenon DEF OpToRel
<1>4. m # 0 /\ m - 1 \in Nat /\ m - 1 \notin T
  BY <1>3
<1> QED BY <1>4

(* A set of numbers that is not empty has a least one.                       *)
LEMMA LeastNumber ==
  ASSUME NEW T, T \subseteq Nat, T # {}
  PROVE  \E m \in T : \A y \in T : m <= y
<1>1. PICK m \in T : \A y \in T : <<y, m>> \notin OpToRel(<, Nat)
  BY WFMin, NatLessThanWellFounded, Zenon
<1>2. \A y \in T : ~(y < m)
  BY <1>1, Zenon DEF OpToRel
<1> QED BY <1>2

-----------------------------------------------------------------------------
(* Indicators                                                                *)

(* Sum is defined and has the type of its terms.                             *)
LEMMA SumTyped ==
  ASSUME NEW T, T = Nat \/ T = Int, NEW v \in Seq(T)
  PROVE  Sum(v) \in T
<1> DEFINE N == Len(v)
           upTo == CHOOSE upTo : upTo = [n \in 0..N |-> IF n = 0 THEN 0 ELSE upTo[n - 1] + v[n]]
           Sums(f, k) == f = [n \in 0..k |-> IF n = 0 THEN 0 ELSE f[n - 1] + v[n]]
           S == {k \in Nat : k <= N => \E f : Sums(f, k)}
<1>1. Sum(v) = upTo[N]
  BY DEF Sum
<1>2. N \in Nat /\ (\A n \in 1..N : v[n] \in T) /\ 0 \in T /\ (\A x, y \in T : x + y \in T)
  OBVIOUS
<1>3. 0 \in S
  <2> DEFINE g == [n \in 0..0 |-> 0]
  <2>1. g = [n \in 0..0 |-> IF n = 0 THEN 0 ELSE g[n - 1] + v[n]]
    OBVIOUS
  <2>2. Sums(g, 0)
    BY <2>1
  <2> QED BY <2>2
<1>4. ASSUME NEW k \in Nat, k \in S PROVE k + 1 \in S
  <2> SUFFICES ASSUME k + 1 <= N PROVE \E f : Sums(f, k + 1)
    OBVIOUS
  <2>1. PICK f : Sums(f, k)
    BY <1>2, <1>4
  <2> DEFINE g == [n \in 0..(k + 1) |-> IF n = k + 1 THEN f[k] + v[k + 1] ELSE f[n]]
  <2>2. f = [n \in 0..k |-> IF n = 0 THEN 0 ELSE f[n - 1] + v[n]]
    BY <2>1
  <2>3. ASSUME NEW n \in 0..(k + 1)
        PROVE  g[n] = IF n = 0 THEN 0 ELSE g[n - 1] + v[n]
    <3>1. CASE n = k + 1
      <4>1. g[n] = f[k] + v[k + 1] /\ g[n - 1] = f[k] /\ n # 0
        BY <3>1
      <4> HIDE DEF g
      <4> QED BY <3>1, <4>1
    <3>2. CASE n # k + 1
      <4>1. n \in 0..k /\ g[n] = f[n] /\ (n # 0 => g[n - 1] = f[n - 1])
        BY <3>2
      <4> HIDE DEF g
      <4> QED BY <2>2, <4>1
    <3> QED BY <3>1, <3>2
  <2>4. g = [n \in 0..(k + 1) |-> IF n = 0 THEN 0 ELSE g[n - 1] + v[n]]
    BY <2>3
  <2>5. Sums(g, k + 1)
    BY <2>4
  <2> HIDE DEF g
  <2> QED BY <2>5
<1>5. Nat \subseteq S
  <2> HIDE DEF S
  <2> QED BY <1>3, <1>4, EveryNumber
<1>6. \E f : f = [n \in 0..N |-> IF n = 0 THEN 0 ELSE f[n - 1] + v[n]]
  BY <1>2, <1>5
<1>7. upTo = [n \in 0..N |-> IF n = 0 THEN 0 ELSE upTo[n - 1] + v[n]]
  <2> HIDE DEF N
  <2> QED BY <1>6, Zenon
<1> HIDE DEF upTo, N, S
<1> DEFINE R == {n \in Nat : n <= N => upTo[n] \in T}
<1>8. 0 \in R
  BY <1>2, <1>7
<1>9. ASSUME NEW n \in Nat, n \in R PROVE n + 1 \in R
  <2> SUFFICES ASSUME n + 1 <= N PROVE upTo[n + 1] \in T
    OBVIOUS
  <2>1. n + 1 \in 0..N /\ n + 1 # 0 /\ (n + 1) - 1 = n /\ n + 1 \in 1..N /\ n <= N
    BY <1>2
  <2>2. upTo[n + 1] = upTo[n] + v[n + 1]
    BY <1>7, <2>1
  <2> QED BY <1>2, <1>9, <2>1, <2>2
<1>10. Nat \subseteq R
  <2> HIDE DEF R
  <2> QED BY <1>8, <1>9, EveryNumber
<1> QED BY <1>1, <1>2, <1>10

LEMMA Periods ==
  /\ EmaPeriod \in Nat \ {0, 1} /\ RsiPeriod \in Nat \ {0} /\ BbPeriod \in Nat \ {0, 1}
  /\ LiveStd2 \in Nat /\ TestStd2 \in Nat
  /\ TestStd2 * BbPeriod <= LiveStd2 * (BbPeriod - 1)
BY IndicatorAssumption DEF IndicatorAssumption

(* The last n of a sequence.                                                 *)
LEMMA LastTyped ==
  ASSUME NEW T, NEW s \in Seq(T), NEW n \in Nat, n <= Len(s)
  PROVE  LastN(s, n) \in Seq(T) /\ Len(LastN(s, n)) = n
<1>1. \A i \in (Len(s) - n + 1)..Len(s) : s[i] \in T
  OBVIOUS
<1> QED BY <1>1 DEF LastN

(* What rose is not negative.                                                *)
LEMMA GainTyped ==
  ASSUME NEW c \in Seq(Int), Len(c) >= RsiPeriod + 1
  PROVE  Gain(c) \in Nat
<1> DEFINE changes == LastN(Changes(c), RsiPeriod)
<1>1. Changes(c) \in Seq(Int) /\ Len(Changes(c)) = Len(c) - 1
  <2>1. Len(c) - 1 \in Nat /\ \A i \in 1..Len(c) - 1 : c[i + 1] - c[i] \in Int
    BY Periods
  <2> QED BY <2>1 DEF Changes
<1>2. changes \in Seq(Int)
  BY <1>1, LastTyped, Periods
<1> HIDE DEF changes
<1>3. Positive(changes) \in Seq(Nat)
  <2>1. Len(changes) \in Nat /\ DOMAIN changes = 1..Len(changes)
    BY <1>2
  <2>2. \A i \in 1..Len(changes) : (IF changes[i] > 0 THEN changes[i] ELSE 0) \in Nat
    BY <1>2
  <2> QED BY <2>1, <2>2 DEF Positive
<1>4. Gain(c) = Sum(Positive(changes))
  BY DEF Gain, changes
<1> QED BY <1>3, <1>4, SumTyped

LEMMA RsiAgrees ==
  ASSUME NEW c \in Seq(Int)
  PROVE  LiveRsi(c) = TestRsi(c) \/ (Gain(c) = 0 /\ Loss(c) = 0)
<1>1. CASE Len(c) < RsiPeriod + 1
  BY <1>1 DEF LiveRsi, TestRsi
<1>2. CASE ~(Len(c) < RsiPeriod + 1) /\ Loss(c) # 0
  BY <1>2 DEF LiveRsi, TestRsi
<1>3. CASE ~(Len(c) < RsiPeriod + 1) /\ Loss(c) = 0
  <2>1. Gain(c) \in Nat
    BY <1>3, Periods, GainTyped
  <2>2. LiveRsi(c) = "above" /\ TestRsi(c) = Side(Gain(c), 0)
    BY <1>3 DEF LiveRsi, TestRsi
  <2> QED BY <1>3, <2>1, <2>2 DEF Side
<1> QED BY <1>1, <1>2, <1>3

LEMMA Products ==
  /\ \A x, y \in Int : x * y \in Int
  /\ \A x, y \in Nat : x * y \in Nat
  /\ \A x \in Int : x # 0 => x * x > 0
  /\ \A x, y \in Int, p \in Nat : x <= y => x * p <= y * p
  /\ \A x, y \in Int, p \in Nat \ {0} : x < y => x * p < y * p
  /\ \A x \in Nat, s \in Int : s < 0 => x * s <= 0
OBVIOUS

(* A price beyond the wider bands is beyond the narrower ones.               *)
LEMMA Wider ==
  ASSUME NEW d \in Int, d # 0, NEW spread \in Int, 16 * d * d > LiveStd2 * spread
  PROVE  16 * (BbPeriod - 1) * d * d > TestStd2 * BbPeriod * spread
<1> DEFINE p == BbPeriod - 1
           far == 16 * d * d
           live == LiveStd2 * spread
           test == TestStd2 * BbPeriod
<1>1. p \in Nat \ {0} /\ LiveStd2 \in Nat /\ test \in Nat /\ test <= LiveStd2 * p
  BY Periods
<1>2. far \in Int /\ far > 0 /\ live \in Int
  <2>1. d * d \in Int /\ d * d > 0 /\ 16 * d * d = 16 * (d * d)
    BY Products
  <2> QED BY <1>1, <2>1, Products
<1>3. live * p < far * p
  BY <1>1, <1>2, Products
<1>4. test * spread < far * p
  <2>1. CASE spread < 0
    <3>1. test * spread <= 0
      <4> HIDE DEF test
      <4> QED BY <1>1, <2>1, Products
    <3>2. 0 * p < far * p
      <4> HIDE DEF far, p
      <4> QED BY <1>1, <1>2, Products
    <3>3. far * p \in Int /\ test * spread \in Int
      <4> HIDE DEF far, p, test
      <4> QED BY <1>1, <1>2, Products
    <3> HIDE DEF far, p, test
    <3> QED BY <3>1, <3>2, <3>3, <1>1
  <2>2. CASE spread >= 0
    <3>1. test * spread <= (LiveStd2 * p) * spread
      <4>1. LiveStd2 * p \in Int
        BY <1>1
      <4> HIDE DEF test, p
      <4> QED BY <1>1, <2>2, <4>1, Products
    <3>2. (LiveStd2 * p) * spread = live * p
      <4> HIDE DEF p
      <4> QED BY <1>1
    <3>3. test * spread \in Int /\ live * p \in Int /\ far * p \in Int
      <4> HIDE DEF far, p, test, live
      <4> QED BY <1>1, <1>2, Products
    <3> HIDE DEF far, p, test, live
    <3> QED BY <1>3, <3>1, <3>2, <3>3
  <2> QED BY <2>1, <2>2
<1>5. far * p = 16 * (BbPeriod - 1) * d * d
  <2>1. \A x, y \in Int : (16 * y * y) * x = 16 * x * y * y
    OBVIOUS
  <2> QED BY <1>1, <2>1
<1> QED BY <1>4, <1>5

LEMMA BandsAgree ==
  ASSUME NEW c \in Seq(Int), NEW price \in Int, LiveBands(c, price) # "SKIP"
  PROVE  TestBands(c, price) = LiveBands(c, price)
<1> DEFINE w == LastN(c, BbPeriod)
           d == Dist(price, w)
           spread == Spread(w)
<1>1. Len(c) >= BbPeriod
  BY Periods DEF LiveBands
<1>2. w \in Seq(Int) /\ Len(w) = BbPeriod
  BY <1>1, LastTyped, Periods
<1>3. d \in Int /\ spread \in Int
  <2> HIDE DEF w
  <2>1. Sum(w) \in Int
    BY <1>2, SumTyped
  <2>2. [i \in 1..BbPeriod |-> w[i] * w[i]] \in Seq(Int)
    <3>1. \A i \in 1..BbPeriod : w[i] * w[i] \in Int
      BY <1>2, Products
    <3> QED BY <3>1, Periods
  <2>3. Sum([i \in 1..BbPeriod |-> w[i] * w[i]]) \in Int
    BY <2>2, SumTyped
  <2>4. \A b, p, q, r \in Int : b * p - q * r \in Int
    BY Products
  <2> QED BY <2>1, <2>3, <2>4, Periods DEF Dist, Spread
<1>4. LiveBands(c, price) = Breakout(d, 16 * d * d > LiveStd2 * spread)
  BY <1>1, Periods DEF LiveBands
<1>5. TestBands(c, price) = Breakout(d, 16 * (BbPeriod - 1) * d * d > TestStd2 * BbPeriod * spread)
  BY <1>1, Periods DEF TestBands
<1> HIDE DEF d, spread
<1>6. d # 0 /\ 16 * d * d > LiveStd2 * spread
  BY <1>3, <1>4 DEF Breakout
<1>7. 16 * (BbPeriod - 1) * d * d > TestStd2 * BbPeriod * spread
  BY <1>3, <1>6, Wider
<1> QED BY <1>4, <1>5, <1>6, <1>7 DEF Breakout

-----------------------------------------------------------------------------
(* The percentile                                                            *)

Samples == Seq([t : Nat, v : Nat])
UpTo(q, v) == {i \in 1..Len(q) : q[i].v <= v}

LEMMA SampleOf ==
  ASSUME NEW q \in Samples
  PROVE  /\ Len(q) \in Nat /\ DOMAIN q = 1..Len(q)
         /\ \A i \in 1..Len(q) : q[i] \in [t : Nat, v : Nat]
         /\ \A i \in 1..Len(q) : q[i].t \in Nat /\ q[i].v \in Nat
<1>1. Len(q) \in Nat /\ DOMAIN q = 1..Len(q)
  BY DEF Samples
<1>2. \A i \in 1..Len(q) : q[i] \in [t : Nat, v : Nat]
  BY <1>1, ElementOfSeq DEF Samples
<1>3. \A r \in [t : Nat, v : Nat] : r.t \in Nat /\ r.v \in Nat
  OBVIOUS
<1> QED BY <1>1, <1>2, <1>3

LEMMA IntervalCount ==
  ASSUME NEW n \in Nat
  PROVE  IsFiniteSet(1..n) /\ Cardinality(1..n) = n
<1>1. IsFiniteSet(1..n) /\ Cardinality(1..n) = IF 1 > n THEN 0 ELSE n - 1 + 1
  BY FS_Interval
<1> QED BY <1>1

LEMMA UpToCount ==
  ASSUME NEW q \in Samples, NEW v
  PROVE  IsFiniteSet(UpTo(q, v)) /\ Cardinality(UpTo(q, v)) \in Nat
<1>1. IsFiniteSet(1..Len(q))
  BY FS_Interval DEF Samples
<1>2. IsFiniteSet(UpTo(q, v))
  BY <1>1, FS_Subset DEF UpTo
<1> QED BY <1>2, FS_CardinalityType

(* Samples are as many as there are up to their largest.                     *)
LEMMA LargestSample ==
  ASSUME NEW q \in Samples, Len(q) > 0
  PROVE  \E i \in 1..Len(q) : UpTo(q, q[i].v) = 1..Len(q)
<1> DEFINE S == {n \in Nat : n + 1 <= Len(q) =>
                   \E i \in 1..(n + 1) : \A j \in 1..(n + 1) : q[j].v <= q[i].v}
<1>0. Len(q) \in Nat /\ \A i \in 1..Len(q) : q[i].v \in Nat
  BY SampleOf
<1>1. 0 \in S
  BY <1>0
<1>2. ASSUME NEW n \in Nat, n \in S PROVE n + 1 \in S
  <2> SUFFICES ASSUME (n + 1) + 1 <= Len(q)
               PROVE  \E i \in 1..((n + 1) + 1) : \A j \in 1..((n + 1) + 1) : q[j].v <= q[i].v
    OBVIOUS
  <2>1. PICK i \in 1..(n + 1) : \A j \in 1..(n + 1) : q[j].v <= q[i].v
    BY <1>0, <1>2
  <2>2. CASE q[n + 2].v <= q[i].v
    <3>1. \A j \in 1..((n + 1) + 1) : q[j].v <= q[i].v
      <4> TAKE j \in 1..((n + 1) + 1)
      <4>1. j \in 1..(n + 1) \/ j = n + 2
        OBVIOUS
      <4> QED BY <2>1, <2>2, <4>1
    <3> QED BY <3>1
  <2>3. CASE q[i].v < q[n + 2].v
    <3>1. \A j \in 1..((n + 1) + 1) : q[j].v <= q[n + 2].v
      <4> TAKE j \in 1..((n + 1) + 1)
      <4>1. j \in 1..(n + 1) \/ j = n + 2
        OBVIOUS
      <4>2. q[j].v \in Nat /\ q[i].v \in Nat /\ q[n + 2].v \in Nat
        BY <1>0
      <4> QED BY <2>1, <2>3, <4>1, <4>2
    <3>2. n + 2 \in 1..((n + 1) + 1)
      OBVIOUS
    <3> QED BY <3>1, <3>2
  <2>4. q[n + 2].v <= q[i].v \/ q[i].v < q[n + 2].v
    <3>1. q[i].v \in Nat /\ q[n + 2].v \in Nat
      BY <1>0
    <3> QED BY <3>1
  <2> QED BY <2>2, <2>3, <2>4, Zenon
<1>3. Nat \subseteq S
  <2> HIDE DEF S
  <2> QED BY <1>1, <1>2, EveryNumber
<1>4. Len(q) - 1 \in S /\ (Len(q) - 1) + 1 = Len(q)
  <2> HIDE DEF S
  <2> QED BY <1>0, <1>3
<1>5. PICK i \in 1..Len(q) : \A j \in 1..Len(q) : q[j].v <= q[i].v
  BY <1>4
<1> QED BY <1>5 DEF UpTo

(* At least k samples are up to the k-th.                                    *)
LEMMA RankedIs ==
  ASSUME NEW q \in Samples, NEW k \in 1..Len(q)
  PROVE  Ranked(q, k) \in Nat /\ Cardinality(UpTo(q, Ranked(q, k))) >= k
<1> DEFINE values == {q[i].v : i \in DOMAIN q}
           Fits(v) == Cardinality(UpTo(q, v)) >= k
           enough == {v \in values : Fits(v)}
           Least(v) == Fits(v) /\ \A u \in values : Fits(u) => v <= u
<1>1. Len(q) \in Nat /\ DOMAIN q = 1..Len(q) /\ \A i \in 1..Len(q) : q[i].v \in Nat
  BY SampleOf
<1>2. values \subseteq Nat
  BY <1>1
<1>3. enough # {}
  <2>1. PICK i \in 1..Len(q) : UpTo(q, q[i].v) = 1..Len(q)
    BY LargestSample, <1>1
  <2>2. Cardinality(1..Len(q)) = Len(q)
    BY <1>1, IntervalCount
  <2>3. q[i].v \in enough
    BY <1>1, <2>1, <2>2
  <2> QED BY <2>3
<1>4. PICK m \in enough : \A y \in enough : m <= y
  <2> HIDE DEF values
  <2>1. enough \subseteq Nat
    BY <1>2
  <2> HIDE DEF enough
  <2> QED BY <1>3, <2>1, LeastNumber
<1>5. m \in values /\ Least(m)
  BY <1>4
<1>6. Ranked(q, k) = CHOOSE v \in values : Least(v)
  BY <1>1 DEF Ranked, UpTo
<1>7. Ranked(q, k) \in values /\ Least(Ranked(q, k))
  <2> HIDE DEF values, Least
  <2> QED BY <1>5, <1>6, Zenon
<1> QED BY <1>2, <1>7

Quiet(q) == {i \in 1..Len(q) : q[i].v = 0}

(* The 75th percentile is only zero when three quarters of the samples are.  *)
LEMMA PercentileZero ==
  ASSUME NEW q \in Samples, Len(q) > 0, Percentile75(q) = 0
  PROVE  4 * Cardinality(Quiet(q)) >= 3 * Len(q)
<1> DEFINE n == Len(q)
           at == 3 * (n - 1)
           lo == at \div 4 + 1
           part == at % 4
<1>1. n \in Nat /\ n > 0 /\ at \in Nat
  BY DEF Samples
<1>2. /\ lo \in 1..n /\ part \in 0..3 /\ at = 4 * (lo - 1) + part
      /\ part # 0 => lo + 1 \in 1..n
  BY <1>1
<1>3. ASSUME NEW k \in 1..n, Ranked(q, k) = 0, 4 * k >= 3 * n
      PROVE  4 * Cardinality(Quiet(q)) >= 3 * n
  <2>1. UpTo(q, 0) = Quiet(q)
    <3>1. \A i \in 1..Len(q) : q[i].v \in Nat
      BY SampleOf
    <3> QED BY <3>1 DEF UpTo, Quiet
  <2>2. Cardinality(Quiet(q)) >= k /\ Cardinality(Quiet(q)) \in Nat
    BY <1>3, <2>1, RankedIs, UpToCount
  <2> QED BY <1>1, <1>3, <2>2
<1>4. Percentile75(q) = IF part = 0 THEN 4 * Ranked(q, lo)
                        ELSE (4 - part) * Ranked(q, lo) + part * Ranked(q, lo + 1)
  BY DEF Percentile75
<1>5. CASE part = 0
  <2> HIDE DEF n, at, lo, part
  <2>1. Ranked(q, lo) \in Nat
    BY <1>2, RankedIs DEF n
  <2>2. Ranked(q, lo) = 0
    BY <1>4, <1>5, <2>1
  <2>3. 4 * lo >= 3 * n
    BY <1>1, <1>2, <1>5 DEF at
  <2> QED BY <1>2, <1>3, <2>2, <2>3 DEF n
<1>6. CASE part # 0
  <2> HIDE DEF n, at, lo, part
  <2>1. Ranked(q, lo) \in Nat /\ Ranked(q, lo + 1) \in Nat /\ lo + 1 \in 1..n
    BY <1>2, <1>6, RankedIs DEF n
  <2>2. Ranked(q, lo + 1) = 0
    <3>1. (4 - part) * Ranked(q, lo) + part * Ranked(q, lo + 1) = 0
      BY <1>4, <1>6
    <3>2. part \in 1..3 /\ 4 - part \in 1..3
      BY <1>2, <1>6
    <3>3. \A x, y \in Nat : \A p \in 1..3 : (4 - p) * x + p * y = 0 => y = 0
      OBVIOUS
    <3> QED BY <2>1, <3>1, <3>2, <3>3
  <2>3. 4 * (lo + 1) >= 3 * n
    BY <1>1, <1>2, <1>6 DEF at
  <2> QED BY <2>1, <1>3, <2>2, <2>3 DEF n
<1> QED BY <1>5, <1>6

-----------------------------------------------------------------------------
(* Windows: what a deque holds is the end of the tick history, and all that  *)
(* it has lost is older than its width, counted from the last tick.          *)

Seen == [t : Nat, tick : [price : Nat \ {0}, cvd : Int, vwap : Int]]
Kinds == {"price", "cvd", "vwap"}
Ordered(s) == \A i, j \in 1..Len(s) : i <= j => s[i].t <= s[j].t

Lost(q, s) == Len(s) - Len(q)
SampleAt(s, i, m) == [t |-> s[i].t, v |-> Abs(s[i].tick[m])]

WindowFits(q, s, m, width) ==
  /\ q \in Samples /\ Len(q) <= Len(s)
  /\ \A i \in 1..Len(q) : q[i] = SampleAt(s, Lost(q, s) + i, m)
  /\ \A j \in 1..Lost(q, s) : s[j].t < s[Len(s)].t - width

LEMMA SeenFields ==
  ASSUME NEW r \in Seen
  PROVE  /\ r.t \in Nat /\ r.tick.price \in Nat \ {0}
         /\ \A m \in Kinds : r.tick[m] \in Int /\ Abs(r.tick[m]) \in Nat
BY DEF Seen, Kinds, Abs

LEMMA SampleFields ==
  ASSUME NEW s, NEW i, NEW m
  PROVE  SampleAt(s, i, m).t = s[i].t /\ SampleAt(s, i, m).v = Abs(s[i].tick[m])
BY DEF SampleAt

LEMMA SeenOf ==
  ASSUME NEW s \in Seq(Seen)
  PROVE  /\ Len(s) \in Nat /\ DOMAIN s = 1..Len(s)
         /\ \A i \in 1..Len(s) :
              /\ s[i].t \in Nat /\ s[i].tick.price \in Nat \ {0}
              /\ \A m \in Kinds : s[i].tick[m] \in Int /\ Abs(s[i].tick[m]) \in Nat
<1>1. Len(s) \in Nat /\ DOMAIN s = 1..Len(s)
  OBVIOUS
<1>2. \A i \in 1..Len(s) : s[i] \in Seen
  BY <1>1, ElementOfSeq
<1> QED BY <1>1, <1>2, SeenFields

(* There is a first sample that is not old, unless all are.                  *)
LEMMA SinceIs ==
  ASSUME NEW q \in Samples, NEW t \in Int
  PROVE  \E n \in 0..Len(q) : Old(q, t, n) /\ Since(q, t) = SubSeq(q, n + 1, Len(q))
<1>0. Len(q) \in Nat /\ \A i \in 1..Len(q) : q[i].t \in Nat
  BY SampleOf
<1>1. \E n \in 0..Len(q) : Old(q, t, n)
  <2> DEFINE young == {k \in 1..Len(q) : q[k].t >= t}
  <2>1. CASE young = {}
    <3>1. \A i \in 1..Len(q) : q[i].t < t
      <4> TAKE i \in 1..Len(q)
      <4>1. ~(q[i].t >= t) /\ q[i].t \in Nat
        BY <2>1, <1>0
      <4> QED BY <4>1
    <3>2. Old(q, t, Len(q))
      BY <1>0, <3>1 DEF Old
    <3> QED BY <1>0, <3>2
  <2>2. CASE young # {}
    <3>1. young \subseteq Nat
      OBVIOUS
    <3>2. PICK m \in young : \A y \in young : m <= y
      <4> HIDE DEF young
      <4> QED BY <2>2, <3>1, LeastNumber
    <3>3. m \in 1..Len(q) /\ q[m].t >= t /\ m - 1 \in 0..Len(q) /\ (m - 1) + 1 = m
      OBVIOUS
    <3>4. \A i \in 1..m - 1 : q[i].t < t
      <4> TAKE i \in 1..m - 1
      <4>1. i \in 1..Len(q) /\ i < m /\ i \notin young
        <5>1. i \in 1..Len(q) /\ i < m
          BY <1>0, <3>3
        <5> HIDE DEF young
        <5> QED BY <3>2, <5>1, <3>1
      <4>2. ~(q[i].t >= t) /\ q[i].t \in Nat
        BY <1>0, <4>1
      <4> QED BY <4>2
    <3>5. Old(q, t, m - 1)
      BY <3>3, <3>4 DEF Old
    <3> QED BY <3>3, <3>5
  <2> QED BY <2>1, <2>2
<1> DEFINE old == CHOOSE n \in 0..Len(q) : Old(q, t, n)
<1>2. old \in 0..Len(q) /\ Old(q, t, old)
  BY <1>1, Zenon
<1>3. Since(q, t) = SubSeq(q, old + 1, Len(q))
  BY DEF Since
<1> QED BY <1>2, <1>3

LEMMA EndOfSamples ==
  ASSUME NEW q \in Samples, NEW n \in 0..Len(q)
  PROVE  /\ SubSeq(q, n + 1, Len(q)) \in Samples
         /\ Len(SubSeq(q, n + 1, Len(q))) = Len(q) - n
         /\ \A i \in 1..Len(q) - n : SubSeq(q, n + 1, Len(q))[i] = q[n + i]
<1>1. n \in Nat /\ Len(q) \in Nat /\ n <= Len(q)
  BY SampleOf
<1>2. SubSeq(q, n + 1, Len(q)) \in Seq([t : Nat, v : Nat])
  <2>1. \A i \in (n + 1)..Len(q) : q[i] \in [t : Nat, v : Nat]
    BY <1>1, SampleOf
  <2> QED BY <1>1, <2>1 DEF Samples
<1>3. Len(SubSeq(q, n + 1, Len(q))) = Len(q) - n
  BY <1>1
<1>4. ASSUME NEW i \in 1..Len(q) - n PROVE SubSeq(q, n + 1, Len(q))[i] = q[n + i]
  <2>1. (n + 1) + i - 1 = n + i
    BY <1>1
  <2> QED BY <1>1, <2>1
<1> QED BY <1>2, <1>3, <1>4 DEF Samples

(* Trimming a window that fits leaves one that fits a younger cut.           *)
LEMMA TrimmedFits ==
  ASSUME NEW s \in Seq(Seen), Ordered(s), NEW m \in Kinds, NEW width \in Nat,
         NEW q, WindowFits(q, s, m, width),
         NEW t \in Int, s # <<>> => s[Len(s)].t - width <= t
  PROVE  LET w == Since(q, t) IN
         /\ w \in Samples /\ Len(w) <= Len(s)
         /\ \A i \in 1..Len(w) : w[i] = SampleAt(s, Lost(w, s) + i, m)
         /\ \A j \in 1..Len(s) : j <= Lost(w, s) <=> s[j].t < t
<1> DEFINE w == Since(q, t)
           d == Len(s) - Len(q)
<1>1. PICK n \in 0..Len(q) : Old(q, t, n) /\ w = SubSeq(q, n + 1, Len(q))
  BY SinceIs DEF WindowFits
<1>2. /\ q \in Samples /\ Len(q) \in Nat /\ Len(s) \in Nat /\ d \in 0..Len(s)
      /\ n \in Nat /\ n <= Len(q) /\ Len(q) <= Len(s)
      /\ \A i \in 1..Len(q) : q[i] = SampleAt(s, d + i, m)
      /\ \A j \in 1..d : s[j].t < s[Len(s)].t - width
      /\ \A j \in 1..Len(s) : s[j].t \in Nat
  <2>1. q \in Samples /\ Len(q) \in Nat /\ Len(s) \in Nat /\ Len(q) <= Len(s)
    BY SampleOf, SeenOf DEF WindowFits
  <2>2. \A j \in 1..Len(s) : s[j].t \in Nat
    BY SeenOf
  <2>3. n \in Nat /\ n <= Len(q) /\ d \in 0..Len(s)
    <3> QED BY <2>1
  <2>4. /\ \A i \in 1..Len(q) : q[i] = SampleAt(s, d + i, m)
        /\ \A j \in 1..d : s[j].t < s[Len(s)].t - width
    BY Zenon DEF WindowFits, Lost
  <2> HIDE DEF d
  <2> QED BY <2>1, <2>2, <2>3, <2>4, Zenon
<1> HIDE DEF w
<1>3. /\ w \in Samples /\ Len(w) = Len(q) - n
      /\ \A i \in 1..Len(q) - n : w[i] = q[n + i]
  BY <1>1, <1>2, EndOfSamples
<1>4. Lost(w, s) = d + n
  BY <1>2, <1>3 DEF Lost
<1> HIDE DEF d
<1>5. ASSUME NEW i \in 1..Len(w) PROVE w[i] = SampleAt(s, (d + n) + i, m)
  <2>1. n + i \in 1..Len(q) /\ d + (n + i) = (d + n) + i
    BY <1>2, <1>3
  <2> QED BY <1>2, <1>3, <2>1
<1>6. ASSUME NEW j \in 1..Len(s) PROVE j <= d + n <=> s[j].t < t
  <2>0. \A i \in 1..Len(q) : q[i].t = s[d + i].t /\ d + i \in 1..Len(s)
    <3> TAKE i \in 1..Len(q)
    <3>1. q[i].t = s[d + i].t
      <4>1. q[i] = SampleAt(s, d + i, m)
        BY <1>2, Zenon
      <4> QED BY <4>1, SampleFields
    <3>2. d + i \in 1..Len(s)
      <4>1. Len(q) \in Nat /\ Len(s) \in Nat /\ Len(q) <= Len(s)
        BY <1>2, Zenon
      <4> QED BY <4>1 DEF d
    <3> QED BY <3>1, <3>2, Zenon
  <2>1. CASE j <= d
    <3>1. /\ s[j].t < s[Len(s)].t - width /\ s[j].t \in Nat /\ s[Len(s)].t \in Nat
          /\ Len(s) \in 1..Len(s)
      BY <1>2, <2>1
    <3>2. s[Len(s)].t - width <= t
      BY <3>1
    <3>3. j <= d + n
      BY <1>2, <2>1
    <3> QED BY <3>1, <3>2, <3>3
  <2>2. CASE d < j /\ j <= d + n
    <3>1. j - d \in 1..n /\ j - d \in 1..Len(q) /\ d + (j - d) = j
      BY <1>2, <2>2
    <3>2. q[j - d].t < t
      BY <1>1, <3>1 DEF Old
    <3> QED BY <2>0, <2>2, <3>1, <3>2
  <2>3. CASE d + n < j
    <3>1. n < Len(q) /\ n + 1 \in 1..Len(q) /\ d + (n + 1) <= j
      <4>1. Len(q) \in Nat /\ Len(s) \in Nat /\ n \in Nat /\ j <= Len(s) /\ d = Len(s) - Len(q)
        BY <1>2 DEF d
      <4> QED BY <2>3, <4>1
    <3>2. q[n + 1].t >= t
      BY <1>1, <3>1 DEF Old
    <3>3. s[d + (n + 1)].t <= s[j].t /\ s[d + (n + 1)].t >= t
      BY <2>0, <3>1, <3>2 DEF Ordered
    <3>4. s[d + (n + 1)].t \in Nat /\ s[j].t \in Nat
      BY <1>2, <2>0, <3>1
    <3> QED BY <1>2, <2>3, <3>3, <3>4
  <2> QED BY <1>2, <2>1, <2>2, <2>3
<1>7. Len(w) <= Len(s)
  BY <1>2, <1>3
<1> QED BY <1>3, <1>4, <1>5, <1>6, <1>7 DEF w

(* A tick that is recorded in the history and in the trimmed window.         *)
LEMMA RecordedFits ==
  ASSUME NEW s \in Seq(Seen), Ordered(s), NEW m \in Kinds, NEW width \in Nat,
         NEW q, WindowFits(q, s, m, width),
         NEW e \in Seen, s # <<>> => s[Len(s)].t <= e.t
  PROVE  WindowFits(Append(Since(q, e.t - width), SampleAt(<<e>>, 1, m)), Append(s, e), m, width)
<1> DEFINE w == Since(q, e.t - width)
           x == SampleAt(<<e>>, 1, m)
           u == Append(w, x)
           r == Append(s, e)
<1>1. /\ e.t \in Nat /\ x \in [t : Nat, v : Nat] /\ x = [t |-> e.t, v |-> Abs(e.tick[m])]
  <2>1. <<e>>[1] = e
    OBVIOUS
  <2>2. e.t \in Nat /\ Abs(e.tick[m]) \in Nat
    BY SeenFields
  <2> QED BY <2>1, <2>2 DEF SampleAt
<1>2. s # <<>> => s[Len(s)].t \in Nat
  <2>1. s # <<>> => Len(s) \in 1..Len(s)
    OBVIOUS
  <2> QED BY <2>1, SeenOf
<1>3. /\ w \in Samples /\ Len(w) <= Len(s)
      /\ \A i \in 1..Len(w) : w[i] = SampleAt(s, Lost(w, s) + i, m)
      /\ \A j \in 1..Len(s) : j <= Lost(w, s) <=> s[j].t < e.t - width
  <2>1. e.t - width \in Int /\ (s # <<>> => s[Len(s)].t - width <= e.t - width)
    BY <1>1, <1>2
  <2> QED BY <2>1, TrimmedFits
<1> HIDE DEF w, x
<1>4. /\ Len(w) \in Nat /\ Len(s) \in Nat /\ Len(r) = Len(s) + 1 /\ r[Len(s) + 1] = e
      /\ \A i \in 1..Len(s) : r[i] = s[i]
  BY <1>3, SampleOf
<1>5. /\ u \in Samples /\ Len(u) = Len(w) + 1 /\ u[Len(w) + 1] = x
      /\ \A i \in 1..Len(w) : u[i] = w[i]
  BY <1>1, <1>3 DEF Samples
<1>6. Lost(u, r) = Lost(w, s) /\ Lost(w, s) \in 0..Len(s) /\ Len(u) <= Len(r)
  BY <1>3, <1>4, <1>5 DEF Lost
<1>7. ASSUME NEW i \in 1..Len(u) PROVE u[i] = SampleAt(r, Lost(w, s) + i, m)
  <2>1. CASE i = Len(w) + 1
    <3>1. Lost(w, s) + i = Len(s) + 1
      BY <1>4, <2>1 DEF Lost
    <3> QED BY <1>1, <1>4, <1>5, <2>1, <3>1 DEF SampleAt
  <2>2. CASE i # Len(w) + 1
    <3>1. i \in 1..Len(w) /\ Lost(w, s) + i \in 1..Len(s)
      BY <1>3, <1>4, <1>5, <2>2 DEF Lost
    <3> QED BY <1>3, <1>4, <1>5, <3>1 DEF SampleAt
  <2> QED BY <2>1, <2>2
<1>8. ASSUME NEW j \in 1..Lost(w, s) PROVE r[j].t < r[Len(r)].t - width
  <2>1. j \in 1..Len(s) /\ j <= Lost(w, s)
    BY <1>6, <1>4
  <2>2. s[j].t < e.t - width
    BY <1>3, <2>1
  <2> QED BY <1>4, <2>1, <2>2
<1>9. WindowFits(u, r, m, width)
  <2> HIDE DEF u, r
  <2> QED BY <1>5, <1>6, <1>7, <1>8 DEF WindowFits
<1> QED BY <1>9 DEF w, x

-----------------------------------------------------------------------------
(* What the turns keep: every deque and every candle fits the tick history  *)
(* of its asset, which is in the order of its times; and the latest decision *)
(* was made on what is there now.                                            *)

Candle == [bucket : Nat \cup {-1}, last : Nat, closes : Seq(Nat)]

ShapesFit ==
  /\ now \in Nat
  /\ candles \in [Frame -> [Asset -> Candle]]
  /\ samples \in [Measure -> [Asset -> Samples]]
  /\ prices \in [Asset -> Samples]
  /\ log \in [Asset -> Seq(Seen)]

HistoryFits ==
  \A a \in Asset :
    /\ Ordered(log[a])
    /\ \A i \in 1..Len(log[a]) : log[a][i].t <= now

WindowsFit ==
  \A a \in Asset :
    /\ \A m \in Measure : WindowFits(samples[m][a], log[a], m, AdaptiveWindow)
    /\ WindowFits(prices[a], log[a], "price", CorrWindow)

(* A candle is of the bucket of the last tick, and its closes are those of   *)
(* the latest buckets that another one followed.                             *)
After(s, d, i) == {j \in Closing(s, d) : j > i}
CandleFits(c, s, d) ==
  /\ s = <<>> => c.bucket = -1
  /\ s # <<>> => c.bucket = s[Len(s)].t \div d /\ c.last = s[Len(s)].tick.price
  /\ LET all == Cardinality(Closing(s, d))
     IN Len(c.closes) = IF all < MaxCandles THEN all ELSE MaxCandles
  /\ \A k \in 1..Len(c.closes) : \E i \in Closing(s, d) :
       Cardinality(After(s, d, i)) = Len(c.closes) - k /\ c.closes[k] = s[i].tick.price

CandlesFit ==
  \A f \in Frame, a \in Asset : CandleFits(candles[f][a], log[a], Duration[f])

DecidedNow ==
  \/ decision = {}
  \/ \E b \in Bot : \E tick \in Quote[AssetOf[b]], correlated \in BOOLEAN :
       decision = Decision(b, tick, correlated)

SInv == ShapesFit /\ HistoryFits /\ WindowsFit /\ CandlesFit /\ DecidedNow

LEMMA Settings ==
  /\ Duration \in [Frame -> Nat \ {0}] /\ MaxCandles \in Nat \ {0} /\ MinSamples \in Nat \ {0}
  /\ CvdThreshold \in Nat \ {0} /\ VwapThreshold \in Nat \ {0}
  /\ DropWindow \in Nat /\ CorrWindow \in Nat /\ AdaptiveWindow \in Nat
  /\ DropWindow <= CorrWindow
  /\ "BTC" \in Asset /\ \A b \in Bot : AssetOf[b] \in Asset
  /\ \A a \in Asset : Quote[a] \subseteq [price : Nat, cvd : Int, vwap : Int]
  /\ \A b \in Bot : StrategyOf[b] \in {"MOMENTUM", "BOLLINGER", "TURBO_CVD", "TURBO_VWAP"}
BY SignalsAssumption DEF SignalsAssumption, Asset

(* The candles are those of the tick history.                                *)
LEMMA CandlesThen == SInv => CandlesMatchTicks
<1> SUFFICES ASSUME SInv, NEW f \in Frame, NEW a \in Asset
             PROVE  LET closes == candles[f][a].closes
                        closing == Closing(log[a], Duration[f])
                        all == Cardinality(closing)
                        Later(i) == Cardinality({j \in closing : j > i})
                    IN /\ Len(closes) = IF all < MaxCandles THEN all ELSE MaxCandles
                       /\ \A k \in DOMAIN closes : \E i \in closing :
                             Later(i) = Len(closes) - k /\ closes[k] = log[a][i].tick.price
  BY DEF CandlesMatchTicks
<1>1. CandleFits(candles[f][a], log[a], Duration[f])
  BY DEF SInv, CandlesFit
<1>2. DOMAIN candles[f][a].closes = 1..Len(candles[f][a].closes)
  <2>1. candles[f][a] \in Candle
    BY DEF SInv, ShapesFit
  <2>2. candles[f][a].closes \in Seq(Nat)
    BY <2>1 DEF Candle
  <2> QED BY <2>2
<1> QED BY <1>1, <1>2, Zenon DEF CandleFits, After

(* The two RSIs and the two bands agree on any closes.                       *)
LEMMA TwinsThen == SInv => TwinsAgree
<1> SUFFICES ASSUME SInv, NEW a \in Asset
             PROVE  LET c == Closes(a)
                        live == IF c = <<>> THEN "SKIP" ELSE LiveBands(c, c[Len(c)])
                    IN /\ live # "SKIP" => TestBands(c, c[Len(c)]) = live
                       /\ LiveRsi(c) = TestRsi(c) \/ (Gain(c) = 0 /\ Loss(c) = 0)
  BY DEF TwinsAgree
<1> DEFINE c == Closes(a)
<1>1. c \in Seq(Nat)
  <2>1. candles["rsi"][a] \in Candle
    BY DEF SInv, ShapesFit, Frame
  <2> QED BY <2>1 DEF Candle, Closes
<1>2. c \in Seq(Int)
  <2> HIDE DEF c
  <2> QED BY <1>1
<1>3. c # <<>> => c[Len(c)] \in Int
  <2> HIDE DEF c
  <2> QED BY <1>2
<1>4. c # <<>> /\ LiveBands(c, c[Len(c)]) # "SKIP" => TestBands(c, c[Len(c)]) = LiveBands(c, c[Len(c)])
  BY <1>2, <1>3, BandsAgree
<1>5. LiveRsi(c) = TestRsi(c) \/ (Gain(c) = 0 /\ Loss(c) = 0)
  BY <1>2, RsiAgrees
<1> QED BY <1>4, <1>5

(* A decision is a bot's, and its signal is what its strategy said.          *)
LEMMA DecidedIs ==
  ASSUME DecidedNow, NEW d \in decision
  PROVE  \E b \in Bot : \E tick \in Quote[AssetOf[b]], correlated \in BOOLEAN :
           /\ d.bot = b /\ d.signal = Evaluated(b, tick) /\ d.signal # "SKIP"
           /\ d.signal # "raise" => Allowed(AssetOf[b], d.signal, correlated)
<1>1. PICK b \in Bot : \E tick \in Quote[AssetOf[b]], correlated \in BOOLEAN :
             decision = Decision(b, tick, correlated)
  BY DEF DecidedNow
<1>2. PICK tick \in Quote[AssetOf[b]], correlated \in BOOLEAN : decision = Decision(b, tick, correlated)
  BY <1>1
<1> DEFINE e == Evaluated(b, tick)
           passes == Confirmed(candles["1m"][AssetOf[b]].closes, e) /\ Allowed(AssetOf[b], e, correlated)
<1>3. decision = IF e = "raise" \/ (e # "SKIP" /\ passes) THEN {[bot |-> b, signal |-> e]} ELSE {}
  BY <1>2 DEF Decision
<1> HIDE DEF e
<1>4. d = [bot |-> b, signal |-> e] /\ (e = "raise" \/ (e # "SKIP" /\ passes))
  BY <1>3
<1>5. d.bot = b /\ d.signal = e /\ e # "SKIP" /\ (e # "raise" => Allowed(AssetOf[b], e, correlated))
  BY <1>4
<1> QED BY <1>5 DEF e

-----------------------------------------------------------------------------
(* Failures of a strategy                                                    *)

LEMMA PressureRaises ==
  ASSUME NEW x \in Int, NEW thresh \in Int, Pressure(x, thresh) = "raise"
  PROVE  thresh = 0
BY DEF Pressure

LEMMA NeverRaises ==
  ASSUME NEW b \in Bot, NEW tick \in Quote[AssetOf[b]], Evaluated(b, tick) = "raise"
  PROVE  StrategyOf[b] \in {"TURBO_CVD", "TURBO_VWAP"}
<1>1. StrategyOf[b] \in {"MOMENTUM", "BOLLINGER", "TURBO_CVD", "TURBO_VWAP"}
  BY Settings
<1>2. CASE StrategyOf[b] = "BOLLINGER"
  <2>1. LiveBands(Closes(AssetOf[b]), tick.price) = "raise"
    BY <1>2 DEF Evaluated
  <2>2. LiveBands(Closes(AssetOf[b]), tick.price) \in {"SKIP", "BUY_YES", "BUY_NO"}
    BY DEF LiveBands, Breakout
  <2> QED BY <2>1, <2>2
<1>3. CASE StrategyOf[b] = "MOMENTUM"
  <2>1. tick.cvd \in Int /\ CvdThreshold \in Nat \ {0}
    <3>1. tick \in [price : Nat, cvd : Int, vwap : Int]
      BY Settings
    <3> QED BY <3>1, Settings
  <2>2. Momentum(4 * tick.cvd, 4 * CvdThreshold, 4 * tick.vwap, 4 * VwapThreshold) = "raise"
    BY <1>3 DEF Evaluated
  <2>3. Pressure(4 * tick.cvd, 4 * CvdThreshold) = "raise"
    BY <2>2 DEF Momentum
  <2>4. 4 * tick.cvd \in Int /\ 4 * CvdThreshold \in Int /\ 4 * CvdThreshold # 0
    BY <2>1
  <2> QED BY <2>3, <2>4, PressureRaises
<1> QED BY <1>1, <1>2, <1>3

(* A window has as many samples as the history has ticks that are not older, *)
(* and as many zeros.                                                        *)
Young(s, t) == {i \in DOMAIN s : s[i].t >= t}
Silent(s, t, m) == {i \in Young(s, t) : s[i].tick[m] = 0}

LEMMA WindowCounts ==
  ASSUME NEW s \in Seq(Seen), Ordered(s), NEW m \in Kinds, NEW width \in Nat,
         NEW q, WindowFits(q, s, m, width),
         NEW t \in Int, s # <<>> => s[Len(s)].t - width <= t
  PROVE  /\ Cardinality(Young(s, t)) = Len(Since(q, t)) /\ Since(q, t) \in Samples
         /\ Cardinality(Silent(s, t, m)) \in Nat
         /\ Cardinality(Quiet(Since(q, t))) <= Cardinality(Silent(s, t, m))
<1> DEFINE w == Since(q, t)
           l == Lost(w, s)
           hour == Young(s, t)
           zeros == Silent(s, t, m)
<1>1. /\ w \in Samples /\ Len(w) <= Len(s)
      /\ \A i \in 1..Len(w) : w[i] = SampleAt(s, l + i, m)
      /\ \A j \in 1..Len(s) : j <= l <=> s[j].t < t
  BY TrimmedFits
<1>2. /\ Len(s) \in Nat /\ DOMAIN s = 1..Len(s) /\ \A i \in 1..Len(s) : s[i].t \in Nat
      /\ \A i \in 1..Len(s) : s[i].tick[m] \in Int
  BY SeenOf
<1> HIDE DEF w
<1>3. Len(w) \in Nat /\ l = Len(s) - Len(w)
  BY <1>1, SampleOf DEF Lost
<1> HIDE DEF l
<1>4. hour = (l + 1)..Len(s)
  <2>1. ASSUME NEW i \in 1..Len(s) PROVE s[i].t >= t <=> l + 1 <= i
    <3>1. s[i].t \in Nat /\ (i <= l <=> s[i].t < t)
      BY <1>1, <1>2
    <3> QED BY <1>1, <1>3, <3>1
  <2> QED BY <1>1, <1>2, <1>3, <2>1 DEF Young
<1>5. IsFiniteSet(hour) /\ Cardinality(hour) = Len(w)
  <2>1. /\ IsFiniteSet((l + 1)..Len(s))
        /\ Cardinality((l + 1)..Len(s)) = IF l + 1 > Len(s) THEN 0 ELSE Len(s) - (l + 1) + 1
    <3>1. l + 1 \in Int /\ Len(s) \in Int
      BY <1>2, <1>3
    <3> QED BY <3>1, FS_Interval, Zenon
  <2> HIDE DEF hour
  <2> QED BY <1>1, <1>2, <1>3, <1>4, <2>1
<1>6. IsFiniteSet(zeros) /\ Cardinality(zeros) \in Nat
  <2>1. zeros \in SUBSET hour
    BY DEF Silent
  <2> HIDE DEF hour, zeros
  <2> QED BY <1>5, <2>1, FS_Subset, FS_CardinalityType
<1>7. ASSUME NEW i \in Quiet(w) PROVE i \in 1..Len(w) /\ l + i \in zeros
  <2>1. i \in 1..Len(w) /\ w[i].v = 0
    BY DEF Quiet
  <2>2. l + i \in hour /\ l + i \in 1..Len(s)
    BY <1>1, <1>2, <1>3, <1>4, <2>1
  <2>3. Abs(s[l + i].tick[m]) = 0 /\ s[l + i].tick[m] \in Int
    BY <1>1, <1>2, <2>1, <2>2, SampleFields
  <2>4. s[l + i].tick[m] = 0
    BY <2>3 DEF Abs
  <2> QED BY <2>1, <2>2, <2>4 DEF Silent
<1>8. Cardinality(Quiet(w)) <= Cardinality(zeros)
  <2> DEFINE f == [i \in Quiet(w) |-> l + i]
  <2> HIDE DEF zeros
  <2>1. f \in Injection(Quiet(w), zeros)
    <3>1. \A i \in Quiet(w) : i \in Int
      BY <1>7
    <3>2. \A i, j \in Quiet(w) : f[i] = f[j] => i = j
      BY <1>1, <1>3, <3>1
    <3>3. f \in [Quiet(w) -> zeros]
      BY <1>7
    <3> HIDE DEF f
    <3> QED BY <3>2, <3>3 DEF Injection, IsInjective
  <2> HIDE DEF f
  <2> QED BY <1>6, <2>1, FS_Injection
<1> QED BY <1>1, <1>5, <1>6, <1>8 DEF w

(* The latest tick of an asset is not later than now.                        *)
LEMMA HistoryOf ==
  ASSUME SInv, NEW a \in Asset
  PROVE  /\ now \in Nat /\ log[a] \in Seq(Seen) /\ Ordered(log[a])
         /\ log[a] # <<>> => Len(log[a]) \in 1..Len(log[a]) /\ log[a][Len(log[a])].t <= now
<1>1. now \in Nat /\ log[a] \in Seq(Seen)
  BY DEF SInv, ShapesFit
<1>2. log[a] # <<>> => Len(log[a]) \in 1..Len(log[a])
  BY <1>1
<1>3. Ordered(log[a]) /\ \A i \in 1..Len(log[a]) : log[a][i].t <= now
  BY DEF SInv, HistoryFits
<1> QED BY <1>1, <1>2, <1>3

LEMMA ThresholdZero ==
  ASSUME SInv, NEW a \in Asset, NEW m \in Measure, NEW configured \in Nat \ {0},
         Threshold(a, m, configured) = 0
  PROVE  4 * Cardinality(Silent(log[a], now - AdaptiveWindow, m))
           >= 3 * Cardinality(Young(log[a], now - AdaptiveWindow))
<1> DEFINE w == Since(samples[m][a], now - AdaptiveWindow)
           zeros == Silent(log[a], now - AdaptiveWindow, m)
           hour == Young(log[a], now - AdaptiveWindow)
<1>1. Len(w) >= MinSamples /\ Percentile75(w) = 0
  BY DEF Threshold, Kept
<1>2. /\ Cardinality(hour) = Len(w) /\ w \in Samples
      /\ Cardinality(zeros) \in Nat /\ Cardinality(Quiet(w)) <= Cardinality(zeros)
  <2>1. WindowFits(samples[m][a], log[a], m, AdaptiveWindow)
    BY DEF SInv, WindowsFit
  <2>2. m \in Kinds
    BY DEF Measure, Kinds
  <2>3. now - AdaptiveWindow \in Int
        /\ (log[a] # <<>> => log[a][Len(log[a])].t - AdaptiveWindow <= now - AdaptiveWindow)
    <3>1. log[a] # <<>> => log[a][Len(log[a])].t \in Nat
      BY HistoryOf, SeenOf
    <3> QED BY <3>1, HistoryOf, Settings
  <2> QED BY <2>1, <2>2, <2>3, HistoryOf, Settings, WindowCounts
<1> HIDE DEF w, zeros, hour
<1>3. Len(w) > 0 /\ Len(w) \in Nat
  BY <1>1, <1>2, Settings, SampleOf
<1>4. 4 * Cardinality(Quiet(w)) >= 3 * Len(w)
  BY <1>1, <1>2, <1>3, PercentileZero
<1>5. Cardinality(Quiet(w)) \in Nat
  <2>1. IsFiniteSet(1..Len(w)) /\ Quiet(w) \in SUBSET (1..Len(w))
    BY <1>3, IntervalCount DEF Quiet
  <2> QED BY <2>1, FS_Subset, FS_CardinalityType
<1> QED BY <1>2, <1>3, <1>4, <1>5 DEF zeros, hour

LEMMA MutedThen == SInv => MutedOnlyByZeros
<1> SUFFICES ASSUME SInv, NEW d \in decision, d.signal = "raise"
             PROVE  4 * Cardinality(Zeros(d.bot)) >= 3 * Cardinality(Hour(d.bot))
  BY DEF MutedOnlyByZeros
<1>1. PICK b \in Bot : \E tick \in Quote[AssetOf[b]] : d.bot = b /\ Evaluated(b, tick) = "raise"
  BY DecidedIs DEF SInv
<1>2. PICK tick \in Quote[AssetOf[b]] : d.bot = b /\ Evaluated(b, tick) = "raise"
  BY <1>1
<1> DEFINE a == AssetOf[b]
<1>3. a \in Asset /\ tick.cvd \in Int /\ tick.vwap \in Int
  <2>1. tick \in [price : Nat, cvd : Int, vwap : Int]
    BY Settings
  <2> QED BY <2>1, Settings
<1>4. ASSUME NEW m \in Measure, NEW c \in Nat \ {0}, NEW x \in Int,
             Pressure(x, Threshold(a, m, c)) = "raise",
             m = IF StrategyOf[b] = "TURBO_CVD" THEN "cvd" ELSE "vwap"
      PROVE  4 * Cardinality(Zeros(b)) >= 3 * Cardinality(Hour(b))
  <2>1. Threshold(a, m, c) = 0
    BY <1>4 DEF Pressure
  <2> HIDE DEF a
  <2>2. 4 * Cardinality(Silent(log[a], now - AdaptiveWindow, m))
          >= 3 * Cardinality(Young(log[a], now - AdaptiveWindow))
    BY <1>3, <2>1, ThresholdZero
  <2> QED BY <1>4, <2>2 DEF Zeros, Hour, Silent, Young, a
<1>5. CASE StrategyOf[b] = "TURBO_CVD"
  <2>1. Pressure(4 * tick.cvd, Threshold(a, "cvd", CvdThreshold)) = "raise"
    BY <1>2, <1>5 DEF Evaluated
  <2>2. "cvd" \in Measure /\ CvdThreshold \in Nat \ {0} /\ 4 * tick.cvd \in Int
    BY <1>3, Settings DEF Measure
  <2> HIDE DEF a
  <2> QED BY <1>2, <1>4, <1>5, <2>1, <2>2
<1>6. CASE StrategyOf[b] = "TURBO_VWAP"
  <2>1. Pressure(4 * tick.vwap, Threshold(a, "vwap", VwapThreshold)) = "raise"
    BY <1>2, <1>6 DEF Evaluated
  <2>2. "vwap" \in Measure /\ VwapThreshold \in Nat \ {0} /\ 4 * tick.vwap \in Int
    BY <1>3, Settings DEF Measure
  <2> HIDE DEF a
  <2> QED BY <1>2, <1>4, <1>6, <2>1, <2>2
<1> QED BY <1>2, <1>5, <1>6, NeverRaises

-----------------------------------------------------------------------------
(* The drop filter                                                           *)

(* The first tick that is not old is the one behind those that are lost.     *)
LEMMA FirstYoung ==
  ASSUME NEW s \in Seq(Seen), NEW t \in Int, s[Len(s)].t >= t, s # <<>>,
         NEW l \in Int, 0 <= l, l <= Len(s), \A j \in 1..Len(s) : j <= l <=> s[j].t < t
  PROVE  LET from == CHOOSE i \in DOMAIN s : s[i].t >= t /\ \A j \in 1..i - 1 : s[j].t < t
         IN from = l + 1 /\ l + 1 \in 1..Len(s)
<1> DEFINE First(i) == s[i].t >= t /\ \A j \in 1..i - 1 : s[j].t < t
           from == CHOOSE i \in DOMAIN s : First(i)
<1>1. /\ Len(s) \in Nat /\ DOMAIN s = 1..Len(s) /\ Len(s) \in 1..Len(s)
      /\ \A i \in 1..Len(s) : s[i].t \in Nat
  <2>1. Len(s) \in Nat /\ DOMAIN s = 1..Len(s) /\ Len(s) \in 1..Len(s)
    OBVIOUS
  <2> QED BY <2>1, SeenOf
<1>2. \A j \in 1..Len(s) : j > l <=> s[j].t >= t
  BY <1>1
<1>3. l + 1 \in 1..Len(s)
  <2>1. Len(s) > l
    BY <1>1, <1>2
  <2> QED BY <1>1, <2>1
<1>4. First(l + 1)
  <2>1. \A j \in 1..(l + 1) - 1 : j \in 1..Len(s) /\ j <= l
    BY <1>1, <1>3
  <2> QED BY <1>2, <1>3, <2>1
<1>5. ASSUME NEW i \in 1..Len(s), First(i) PROVE i = l + 1
  <2>1. i > l
    BY <1>2, <1>5
  <2>2. ~(l + 1 < i)
    <3>1. l + 1 < i => l + 1 \in 1..i - 1
      BY <1>3
    <3>2. l + 1 < i => s[l + 1].t < t
      BY <1>5, <3>1
    <3>3. s[l + 1].t >= t /\ s[l + 1].t \in Nat
      BY <1>1, <1>2, <1>3
    <3> QED BY <3>2, <3>3
  <2> QED BY <2>1, <2>2
<1> HIDE DEF First
<1>6. from \in 1..Len(s) /\ First(from)
  BY <1>1, <1>3, <1>4, Zenon
<1>7. from = l + 1
  BY <1>5, <1>6
<1> QED BY <1>3, <1>7 DEF First

(* What the filter calls Bitcoin's recent move contains the drop, if there   *)
(* was one in the window.                                                    *)
LEMMA MoveThen ==
  ASSUME SInv, BtcFell
  PROVE  Dropped(RecentMove("BTC"))
<1> DEFINE s == log["BTC"]
           q == prices["BTC"]
           last == s[Len(s)]
           t == last.t - DropWindow
           w == Since(q, t)
           from == CHOOSE i \in DOMAIN s : s[i].t >= t /\ \A j \in 1..i - 1 : s[j].t < t
<1>1. s # <<>> /\ Dropped(<<s[from].tick.price, last.tick.price>>)
  BY DEF BtcFell
<1>2. /\ s \in Seq(Seen) /\ Ordered(s) /\ Len(s) \in 1..Len(s)
      /\ WindowFits(q, s, "price", CorrWindow)
      /\ last.t \in Nat /\ t \in Int /\ last.t - CorrWindow <= t /\ last.t >= t
  <2>1. "BTC" \in Asset
    BY Settings
  <2>2. s \in Seq(Seen) /\ Ordered(s) /\ Len(s) \in 1..Len(s)
    BY <1>1, <2>1, HistoryOf
  <2>3. WindowFits(q, s, "price", CorrWindow)
    BY <2>1 DEF SInv, WindowsFit
  <2>4. last.t \in Nat
    BY <2>2, SeenOf
  <2> HIDE DEF last
  <2> QED BY <2>2, <2>3, <2>4, Settings
<1> HIDE DEF s, q
<1>3. /\ w \in Samples /\ Len(w) <= Len(s)
      /\ \A i \in 1..Len(w) : w[i] = SampleAt(s, Lost(w, s) + i, "price")
      /\ \A j \in 1..Len(s) : j <= Lost(w, s) <=> s[j].t < t
  <2>1. "price" \in Kinds
    BY DEF Kinds
  <2> HIDE DEF t
  <2> QED BY <1>2, <2>1, Settings, TrimmedFits DEF last
<1>4. Len(w) \in Nat /\ Len(s) \in Nat /\ Lost(w, s) = Len(s) - Len(w)
  <2> HIDE DEF w
  <2> QED BY <1>2, <1>3, SampleOf DEF Lost
<1>5. from = Lost(w, s) + 1 /\ Lost(w, s) + 1 \in 1..Len(s)
  <2>1. Lost(w, s) \in Int /\ 0 <= Lost(w, s) /\ Lost(w, s) <= Len(s)
    <3> HIDE DEF w
    <3> QED BY <1>3, <1>4
  <2> HIDE DEF w, t
  <2> QED BY <1>1, <1>2, <1>3, <2>1, FirstYoung DEF last
<1>6. /\ q \in Samples /\ Len(q) \in Nat /\ Len(q) <= Len(s)
      /\ \A i \in 1..Len(q) : q[i] = SampleAt(s, Lost(q, s) + i, "price")
      /\ \A j \in 1..Lost(q, s) : s[j].t < last.t - CorrWindow
  BY <1>2, SampleOf DEF WindowFits
<1>7. \A i \in 1..Len(s) : s[i].t \in Nat /\ s[i].tick.price \in Nat \ {0} /\ Abs(s[i].tick["price"]) = s[i].tick.price
  <2>1. \A i \in 1..Len(s) : s[i].t \in Nat /\ s[i].tick.price \in Nat \ {0}
    BY <1>2, SeenOf
  <2> QED BY <2>1 DEF Abs
<1>8. CASE Len(q) < 2
  <2>1. from = Len(s)
    <3>1. ASSUME NEW j \in 1..Len(s), j # Len(s) PROVE j <= Lost(w, s)
      <4>1. j \in 1..Lost(q, s)
        BY <1>4, <1>6, <1>8, <3>1 DEF Lost
      <4>2. s[j].t < last.t - CorrWindow /\ s[j].t \in Nat
        BY <1>6, <1>7, <4>1
      <4>3. s[j].t < t
        <5> HIDE DEF t, last
        <5> QED BY <1>2, <4>2, Settings
      <4> QED BY <1>3, <4>3
    <3>2. from \in 1..Len(s) /\ ~(from <= Lost(w, s))
      <4> HIDE DEF from, w
      <4> QED BY <1>4, <1>5
    <3> HIDE DEF from, w
    <3> QED BY <3>1, <3>2
  <2>2. last.tick.price \in Nat \ {0}
    BY <1>2, <1>7
  <2>3. Dropped(<<last.tick.price, last.tick.price>>)
    <3> HIDE DEF from
    <3> QED BY <1>1, <2>1
  <2> QED BY <2>2, <2>3 DEF Dropped
<1>9. CASE ~(Len(q) < 2)
  <2>1. Len(q) \in 1..Len(q) /\ Lost(q, s) + Len(q) = Len(s)
    BY <1>4, <1>6, <1>9 DEF Lost
  <2>2. q[Len(q)].t = last.t /\ q[Len(q)].v = last.tick.price
    BY <1>2, <1>6, <1>7, <2>1, SampleFields
  <2>3. 1 \in 1..Len(w)
    <3> HIDE DEF w
    <3> QED BY <1>4, <1>5
  <2>4. w[1].v = s[from].tick.price
    <3> HIDE DEF w, from
    <3>1. w[1] = SampleAt(s, Lost(w, s) + 1, "price")
      BY <1>3, <2>3, Zenon
    <3>2. w[1].v = Abs(s[Lost(w, s) + 1].tick["price"])
      BY <3>1, SampleFields
    <3> QED BY <1>5, <1>7, <3>2, Zenon
  <2>5. RecentMove("BTC") = <<w[1].v, last.tick.price>>
    BY <1>9, <2>2 DEF RecentMove, q
  <2> QED BY <1>1, <2>4, <2>5
<1> QED BY <1>8, <1>9

LEMMA DropThen == SInv => NoBuyIntoDrop
<1> SUFFICES ASSUME SInv, NEW d \in decision, AssetOf[d.bot] # "BTC", d.signal = "BUY_YES", BtcFell
             PROVE  FALSE
  BY DEF NoBuyIntoDrop
<1>1. PICK b \in Bot : \E correlated \in BOOLEAN :
             d.bot = b /\ Allowed(AssetOf[b], "BUY_YES", correlated)
  BY DecidedIs DEF SInv
<1>2. ~Dropped(RecentMove("BTC"))
  BY <1>1 DEF Allowed
<1> QED BY <1>2, MoveThen

-----------------------------------------------------------------------------
(* The feeds keep what fits                                                  *)

LEMMA ClosingFinite ==
  ASSUME NEW s \in Seq(Seen), NEW d
  PROVE  /\ Closing(s, d) \subseteq 1..Len(s) - 1
         /\ IsFiniteSet(Closing(s, d)) /\ Cardinality(Closing(s, d)) \in Nat
         /\ \A i : IsFiniteSet(After(s, d, i)) /\ Cardinality(After(s, d, i)) \in Nat
<1>1. Closing(s, d) \subseteq 1..Len(s) - 1
  BY DEF Closing
<1>2. IsFiniteSet(1..Len(s) - 1)
  <2>1. 1 \in Int /\ Len(s) - 1 \in Int
    OBVIOUS
  <2> QED BY <2>1, FS_Interval, Zenon
<1>3. IsFiniteSet(Closing(s, d)) /\ \A i : IsFiniteSet(After(s, d, i))
  <2>1. Closing(s, d) \in SUBSET (1..Len(s) - 1) /\ \A i : After(s, d, i) \in SUBSET Closing(s, d)
    BY <1>1 DEF After
  <2> QED BY <1>2, <2>1, FS_Subset, Zenon
<1> QED BY <1>1, <1>3, FS_CardinalityType, Zenon

(* A tick closes the bucket of the one before it, if it has another.         *)
LEMMA ClosingGrows ==
  ASSUME NEW s \in Seq(Seen), s # <<>>, NEW e \in Seen, NEW d \in Nat \ {0}
  PROVE  LET n == Len(s)
             r == Append(s, e)
         IN /\ s[n].t \div d = e.t \div d => Closing(r, d) = Closing(s, d)
            /\ s[n].t \div d # e.t \div d => Closing(r, d) = Closing(s, d) \cup {n}
            /\ n \notin Closing(s, d)
            /\ \A i \in 1..n : r[i] = s[i]
<1> DEFINE n == Len(s)
           r == Append(s, e)
<1>1. n \in Nat \ {0} /\ Len(r) = n + 1 /\ r[n + 1] = e /\ \A i \in 1..n : r[i] = s[i]
  OBVIOUS
<1> HIDE DEF r
<1>2. ASSUME NEW i \in 1..n, i # n PROVE i \in Closing(r, d) <=> i \in Closing(s, d)
  <2>1. i \in 1..n - 1 /\ i + 1 \in 1..n /\ i \in 1..Len(r) - 1
    BY <1>1, <1>2
  <2> QED BY <1>1, <2>1 DEF Closing
<1>3. n \in Closing(r, d) <=> s[n].t \div d # e.t \div d
  <2>1. n \in 1..Len(r) - 1 /\ n \in 1..n
    BY <1>1
  <2> QED BY <1>1, <2>1 DEF Closing
<1>4. n \notin Closing(s, d)
  BY <1>1 DEF Closing
<1>5. Closing(r, d) \subseteq 1..n /\ Closing(s, d) \subseteq 1..n
  BY <1>1 DEF Closing
<1>6. \A i \in 1..n : i # n => (i \in Closing(r, d) <=> i \in Closing(s, d))
  BY <1>2
<1> DEFINE older == Closing(s, d)
           newer == Closing(r, d)
           same == s[n].t \div d = e.t \div d
<1>7. /\ newer \subseteq 1..n /\ older \subseteq 1..n /\ n \notin older /\ n \in 1..n
      /\ n \in newer <=> ~same
      /\ \A i \in 1..n : i # n => (i \in newer <=> i \in older)
  BY <1>1, <1>3, <1>4, <1>5, <1>6
<1> HIDE DEF older, newer, n, same
<1>8. same => newer = older
  <2> SUFFICES ASSUME same PROVE \A i : i \in newer <=> i \in older
    BY Zenon
  <2>1. \A i : i \in newer => i \in 1..n /\ i # n
    BY <1>7
  <2>2. \A i : i \in older => i \in 1..n /\ i # n
    BY <1>7
  <2> QED BY <1>7, <2>1, <2>2, Zenon
<1>9. ~same => newer = older \cup {n}
  BY <1>7
<1> QED BY <1>1, <1>4, <1>8, <1>9 DEF r, n, older, newer, same

LEMMA CandleFields ==
  ASSUME NEW c \in Candle
  PROVE  c.bucket \in Nat \cup {-1} /\ c.last \in Nat /\ c.closes \in Seq(Nat)
BY DEF Candle

LEMMA FedIs ==
  ASSUME NEW c, NEW bucket \in Nat, NEW price
  PROVE  /\ c.bucket = -1 => Fed(c, bucket, price) = [bucket |-> bucket, last |-> price, closes |-> <<>>]
         /\ c.bucket = bucket => Fed(c, bucket, price) = [c EXCEPT !.last = price]
         /\ c.bucket # -1 /\ c.bucket # bucket =>
              Fed(c, bucket, price) = [bucket |-> bucket, last |-> price,
                                       closes |-> Capped(Append(c.closes, c.last))]
BY DEF Fed

LEMMA Tails ==
  ASSUME NEW s \in Seq(Nat), Len(s) > 0
  PROVE  /\ Tail(s) \in Seq(Nat) /\ Len(Tail(s)) = Len(s) - 1
         /\ \A k \in 1..Len(s) - 1 : Tail(s)[k] = s[k + 1]
OBVIOUS

LEMMA FedFits ==
  ASSUME NEW s \in Seq(Seen), NEW d \in Nat \ {0}, NEW c \in Candle, CandleFits(c, s, d),
         NEW e \in Seen
  PROVE  LET f == Fed(c, e.t \div d, e.tick.price) IN f \in Candle /\ CandleFits(f, Append(s, e), d)
<1> DEFINE bucket == e.t \div d
           price == e.tick.price
           f == Fed(c, bucket, price)
           r == Append(s, e)
<1>1. bucket \in Nat /\ price \in Nat \ {0} /\ e.t \in Nat
  <2>1. e.t \in Nat /\ price \in Nat \ {0}
    BY SeenFields
  <2> HIDE DEF price
  <2> QED BY <2>1
<1>2. /\ r \in Seq(Seen) /\ Len(s) \in Nat /\ Len(r) = Len(s) + 1 /\ r # <<>> /\ r[Len(r)] = e
      /\ r[Len(r)].t \div d = bucket /\ r[Len(r)].tick.price = price
  OBVIOUS
<1>3. c.bucket \in Nat \cup {-1} /\ c.last \in Nat /\ c.closes \in Seq(Nat)
  BY CandleFields
<1> DEFINE all == Cardinality(Closing(s, d))
           n == Len(s)
           Size(k) == IF k < MaxCandles THEN k ELSE MaxCandles
<1>4. Len(c.closes) = Size(all) /\ all \in Nat /\ MaxCandles \in Nat \ {0}
  BY ClosingFinite, Settings DEF CandleFits
<1>5. CASE s = <<>>
  <2>1. f = [bucket |-> bucket, last |-> price, closes |-> <<>>]
    <3>1. c.bucket = -1
      BY <1>5 DEF CandleFits
    <3> HIDE DEF bucket, price
    <3> QED BY <1>1, <3>1, FedIs
  <2>2. Closing(r, d) = {} /\ Cardinality(Closing(r, d)) = 0
    <3>1. Len(r) = 1
      BY <1>2, <1>5
    <3> HIDE DEF r
    <3> QED BY <3>1, FS_EmptySet DEF Closing
  <2>3. /\ f.bucket = bucket /\ f.last = price /\ Len(f.closes) = 0 /\ f \in Candle
    <3> HIDE DEF bucket, price
    <3> QED BY <1>1, <2>1 DEF Candle
  <2> HIDE DEF f, r, bucket, price
  <2> QED BY <1>2, <1>4, <2>2, <2>3 DEF CandleFits, f, r, bucket, price
<1>6. CASE s # <<>>
  <2>0. s[n].t \in Nat /\ s[n].tick.price \in Nat /\ n \in 1..n
    <3>1. n \in 1..n
      BY <1>6
    <3> QED BY <3>1, SeenOf
  <2>1. c.bucket = s[n].t \div d /\ c.bucket # -1 /\ c.last = s[n].tick.price
    <3>1. c.bucket = s[n].t \div d /\ c.last = s[n].tick.price
      BY <1>6, Zenon DEF CandleFits
    <3>2. \A x \in Nat : x \div d \in Nat /\ x \div d # -1
      OBVIOUS
    <3>3. s[n].t \div d # -1
      BY <2>0, <3>2, Zenon
    <3> QED BY <3>1, <3>3, Zenon
  <2>2. /\ c.bucket = bucket => Closing(r, d) = Closing(s, d)
        /\ c.bucket # bucket => Closing(r, d) = Closing(s, d) \cup {n}
        /\ n \notin Closing(s, d)
        /\ \A i \in 1..n : r[i] = s[i]
    BY <1>6, <2>1, ClosingGrows
  <2>3. Closing(s, d) \subseteq 1..n /\ n \in 1..n
    BY <1>2, <2>0, ClosingFinite
  <2>4. \A k \in 1..Len(c.closes) : \E i \in Closing(s, d) :
          Cardinality(After(s, d, i)) = Len(c.closes) - k /\ c.closes[k] = s[i].tick.price
    BY DEF CandleFits
  <2>5. CASE c.bucket = bucket
    <3>1. f = [c EXCEPT !.last = price]
      <4> HIDE DEF bucket, price
      <4> QED BY <1>1, <2>5, FedIs
    <3>2. f.bucket = bucket /\ f.last = price /\ f.closes = c.closes /\ f \in Candle
      <4> HIDE DEF bucket, price
      <4> QED BY <1>1, <2>5, <3>1 DEF Candle
    <3> HIDE DEF f, r, bucket, price
    <3>3. Closing(r, d) = Closing(s, d) /\ \A i : After(r, d, i) = After(s, d, i)
      BY <2>2, <2>5 DEF After
    <3>4. \A i \in Closing(s, d) : r[i].tick.price = s[i].tick.price
      BY <2>2, <2>3
    <3>5. /\ Len(f.closes) = IF Cardinality(Closing(r, d)) < MaxCandles
                             THEN Cardinality(Closing(r, d)) ELSE MaxCandles
          /\ \A k \in 1..Len(f.closes) : \E i \in Closing(r, d) :
               Cardinality(After(r, d, i)) = Len(f.closes) - k /\ f.closes[k] = r[i].tick.price
      BY <1>4, <2>4, <3>2, <3>3, <3>4
    <3>6. CandleFits(f, r, d)
      BY <1>2, <3>2, <3>5 DEF CandleFits
    <3> QED BY <3>2, <3>6 DEF f, r, bucket, price
  <2>6. CASE c.bucket # bucket
    <3> DEFINE more == Append(c.closes, c.last)
               size == Len(c.closes)
               o == IF size + 1 > MaxCandles THEN 1 ELSE 0
    <3>1. f = [bucket |-> bucket, last |-> price, closes |-> Capped(more)]
      <4> HIDE DEF bucket, price
      <4> QED BY <1>1, <2>1, <2>6, FedIs
    <3>2. /\ size \in Nat /\ more \in Seq(Nat) /\ Len(more) = size + 1
          /\ more[size + 1] = c.last /\ \A k \in 1..size : more[k] = c.closes[k]
      BY <1>3
    <3> HIDE DEF more
    <3>3. /\ Capped(more) \in Seq(Nat) /\ Len(Capped(more)) = size + 1 - o /\ o \in {0, 1}
          /\ \A k \in 1..size + 1 - o : Capped(more)[k] = more[k + o]
      <4>1. CASE size + 1 > MaxCandles
        <5>1. Capped(more) = Tail(more) /\ o = 1
          BY <3>2, <4>1 DEF Capped
        <5> HIDE DEF o
        <5> QED BY <3>2, <5>1, Tails
      <4>2. CASE ~(size + 1 > MaxCandles)
        <5>1. Capped(more) = more /\ o = 0
          BY <3>2, <4>2 DEF Capped
        <5> HIDE DEF o
        <5> QED BY <3>2, <5>1
      <4> QED BY <4>1, <4>2
    <3>4. /\ f.bucket = bucket /\ f.last = price /\ f \in Candle
          /\ Len(f.closes) = size + 1 - o
          /\ \A k \in 1..size + 1 - o : f.closes[k] = more[k + o]
      <4> HIDE DEF bucket, price, o, size
      <4> QED BY <1>1, <3>1, <3>3 DEF Candle
    <3> HIDE DEF f, r, bucket, price
    <3>5. Closing(r, d) = Closing(s, d) \cup {n} /\ Cardinality(Closing(r, d)) = all + 1
      <4>1. Closing(r, d) = Closing(s, d) \cup {n}
        BY <2>2, <2>6
      <4> QED BY <2>2, <4>1, ClosingFinite, FS_AddElement
    <3>6. size + 1 - o = IF all + 1 < MaxCandles THEN all + 1 ELSE MaxCandles
      <4> HIDE DEF all
      <4> QED BY <1>4
    <3>7. ASSUME NEW k \in 1..size + 1 - o
          PROVE  \E i \in Closing(r, d) :
                   Cardinality(After(r, d, i)) = (size + 1 - o) - k /\ f.closes[k] = r[i].tick.price
      <4>1. CASE k + o = size + 1
        <5>1. After(r, d, n) = {} /\ Cardinality(After(r, d, n)) = 0
          <6>1. After(r, d, n) = {}
            BY <2>3, <3>5 DEF After
          <6> QED BY <6>1, FS_EmptySet
        <5>2. (size + 1 - o) - k = 0 /\ f.closes[k] = c.last
          <6>1. f.closes[k] = more[size + 1]
            BY <3>4, <3>7, <4>1
          <6> HIDE DEF size, o
          <6> QED BY <3>2, <3>3, <4>1, <6>1
        <5>3. r[n].tick.price = c.last /\ n \in Closing(r, d)
          BY <2>1, <2>2, <2>3, <3>5
        <5> QED BY <5>1, <5>2, <5>3
      <4>2. CASE k + o # size + 1
        <5>1. k + o \in 1..size /\ f.closes[k] = c.closes[k + o]
          <6>1. f.closes[k] = more[k + o]
            BY <3>4, <3>7
          <6>2. k + o \in 1..size
            <7> HIDE DEF size, o
            <7> QED BY <3>2, <3>3, <3>7, <4>2
          <6> QED BY <3>2, <6>1, <6>2
        <5>2. PICK i \in Closing(s, d) :
                Cardinality(After(s, d, i)) = size - (k + o) /\ c.closes[k + o] = s[i].tick.price
          BY <2>4, <5>1
        <5>3. After(r, d, i) = After(s, d, i) \cup {n} /\ n \notin After(s, d, i)
          <6>1. i \in 1..n /\ i # n
            BY <2>2, <2>3, <5>2
          <6>2. i < n
            BY <6>1, <1>2
          <6> QED BY <2>2, <3>5, <6>2 DEF After
        <5>4. Cardinality(After(r, d, i)) = Cardinality(After(s, d, i)) + 1
          BY <5>3, ClosingFinite, FS_AddElement
        <5>5. Cardinality(After(r, d, i)) = (size + 1 - o) - k
          <6> HIDE DEF size, o
          <6> QED BY <3>2, <3>3, <5>2, <5>4
        <5>6. i \in Closing(r, d) /\ r[i].tick.price = s[i].tick.price
          BY <2>2, <2>3, <3>5
        <5> QED BY <5>1, <5>2, <5>5, <5>6
      <4> QED BY <4>1, <4>2
    <3> HIDE DEF size, o, all
    <3>8. CandleFits(f, r, d)
      BY <1>2, <3>4, <3>5, <3>6, <3>7 DEF CandleFits
    <3> QED BY <3>4, <3>8 DEF f, r, bucket, price
  <2> QED BY <2>5, <2>6
<1> QED BY <1>5, <1>6

-----------------------------------------------------------------------------
(* The invariant                                                             *)

LEMMA SInvInit == SInit => SInv
<1> SUFFICES ASSUME SInit PROVE SInv
  OBVIOUS
<1>1. \A a \in Asset : log[a] = <<>> /\ prices[a] = <<>>
        /\ (\A m \in Measure : samples[m][a] = <<>>) /\ (\A f \in Frame : candles[f][a] = NoCandle)
  BY DEF SInit
<1>2. ShapesFit
  <2>1. NoCandle \in Candle
    BY DEF NoCandle, Candle
  <2>2. <<>> \in Samples /\ <<>> \in Seq(Seen)
    BY DEF Samples
  <2> QED BY <2>1, <2>2 DEF SInit, ShapesFit
<1>3. HistoryFits
  BY <1>1 DEF HistoryFits, Ordered
<1>4. WindowsFit
  <2>1. ASSUME NEW m, NEW width PROVE WindowFits(<<>>, <<>>, m, width)
    <3>1. <<>> \in Samples
      BY DEF Samples
    <3> QED BY <3>1 DEF WindowFits, Lost
  <2> QED BY <1>1, <2>1 DEF WindowsFit
<1>5. CandlesFit
  <2>1. ASSUME NEW d PROVE CandleFits(NoCandle, <<>>, d)
    <3>1. Closing(<<>>, d) = {} /\ Cardinality(Closing(<<>>, d)) = 0
      <4>1. Closing(<<>>, d) = {}
        BY DEF Closing
      <4> QED BY <4>1, FS_EmptySet
    <3>2. NoCandle.bucket = -1 /\ NoCandle.closes = <<>>
      BY DEF NoCandle
    <3> QED BY <3>1, <3>2, Settings DEF CandleFits
  <2> QED BY <1>1, <2>1 DEF CandlesFit
<1>6. DecidedNow
  BY DEF SInit, DecidedNow
<1> QED BY <1>2, <1>3, <1>4, <1>5, <1>6 DEF SInv

LEMMA RecordedInOrder ==
  ASSUME NEW s \in Seq(Seen), Ordered(s), NEW e \in Seen, \A i \in 1..Len(s) : s[i].t <= e.t
  PROVE  /\ Append(s, e) \in Seq(Seen) /\ Ordered(Append(s, e))
         /\ \A i \in 1..Len(Append(s, e)) : Append(s, e)[i].t <= e.t
<1> DEFINE r == Append(s, e)
<1>1. /\ r \in Seq(Seen) /\ Len(r) = Len(s) + 1 /\ Len(s) \in Nat /\ r[Len(s) + 1] = e
      /\ \A i \in 1..Len(s) : r[i] = s[i]
  OBVIOUS
<1>2. e.t \in Nat
  BY SeenFields
<1> HIDE DEF r
<1>3. \A i \in 1..Len(r) : i \in 1..Len(s) \/ i = Len(s) + 1
  BY <1>1
<1>4. \A i \in 1..Len(r) : r[i].t <= e.t
  BY <1>1, <1>2, <1>3
<1>5. ASSUME NEW i \in 1..Len(r), NEW j \in 1..Len(r), i <= j PROVE r[i].t <= r[j].t
  <2>1. CASE j = Len(s) + 1
    BY <1>1, <1>4, <2>1
  <2>2. CASE j \in 1..Len(s)
    <3>1. i \in 1..Len(s)
      BY <1>1, <1>5, <2>2
    <3> QED BY <1>1, <1>5, <2>2, <3>1 DEF Ordered
  <2> QED BY <1>3, <2>1, <2>2
<1>6. Ordered(r)
  BY <1>5 DEF Ordered
<1> QED BY <1>1, <1>4, <1>6 DEF r

Fits == ShapesFit /\ HistoryFits /\ WindowsFit /\ CandlesFit

LEMMA FeedKeeps ==
  ASSUME SInv, NEW b \in Bot, NEW tick \in Quote[AssetOf[b]],
         Feed(AssetOf[b], tick), UNCHANGED now
  PROVE  Fits'
<1> DEFINE a == AssetOf[b]
           e == [t |-> now, tick |-> tick]
<1>0. a \in Asset /\ now \in Nat /\ tick \in [price : Nat, cvd : Int, vwap : Int]
  <2>1. a \in Asset
    BY Settings
  <2> QED BY <2>1, Settings DEF SInv, ShapesFit
<1> HIDE DEF a
<1>1. CASE tick.price = 0
  <2>1. UNCHANGED <<now, candles, samples, prices, log>>
    BY <1>1 DEF Feed
  <2> QED BY <2>1 DEF SInv, Fits, ShapesFit, HistoryFits, WindowsFit, CandlesFit
<1>2. CASE tick.price # 0
  <2>1. /\ candles' = [f \in Frame |-> [candles[f] EXCEPT
              ![a] = Fed(@, now \div Duration[f], tick.price)]]
        /\ samples' = [m \in Measure |-> [samples[m] EXCEPT
              ![a] = Append(Kept(@, AdaptiveWindow), [t |-> now, v |-> Abs(tick[m])])]]
        /\ prices' = [prices EXCEPT
              ![a] = Append(Kept(@, CorrWindow), [t |-> now, v |-> tick.price])]
        /\ log' = [log EXCEPT ![a] = Append(@, e)]
        /\ now' = now
    BY <1>2 DEF Feed, a
  <2>2. e \in Seen /\ e.t = now /\ e.tick = tick
    BY <1>0, <1>2 DEF Seen
  <2>3. /\ log[a] \in Seq(Seen) /\ Ordered(log[a])
        /\ \A i \in 1..Len(log[a]) : log[a][i].t <= now
        /\ log[a] # <<>> => log[a][Len(log[a])].t <= e.t
    BY <1>0, <2>2, HistoryOf DEF SInv, HistoryFits
  <2> DEFINE r == Append(log[a], e)
  <2>4. log' = [log EXCEPT ![a] = r] /\ log \in [Asset -> Seq(Seen)]
    BY <2>1 DEF SInv, ShapesFit
  <2> HIDE DEF r
  <2>5. log'[a] = r /\ \A c \in Asset : c # a => log'[c] = log[c]
    BY <1>0, <2>4
  <2>6. r \in Seq(Seen) /\ Ordered(r) /\ \A i \in 1..Len(r) : r[i].t <= now
    <3> HIDE DEF e
    <3> QED BY <2>2, <2>3, RecordedInOrder DEF r
  <2>7. ASSUME NEW m \in Kinds, NEW width \in Nat, NEW q, WindowFits(q, log[a], m, width)
        PROVE  WindowFits(Append(Kept(q, width), [t |-> now, v |-> Abs(tick[m])]), r, m, width)
    <3>1. WindowFits(Append(Since(q, e.t - width), SampleAt(<<e>>, 1, m)), Append(log[a], e), m, width)
      <4> HIDE DEF e
      <4> QED BY <2>2, <2>3, <2>7, RecordedFits
    <3>2. SampleAt(<<e>>, 1, m) = [t |-> now, v |-> Abs(tick[m])]
      <4>1. <<e>>[1] = e
        OBVIOUS
      <4> HIDE DEF e
      <4> QED BY <2>2, <4>1 DEF SampleAt
    <3>3. Kept(q, width) = Since(q, e.t - width)
      <4> HIDE DEF e
      <4> QED BY <2>2 DEF Kept
    <3> QED BY <3>1, <3>2, <3>3 DEF r
  <2> HIDE DEF e
  <2>8. ASSUME NEW m \in Measure PROVE WindowFits(samples'[m][a], log'[a], m, AdaptiveWindow)
    <3>1. samples'[m][a] = Append(Kept(samples[m][a], AdaptiveWindow), [t |-> now, v |-> Abs(tick[m])])
      <4>1. samples'[m] = [samples[m] EXCEPT
              ![a] = Append(Kept(@, AdaptiveWindow), [t |-> now, v |-> Abs(tick[m])])]
        BY <2>1
      <4>2. samples[m] \in [Asset -> Samples]
        BY DEF SInv, ShapesFit
      <4> QED BY <1>0, <4>1, <4>2
    <3>2. WindowFits(samples[m][a], log[a], m, AdaptiveWindow) /\ m \in Kinds
      BY <1>0 DEF SInv, WindowsFit, Measure, Kinds
    <3> QED BY <2>5, <2>7, <3>1, <3>2, Settings
  <2>9. WindowFits(prices'[a], log'[a], "price", CorrWindow)
    <3>1. prices'[a] = Append(Kept(prices[a], CorrWindow), [t |-> now, v |-> Abs(tick["price"])])
      <4>1. Abs(tick["price"]) = tick.price
        BY <1>0 DEF Abs
      <4>2. prices \in [Asset -> Samples]
        BY DEF SInv, ShapesFit
      <4> QED BY <1>0, <2>1, <4>1, <4>2
    <3>2. WindowFits(prices[a], log[a], "price", CorrWindow) /\ "price" \in Kinds
      BY <1>0 DEF SInv, WindowsFit, Kinds
    <3> QED BY <2>5, <2>7, <3>1, <3>2, Settings
  <2>10. ASSUME NEW f \in Frame
         PROVE  candles'[f][a] \in Candle /\ CandleFits(candles'[f][a], log'[a], Duration[f])
    <3>1. candles'[f][a] = Fed(candles[f][a], e.t \div Duration[f], e.tick.price)
      <4>1. candles'[f] = [candles[f] EXCEPT ![a] = Fed(@, now \div Duration[f], tick.price)]
        BY <2>1
      <4>2. candles[f] \in [Asset -> Candle]
        BY DEF SInv, ShapesFit
      <4> QED BY <1>0, <2>2, <4>1, <4>2
    <3>2. candles[f][a] \in Candle /\ CandleFits(candles[f][a], log[a], Duration[f])
      BY <1>0 DEF SInv, ShapesFit, CandlesFit
    <3>3. Duration[f] \in Nat \ {0}
      BY Settings
    <3> QED BY <2>2, <2>3, <2>5, <3>1, <3>2, <3>3, FedFits DEF r
  <2>11. ASSUME NEW c \in Asset, c # a
         PROVE  /\ \A m \in Measure : samples'[m][c] = samples[m][c]
                /\ prices'[c] = prices[c]
                /\ \A f \in Frame : candles'[f][c] = candles[f][c]
    BY <2>1, <2>11 DEF SInv, ShapesFit
  <2>12. ShapesFit'
    <3>1. now' \in Nat /\ log' \in [Asset -> Seq(Seen)]
      BY <1>0, <2>1, <2>4, <2>6
    <3>2. candles' \in [Frame -> [Asset -> Candle]]
      <4>1. \A f \in Frame : candles[f] \in [Asset -> Candle] /\ candles'[f][a] \in Candle
        BY <2>10 DEF SInv, ShapesFit
      <4>2. \A f \in Frame : candles'[f] = [candles[f] EXCEPT ![a] = candles'[f][a]]
        BY <1>0, <2>1, <4>1
      <4>3. ASSUME NEW f \in Frame PROVE candles'[f] \in [Asset -> Candle]
        <5>1. \A g \in [Asset -> Candle], x \in Candle : [g EXCEPT ![a] = x] \in [Asset -> Candle]
          OBVIOUS
        <5>2. [candles[f] EXCEPT ![a] = candles'[f][a]] \in [Asset -> Candle]
          BY <4>1, <5>1
        <5> QED BY <4>2, <5>2, Zenon
      <4> QED BY <2>1, <4>3
    <3>3. samples' \in [Measure -> [Asset -> Samples]]
      <4>1. \A m \in Measure : samples[m] \in [Asset -> Samples] /\ samples'[m][a] \in Samples
        BY <2>8 DEF SInv, ShapesFit, WindowFits
      <4>2. \A m \in Measure : samples'[m] = [samples[m] EXCEPT ![a] = samples'[m][a]]
        BY <1>0, <2>1, <4>1
      <4>3. ASSUME NEW m \in Measure PROVE samples'[m] \in [Asset -> Samples]
        <5>1. \A g \in [Asset -> Samples], x \in Samples : [g EXCEPT ![a] = x] \in [Asset -> Samples]
          OBVIOUS
        <5>2. [samples[m] EXCEPT ![a] = samples'[m][a]] \in [Asset -> Samples]
          BY <4>1, <5>1
        <5> QED BY <4>2, <5>2, Zenon
      <4> QED BY <2>1, <4>3
    <3>4. prices' \in [Asset -> Samples]
      <4>1. prices \in [Asset -> Samples] /\ prices'[a] \in Samples
        BY <2>9 DEF SInv, ShapesFit, WindowFits
      <4>2. prices' = [prices EXCEPT ![a] = prices'[a]]
        BY <1>0, <2>1, <4>1
      <4> QED BY <4>1, <4>2
    <3> QED BY <3>1, <3>2, <3>3, <3>4 DEF ShapesFit
  <2>13. HistoryFits'
    <3>1. ASSUME NEW c \in Asset
          PROVE  Ordered(log'[c]) /\ \A i \in 1..Len(log'[c]) : log'[c][i].t <= now
      <4>1. CASE c = a
        BY <2>5, <2>6, <4>1
      <4>2. CASE c # a
        BY <2>5, <4>2 DEF SInv, HistoryFits
      <4> QED BY <4>1, <4>2
    <3> QED BY <2>1, <3>1 DEF HistoryFits
  <2>14. WindowsFit'
    <3>1. ASSUME NEW c \in Asset
          PROVE  /\ \A m \in Measure : WindowFits(samples'[m][c], log'[c], m, AdaptiveWindow)
                 /\ WindowFits(prices'[c], log'[c], "price", CorrWindow)
      <4>1. CASE c = a
        BY <2>8, <2>9, <4>1
      <4>2. CASE c # a
        BY <2>5, <2>11, <4>2 DEF SInv, WindowsFit
      <4> QED BY <4>1, <4>2
    <3> QED BY <3>1 DEF WindowsFit
  <2>15. CandlesFit'
    <3>1. ASSUME NEW f \in Frame, NEW c \in Asset
          PROVE  CandleFits(candles'[f][c], log'[c], Duration[f])
      <4>1. CASE c = a
        BY <2>10, <4>1
      <4>2. CASE c # a
        BY <2>5, <2>11, <4>2 DEF SInv, CandlesFit
      <4> QED BY <4>1, <4>2
    <3> QED BY <3>1 DEF CandlesFit
  <2> QED BY <2>12, <2>13, <2>14, <2>15 DEF Fits
<1> QED BY <1>1, <1>2

LEMMA MinuteKeeps ==
  ASSUME SInv, Minute
  PROVE  Fits'
<1>1. now' = now + 1 /\ now \in Nat /\ UNCHANGED <<candles, samples, prices, log>>
  BY DEF SInv, ShapesFit, Minute
<1>2. HistoryFits'
  <2>1. ASSUME NEW a \in Asset PROVE \A i \in 1..Len(log[a]) : log[a][i].t <= now + 1
    <3>1. log[a] \in Seq(Seen) /\ \A i \in 1..Len(log[a]) : log[a][i].t <= now
      BY DEF SInv, ShapesFit, HistoryFits
    <3>2. \A i \in 1..Len(log[a]) : log[a][i].t \in Nat
      BY <3>1, SeenOf
    <3> QED BY <1>1, <3>1, <3>2
  <2> QED BY <1>1, <2>1 DEF SInv, HistoryFits
<1>3. ShapesFit' /\ WindowsFit' /\ CandlesFit'
  BY <1>1 DEF SInv, ShapesFit, WindowsFit, CandlesFit
<1> QED BY <1>2, <1>3 DEF Fits

LEMMA SInvStep == SInv /\ [SNext]_svars => SInv'
<1> SUFFICES ASSUME SInv, [SNext]_svars PROVE SInv'
  OBVIOUS
<1>1. ASSUME NEW b \in Bot, NEW tick \in Quote[AssetOf[b]], Turn(b, tick) PROVE SInv'
  <2>1. Fits'
    BY <1>1, FeedKeeps DEF Turn
  <2>2. DecidedNow'
    BY <1>1 DEF Turn, DecidedNow
  <2> QED BY <2>1, <2>2 DEF SInv, Fits
<1>2. ASSUME NEW b \in Bot, NEW tick \in Quote[AssetOf[b]], Blocked(b, tick) PROVE SInv'
  <2>1. Fits'
    BY <1>2, FeedKeeps DEF Blocked
  <2>2. DecidedNow'
    BY <1>2 DEF Blocked, DecidedNow
  <2> QED BY <2>1, <2>2 DEF SInv, Fits
<1>3. CASE Minute
  <2>1. Fits'
    BY <1>3, MinuteKeeps
  <2>2. DecidedNow'
    BY <1>3 DEF Minute, DecidedNow
  <2> QED BY <2>1, <2>2 DEF SInv, Fits
<1>4. CASE UNCHANGED svars
  <2>1. Fits'
    BY <1>4 DEF svars, SInv, Fits, ShapesFit, HistoryFits, WindowsFit, CandlesFit
  <2>2. DecidedNow'
    <3>1. UNCHANGED <<now, candles, samples, prices, decision>>
      BY <1>4 DEF svars
    <3>2. \A a, m, c : Threshold(a, m, c)' = Threshold(a, m, c)
      BY <3>1 DEF Threshold, Kept
    <3>3. \A b, tick : Evaluated(b, tick)' = Evaluated(b, tick)
      BY <3>1, <3>2 DEF Evaluated, Closes
    <3>4. \A a, signal, correlated : Allowed(a, signal, correlated)' <=> Allowed(a, signal, correlated)
      BY <3>1 DEF Allowed, RecentMove
    <3>5. \A b, tick, correlated : Decision(b, tick, correlated)' = Decision(b, tick, correlated)
      BY <3>1, <3>3, <3>4 DEF Decision
    <3> QED BY <3>1, <3>5 DEF SInv, DecidedNow
  <2> QED BY <2>1, <2>2 DEF SInv, Fits
<1> QED BY <1>1, <1>2, <1>3, <1>4 DEF SNext

LEMMA SInvAlways == SSpec => []SInv
<1> QED BY SInvInit, SInvStep, PTL DEF SSpec

-----------------------------------------------------------------------------
(* Type correctness, with the bounds of the model                            *)

LEMMA TypedInit == SInit => STypeOK
<1> SUFFICES ASSUME SInit PROVE STypeOK
  OBVIOUS
<1>1. 0 \in 0..MaxTime /\ -1 \in -1..MaxTime /\ MaxTime \in Nat /\ MaxCandles \in Nat
  <2>1. MaxTime \in Nat /\ MaxCandles \in Nat
    BY SignalsAssumption DEF SignalsAssumption
  <2> QED BY <2>1
<1>2. \A f \in Frame, a \in Asset : candles[f][a] = NoCandle
  BY DEF SInit
<1>3. NoCandle.bucket = -1 /\ NoCandle.last = 0 /\ NoCandle.closes = <<>>
  BY DEF NoCandle
<1>4. ASSUME NEW f \in Frame, NEW a \in Asset
      PROVE  /\ candles[f][a].bucket \in -1..MaxTime /\ candles[f][a].last \in Nat
             /\ candles[f][a].closes \in Seq(Nat \ {0})
             /\ Len(candles[f][a].closes) <= MaxCandles
  <2>1. <<>> \in Seq(Nat \ {0}) /\ Len(<<>>) <= MaxCandles
    BY <1>1
  <2>2. -1 \in -1..MaxTime /\ 0 \in Nat
    BY <1>1
  <2> QED BY <1>2, <1>3, <2>1, <2>2, Zenon
<1>5. /\ samples \in [Measure -> [Asset -> Seq(Sample)]] /\ prices \in [Asset -> Seq(Sample)]
      /\ \A a \in Asset : log[a] \in Seq([t : 0..MaxTime, tick : Quote[a]])
  <2>1. <<>> \in Seq(Sample) /\ \A a : <<>> \in Seq([t : 0..MaxTime, tick : Quote[a]])
    OBVIOUS
  <2> QED BY <2>1 DEF SInit
<1> QED BY <1>1, <1>4, <1>5 DEF SInit, STypeOK

(* A price that a candle holds is one of a tick that had a price.            *)
LEMMA LastPrice ==
  ASSUME SInv, NEW f \in Frame, NEW a \in Asset, candles[f][a].bucket # -1
  PROVE  candles[f][a].last \in Nat \ {0}
<1>1. CandleFits(candles[f][a], log[a], Duration[f]) /\ log[a] \in Seq(Seen)
  BY DEF SInv, CandlesFit, ShapesFit
<1>2. log[a] # <<>> /\ candles[f][a].last = log[a][Len(log[a])].tick.price
  BY <1>1 DEF CandleFits
<1>3. Len(log[a]) \in 1..Len(log[a])
  BY <1>1, <1>2
<1> QED BY <1>1, <1>2, <1>3, SeenOf

(* A window that is trimmed and gets a sample of this minute.                *)
LEMMA WindowTyped ==
  ASSUME now \in 0..MaxTime, MaxTime \in Nat, NEW q \in Samples, q \in Seq(Sample),
         NEW width \in Nat, NEW v \in Int
  PROVE  Append(Kept(q, width), [t |-> now, v |-> v]) \in Seq(Sample)
<1>1. now - width \in Int
  OBVIOUS
<1>2. PICK n \in 0..Len(q) : Since(q, now - width) = SubSeq(q, n + 1, Len(q))
  BY <1>1, SinceIs
<1>3. SubSeq(q, n + 1, Len(q)) \in Seq(Sample)
  <2>1. n \in Nat /\ Len(q) \in Nat /\ \A i \in 1..Len(q) : q[i] \in Sample
    BY ElementOfSeq
  <2>2. \A i \in (n + 1)..Len(q) : q[i] \in Sample
    BY <2>1
  <2> QED BY <2>1, <2>2
<1>4. [t |-> now, v |-> v] \in Sample
  BY DEF Sample
<1> DEFINE w == SubSeq(q, n + 1, Len(q))
           x == [t |-> now, v |-> v]
<1>5. Append(Kept(q, width), x) = Append(w, x)
  BY <1>2 DEF Kept
<1> HIDE DEF w, x
<1>6. Append(w, x) \in Seq(Sample)
  BY <1>3, <1>4 DEF w, x
<1> QED BY <1>5, <1>6 DEF x

LEMMA VerdictTyped ==
  ASSUME NEW b \in Bot, NEW tick \in Quote[AssetOf[b]], NEW correlated \in BOOLEAN
  PROVE  Decision(b, tick, correlated) \subseteq [bot : Bot, signal : Verdict]
<1>1. \A x, y : Pressure(x, y) \in Verdict \cup {"SKIP"}
  BY DEF Pressure, Verdict
<1>2. \A x, y, z, w : Momentum(x, y, z, w) \in Verdict \cup {"SKIP"}
  BY <1>1 DEF Momentum
<1>3. \A c, p : LiveBands(c, p) \in Verdict \cup {"SKIP"}
  BY DEF LiveBands, Breakout, Verdict
<1>4. Evaluated(b, tick) \in Verdict \cup {"SKIP"}
  <2>1. StrategyOf[b] \in {"MOMENTUM", "BOLLINGER", "TURBO_CVD", "TURBO_VWAP"}
    BY Settings
  <2> QED BY <1>1, <1>2, <1>3, <2>1 DEF Evaluated
<1>5. "raise" \in Verdict /\ "SKIP" \notin Verdict
  BY DEF Verdict
<1> DEFINE e == Evaluated(b, tick)
           passes == Confirmed(candles["1m"][AssetOf[b]].closes, e) /\ Allowed(AssetOf[b], e, correlated)
<1>6. Decision(b, tick, correlated)
      = IF e = "raise" \/ (e # "SKIP" /\ passes) THEN {[bot |-> b, signal |-> e]} ELSE {}
  BY DEF Decision
<1> HIDE DEF e, passes
<1>7. CASE e = "raise" \/ (e # "SKIP" /\ passes)
  <2>1. e \in Verdict
    BY <1>4, <1>5, <1>7 DEF e
  <2> QED BY <1>6, <1>7, <2>1
<1>8. CASE ~(e = "raise" \/ (e # "SKIP" /\ passes))
  BY <1>6, <1>8
<1> QED BY <1>7, <1>8

Verdicts == decision \subseteq [bot : Bot, signal : Verdict]

LEMMA VerdictsThen == SInv => Verdicts
BY VerdictTyped DEF SInv, DecidedNow, Verdicts

LEMMA CandleTyped ==
  ASSUME SInv, STypeOK, NEW f \in Frame, NEW a \in Asset, NEW price \in Nat \ {0}
  PROVE  LET c == Fed(candles[f][a], now \div Duration[f], price)
         IN /\ c.bucket \in -1..MaxTime /\ c.last \in Nat
            /\ c.closes \in Seq(Nat \ {0}) /\ Len(c.closes) <= MaxCandles
<1> DEFINE c == candles[f][a]
           bucket == now \div Duration[f]
           fed == Fed(c, bucket, price)
<1>1. bucket \in -1..MaxTime /\ bucket \in Nat
  <2>1. now \in Nat /\ MaxTime \in Nat /\ now <= MaxTime /\ Duration[f] \in Nat \ {0}
    BY SignalsAssumption, Settings DEF STypeOK, SignalsAssumption
  <2>2. \A x \in Nat, d \in Nat \ {0} : x \div d \in Nat /\ x \div d <= x
    OBVIOUS
  <2>3. now \div Duration[f] \in Nat /\ now \div Duration[f] <= now
    BY <2>1, <2>2, Zenon
  <2> HIDE DEF bucket
  <2>4. bucket \in Nat /\ bucket <= now
    BY <2>3 DEF bucket
  <2> QED BY <2>1, <2>4
<1>2. /\ c \in Candle /\ c.closes \in Seq(Nat \ {0}) /\ Len(c.closes) <= MaxCandles
      /\ c.bucket # -1 => c.last \in Nat \ {0}
  BY LastPrice DEF SInv, ShapesFit, STypeOK
<1>3. MaxCandles \in Nat \ {0}
  BY Settings
<1> HIDE DEF c, bucket
<1>4. CASE c.bucket = -1
  <2>1. fed = [bucket |-> bucket, last |-> price, closes |-> <<>>]
    BY <1>1, <1>4, FedIs
  <2> HIDE DEF fed
  <2>2. fed.bucket = bucket /\ fed.last = price /\ fed.closes = <<>>
    BY <2>1
  <2>3. <<>> \in Seq(Nat \ {0}) /\ Len(<<>>) <= MaxCandles /\ price \in Nat
    BY <1>3
  <2>4. /\ fed.bucket \in -1..MaxTime /\ fed.last \in Nat
        /\ fed.closes \in Seq(Nat \ {0}) /\ Len(fed.closes) <= MaxCandles
    BY <1>1, <2>2, <2>3, Zenon
  <2> QED BY <2>4 DEF fed, c, bucket
<1>5. CASE c.bucket = bucket /\ c.bucket # -1
  <2>1. fed = [c EXCEPT !.last = price]
    BY <1>1, <1>5, FedIs
  <2>2. fed.bucket = bucket /\ fed.last = price /\ fed.closes = c.closes
    BY <1>2, <1>5, <2>1 DEF Candle
  <2> QED BY <1>1, <1>2, <2>2 DEF c, bucket
<1>6. CASE c.bucket # bucket /\ c.bucket # -1
  <2> DEFINE more == Append(c.closes, c.last)
  <2>1. fed = [bucket |-> bucket, last |-> price, closes |-> Capped(more)]
    BY <1>1, <1>6, FedIs
  <2>2. more \in Seq(Nat \ {0}) /\ Len(more) <= MaxCandles + 1 /\ Len(more) > 0
    BY <1>2, <1>3, <1>6
  <2> HIDE DEF more
  <2>3. Capped(more) \in Seq(Nat \ {0}) /\ Len(Capped(more)) <= MaxCandles
    <3>1. Tail(more) \in Seq(Nat \ {0}) /\ Len(Tail(more)) = Len(more) - 1 /\ Len(more) \in Nat
      BY <2>2
    <3> QED BY <1>3, <2>2, <3>1 DEF Capped
  <2> HIDE DEF fed
  <2>4. fed.bucket = bucket /\ fed.last = price /\ fed.closes = Capped(more)
    BY <2>1
  <2> QED BY <1>1, <2>3, <2>4 DEF fed, c, bucket
<1> QED BY <1>4, <1>5, <1>6

LEMMA FeedTyped ==
  ASSUME SInv, STypeOK, NEW b \in Bot, NEW tick \in Quote[AssetOf[b]],
         Feed(AssetOf[b], tick), UNCHANGED now, Verdicts'
  PROVE  STypeOK'
<1> DEFINE a == AssetOf[b]
<1>1. /\ a \in Asset /\ now \in 0..MaxTime /\ MaxTime \in Nat
      /\ tick \in [price : Nat, cvd : Int, vwap : Int]
  BY Settings, SignalsAssumption DEF STypeOK, SignalsAssumption
<1> HIDE DEF a
<1>2. CASE tick.price = 0
  <2>1. UNCHANGED <<now, candles, samples, prices, log>>
    BY <1>2 DEF Feed
  <2> QED BY <2>1 DEF STypeOK, Verdicts
<1>3. CASE tick.price # 0
  <2>1. /\ candles' = [f \in Frame |-> [candles[f] EXCEPT
              ![a] = Fed(@, now \div Duration[f], tick.price)]]
        /\ samples' = [m \in Measure |-> [samples[m] EXCEPT
              ![a] = Append(Kept(@, AdaptiveWindow), [t |-> now, v |-> Abs(tick[m])])]]
        /\ prices' = [prices EXCEPT
              ![a] = Append(Kept(@, CorrWindow), [t |-> now, v |-> tick.price])]
        /\ log' = [log EXCEPT ![a] = Append(@, [t |-> now, tick |-> tick])]
        /\ now' = now
    BY <1>3 DEF Feed, a
  <2>2. /\ candles \in [Frame -> [Asset -> Candle]] /\ samples \in [Measure -> [Asset -> Seq(Sample)]]
        /\ prices \in [Asset -> Seq(Sample)] /\ log \in [Asset -> Seq(Seen)]
        /\ \A m \in Measure : samples[m][a] \in Samples
        /\ prices[a] \in Samples
    BY <1>1 DEF SInv, ShapesFit, STypeOK
  <2>3. ASSUME NEW f \in Frame, NEW c \in Asset
        PROVE  /\ candles'[f][c].bucket \in -1..MaxTime /\ candles'[f][c].last \in Nat
               /\ candles'[f][c].closes \in Seq(Nat \ {0})
               /\ Len(candles'[f][c].closes) <= MaxCandles
    <3>1. candles'[f] = [candles[f] EXCEPT ![a] = Fed(@, now \div Duration[f], tick.price)]
          /\ candles[f] \in [Asset -> Candle]
      BY <2>1, <2>2
    <3>2. CASE c = a
      <4>1. candles'[f][c] = Fed(candles[f][a], now \div Duration[f], tick.price)
        BY <1>1, <3>1, <3>2
      <4>2. tick.price \in Nat \ {0}
        BY <1>1, <1>3
      <4> QED BY <1>1, <4>1, <4>2, CandleTyped
    <3>3. CASE c # a
      <4>1. candles'[f][c] = candles[f][c]
        BY <3>1, <3>3
      <4> QED BY <4>1 DEF STypeOK
    <3> QED BY <3>2, <3>3
  <2>4. \A g \in [Asset -> Seq(Sample)], x \in Seq(Sample) : [g EXCEPT ![a] = x] \in [Asset -> Seq(Sample)]
    OBVIOUS
  <2>5. samples' \in [Measure -> [Asset -> Seq(Sample)]]
    <3>1. ASSUME NEW m \in Measure
          PROVE  [samples[m] EXCEPT
                   ![a] = Append(Kept(@, AdaptiveWindow), [t |-> now, v |-> Abs(tick[m])])]
                 \in [Asset -> Seq(Sample)]
      <4>1. Abs(tick[m]) \in Int /\ samples[m] \in [Asset -> Seq(Sample)] /\ samples[m][a] \in Seq(Sample)
        BY <1>1, <2>2 DEF Measure, Abs
      <4>2. Append(Kept(samples[m][a], AdaptiveWindow), [t |-> now, v |-> Abs(tick[m])]) \in Seq(Sample)
        BY <1>1, <2>2, <4>1, Settings, WindowTyped
      <4> QED BY <2>4, <4>1, <4>2
    <3> QED BY <2>1, <3>1
  <2>6. prices' \in [Asset -> Seq(Sample)]
    <3>1. tick.price \in Int /\ prices[a] \in Seq(Sample)
      BY <1>1, <2>2
    <3>2. Append(Kept(prices[a], CorrWindow), [t |-> now, v |-> tick.price]) \in Seq(Sample)
      BY <1>1, <2>2, <3>1, Settings, WindowTyped
    <3> QED BY <2>1, <2>2, <2>4, <3>2
  <2>7. ASSUME NEW c \in Asset PROVE log'[c] \in Seq([t : 0..MaxTime, tick : Quote[c]])
    <3>1. log[c] \in Seq([t : 0..MaxTime, tick : Quote[c]])
      BY DEF STypeOK
    <3>2. CASE c = a
      <4>1. [t |-> now, tick |-> tick] \in [t : 0..MaxTime, tick : Quote[c]]
        BY <1>1, <3>2 DEF a
      <4>2. log'[c] = Append(log[c], [t |-> now, tick |-> tick])
        BY <2>1, <2>2, <3>2
      <4> QED BY <3>1, <4>1, <4>2
    <3>3. CASE c # a
      <4>1. log'[c] = log[c]
        BY <2>1, <2>2, <3>3
      <4> QED BY <3>1, <4>1
    <3> QED BY <3>2, <3>3
  <2> QED BY <1>1, <2>1, <2>3, <2>5, <2>6, <2>7 DEF STypeOK, Verdicts
<1> QED BY <1>2, <1>3

LEMMA TypedStep == SInv /\ STypeOK /\ [SNext]_svars /\ Verdicts' => STypeOK'
<1> SUFFICES ASSUME SInv, STypeOK, [SNext]_svars, Verdicts' PROVE STypeOK'
  OBVIOUS
<1>1. ASSUME NEW b \in Bot, NEW tick \in Quote[AssetOf[b]], Turn(b, tick) PROVE STypeOK'
  BY <1>1, FeedTyped DEF Turn
<1>2. ASSUME NEW b \in Bot, NEW tick \in Quote[AssetOf[b]], Blocked(b, tick) PROVE STypeOK'
  BY <1>2, FeedTyped DEF Blocked
<1>3. CASE Minute
  <2>1. now' = now + 1 /\ now < MaxTime /\ MaxTime \in Nat
    BY <1>3, SignalsAssumption DEF Minute, SignalsAssumption
  <2>2. now' \in 0..MaxTime
    BY <2>1 DEF STypeOK
  <2> QED BY <1>3, <2>2 DEF Minute, STypeOK
<1>4. CASE UNCHANGED svars
  BY <1>4 DEF svars, STypeOK
<1> QED BY <1>1, <1>2, <1>3, <1>4 DEF SNext

(* Type correctness of the way from ticks to decisions.                      *)
THEOREM SignalsTyped == SSpec => []STypeOK
<1> QED BY SInvAlways, VerdictsThen, TypedInit, TypedStep, PTL DEF SSpec

(* Candles built tick by tick are those of the tick history: RSIFeed.update  *)
(* and _CandleBuilder.update neither lose nor invent a close.                *)
THEOREM SignalsCandlesMatchTicks == SSpec => []CandlesMatchTicks
<1> QED BY SInvAlways, CandlesThen, PTL

(* No bot decides to buy up into a drop of Bitcoin, whatever the correlation *)
(* filter has trimmed from its price window (allow_buy, _get_recent_return). *)
THEOREM SignalsNoBuyIntoDrop == SSpec => []NoBuyIntoDrop
<1> QED BY SInvAlways, DropThen, PTL

(* A strategy with an adaptive threshold divides by zero only after an hour  *)
(* of which three quarters carried no measure (AdaptiveThreshold).           *)
THEOREM SignalsMutedOnlyByZeros == SSpec => []MutedOnlyByZeros
<1> QED BY SInvAlways, MutedThen, PTL

(* The backtest's RSI and bands judge the bots' closes as the bots do.       *)
THEOREM SignalsTwinsAgree == SSpec => []TwinsAgree
<1> QED BY SInvAlways, TwinsThen, PTL
=============================================================================
