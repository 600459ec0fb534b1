--------------------------- MODULE BacktestProofs ---------------------------
(* What the backtest computes, for every market, fee, slippage, commission, *)
(* bankroll, length and number of windows, shuffles and pairs: a replay     *)
(* owes no more than one gas; the metrics folded trade by trade are what    *)
(* their names say; walk-forward compares a market with itself; and every   *)
(* shuffle ends where the backtest did.                                     *)
(*                                                                          *)
(* What a recursive function computes is proved by the least number that    *)
(* would contradict it (AllNumbers), and that the function exists by        *)
(* building it value by value (Recursion).                                  *)
EXTENDS Backtest, SequenceTheorems, FiniteSetTheorems, WellFoundedInduction, TLAPS

Outcomes == {"WIN", "LOSS"}
Replays == [bar : Nat, bankroll : Int, recent : Seq(Outcomes), trades : Seq(Trade)]

DebtInv == job.by # "records" => run \in Replays /\ run.bankroll >= -Gas

-----------------------------------------------------------------------------
(* Arithmetic of the fees.                                                  *)

LEMMA ProductNat == \A m, n \in Nat : m * n \in Nat
OBVIOUS

LEMMA QuotientNat == \A n \in Nat, d \in Nat \ {0} : n \div d \in Nat
OBVIOUS

LEMMA Constants ==
    /\ Initial \in Nat \ {0} /\ Gas \in Nat /\ Warmup \in Nat \ {0}
    /\ Slippage \in 0..9900 /\ Commission \in 0..100
BY BacktestAssumption DEF BacktestAssumption

LEMMA EntryTyped == Entry \in Nat /\ Entry > 0 /\ Entry < Unit /\ Unit = 10000 /\ Unit - Entry \in Nat \ {0}
<1> DEFINE price == ((Unit \div 2) * (10000 + Slippage)) \div 10000
<1>1. Unit = 10000 /\ Unit \div 2 = 5000
  BY DEF Unit
<1>2. price = (5000 * (10000 + Slippage)) \div 10000
  BY <1>1
<1>3. price \in Nat /\ price >= 5000
  BY <1>2, Constants
<1>4. Entry = IF price > 9990 THEN 9990 ELSE price
  BY DEF Entry
<1> HIDE DEF price
<1> QED BY <1>1, <1>3, <1>4

LEMMA PercentNat == \A n, amount \in Nat : Percent(n, amount) \in Nat
<1> SUFFICES ASSUME NEW n \in Nat, NEW amount \in Nat PROVE Percent(n, amount) \in Nat
  OBVIOUS
<1>1. n * amount \in Nat
  BY ProductNat
<1> QED BY <1>1, QuotientNat DEF Percent

LEMMA BoundsNat == \A x, y \in Nat : AtLeast(x, y) \in Nat /\ AtMost(x, y) \in Nat /\ AtMost(x, y) <= y
BY DEF AtLeast, AtMost

LEMMA DimeNat == Dime \in Nat
BY DEF Dime, Unit

LEMMA FixedBetNat == \A bankroll \in Nat : FixedBet(bankroll) \in Nat
BY PercentNat, BoundsNat, DimeNat DEF FixedBet

LEMMA KellyBetNat ==
    ASSUME NEW bankroll \in Nat, NEW k \in Nat, NEW n \in Nat \ {0}
    PROVE  KellyBet(bankroll, k, n) \in Nat
<1> DEFINE edge == Unit * k - n * Entry
           wanted == (bankroll * edge) \div (3 * n * (Unit - Entry))
<1>1. edge \in Int
  <2>1. Unit * k \in Nat /\ n * Entry \in Nat
    BY ProductNat, EntryTyped
  <2> QED BY <2>1
<1>2. 3 * n * (Unit - Entry) \in Nat \ {0}
  <2>1. 3 * n \in Nat \ {0}
    OBVIOUS
  <2>2. \A a, b \in Nat \ {0} : a * b \in Nat \ {0}
    OBVIOUS
  <2> QED BY <2>1, <2>2, EntryTyped
<1>3. edge > 0 => wanted \in Nat
  <2> SUFFICES ASSUME edge > 0 PROVE wanted \in Nat
    OBVIOUS
  <2>1. edge \in Nat
    BY <1>1
  <2>2. bankroll * edge \in Nat
    <3> HIDE DEF edge
    <3> QED BY <2>1, ProductNat
  <2>3. \A d \in Nat \ {0} : (bankroll * edge) \div d \in Nat
    <3> HIDE DEF edge
    <3> QED BY <2>2, QuotientNat
  <2> HIDE DEF edge
  <2> QED BY <1>2, <2>3
<1>4. Percent(1, bankroll) \in Nat /\ Percent(10, bankroll) \in Nat
  BY PercentNat
<1>5. KellyBet(bankroll, k, n)
      = IF edge <= 0 THEN Percent(1, bankroll)
        ELSE AtLeast(AtMost(wanted, Percent(10, bankroll)), AtLeast(Percent(1, bankroll), Dime))
  BY DEF KellyBet
<1> HIDE DEF edge, wanted
<1>6. CASE edge <= 0
  BY <1>4, <1>5, <1>6
<1>7. CASE edge > 0
  <2> DEFINE capped == AtMost(wanted, Percent(10, bankroll))
             least == AtLeast(Percent(1, bankroll), Dime)
  <2>1. capped \in Nat /\ least \in Nat
    BY <1>3, <1>4, <1>7, BoundsNat, DimeNat
  <2>2. KellyBet(bankroll, k, n) = AtLeast(capped, least)
    BY <1>1, <1>5, <1>7
  <2> HIDE DEF capped, least
  <2> QED BY <2>1, <2>2, BoundsNat
<1> QED BY <1>1, <1>6, <1>7

LEMMA WinsNat == \A outcomes \in Seq(Outcomes) : Wins(outcomes) \in Nat
<1> SUFFICES ASSUME NEW outcomes \in Seq(Outcomes) PROVE Wins(outcomes) \in Nat
  OBVIOUS
<1>1. DOMAIN outcomes = 1..Len(outcomes) /\ Len(outcomes) \in Nat
  OBVIOUS
<1>2. IsFiniteSet(DOMAIN outcomes)
  BY <1>1, FS_Interval
<1>3. IsFiniteSet({i \in DOMAIN outcomes : outcomes[i] = "WIN"})
  BY <1>2, FS_Subset
<1> QED BY <1>3, FS_CardinalityType DEF Wins

(* No bet is negative, and none exceeds the bankroll.                       *)
LEMMA BetBounded ==
    ASSUME NEW bankroll \in Nat, NEW recent \in Seq(Outcomes)
    PROVE  Bet(bankroll, recent) \in Nat /\ Bet(bankroll, recent) <= bankroll
<1>1. Wanted(bankroll, recent) \in Nat
  <2>1. CASE Len(recent) >= Warmup
    <3>1. Len(recent) \in Nat \ {0}
      BY <2>1, Constants
    <3> QED BY <2>1, <3>1, WinsNat, KellyBetNat DEF Wanted
  <2>2. CASE ~(Len(recent) >= Warmup)
    BY <2>2, FixedBetNat DEF Wanted
  <2> QED BY <2>1, <2>2
<1> QED BY <1>1, BoundsNat DEF Bet

(* A trade loses at most its bet and its gas.                               *)
LEMMA PnlBounded ==
    ASSUME NEW outcome \in Outcomes, NEW bet \in Nat
    PROVE  Pnl(outcome, bet) \in Int /\ Pnl(outcome, bet) >= -(bet + Gas)
<1>1. CASE outcome = "WIN"
  <2> DEFINE gross == ((Unit - Entry) * bet) \div Entry
             net == Percent(100 - Commission, gross)
  <2>1. gross \in Nat
    <3>1. (Unit - Entry) * bet \in Nat
      BY EntryTyped, ProductNat
    <3>2. Entry \in Nat \ {0}
      BY EntryTyped
    <3> QED BY <3>1, <3>2, QuotientNat
  <2> HIDE DEF gross
  <2>2. net \in Nat
    <3>1. 100 - Commission \in Nat
      BY Constants
    <3> QED BY <2>1, <3>1, PercentNat
  <2>3. Pnl(outcome, bet) = net - Gas
    BY <1>1 DEF Pnl, gross
  <2> HIDE DEF net
  <2> QED BY <2>2, <2>3, Constants
<1>2. CASE outcome # "WIN"
  BY <1>2, Constants DEF Pnl
<1> QED BY <1>1, <1>2

(* A replayed trade keeps the types, and from a bankroll that is not        *)
(* negative it ends no lower than one gas below zero.                       *)
LEMMA TradedKeeps ==
    ASSUME NEW r \in Replays, NEW outcome \in Outcomes, r.bankroll >= 0
    PROVE  Traded(r, outcome) \in Replays /\ Traded(r, outcome).bankroll >= -Gas
<1> DEFINE bet == Bet(r.bankroll, r.recent)
           pnl == Pnl(outcome, bet)
           recent == Append(r.recent, outcome)
           cut == IF Len(recent) > Recent THEN Tail(recent) ELSE recent
           trade == [outcome |-> outcome, bet |-> bet, pnl |-> pnl]
<1>1. /\ r.bankroll \in Nat /\ r.recent \in Seq(Outcomes) /\ r.bar \in Nat
      /\ r.trades \in Seq(Trade)
  BY DEF Replays
<1>2. bet \in Nat /\ bet <= r.bankroll
  BY <1>1, BetBounded
<1>3. pnl \in Int /\ pnl >= -(bet + Gas)
  BY <1>2, PnlBounded
<1>4. recent \in Seq(Outcomes) /\ recent # <<>>
  BY <1>1
<1>5. cut \in Seq(Outcomes)
  <2> HIDE DEF recent
  <2> QED BY <1>4
<1>6. trade \in Trade
  BY <1>2, <1>3 DEF Trade, Outcomes
<1>7. Append(r.trades, trade) \in Seq(Trade)
  <2> HIDE DEF trade
  <2> QED BY <1>1, <1>6
<1>8. r.bankroll + pnl \in Int /\ r.bankroll + pnl >= -Gas /\ r.bar + 1 \in Nat
  <2> HIDE DEF bet, pnl
  <2> QED BY <1>1, <1>2, <1>3, Constants
<1>9. Traded(r, outcome)
      = [bar |-> r.bar + 1, bankroll |-> r.bankroll + pnl, recent |-> cut, trades |-> Append(r.trades, trade)]
  BY DEF Traded
<1> HIDE DEF bet, pnl, cut, trade
<1> QED BY <1>5, <1>7, <1>8, <1>9 DEF Replays

-----------------------------------------------------------------------------
LEMMA NoRunKept == NoRun \in Replays /\ NoRun.bankroll >= -Gas
<1>1. <<>> \in Seq(Outcomes) /\ <<>> \in Seq(Trade)
  OBVIOUS
<1>2. NoRun = [bar |-> 0, bankroll |-> Initial, recent |-> <<>>, trades |-> <<>>]
  BY DEF NoRun
<1>3. Initial \in Int /\ Initial >= -Gas
  BY Constants
<1> QED BY <1>1, <1>2, <1>3 DEF Replays

(* The limit of 1 % leaves no trade to a bankroll that is spent.            *)
LEMMA ReplayKeeps ==
    ASSUME DebtInv, Replay
    PROVE  DebtInv'
<1>1. run \in Replays /\ run.bankroll >= -Gas /\ job.by # "records" /\ job' = job
  BY DEF DebtInv, Replay
<1>2. PICK bar \in Market :
        run' = IF Skipped(run, bar) THEN [run EXCEPT !.bar = run.bar + 1] ELSE Traded(run, Outcome(bar))
  BY DEF Replay
<1>3. CASE Skipped(run, bar)
  <2>1. run' = [run EXCEPT !.bar = run.bar + 1]
    BY <1>2, <1>3
  <2>2. run' \in Replays /\ run'.bankroll = run.bankroll
    BY <1>1, <2>1 DEF Replays
  <2> QED BY <1>1, <2>2 DEF DebtInv
<1>4. CASE ~Skipped(run, bar)
  <2>1. run.bankroll >= 0
    <3>1. run.bankroll \in Int /\ ~(100 * run.bankroll < Initial)
      BY <1>1, <1>4 DEF Skipped, Replays
    <3> QED BY <3>1, Constants
  <2>2. Outcome(bar) \in Outcomes
    BY DEF Outcome, Outcomes
  <2> QED BY <1>1, <1>2, <1>4, <2>1, <2>2, TradedKeeps DEF DebtInv
<1> QED BY <1>3, <1>4

LEMMA StepKeeps == DebtInv /\ [Next]_vars => DebtInv'
<1> SUFFICES ASSUME DebtInv, [Next]_vars PROVE DebtInv'
  OBVIOUS
<1>1. CASE ReplayRecord
  BY <1>1 DEF ReplayRecord, DebtInv
<1>2. CASE CoreDone \/ TrainDone \/ TestDone \/ WalkForwardFails
  <2>1. run' = NoRun /\ job' = job
    BY <1>2 DEF CoreDone, TrainDone, TestDone, WalkForwardFails, Finished
  <2> QED BY <2>1, NoRunKept DEF DebtInv
<1>3. CASE \/ CoreFails \/ NextPair \/ (\E i \in DOMAIN core.trades : Shuffle(i))
          \/ ShuffleDone \/ MonteCarloFails \/ Terminated \/ UNCHANGED vars
  <2>1. run' = run /\ job' = job
    BY <1>3 DEF CoreFails, NextPair, Shuffle, ShuffleDone, MonteCarloFails, Terminated, vars
  <2> QED BY <2>1 DEF DebtInv
<1> QED BY <1>1, <1>2, <1>3, ReplayKeeps DEF Next

(* A replay of a market never owes more than the gas of one trade.          *)
THEOREM BacktestDebtIsOneGas == Spec => []DebtIsOneGas
<1>1. Init => DebtInv
  BY NoRunKept DEF Init, DebtInv
<1>2. DebtInv => DebtIsOneGas
  BY DEF DebtInv, DebtIsOneGas
<1> QED BY <1>1, <1>2, StepKeeps, PTL DEF Spec

-----------------------------------------------------------------------------
(* Recursion over the naturals.                                             *)

(* Induction, said of a set: what holds zero and the successor of each of   *)
(* its numbers holds all of them.                                           *)
LEMMA AllNumbers ==
    ASSUME NEW S, 0 \in S, \A n \in Nat : n \in S => n + 1 \in S
    PROVE  Nat \subseteq S
<1> DEFINE T == Nat \ S
<1> SUFFICES ASSUME T # {} PROVE FALSE
  OBVIOUS
<1>1. T \subseteq Nat
  OBVIOUS
<1>2. PICK m \in T : \A y \in T : <<y, m>> \notin OpToRel(<, Nat)
  <2> HIDE DEF T
  <2> QED BY <1>1, WFMin, NatLessThanWellFounded, Zenon
<1>3. \A y \in T : ~(y < m)
  BY <1>2, Zenon DEF OpToRel
<1>4. m # 0 /\ m - 1 \in Nat /\ m - 1 \notin T
  BY <1>3
<1> QED BY <1>4

(* A function of the numbers up to N can be built value by value.           *)
Built(f, T, base, grow, N) ==
    /\ f \in [0..N -> T] /\ f[0] = base
    /\ \A n \in 1..N : f[n] = grow[n][f[n - 1]]

LEMMA Recursion ==
    ASSUME NEW T, NEW base \in T, NEW grow \in [Nat -> [T -> T]], NEW N \in Nat
    PROVE  \E f : Built(f, T, base, grow, N)
<1> DEFINE P(k) == \E f \in [0..k -> T] : f[0] = base /\ \A n \in 1..k : f[n] = grow[n][f[n - 1]]
           S == {k \in Nat : P(k)}
<1>1. 0 \in S
  <2> DEFINE g == [i \in 0..0 |-> base]
  <2>1. g \in [0..0 -> T] /\ g[0] = base /\ \A n \in 1..0 : g[n] = grow[n][g[n - 1]]
    OBVIOUS
  <2>2. P(0)
    BY <2>1
  <2> QED BY <2>2
<1>2. ASSUME NEW k \in Nat, k \in S PROVE k + 1 \in S
  <2>1. PICK f \in [0..k -> T] : f[0] = base /\ \A n \in 1..k : f[n] = grow[n][f[n - 1]]
    BY <1>2
  <2> DEFINE g == [i \in 0..(k + 1) |-> IF i = k + 1 THEN grow[k + 1][f[k]] ELSE f[i]]
  <2>2. g \in [0..k + 1 -> T] /\ g[0] = base
    <3>1. g \in [0..k + 1 -> T]
      OBVIOUS
    <3>2. g[0] = base
      BY <2>1
    <3> QED BY <3>1, <3>2
  <2>3. ASSUME NEW n \in 1..k + 1 PROVE g[n] = grow[n][g[n - 1]]
    <3>1. CASE n = k + 1
      <4>1. g[n] = grow[k + 1][f[k]] /\ g[n - 1] = f[k]
        BY <3>1
      <4> HIDE DEF g
      <4> QED BY <3>1, <4>1
    <3>2. CASE n # k + 1
      <4>1. n \in 1..k /\ g[n] = f[n] /\ g[n - 1] = f[n - 1]
        BY <3>2
      <4> HIDE DEF g
      <4> QED BY <4>1, <2>1
    <3> QED BY <3>1, <3>2
  <2>4. P(k + 1)
    <3> HIDE DEF g
    <3> QED BY <2>2, <2>3
  <2> QED BY <2>4
<1>3. Nat \subseteq S
  <2> HIDE DEF S
  <2> QED BY <1>1, <1>2, AllNumbers
<1> QED BY <1>3 DEF Built

-----------------------------------------------------------------------------
(* Sums.                                                                    *)

PartialSums(f, v) ==
    /\ f \in [0..Len(v) -> Int] /\ f[0] = 0
    /\ \A n \in 1..Len(v) : f[n] = f[n - 1] + v[n]

LEMMA SumIsPartial ==
    ASSUME NEW v \in Seq(Int)
    PROVE  \E f : PartialSums(f, v) /\ Sum(v) = f[Len(v)]
<1> DEFINE sum == CHOOSE sum : sum = [n \in 0..Len(v) |-> IF n = 0 THEN 0 ELSE sum[n - 1] + v[n]]
           grow == [n \in Nat |-> [x \in Int |-> IF n \in 1..Len(v) THEN x + v[n] ELSE 0]]
<1>1. Sum(v) = sum[Len(v)]
  BY DEF Sum
<1>2. Len(v) \in Nat /\ \A n \in 1..Len(v) : v[n] \in Int
  OBVIOUS
<1>3. PICK f \in [0..Len(v) -> Int] : f[0] = 0 /\ \A n \in 1..Len(v) : f[n] = grow[n][f[n - 1]]
  <2>1. grow \in [Nat -> [Int -> Int]] /\ 0 \in Int
    BY <1>2
  <2> DEFINE N == Len(v)
  <2>2. N \in Nat
    BY <1>2
  <2> HIDE DEF grow, N
  <2>3. \E f : Built(f, Int, 0, grow, N)
    BY <2>1, <2>2, Recursion
  <2> QED BY <2>3 DEF N, Built
<1>4. \A n \in 1..Len(v) : f[n] = f[n - 1] + v[n]
  <2> SUFFICES ASSUME NEW n \in 1..Len(v) PROVE f[n] = f[n - 1] + v[n]
    OBVIOUS
  <2>1. f[n - 1] \in Int /\ n \in Nat
    OBVIOUS
  <2> QED BY <2>1, <1>3
<1>5. f = [n \in 0..Len(v) |-> IF n = 0 THEN 0 ELSE f[n - 1] + v[n]]
  BY <1>3, <1>4
<1>6. sum = [n \in 0..Len(v) |-> IF n = 0 THEN 0 ELSE sum[n - 1] + v[n]]
  BY <1>5, Zenon
<1> HIDE DEF sum
<1>7. sum[0] = 0
  <2>1. 0 \in 0..Len(v)
    BY <1>2
  <2> QED BY <1>6, <2>1
<1>8. \A n \in 1..Len(v) : sum[n] = sum[n - 1] + v[n]
  <2> SUFFICES ASSUME NEW n \in 1..Len(v) PROVE sum[n] = sum[n - 1] + v[n]
    OBVIOUS
  <2>1. n \in 0..Len(v) /\ n # 0
    BY <1>2
  <2> QED BY <1>6, <2>1
<1>9. \A n \in 0..Len(v) : sum[n] \in Int
  <2> DEFINE S == {n \in Nat : n \in 0..Len(v) => sum[n] \in Int}
  <2>1. 0 \in S
    BY <1>7
  <2>2. ASSUME NEW n \in Nat, n \in S PROVE n + 1 \in S
    <3> SUFFICES ASSUME n + 1 \in 0..Len(v) PROVE sum[n + 1] \in Int
      OBVIOUS
    <3>1. n + 1 \in 1..Len(v) /\ n \in 0..Len(v) /\ (n + 1) - 1 = n
      BY <1>2
    <3> QED BY <3>1, <2>2, <1>2, <1>8
  <2>3. Nat \subseteq S
    <3> HIDE DEF S
    <3> QED BY <2>1, <2>2, AllNumbers
  <2> QED BY <2>3, <1>2
<1>10. sum \in [0..Len(v) -> Int]
  BY <1>6, <1>9
<1>11. PartialSums(sum, v)
  BY <1>7, <1>8, <1>10 DEF PartialSums
<1> QED BY <1>1, <1>11

LEMMA PartialStep ==
    ASSUME NEW v \in Seq(Int), NEW f, PartialSums(f, v), NEW n \in Nat, n + 1 <= Len(v)
    PROVE  f[n + 1] = f[n] + v[n + 1] /\ f[n] \in Int /\ v[n + 1] \in Int
<1>1. n + 1 \in 1..Len(v) /\ (n + 1) - 1 = n /\ n \in 0..Len(v)
  OBVIOUS
<1>2. v[n + 1] \in Int
  BY <1>1, ElementOfSeq
<1> QED BY <1>1, <1>2 DEF PartialSums

AgreeUpTo(v, w, m) == \A i \in 1..m : v[i] = w[i]

(* Sums of sequences that begin alike agree that far.                       *)
LEMMA PartialAgree ==
    ASSUME NEW v \in Seq(Int), NEW w \in Seq(Int), NEW f, NEW g,
           PartialSums(f, v), PartialSums(g, w), NEW m \in Nat,
           m <= Len(v), m <= Len(w), AgreeUpTo(v, w, m)
    PROVE  f[m] = g[m]
<1> DEFINE S == {n \in Nat : n <= m => f[n] = g[n]}
<1>1. 0 \in S
  BY DEF PartialSums
<1>2. ASSUME NEW n \in Nat, n \in S PROVE n + 1 \in S
  <2> SUFFICES ASSUME n + 1 <= m PROVE f[n + 1] = g[n + 1]
    OBVIOUS
  <2>1. n + 1 \in 1..m /\ n + 1 <= Len(v) /\ n + 1 <= Len(w) /\ n <= m
    OBVIOUS
  <2>2. f[n + 1] = f[n] + v[n + 1] /\ g[n + 1] = g[n] + w[n + 1]
    BY <2>1, PartialStep
  <2>3. v[n + 1] = w[n + 1]
    BY <2>1 DEF AgreeUpTo
  <2> QED BY <1>2, <2>1, <2>2, <2>3
<1>3. Nat \subseteq S
  <2> HIDE DEF S
  <2> QED BY <1>1, <1>2, AllNumbers
<1> QED BY <1>3

LEMMA SumInt == \A v \in Seq(Int) : Sum(v) \in Int
<1> SUFFICES ASSUME NEW v \in Seq(Int) PROVE Sum(v) \in Int
  OBVIOUS
<1>1. PICK f : PartialSums(f, v) /\ Sum(v) = f[Len(v)]
  BY SumIsPartial
<1>2. Len(v) \in 0..Len(v)
  OBVIOUS
<1> QED BY <1>1, <1>2 DEF PartialSums

LEMMA SumOfNothing == Sum(<<>>) = 0
<1>1. <<>> \in Seq(Int) /\ Len(<<>>) = 0
  OBVIOUS
<1>2. PICK f : PartialSums(f, <<>>) /\ Sum(<<>>) = f[Len(<<>>)]
  BY <1>1, SumIsPartial
<1> QED BY <1>1, <1>2 DEF PartialSums

LEMMA SumAppend ==
    ASSUME NEW v \in Seq(Int), NEW x \in Int
    PROVE  Sum(Append(v, x)) = Sum(v) + x
<1> DEFINE w == Append(v, x)
<1>1. /\ w \in Seq(Int) /\ Len(v) \in Nat /\ Len(w) = Len(v) + 1 /\ w[Len(v) + 1] = x
      /\ AgreeUpTo(v, w, Len(v))
  BY DEF AgreeUpTo
<1> HIDE DEF w
<1>2. PICK f : PartialSums(f, v) /\ Sum(v) = f[Len(v)]
  BY SumIsPartial
<1>3. PICK g : PartialSums(g, w) /\ Sum(w) = g[Len(w)]
  BY <1>1, SumIsPartial
<1>4. f[Len(v)] = g[Len(v)]
  <2>1. Len(v) <= Len(v) /\ Len(v) <= Len(w)
    BY <1>1
  <2> QED BY <1>1, <1>2, <1>3, <2>1, PartialAgree
<1>5. Len(v) + 1 \in 1..Len(w) /\ (Len(v) + 1) - 1 = Len(v)
  BY <1>1
<1>6. g[Len(v) + 1] = g[Len(v)] + x
  BY <1>1, <1>3, <1>5 DEF PartialSums
<1> QED BY <1>1, <1>2, <1>3, <1>4, <1>6 DEF w

LEMMA SumConcat ==
    ASSUME NEW p \in Seq(Int), NEW q \in Seq(Int)
    PROVE  Sum(p \o q) = Sum(p) + Sum(q)
<1> DEFINE w == p \o q
<1>1. /\ w \in Seq(Int) /\ Len(p) \in Nat /\ Len(q) \in Nat /\ Len(w) = Len(p) + Len(q)
      /\ AgreeUpTo(p, w, Len(p))
      /\ \A i \in 1..Len(q) : w[Len(p) + i] = q[i]
  BY DEF AgreeUpTo
<1> HIDE DEF w
<1>2. PICK f : PartialSums(f, p) /\ Sum(p) = f[Len(p)]
  BY SumIsPartial
<1>3. PICK g : PartialSums(g, w) /\ Sum(w) = g[Len(w)]
  BY <1>1, SumIsPartial
<1>4. PICK h : PartialSums(h, q) /\ Sum(q) = h[Len(q)]
  BY SumIsPartial
<1>5. f[Len(p)] = g[Len(p)]
  <2>1. Len(p) <= Len(p) /\ Len(p) <= Len(w)
    BY <1>1
  <2> QED BY <1>1, <1>2, <1>3, <2>1, PartialAgree
<1>6. f[Len(p)] \in Int
  BY <1>2, SumInt
<1> DEFINE S == {n \in Nat : n <= Len(q) => g[Len(p) + n] = f[Len(p)] + h[n]}
<1>7. 0 \in S
  BY <1>1, <1>4, <1>5, <1>6 DEF PartialSums
<1>8. ASSUME NEW n \in Nat, n \in S PROVE n + 1 \in S
  <2> SUFFICES ASSUME n + 1 <= Len(q)
               PROVE  g[Len(p) + (n + 1)] = f[Len(p)] + h[n + 1]
    OBVIOUS
  <2>1. /\ n + 1 \in 1..Len(q) /\ (n + 1) - 1 = n /\ n \in 0..Len(q) /\ n <= Len(q)
        /\ Len(p) + (n + 1) \in 1..Len(w) /\ (Len(p) + (n + 1)) - 1 = Len(p) + n
    BY <1>1
  <2>2. h[n + 1] = h[n] + q[n + 1] /\ h[n] \in Int /\ q[n + 1] \in Int
    BY <1>4, PartialStep
  <2>3. g[Len(p) + (n + 1)] = g[Len(p) + n] + q[n + 1]
    BY <1>1, <1>3, <2>1 DEF PartialSums
  <2>4. g[Len(p) + n] = f[Len(p)] + h[n]
    BY <1>8, <2>1
  <2> QED BY <1>6, <2>2, <2>3, <2>4
<1>9. Nat \subseteq S
  <2> HIDE DEF S
  <2> QED BY <1>7, <1>8, AllNumbers
<1>10. g[Len(p) + Len(q)] = f[Len(p)] + h[Len(q)]
  BY <1>1, <1>9
<1> QED BY <1>1, <1>2, <1>3, <1>4, <1>10 DEF w

(* One term less, or a smaller one.                                         *)
LEMMA SumChanged ==
    ASSUME NEW v \in Seq(Int), NEW w \in Seq(Int), Len(w) = Len(v), NEW k \in 1..Len(v),
           \A i \in 1..Len(v) : i # k => w[i] = v[i]
    PROVE  Sum(w) = Sum(v) + (w[k] - v[k])
<1>1. PICK f : PartialSums(f, v) /\ Sum(v) = f[Len(v)]
  BY SumIsPartial
<1>2. PICK g : PartialSums(g, w) /\ Sum(w) = g[Len(w)]
  BY SumIsPartial
<1>3. Len(v) \in Nat /\ k \in Nat /\ v[k] \in Int /\ w[k] \in Int
  OBVIOUS
<1> DEFINE S == {n \in Nat : n <= Len(v) => g[n] = f[n] + (IF k <= n THEN w[k] - v[k] ELSE 0)}
<1>4. 0 \in S
  BY <1>1, <1>2, <1>3 DEF PartialSums
<1>5. ASSUME NEW n \in Nat, n \in S PROVE n + 1 \in S
  <2> SUFFICES ASSUME n + 1 <= Len(v)
               PROVE  g[n + 1] = f[n + 1] + (IF k <= n + 1 THEN w[k] - v[k] ELSE 0)
    OBVIOUS
  <2>1. n + 1 \in 1..Len(v) /\ (n + 1) - 1 = n /\ n \in 0..Len(v) /\ n <= Len(v)
    BY <1>3
  <2>2. f[n + 1] = f[n] + v[n + 1] /\ f[n] \in Int /\ v[n + 1] \in Int
    BY <1>1, PartialStep
  <2>3. g[n + 1] = g[n] + w[n + 1] /\ w[n + 1] \in Int
    BY <1>2, PartialStep
  <2>4. g[n] = f[n] + (IF k <= n THEN w[k] - v[k] ELSE 0)
    BY <1>5, <2>1
  <2>5. CASE n + 1 = k
    BY <1>3, <2>2, <2>3, <2>4, <2>5, SMTT(30)
  <2>6. CASE n + 1 # k
    <3>1. w[n + 1] = v[n + 1] /\ (k <= n <=> k <= n + 1)
      BY <1>3, <2>1, <2>6
    <3> QED BY <1>3, <2>2, <2>3, <2>4, <3>1, SMTT(30)
  <2> QED BY <2>5, <2>6
<1>6. Nat \subseteq S
  <2> HIDE DEF S
  <2> QED BY <1>4, <1>5, AllNumbers
<1>7. g[Len(v)] = f[Len(v)] + (w[k] - v[k])
  BY <1>3, <1>6
<1> QED BY <1>1, <1>2, <1>7

(* A sum of terms between zero and c is between zero and c times their number. *)
LEMMA SumBounded ==
    ASSUME NEW v \in Seq(Int), NEW c \in Nat, \A i \in 1..Len(v) : 0 <= v[i] /\ v[i] <= c
    PROVE  0 <= Sum(v) /\ Sum(v) <= c * Len(v)
<1>1. PICK f : PartialSums(f, v) /\ Sum(v) = f[Len(v)]
  BY SumIsPartial
<1> DEFINE S == {n \in Nat : n <= Len(v) => 0 <= f[n] /\ f[n] <= c * n}
<1>2. 0 \in S
  BY <1>1 DEF PartialSums
<1>3. ASSUME NEW n \in Nat, n \in S PROVE n + 1 \in S
  <2> SUFFICES ASSUME n + 1 <= Len(v) PROVE 0 <= f[n + 1] /\ f[n + 1] <= c * (n + 1)
    OBVIOUS
  <2>1. n + 1 \in 1..Len(v) /\ (n + 1) - 1 = n /\ n \in 0..Len(v) /\ n <= Len(v)
    OBVIOUS
  <2>2. f[n + 1] = f[n] + v[n + 1] /\ f[n] \in Int /\ v[n + 1] \in Int
    BY <1>1, PartialStep
  <2>3. 0 <= v[n + 1] /\ v[n + 1] <= c /\ 0 <= f[n] /\ f[n] <= c * n
    BY <1>3, <2>1
  <2>4. c * (n + 1) = c * n + c /\ c * n \in Int
    OBVIOUS
  <2> QED BY <2>2, <2>3, <2>4
<1>4. Nat \subseteq S
  <2> HIDE DEF S
  <2> QED BY <1>2, <1>3, AllNumbers
<1>5. Len(v) \in Nat
  OBVIOUS
<1> QED BY <1>1, <1>4, <1>5

-----------------------------------------------------------------------------
(* Equity.                                                                  *)

(* Two functions that begin alike and step alike are alike.                 *)
LEMMA StepByStep ==
    ASSUME NEW N \in Nat, NEW f, NEW g, g[0] = f[0],
           \A n \in 1..N : g[n - 1] = f[n - 1] => g[n] = f[n]
    PROVE  \A n \in 0..N : g[n] = f[n]
<1> DEFINE S == {n \in Nat : n <= N => g[n] = f[n]}
<1>1. 0 \in S
  OBVIOUS
<1>2. ASSUME NEW n \in Nat, n \in S PROVE n + 1 \in S
  <2> SUFFICES ASSUME n + 1 <= N PROVE g[n + 1] = f[n + 1]
    OBVIOUS
  <2>1. n + 1 \in 1..N /\ (n + 1) - 1 = n /\ n <= N
    OBVIOUS
  <2> QED BY <1>2, <2>1
<1>3. Nat \subseteq S
  <2> HIDE DEF S
  <2> QED BY <1>1, <1>2, AllNumbers
<1> QED BY <1>3

LEMMA TradeOf ==
    ASSUME NEW t \in Seq(Trade), NEW n \in 1..Len(t)
    PROVE  t[n] \in Trade /\ t[n].pnl \in Int /\ t[n].bet \in Int /\ t[n].outcome \in Outcomes
<1>1. t[n] \in Trade
  BY ElementOfSeq
<1> QED BY <1>1 DEF Trade, Outcomes

LEMMA EquityIs ==
    ASSUME NEW t \in Seq(Trade)
    PROVE  /\ EquityCurve(t) \in [0..Len(t) -> Int] /\ EquityCurve(t)[0] = Initial
           /\ \A n \in 1..Len(t) : EquityCurve(t)[n] = EquityCurve(t)[n - 1] + t[n].pnl
<1> DEFINE N == Len(t)
           equity == CHOOSE equity :
             equity = [n \in 0..N |-> IF n = 0 THEN Initial ELSE equity[n - 1] + t[n].pnl]
           grow == [n \in Nat |-> [x \in Int |-> IF n \in 1..N THEN x + t[n].pnl ELSE 0]]
<1>1. EquityCurve(t) = equity
  BY DEF EquityCurve
<1>2. N \in Nat /\ Initial \in Int
  BY Constants
<1>3. \A n \in 1..N : t[n].pnl \in Int
  BY TradeOf
<1>4. PICK f : Built(f, Int, Initial, grow, N)
  <2>1. grow \in [Nat -> [Int -> Int]]
    <3> HIDE DEF N
    <3> QED BY <1>3
  <2> HIDE DEF grow, N, equity
  <2> QED BY <1>2, <2>1, Recursion
<1>5. f \in [0..N -> Int] /\ f[0] = Initial
  BY <1>4 DEF Built
<1>6. \A n \in 1..N : f[n] = f[n - 1] + t[n].pnl
  <2> SUFFICES ASSUME NEW n \in 1..N PROVE f[n] = f[n - 1] + t[n].pnl
    OBVIOUS
  <2>1. f[n - 1] \in Int /\ n \in Nat
    BY <1>2, <1>5
  <2>2. f[n] = grow[n][f[n - 1]]
    <3> HIDE DEF grow, N
    <3> QED BY <1>4 DEF Built
  <2> QED BY <2>1, <2>2
<1>7. f = [n \in 0..N |-> IF n = 0 THEN Initial ELSE f[n - 1] + t[n].pnl]
  <2> HIDE DEF N
  <2> QED BY <1>2, <1>5, <1>6
<1>8. equity = [n \in 0..N |-> IF n = 0 THEN Initial ELSE equity[n - 1] + t[n].pnl]
  BY <1>7, Zenon
<1> HIDE DEF equity, N
<1>9. equity \in [0..N -> Int] /\ equity[0] = Initial
  <2>1. equity[0] = Initial
    BY <1>2, <1>8
  <2>2. \A n \in 1..N : equity[n] = equity[n - 1] + t[n].pnl
    BY <1>2, <1>8
  <2>3. \A n \in 0..N : equity[n] = f[n]
    <3>1. \A n \in 1..N : equity[n - 1] = f[n - 1] => equity[n] = f[n]
      BY <1>6, <2>2
    <3>2. N \in Nat /\ equity[0] = f[0]
      BY <1>2, <1>5, <2>1
    <3> QED BY <3>1, <3>2, StepByStep, Zenon
  <2>4. \A n \in 0..N : f[n] \in Int
    BY <1>5
  <2> QED BY <1>8, <2>1, <2>3, <2>4
<1>10. \A n \in 1..N : equity[n] = equity[n - 1] + t[n].pnl
  BY <1>2, <1>8
<1> QED BY <1>1, <1>9, <1>10 DEF N

Pnls(t) == [n \in DOMAIN t |-> t[n].pnl]

LEMMA PnlsTyped ==
    ASSUME NEW t \in Seq(Trade)
    PROVE  Pnls(t) \in Seq(Int) /\ Len(Pnls(t)) = Len(t) /\ \A n \in 1..Len(t) : Pnls(t)[n] = t[n].pnl
<1>1. \A n \in 1..Len(t) : t[n].pnl \in Int
  BY TradeOf
<1>2. DOMAIN t = 1..Len(t) /\ Len(t) \in Nat
  OBVIOUS
<1>3. Pnls(t) = [n \in 1..Len(t) |-> t[n].pnl]
  BY <1>2 DEF Pnls
<1> QED BY <1>1, <1>2, <1>3

Final(t) == EquityCurve(t)[Len(t)]

(* The final equity is the bankroll and all profits.                        *)
LEMMA FinalIsSum ==
    ASSUME NEW t \in Seq(Trade)
    PROVE  Final(t) = Initial + Sum(Pnls(t)) /\ Final(t) \in Int
<1> DEFINE e == EquityCurve(t)
           v == Pnls(t)
<1>1. v \in Seq(Int) /\ Len(v) = Len(t) /\ Len(t) \in Nat /\ Initial \in Int
  BY PnlsTyped, Constants
<1>2. PICK g : PartialSums(g, v) /\ Sum(v) = g[Len(v)]
  BY <1>1, SumIsPartial
<1>3. e \in [0..Len(t) -> Int] /\ e[0] = Initial /\ \A n \in 1..Len(t) : e[n] = e[n - 1] + v[n]
  BY EquityIs, PnlsTyped
<1> HIDE DEF e, v
<1> DEFINE S == {n \in Nat : n <= Len(t) => e[n] = Initial + g[n]}
<1>4. 0 \in S
  BY <1>1, <1>2, <1>3 DEF PartialSums
<1>5. ASSUME NEW n \in Nat, n \in S PROVE n + 1 \in S
  <2> SUFFICES ASSUME n + 1 <= Len(t) PROVE e[n + 1] = Initial + g[n + 1]
    OBVIOUS
  <2>1. n + 1 \in 1..Len(t) /\ (n + 1) - 1 = n /\ n <= Len(t)
    BY <1>1
  <2>2. g[n + 1] = g[n] + v[n + 1] /\ g[n] \in Int /\ v[n + 1] \in Int
    BY <1>1, <1>2, <2>1, PartialStep
  <2>3. e[n + 1] = e[n] + v[n + 1]
    BY <1>3, <2>1
  <2>4. e[n] = Initial + g[n]
    BY <1>5, <2>1
  <2> QED BY <1>1, <2>2, <2>3, <2>4
<1>6. Nat \subseteq S
  <2> HIDE DEF S
  <2> QED BY <1>4, <1>5, AllNumbers
<1>7. e[Len(t)] = Initial + g[Len(t)]
  BY <1>1, <1>6
<1>8. Len(t) \in 0..Len(t)
  BY <1>1
<1> QED BY <1>1, <1>2, <1>3, <1>7, <1>8 DEF Final, e, v

LEMMA FinalAppend ==
    ASSUME NEW t \in Seq(Trade), NEW x \in Trade
    PROVE  Final(Append(t, x)) = Final(t) + x.pnl
<1>1. Append(t, x) \in Seq(Trade) /\ x.pnl \in Int
  BY DEF Trade
<1>2. Pnls(Append(t, x)) = Append(Pnls(t), x.pnl)
  <2> DEFINE u == Append(t, x)
             v == Pnls(u)
             w == Append(Pnls(t), x.pnl)
  <2>1. /\ v \in Seq(Int) /\ Len(v) = Len(t) + 1 /\ Len(t) \in Nat
        /\ \A n \in 1..Len(t) + 1 : v[n] = u[n].pnl
    <3>1. u \in Seq(Trade) /\ Len(u) = Len(t) + 1 /\ Len(t) \in Nat
      BY <1>1
    <3> HIDE DEF u
    <3> QED BY <3>1, PnlsTyped
  <2>2. /\ w \in Seq(Int) /\ Len(w) = Len(t) + 1 /\ w[Len(t) + 1] = x.pnl
        /\ \A n \in 1..Len(t) : w[n] = t[n].pnl
    <3> DEFINE p == Pnls(t)
    <3>1. p \in Seq(Int) /\ Len(p) = Len(t) /\ \A n \in 1..Len(t) : p[n] = t[n].pnl
      BY PnlsTyped
    <3> HIDE DEF p
    <3>2. w = Append(p, x.pnl)
      BY DEF p
    <3> HIDE DEF w
    <3> QED BY <1>1, <3>1, <3>2
  <2>3. u[Len(t) + 1] = x /\ \A n \in 1..Len(t) : u[n] = t[n]
    OBVIOUS
  <2> HIDE DEF u, v, w
  <2>4. ASSUME NEW n \in 1..Len(t) + 1 PROVE v[n] = w[n]
    <3>1. CASE n = Len(t) + 1
      BY <2>1, <2>2, <2>3, <3>1
    <3>2. CASE n # Len(t) + 1
      <4>1. n \in 1..Len(t)
        BY <2>1, <3>2
      <4> QED BY <2>1, <2>2, <2>3, <4>1
    <3> QED BY <3>1, <3>2
  <2>5. v = w
    BY <2>1, <2>2, <2>4, SeqEqual
  <2> QED BY <2>5 DEF u, v, w
<1>3. Sum(Pnls(Append(t, x))) = Sum(Pnls(t)) + x.pnl
  BY <1>1, <1>2, PnlsTyped, SumAppend
<1>4. Sum(Pnls(t)) \in Int
  BY PnlsTyped, SumInt
<1>5. Final(t) = Initial + Sum(Pnls(t)) /\ Final(Append(t, x)) = Initial + Sum(Pnls(Append(t, x)))
  BY <1>1, FinalIsSum
<1> QED BY <1>1, <1>3, <1>4, <1>5, Constants

-----------------------------------------------------------------------------
(* The trade list a core run hands over adds up to its bankroll, a bankroll *)
(* below zero included (run_from_db has no limit).                          *)
Balanced(r) == r \in Replays /\ r.bankroll = Final(r.trades)

CoreInv ==
    /\ core.trades \in Seq(Trade)
    /\ core.bankroll = Final(core.trades)
    /\ core.metrics = Metrics(core.trades)

LEMMA ProductInt == \A m, n \in Int : m * n \in Int
OBVIOUS

LEMMA QuotientInt == \A n \in Int, d \in Nat \ {0} : n \div d \in Int
OBVIOUS

LEMMA PercentInt == \A n, amount \in Int : Percent(n, amount) \in Int
<1> SUFFICES ASSUME NEW n \in Int, NEW amount \in Int PROVE Percent(n, amount) \in Int
  OBVIOUS
<1>1. n * amount \in Int
  BY ProductInt
<1> QED BY <1>1, QuotientInt DEF Percent

LEMMA BoundsInt == \A x, y \in Int : AtLeast(x, y) \in Int /\ AtMost(x, y) \in Int
BY DEF AtLeast, AtMost

LEMMA KellyBetInt ==
    ASSUME NEW bankroll \in Int, NEW k \in Nat, NEW n \in Nat \ {0}
    PROVE  KellyBet(bankroll, k, n) \in Int
<1> DEFINE edge == Unit * k - n * Entry
           wanted == (bankroll * edge) \div (3 * n * (Unit - Entry))
<1>1. edge \in Int
  <2>1. Unit * k \in Nat /\ n * Entry \in Nat
    BY ProductNat, EntryTyped
  <2> QED BY <2>1
<1>2. 3 * n * (Unit - Entry) \in Nat \ {0}
  <2>1. 3 * n \in Nat \ {0}
    OBVIOUS
  <2>2. \A a, b \in Nat \ {0} : a * b \in Nat \ {0}
    OBVIOUS
  <2> QED BY <2>1, <2>2, EntryTyped
<1>3. wanted \in Int
  <2>1. bankroll * edge \in Int
    <3> HIDE DEF edge
    <3> QED BY <1>1, ProductInt
  <2> HIDE DEF edge
  <2> QED BY <1>2, <2>1, QuotientInt
<1>4. Percent(1, bankroll) \in Int /\ Percent(10, bankroll) \in Int
  BY PercentInt
<1> DEFINE capped == AtMost(wanted, Percent(10, bankroll))
           least == AtLeast(Percent(1, bankroll), Dime)
<1>5. KellyBet(bankroll, k, n) = IF edge <= 0 THEN Percent(1, bankroll) ELSE AtLeast(capped, least)
  BY DEF KellyBet
<1> HIDE DEF edge, wanted
<1>6. capped \in Int /\ least \in Int
  <2>1. Dime \in Int
    BY DimeNat
  <2> QED BY <1>3, <1>4, <2>1, BoundsInt, Zenon
<1> HIDE DEF capped, least
<1> QED BY <1>4, <1>5, <1>6, BoundsInt

LEMMA BetInt ==
    ASSUME NEW bankroll \in Int, NEW recent \in Seq(Outcomes)
    PROVE  Bet(bankroll, recent) \in Int
<1>1. Wanted(bankroll, recent) \in Int
  <2>1. CASE Len(recent) >= Warmup
    <3>1. Len(recent) \in Nat \ {0}
      BY <2>1, Constants
    <3> QED BY <2>1, <3>1, WinsNat, KellyBetInt DEF Wanted
  <2>2. CASE ~(Len(recent) >= Warmup)
    <3>1. FixedBet(bankroll) \in Int
      BY PercentInt, BoundsInt, DimeNat DEF FixedBet
    <3> QED BY <2>2, <3>1 DEF Wanted
  <2> QED BY <2>1, <2>2
<1> QED BY <1>1, BoundsInt DEF Bet

LEMMA PnlInt ==
    ASSUME NEW outcome \in Outcomes, NEW bet \in Int
    PROVE  Pnl(outcome, bet) \in Int
<1>1. CASE outcome = "WIN"
  <2> DEFINE gross == ((Unit - Entry) * bet) \div Entry
  <2>1. gross \in Int
    <3>1. (Unit - Entry) * bet \in Int
      BY EntryTyped, ProductInt
    <3>2. Entry \in Nat \ {0}
      BY EntryTyped
    <3> QED BY <3>1, <3>2, QuotientInt
  <2>2. Pnl(outcome, bet) = Percent(100 - Commission, gross) - Gas
    BY <1>1 DEF Pnl
  <2> HIDE DEF gross
  <2>3. Percent(100 - Commission, gross) \in Int
    <3>1. 100 - Commission \in Int
      BY Constants
    <3> QED BY <2>1, <3>1, PercentInt
  <2> QED BY <2>2, <2>3, Constants
<1>2. CASE outcome # "WIN"
  BY <1>2, Constants DEF Pnl
<1> QED BY <1>1, <1>2

LEMMA TradedBalanced ==
    ASSUME NEW r, Balanced(r), NEW outcome \in Outcomes
    PROVE  Balanced(Traded(r, outcome))
<1> DEFINE bet == Bet(r.bankroll, r.recent)
           pnl == Pnl(outcome, bet)
           recent == Append(r.recent, outcome)
           cut == IF Len(recent) > Recent THEN Tail(recent) ELSE recent
           trade == [outcome |-> outcome, bet |-> bet, pnl |-> pnl]
           next == Traded(r, outcome)
<1>1. /\ r.bankroll \in Int /\ r.recent \in Seq(Outcomes) /\ r.bar \in Nat
      /\ r.trades \in Seq(Trade) /\ r.bankroll = Final(r.trades)
  BY DEF Balanced, Replays
<1>2. bet \in Int
  BY <1>1, BetInt
<1>3. pnl \in Int
  <2> HIDE DEF bet
  <2> QED BY <1>2, PnlInt
<1>4. recent \in Seq(Outcomes) /\ recent # <<>>
  BY <1>1
<1>5. cut \in Seq(Outcomes)
  <2> HIDE DEF recent
  <2> QED BY <1>4
<1>6. trade \in Trade /\ trade.pnl = pnl
  BY <1>2, <1>3 DEF Trade, Outcomes
<1>7. next = [bar |-> r.bar + 1, bankroll |-> r.bankroll + pnl, recent |-> cut,
              trades |-> Append(r.trades, trade)]
  BY DEF Traded
<1> HIDE DEF bet, pnl, cut, trade, recent, next
<1>8. Append(r.trades, trade) \in Seq(Trade) /\ r.bankroll + pnl \in Int /\ r.bar + 1 \in Nat
  BY <1>1, <1>3, <1>6
<1>9. next \in Replays
  BY <1>5, <1>7, <1>8 DEF Replays
<1>10. Final(Append(r.trades, trade)) = Final(r.trades) + pnl
  BY <1>1, <1>6, FinalAppend
<1>11. next.bankroll = Final(next.trades)
  BY <1>1, <1>7, <1>10
<1> QED BY <1>9, <1>11 DEF Balanced, next

LEMMA NoRunBalanced == Balanced(NoRun)
<1>1. Final(<<>>) = Initial
  <2>1. <<>> \in Seq(Trade) /\ Len(<<>>) = 0
    OBVIOUS
  <2> QED BY <2>1, EquityIs DEF Final
<1> QED BY <1>1, NoRunKept DEF Balanced, NoRun

LEMMA SkippedBalanced ==
    ASSUME NEW r, Balanced(r)
    PROVE  Balanced([r EXCEPT !.bar = r.bar + 1])
BY DEF Balanced, Replays

LEMMA OutcomeTyped == \A bar : Outcome(bar) \in Outcomes
BY DEF Outcome, Outcomes

LEMMA RunBalanced == Balanced(run) /\ [Next]_vars => Balanced(run)'
<1> SUFFICES ASSUME Balanced(run), [Next]_vars PROVE Balanced(run')
  BY DEF Balanced
<1>1. CASE Replay
  <2>1. PICK bar \in Market :
          run' = IF Skipped(run, bar) THEN [run EXCEPT !.bar = run.bar + 1] ELSE Traded(run, Outcome(bar))
    BY <1>1 DEF Replay
  <2>2. Balanced([run EXCEPT !.bar = run.bar + 1]) /\ Balanced(Traded(run, Outcome(bar)))
    BY SkippedBalanced, TradedBalanced, OutcomeTyped
  <2> QED BY <2>1, <2>2
<1>2. CASE ReplayRecord
  <2>1. PICK outcome : run' = Traded(run, IF outcome = "WIN" THEN "WIN" ELSE "LOSS")
    BY <1>2 DEF ReplayRecord
  <2>2. (IF outcome = "WIN" THEN "WIN" ELSE "LOSS") \in Outcomes
    BY DEF Outcomes
  <2> QED BY <2>1, <2>2, TradedBalanced
<1>3. CASE CoreDone \/ TrainDone \/ TestDone \/ WalkForwardFails
  <2>1. run' = NoRun
    BY <1>3 DEF CoreDone, TrainDone, TestDone, WalkForwardFails, Finished
  <2> QED BY <2>1, NoRunBalanced
<1>4. CASE \/ CoreFails \/ NextPair \/ (\E i \in DOMAIN core.trades : Shuffle(i))
          \/ ShuffleDone \/ MonteCarloFails \/ Terminated \/ UNCHANGED vars
  <2>1. run' = run
    BY <1>4 DEF CoreFails, NextPair, Shuffle, ShuffleDone, MonteCarloFails, Terminated, vars
  <2> QED BY <2>1
<1> QED BY <1>1, <1>2, <1>3, <1>4 DEF Next

LEMMA NoCoreKept ==
    /\ NoCore.trades \in Seq(Trade)
    /\ NoCore.bankroll = Final(NoCore.trades)
    /\ NoCore.metrics = Metrics(NoCore.trades)
<1>1. <<>> \in Seq(Trade) /\ Final(<<>>) = Initial
  BY NoRunBalanced DEF Balanced, NoRun, Replays
<1> QED BY <1>1 DEF NoCore

LEMMA CoreKept == Balanced(run) /\ CoreInv /\ [Next]_vars => CoreInv'
<1> SUFFICES ASSUME Balanced(run), CoreInv, [Next]_vars PROVE CoreInv'
  OBVIOUS
<1>1. CASE CoreDone
  <2>1. core' = [trades |-> run.trades, bankroll |-> run.bankroll, metrics |-> Metrics(run.trades)]
    BY <1>1 DEF CoreDone
  <2>2. run.trades \in Seq(Trade) /\ run.bankroll = Final(run.trades)
    BY DEF Balanced, Replays
  <2>3. /\ core'.trades = run.trades /\ core'.bankroll = run.bankroll
        /\ core'.metrics = Metrics(run.trades)
    BY <2>1
  <2> QED BY <2>2, <2>3 DEF CoreInv
<1>2. CASE NextPair
  <2>1. core' = NoCore
    BY <1>2 DEF NextPair
  <2> QED BY <2>1, NoCoreKept, Zenon DEF CoreInv
<1>3. CASE \/ Replay \/ ReplayRecord \/ CoreFails \/ TrainDone \/ TestDone \/ WalkForwardFails
          \/ (\E i \in DOMAIN core.trades : Shuffle(i)) \/ ShuffleDone \/ MonteCarloFails
          \/ Terminated \/ UNCHANGED vars
  <2>1. core' = core
    BY <1>3 DEF Replay, ReplayRecord, CoreFails, TrainDone, TestDone, WalkForwardFails, Shuffle,
                ShuffleDone, MonteCarloFails, Terminated, vars
  <2> QED BY <2>1 DEF CoreInv
<1> QED BY <1>1, <1>2, <1>3 DEF Next

-----------------------------------------------------------------------------
(* The deepest fall.                                                        *)
PeakAndFall == [peak : Int, dd : Int]

(* What the loop of compute_metrics has seen after each trade.              *)
SeenOf(s, e, N) ==
    /\ s \in [0..N -> PeakAndFall] /\ s[0] = [peak |-> Initial, dd |-> 0]
    /\ \A n \in 1..N : s[n] = [peak |-> AtLeast(e[n], s[n - 1].peak),
                               dd |-> AtLeast(AtLeast(e[n], s[n - 1].peak) - e[n], s[n - 1].dd)]

LEMMA DrawdownIs ==
    ASSUME NEW t \in Seq(Trade)
    PROVE  \E s : SeenOf(s, EquityCurve(t), Len(t)) /\ MaxDrawdown(t) = s[Len(t)].dd
<1> DEFINE N == Len(t)
           e == EquityCurve(t)
           start == [peak |-> Initial, dd |-> 0]
           Fallen(x, y) == [peak |-> AtLeast(y, x.peak), dd |-> AtLeast(AtLeast(y, x.peak) - y, x.dd)]
           seen == CHOOSE seen :
             seen = [n \in 0..N |-> IF n = 0 THEN start ELSE Fallen(seen[n - 1], e[n])]
           grow == [n \in Nat |-> [x \in PeakAndFall |-> IF n \in 1..N THEN Fallen(x, e[n]) ELSE start]]
<1>1. MaxDrawdown(t) = seen[N].dd
  BY DEF MaxDrawdown
<1>2. N \in Nat /\ start \in PeakAndFall
  BY Constants DEF PeakAndFall
<1>3. e \in [0..N -> Int]
  BY EquityIs
<1>4. \A x \in PeakAndFall, n \in 1..N : Fallen(x, e[n]) \in PeakAndFall
  <2> SUFFICES ASSUME NEW x \in PeakAndFall, NEW n \in 1..N PROVE Fallen(x, e[n]) \in PeakAndFall
    OBVIOUS
  <2>1. e[n] \in Int /\ x.peak \in Int /\ x.dd \in Int
    <3> HIDE DEF e
    <3> QED BY <1>2, <1>3 DEF PeakAndFall
  <2> HIDE DEF e
  <2>2. AtLeast(e[n], x.peak) \in Int
    BY <2>1, BoundsInt
  <2>3. AtLeast(AtLeast(e[n], x.peak) - e[n], x.dd) \in Int
    <3>1. AtLeast(e[n], x.peak) - e[n] \in Int
      BY <2>1, <2>2
    <3> QED BY <2>1, <3>1, BoundsInt
  <2> QED BY <2>2, <2>3 DEF PeakAndFall
<1>5. PICK f : Built(f, PeakAndFall, start, grow, N)
  <2>1. grow \in [Nat -> [PeakAndFall -> PeakAndFall]]
    <3> HIDE DEF N, e, start, Fallen
    <3> QED BY <1>2, <1>4
  <2> HIDE DEF grow, N, e, start, Fallen, seen
  <2> QED BY <1>2, <2>1, Recursion
<1>6. f \in [0..N -> PeakAndFall] /\ f[0] = start
  <2> HIDE DEF grow, N, start
  <2> QED BY <1>5 DEF Built
<1>7. \A n \in 1..N : f[n] = Fallen(f[n - 1], e[n])
  <2> SUFFICES ASSUME NEW n \in 1..N PROVE f[n] = Fallen(f[n - 1], e[n])
    OBVIOUS
  <2> HIDE DEF Fallen, N, e, start
  <2>1. f[n - 1] \in PeakAndFall /\ n \in Nat
    BY <1>2, <1>6
  <2>2. f[n] = grow[n][f[n - 1]]
    <3> HIDE DEF grow
    <3> QED BY <1>5 DEF Built
  <2> QED BY <2>1, <2>2
<1>8. f = [n \in 0..N |-> IF n = 0 THEN start ELSE Fallen(f[n - 1], e[n])]
  <2> HIDE DEF Fallen, N, e, start
  <2> QED BY <1>2, <1>6, <1>7
<1>9. seen = [n \in 0..N |-> IF n = 0 THEN start ELSE Fallen(seen[n - 1], e[n])]
  BY <1>8, Zenon
<1>10. SeenOf(seen, e, N)
  <2> HIDE DEF seen, N, e
  <2>1. seen[0] = start
    <3> HIDE DEF Fallen, start
    <3> QED BY <1>2, <1>9
  <2>2. \A n \in 1..N : seen[n] = Fallen(seen[n - 1], e[n])
    <3> HIDE DEF Fallen, start
    <3> QED BY <1>2, <1>9
  <2>3. \A n \in 0..N : seen[n] = f[n]
    <3> HIDE DEF Fallen, start
    <3>1. \A n \in 1..N : seen[n - 1] = f[n - 1] => seen[n] = f[n]
      BY <1>7, <2>2
    <3>2. N \in Nat /\ seen[0] = f[0]
      BY <1>2, <1>6, <2>1
    <3> QED BY <3>1, <3>2, StepByStep, Zenon
  <2>4. seen \in [0..N -> PeakAndFall]
    <3>1. \A n \in 0..N : f[n] \in PeakAndFall
      BY <1>6
    <3> HIDE DEF Fallen, start
    <3> QED BY <1>9, <2>3, <3>1
  <2> QED BY <2>1, <2>2, <2>4 DEF SeenOf
<1> HIDE DEF seen, N, e
<1> QED BY <1>1, <1>10 DEF N, e

PeakUpTo(e, n, p) ==
    /\ \A i \in 0..n : e[i] <= p
    /\ \E i \in 0..n : e[i] = p
FallUpTo(e, n, d) ==
    /\ \A i, j \in 0..n : i <= j => e[i] - e[j] <= d
    /\ \E i, j \in 0..n : i <= j /\ e[i] - e[j] = d

LEMMA DrawdownFits ==
    ASSUME NEW t \in Seq(Trade)
    PROVE  FallUpTo(EquityCurve(t), Len(t), MaxDrawdown(t))
<1> DEFINE e == EquityCurve(t)
           N == Len(t)
<1>1. N \in Nat /\ e \in [0..N -> Int] /\ e[0] = Initial /\ Initial \in Int
  BY EquityIs, Constants
<1>2. PICK s : SeenOf(s, e, N) /\ MaxDrawdown(t) = s[N].dd
  BY DrawdownIs
<1> HIDE DEF e, N
<1> DEFINE S == {n \in Nat : n <= N => PeakUpTo(e, n, s[n].peak) /\ FallUpTo(e, n, s[n].dd)}
<1>3. 0 \in S
  <2>1. s[0].peak = e[0] /\ s[0].dd = 0 /\ e[0] \in Int
    BY <1>1, <1>2 DEF SeenOf
  <2>2. \A i : i \in 0..0 <=> i = 0
    OBVIOUS
  <2>3. PeakUpTo(e, 0, s[0].peak)
    BY <2>1, <2>2 DEF PeakUpTo
  <2>4. FallUpTo(e, 0, s[0].dd)
    BY <2>1, <2>2 DEF FallUpTo
  <2> QED BY <2>3, <2>4
<1>4. ASSUME NEW n \in Nat, n \in S PROVE n + 1 \in S
  <2> SUFFICES ASSUME n + 1 <= N
               PROVE  PeakUpTo(e, n + 1, s[n + 1].peak) /\ FallUpTo(e, n + 1, s[n + 1].dd)
    OBVIOUS
  <2> DEFINE p == s[n].peak
             q == s[n + 1].peak
             d == s[n].dd
             c == s[n + 1].dd
             x == e[n + 1]
  <2>1. n + 1 \in 1..N /\ (n + 1) - 1 = n /\ n \in 0..N /\ n + 1 \in 0..N /\ n <= N
    BY <1>1
  <2>2. s[n + 1] = [peak |-> AtLeast(x, p), dd |-> AtLeast(AtLeast(x, p) - x, d)]
    BY <1>2, <2>1 DEF SeenOf
  <2>3. q = AtLeast(x, p) /\ c = AtLeast(q - x, d)
    BY <2>2
  <2>4. p \in Int /\ d \in Int /\ x \in Int
    <3>1. s[n] \in PeakAndFall
      BY <1>2, <2>1 DEF SeenOf
    <3> QED BY <1>1, <2>1, <3>1 DEF PeakAndFall
  <2>5. PeakUpTo(e, n, p) /\ FallUpTo(e, n, d)
    BY <1>4, <2>1
  <2> HIDE DEF p, q, d, c, S
  <2>6. \A i \in 0..n + 1 : i = n + 1 \/ i \in 0..n
    OBVIOUS
  <2>7. \A i \in 0..n : i \in 0..n + 1 /\ e[i] \in Int /\ i <= n + 1
    BY <1>1, <2>1
  <2>8. q \in Int /\ c \in Int
    BY <2>3, <2>4 DEF AtLeast
  <2>9. PeakUpTo(e, n + 1, q)
    <3>1. q >= x /\ q >= p /\ (q = x \/ q = p)
      BY <2>3, <2>4 DEF AtLeast
    <3>2. ASSUME NEW i \in 0..n + 1 PROVE e[i] <= q
      <4>1. CASE i = n + 1
        BY <3>1, <4>1
      <4>2. CASE i \in 0..n
        <5>1. e[i] <= p /\ e[i] \in Int
          BY <2>5, <2>7, <4>2 DEF PeakUpTo
        <5> QED BY <2>4, <2>8, <3>1, <5>1
      <4> QED BY <2>6, <4>1, <4>2
    <3>3. \E i \in 0..n + 1 : e[i] = q
      <4>1. CASE q = x
        <5>1. n + 1 \in 0..n + 1
          OBVIOUS
        <5> QED BY <4>1, <5>1
      <4>2. CASE q = p
        BY <2>5, <2>7, <4>2 DEF PeakUpTo
      <4> QED BY <3>1, <4>1, <4>2
    <3> QED BY <3>2, <3>3 DEF PeakUpTo
  <2>10. FallUpTo(e, n + 1, c)
    <3>1. c >= q - x /\ c >= d /\ (c = q - x \/ c = d)
      BY <2>3, <2>4, <2>8 DEF AtLeast
    <3>2. ASSUME NEW i \in 0..n + 1, NEW j \in 0..n + 1, i <= j PROVE e[i] - e[j] <= c
      <4>1. CASE j = n + 1
        <5>1. e[i] <= q /\ e[i] \in Int
          BY <2>4, <2>6, <2>7, <2>9 DEF PeakUpTo
        <5> QED BY <2>4, <2>8, <3>1, <4>1, <5>1
      <4>2. CASE j \in 0..n
        <5>1. i \in 0..n
          BY <2>6, <3>2, <4>2
        <5>2. e[i] - e[j] <= d /\ e[i] \in Int /\ e[j] \in Int
          BY <2>5, <2>7, <3>2, <4>2, <5>1 DEF FallUpTo
        <5> QED BY <2>4, <2>8, <3>1, <5>2
      <4> QED BY <2>6, <4>1, <4>2
    <3>3. \E i, j \in 0..n + 1 : i <= j /\ e[i] - e[j] = c
      <4>1. CASE c = q - x
        <5>1. PICK i \in 0..n + 1 : e[i] = q
          BY <2>9 DEF PeakUpTo
        <5>2. n + 1 \in 0..n + 1 /\ i <= n + 1
          OBVIOUS
        <5> QED BY <4>1, <5>1, <5>2
      <4>2. CASE c = d
        BY <2>5, <2>7, <4>2 DEF FallUpTo
      <4> QED BY <3>1, <4>1, <4>2
    <3> QED BY <3>2, <3>3 DEF FallUpTo
  <2> QED BY <2>9, <2>10 DEF q, c
<1>5. Nat \subseteq S
  <2> HIDE DEF S
  <2> QED BY <1>3, <1>4, AllNumbers
<1>6. FallUpTo(e, N, s[N].dd)
  BY <1>1, <1>5
<1> QED BY <1>2, <1>6 DEF e, N

-----------------------------------------------------------------------------
(* The longest run of one outcome.                                          *)
CurAndMax == [cur : Int, max : Int]

StreakOf(s, t, o) ==
    /\ s \in [0..Len(t) -> CurAndMax] /\ s[0] = [cur |-> 0, max |-> 0]
    /\ \A n \in 1..Len(t) : s[n] = IF t[n].outcome = o THEN Longer(s[n - 1])
                                   ELSE [s[n - 1] EXCEPT !.cur = 0]

LEMMA StreakIs ==
    ASSUME NEW t \in Seq(Trade), NEW o
    PROVE  \E s : StreakOf(s, t, o) /\ Streak(t, o) = s[Len(t)].max
<1> DEFINE N == Len(t)
           start == [cur |-> 0, max |-> 0]
           Counted(x, n) == IF t[n].outcome = o THEN Longer(x) ELSE [x EXCEPT !.cur = 0]
           seen == CHOOSE seen :
             seen = [n \in 0..N |-> IF n = 0 THEN start ELSE Counted(seen[n - 1], n)]
           grow == [n \in Nat |-> [x \in CurAndMax |-> Counted(x, n)]]
<1>1. Streak(t, o) = seen[N].max
  BY DEF Streak
<1>2. N \in Nat /\ start \in CurAndMax
  BY DEF CurAndMax
<1>3. \A x \in CurAndMax, n \in Nat : Counted(x, n) \in CurAndMax
  <2> SUFFICES ASSUME NEW x \in CurAndMax, NEW n \in Nat PROVE Counted(x, n) \in CurAndMax
    OBVIOUS
  <2>1. x.cur \in Int /\ x.max \in Int
    BY DEF CurAndMax
  <2>2. AtLeast(x.cur + 1, x.max) \in Int /\ x.cur + 1 \in Int
    BY <2>1 DEF AtLeast
  <2>3. Longer(x) \in CurAndMax
    BY <2>2 DEF Longer, CurAndMax
  <2>4. [x EXCEPT !.cur = 0] \in CurAndMax
    BY DEF CurAndMax
  <2> QED BY <2>3, <2>4
<1>4. PICK f : Built(f, CurAndMax, start, grow, N)
  <2>1. grow \in [Nat -> [CurAndMax -> CurAndMax]]
    <3> HIDE DEF N, start, Counted
    <3> QED BY <1>3
  <2> HIDE DEF grow, N, start, Counted, seen
  <2> QED BY <1>2, <2>1, Recursion
<1>5. f \in [0..N -> CurAndMax] /\ f[0] = start
  <2> HIDE DEF grow, N, start
  <2> QED BY <1>4 DEF Built
<1>6. \A n \in 1..N : f[n] = Counted(f[n - 1], n)
  <2> SUFFICES ASSUME NEW n \in 1..N PROVE f[n] = Counted(f[n - 1], n)
    OBVIOUS
  <2> HIDE DEF Counted, N, start
  <2>1. f[n - 1] \in CurAndMax /\ n \in Nat
    BY <1>2, <1>5
  <2>2. f[n] = grow[n][f[n - 1]]
    <3> HIDE DEF grow
    <3> QED BY <1>4 DEF Built
  <2> QED BY <2>1, <2>2
<1>7. f = [n \in 0..N |-> IF n = 0 THEN start ELSE Counted(f[n - 1], n)]
  <2> HIDE DEF Counted, N, start
  <2> QED BY <1>2, <1>5, <1>6
<1>8. seen = [n \in 0..N |-> IF n = 0 THEN start ELSE Counted(seen[n - 1], n)]
  BY <1>7, Zenon
<1>9. StreakOf(seen, t, o)
  <2> HIDE DEF seen, N
  <2>1. seen[0] = start
    <3> HIDE DEF Counted, start
    <3> QED BY <1>2, <1>8
  <2>2. \A n \in 1..N : seen[n] = Counted(seen[n - 1], n)
    <3> HIDE DEF Counted, start
    <3> QED BY <1>2, <1>8
  <2>3. \A n \in 0..N : seen[n] = f[n]
    <3> HIDE DEF Counted, start
    <3>1. \A n \in 1..N : seen[n - 1] = f[n - 1] => seen[n] = f[n]
      BY <1>6, <2>2
    <3>2. N \in Nat /\ seen[0] = f[0]
      BY <1>2, <1>5, <2>1
    <3> QED BY <3>1, <3>2, StepByStep, Zenon
  <2>4. seen \in [0..N -> CurAndMax]
    <3>1. \A n \in 0..N : f[n] \in CurAndMax
      BY <1>5
    <3> HIDE DEF Counted, start
    <3> QED BY <1>8, <2>3, <3>1
  <2> QED BY <2>1, <2>2, <2>4 DEF StreakOf, N
<1> HIDE DEF seen, N
<1> QED BY <1>1, <1>9 DEF N

SameFrom(t, o, i, j) == \A k \in i..j : t[k].outcome = o

(* The run of the outcome that ends with trade n has c trades.              *)
RunEnding(t, o, n, c) ==
    /\ c \in 0..n /\ SameFrom(t, o, n - c + 1, n)
    /\ c = n \/ t[n - c].outcome # o
LongestUpTo(t, o, n, m) ==
    /\ m >= 0
    /\ \A i, j \in 1..n : i <= j /\ SameFrom(t, o, i, j) => j - i + 1 <= m
    /\ m = 0 \/ \E i, j \in 1..n : i <= j /\ SameFrom(t, o, i, j) /\ j - i + 1 = m

LEMMA StreakFits ==
    ASSUME NEW t \in Seq(Trade), NEW o
    PROVE  LongestUpTo(t, o, Len(t), Streak(t, o))
<1> DEFINE N == Len(t)
<1>1. N \in Nat
  OBVIOUS
<1>2. PICK s : StreakOf(s, t, o) /\ Streak(t, o) = s[N].max
  BY StreakIs
<1> DEFINE S == {n \in Nat : n <= N => RunEnding(t, o, n, s[n].cur) /\ LongestUpTo(t, o, n, s[n].max)}
<1>3. 0 \in S
  <2>1. s[0].cur = 0 /\ s[0].max = 0
    BY <1>2 DEF StreakOf
  <2>2. RunEnding(t, o, 0, s[0].cur)
    BY <2>1 DEF RunEnding, SameFrom
  <2>3. LongestUpTo(t, o, 0, s[0].max)
    BY <2>1 DEF LongestUpTo
  <2> QED BY <2>2, <2>3
<1>4. ASSUME NEW n \in Nat, n \in S PROVE n + 1 \in S
  <2> SUFFICES ASSUME n + 1 <= N
               PROVE  RunEnding(t, o, n + 1, s[n + 1].cur) /\ LongestUpTo(t, o, n + 1, s[n + 1].max)
    OBVIOUS
  <2> DEFINE c == s[n].cur
             m == s[n].max
  <2>1. n + 1 \in 1..N /\ (n + 1) - 1 = n /\ n \in 0..N /\ n <= N
    BY <1>1
  <2>2. RunEnding(t, o, n, c) /\ LongestUpTo(t, o, n, m)
    BY <1>4, <2>1
  <2>3. c \in Int /\ m \in Int /\ s[n] \in CurAndMax
    <3>1. s[n] \in CurAndMax
      BY <1>2, <2>1 DEF StreakOf
    <3> QED BY <3>1 DEF CurAndMax
  <2>4. s[n + 1] = IF t[n + 1].outcome = o THEN Longer(s[n]) ELSE [s[n] EXCEPT !.cur = 0]
    BY <1>2, <2>1 DEF StreakOf
  <2>5. \A i \in 1..n + 1 : i = n + 1 \/ i \in 1..n
    OBVIOUS
  <2>6. \A i \in 1..n : i \in 1..n + 1
    OBVIOUS
  <2> HIDE DEF S
  <2>7. CASE t[n + 1].outcome = o
    <3> DEFINE w == AtLeast(c + 1, m)
    <3>1. s[n + 1].cur = c + 1 /\ s[n + 1].max = w
      BY <2>4, <2>7 DEF Longer
    <3> HIDE DEF c, m
    <3>2. w \in Int /\ w >= c + 1 /\ w >= m /\ (w = c + 1 \/ w = m)
      BY <2>3 DEF AtLeast
    <3> HIDE DEF w
    <3>3. c \in 0..n /\ SameFrom(t, o, n - c + 1, n) /\ (c = n \/ t[n - c].outcome # o)
      BY <2>2 DEF RunEnding
    <3>4. SameFrom(t, o, n - c + 1, n + 1)
      <4> SUFFICES ASSUME NEW k \in n - c + 1..n + 1 PROVE t[k].outcome = o
        BY DEF SameFrom
      <4>1. CASE k = n + 1
        BY <2>7, <4>1
      <4>2. CASE k # n + 1
        <5>1. k \in n - c + 1..n
          BY <2>3, <4>2
        <5> QED BY <3>3, <5>1 DEF SameFrom
      <4> QED BY <4>1, <4>2
    <3>5. RunEnding(t, o, n + 1, c + 1)
      <4>1. c + 1 \in 0..n + 1 /\ (n + 1) - (c + 1) + 1 = n - c + 1 /\ (n + 1) - (c + 1) = n - c
        BY <3>3
      <4>2. c + 1 = n + 1 \/ t[n - c].outcome # o
        BY <3>3
      <4> QED BY <3>4, <4>1, <4>2 DEF RunEnding
    <3>6. ASSUME NEW i \in 1..n + 1, NEW j \in 1..n + 1, i <= j, SameFrom(t, o, i, j)
          PROVE  j - i + 1 <= w
      <4>1. CASE j = n + 1
        <5>1. i > n - c
          <6> SUFFICES ASSUME i <= n - c PROVE FALSE
            BY <2>3
          <6>1. c # n /\ n - c \in i..j
            BY <3>3, <4>1
          <6> QED BY <3>3, <3>6, <6>1 DEF SameFrom
        <5> QED BY <2>3, <3>2, <4>1, <5>1
      <4>2. CASE j # n + 1
        <5>1. i \in 1..n /\ j \in 1..n
          BY <3>6, <4>2
        <5>2. j - i + 1 <= m
          BY <2>2, <3>6, <5>1 DEF LongestUpTo
        <5> QED BY <2>3, <3>2, <5>2
      <4> QED BY <4>1, <4>2
    <3>7. w = 0 \/ \E i, j \in 1..n + 1 : i <= j /\ SameFrom(t, o, i, j) /\ j - i + 1 = w
      <4>1. CASE w = c + 1
        <5>1. /\ n - c + 1 \in 1..n + 1 /\ n + 1 \in 1..n + 1 /\ n - c + 1 <= n + 1
              /\ (n + 1) - (n - c + 1) + 1 = w
          BY <3>3, <4>1
        <5> QED BY <3>4, <5>1
      <4>2. CASE w = m
        BY <2>2, <2>6, <4>2 DEF LongestUpTo
      <4> QED BY <3>2, <4>1, <4>2
    <3>8. w >= 0
      BY <2>3, <3>2, <3>3
    <3>9. LongestUpTo(t, o, n + 1, w)
      BY <3>6, <3>7, <3>8 DEF LongestUpTo
    <3> QED BY <3>1, <3>5, <3>9
  <2>8. CASE t[n + 1].outcome # o
    <3>1. s[n + 1].cur = 0 /\ s[n + 1].max = m
      BY <2>3, <2>4, <2>8 DEF CurAndMax
    <3>2. RunEnding(t, o, n + 1, 0)
      <4>1. (n + 1) - 0 = n + 1 /\ (n + 1) - 0 + 1 = n + 2 /\ n + 2..n + 1 = {} /\ 0 \in 0..n + 1
        OBVIOUS
      <4> QED BY <2>8, <4>1 DEF RunEnding, SameFrom
    <3> HIDE DEF c, m
    <3>3. ASSUME NEW i \in 1..n + 1, NEW j \in 1..n + 1, i <= j, SameFrom(t, o, i, j)
          PROVE  j - i + 1 <= m
      <4>1. j # n + 1
        <5>1. j \in i..j
          BY <3>3
        <5> QED BY <2>8, <3>3, <5>1 DEF SameFrom
      <4>2. i \in 1..n /\ j \in 1..n
        BY <3>3, <4>1
      <4> QED BY <2>2, <3>3, <4>2 DEF LongestUpTo
    <3>4. m >= 0 /\ (m = 0 \/ \E i, j \in 1..n + 1 : i <= j /\ SameFrom(t, o, i, j) /\ j - i + 1 = m)
      BY <2>2, <2>6 DEF LongestUpTo
    <3>5. LongestUpTo(t, o, n + 1, m)
      BY <3>3, <3>4 DEF LongestUpTo
    <3> QED BY <3>1, <3>2, <3>5
  <2> QED BY <2>7, <2>8
<1>5. Nat \subseteq S
  <2> HIDE DEF S
  <2> QED BY <1>3, <1>4, AllNumbers
<1>6. LongestUpTo(t, o, N, s[N].max)
  BY <1>1, <1>5
<1> QED BY <1>2, <1>6

(* The metrics folded trade by trade are what their names say of the trade  *)
(* list, and its profits add up to the bankroll of the replay.              *)
THEOREM BacktestMetricsMatch == Spec => []MetricsMatch
<1> DEFINE BookInv == Balanced(run) /\ CoreInv
<1>1. Init => BookInv
  BY NoRunBalanced, NoCoreKept, Zenon DEF Init, CoreInv, Final
<1>2. BookInv /\ [Next]_vars => BookInv'
  BY RunBalanced, CoreKept
<1>3. BookInv => MetricsMatch
  <2> SUFFICES ASSUME CoreInv PROVE MetricsMatch
    OBVIOUS
  <2> DEFINE t == core.trades
             e == EquityCurve(t)
             m == core.metrics
  <2>1. t \in Seq(Trade) /\ core.bankroll = Final(t) /\ m = Metrics(t)
    BY DEF CoreInv
  <2>2. m.final = Final(t) /\ m.maxDrawdown = MaxDrawdown(t) /\ m.maxLosses = Streak(t, "LOSS")
    BY <2>1 DEF Metrics, Final
  <2>3. FallUpTo(e, Len(t), m.maxDrawdown) /\ LongestUpTo(t, "LOSS", Len(t), m.maxLosses)
    BY <2>1, <2>2, DrawdownFits, StreakFits
  <2> HIDE DEF t, e, m
  <2> DEFINE falls == {p \in (0..Len(t)) \X (0..Len(t)) : p[1] <= p[2]}
             losing == {p \in (1..Len(t)) \X (1..Len(t)) :
                          p[1] <= p[2] /\ \A i \in p[1]..p[2] : t[i].outcome = "LOSS"}
  <2>4. \A p \in falls : e[p[1]] - e[p[2]] <= m.maxDrawdown
    BY <2>3 DEF FallUpTo
  <2>5. \E p \in falls : e[p[1]] - e[p[2]] = m.maxDrawdown
    <3>1. PICK i, j \in 0..Len(t) : i <= j /\ e[i] - e[j] = m.maxDrawdown
      BY <2>3 DEF FallUpTo
    <3>2. <<i, j>> \in falls /\ e[<<i, j>>[1]] - e[<<i, j>>[2]] = m.maxDrawdown
      BY <3>1
    <3> QED BY <3>2
  <2>6. \A p \in losing : p[2] - p[1] + 1 <= m.maxLosses
    BY <2>3 DEF LongestUpTo, SameFrom
  <2>7. m.maxLosses = 0 \/ \E p \in losing : p[2] - p[1] + 1 = m.maxLosses
    <3> SUFFICES ASSUME m.maxLosses # 0 PROVE \E p \in losing : p[2] - p[1] + 1 = m.maxLosses
      OBVIOUS
    <3>1. PICK i, j \in 1..Len(t) : i <= j /\ SameFrom(t, "LOSS", i, j) /\ j - i + 1 = m.maxLosses
      BY <2>3 DEF LongestUpTo
    <3>2. <<i, j>> \in losing /\ <<i, j>>[2] - <<i, j>>[1] + 1 = m.maxLosses
      BY <3>1 DEF SameFrom
    <3> QED BY <3>2
  <2> HIDE DEF falls, losing
  <2> QED BY <2>1, <2>2, <2>4, <2>5, <2>6, <2>7 DEF MetricsMatch, falls, losing, t, e, m
<1> QED BY <1>1, <1>2, <1>3, PTL DEF Spec

-----------------------------------------------------------------------------
(* Shuffles.                                                                *)

(* The profits a shuffle has still to add.                                  *)
Rest(t, left) == [n \in 1..Len(t) |-> IF n \in left THEN t[n].pnl ELSE 0]

(* What the equity of a shuffle has and what its trades still hold is the   *)
(* final bankroll, at every point of every order.                           *)
ShuffleInv ==
    /\ step = "shuffle" => /\ mc.equity \in Int
                           /\ mc.equity + Sum(Rest(core.trades, mc.left)) = Final(core.trades)
    /\ ends \in Seq(Int) /\ \A i \in 1..Len(ends) : ends[i] = Final(core.trades)
    /\ step \in {"core", "train", "test"} => ends = <<>>

LEMMA RestTyped ==
    ASSUME NEW t \in Seq(Trade), NEW left
    PROVE  Rest(t, left) \in Seq(Int) /\ Len(Rest(t, left)) = Len(t)
<1>1. \A n \in 1..Len(t) : t[n].pnl \in Int
  BY TradeOf
<1>2. Len(t) \in Nat
  OBVIOUS
<1> QED BY <1>1, <1>2 DEF Rest

(* A shuffle begins with the initial bankroll and all trades.               *)
LEMMA AllIsLeft ==
    ASSUME NEW t \in Seq(Trade)
    PROVE  Initial + Sum(Rest(t, DOMAIN t)) = Final(t)
<1>1. DOMAIN t = 1..Len(t) /\ Len(t) \in Nat
  OBVIOUS
<1>2. Rest(t, DOMAIN t) = [n \in 1..Len(t) |-> t[n].pnl]
  BY <1>1 DEF Rest
<1>3. Pnls(t) = [n \in 1..Len(t) |-> t[n].pnl]
  BY <1>1 DEF Pnls
<1> QED BY <1>2, <1>3, FinalIsSum

LEMMA NoneIsLeft ==
    ASSUME NEW t \in Seq(Trade)
    PROVE  Sum(Rest(t, {})) = 0
<1> DEFINE r == Rest(t, {})
<1>1. r \in Seq(Int) /\ 0 \in Nat /\ \A n \in 1..Len(r) : r[n] = 0
  <2>1. r \in Seq(Int) /\ Len(r) = Len(t)
    BY RestTyped
  <2>2. \A n \in 1..Len(t) : r[n] = 0
    BY DEF Rest
  <2> QED BY <2>1, <2>2
<1> HIDE DEF r
<1>2. \A n \in 1..Len(r) : 0 <= r[n] /\ r[n] <= 0
  BY <1>1
<1>3. 0 <= Sum(r) /\ Sum(r) <= 0 * Len(r)
  BY <1>1, <1>2, SumBounded
<1>4. Sum(r) \in Int /\ 0 * Len(r) = 0
  BY <1>1, SumInt
<1> QED BY <1>3, <1>4 DEF r

LEMMA OneLessLeft ==
    ASSUME NEW t \in Seq(Trade), NEW left, NEW i \in 1..Len(t), i \in left
    PROVE  t[i].pnl + Sum(Rest(t, left \ {i})) = Sum(Rest(t, left))
<1> DEFINE v == Rest(t, left)
           w == Rest(t, left \ {i})
<1>1. v \in Seq(Int) /\ w \in Seq(Int) /\ Len(w) = Len(v) /\ Len(v) = Len(t)
  BY RestTyped
<1>2. v[i] = t[i].pnl /\ w[i] = 0 /\ t[i].pnl \in Int
  BY TradeOf DEF Rest
<1>3. \A n \in 1..Len(t) : n # i => w[n] = v[n]
  BY DEF Rest
<1> HIDE DEF v, w
<1>4. Sum(w) = Sum(v) + (w[i] - v[i])
  BY <1>1, <1>3, SumChanged
<1>5. Sum(v) \in Int /\ Sum(w) \in Int
  BY <1>1, SumInt
<1> QED BY <1>2, <1>4, <1>5 DEF v, w

(* A shuffle starts over, or none does.                                     *)
Starts(s, m, t) ==
    s = "shuffle" => m.equity \in Int /\ m.equity + Sum(Rest(t, m.left)) = Final(t)

LEMMA StartsOver ==
    ASSUME NEW t \in Seq(Trade)
    PROVE  Starts("shuffle", [NoShuffle EXCEPT !.left = DOMAIN t], t)
<1> DEFINE m == [NoShuffle EXCEPT !.left = DOMAIN t]
<1>1. m.left = DOMAIN t /\ m.equity = Initial
  BY DEF NoShuffle
<1> HIDE DEF m
<1> QED BY <1>1, AllIsLeft, Constants DEF Starts, m

LEMMA MonteCarloStarts ==
    ASSUME NEW t \in Seq(Trade), NEW wf, MonteCarlo(t, wf)
    PROVE  Starts(step', mc', t) /\ step' \in {"shuffle", "next", "done"}
<1>1. CASE job.mc /\ Len(t) >= 2
  <2>1. step' = "shuffle" /\ mc' = [NoShuffle EXCEPT !.left = DOMAIN t]
    BY <1>1 DEF MonteCarlo
  <2> QED BY <2>1, StartsOver
<1>2. CASE ~(job.mc /\ Len(t) >= 2)
  <2>1. step' \in {"next", "done"}
    BY <1>2 DEF MonteCarlo, Report
  <2> QED BY <2>1 DEF Starts
<1> QED BY <1>1, <1>2

LEMMA ShuffleKept ==
    Balanced(run) /\ CoreInv /\ ShuffleInv /\ [Next]_vars => ShuffleInv'
<1> SUFFICES ASSUME Balanced(run), CoreInv, ShuffleInv, [Next]_vars PROVE ShuffleInv'
  OBVIOUS
<1> DEFINE Same(e, t) == e \in Seq(Int) /\ \A i \in 1..Len(e) : e[i] = Final(t)
<1>1. core.trades \in Seq(Trade) /\ run.trades \in Seq(Trade)
  BY DEF CoreInv, Balanced, Replays
<1>2. Starts(step, mc, core.trades) /\ Same(ends, core.trades)
  BY DEF ShuffleInv, Starts
<1>3. \A t : Same(<<>>, t)
  OBVIOUS
<1>4. ASSUME Starts(step', mc', core'.trades), Same(ends', core'.trades),
             step' \in {"core", "train", "test"} => ends' = <<>>
      PROVE  ShuffleInv'
  BY <1>4 DEF ShuffleInv, Starts
<1> HIDE DEF Same
<1>5. CASE Replay \/ ReplayRecord
  <2>1. UNCHANGED <<step, mc, core, ends>>
    BY <1>5 DEF Replay, ReplayRecord
  <2> QED BY <1>2, <1>4, <2>1 DEF ShuffleInv
<1>6. CASE CoreDone
  <2>1. step = "core" /\ ends = <<>> /\ ends' = ends
    BY <1>6 DEF CoreDone, Finished, ShuffleInv
  <2>2. core'.trades = run.trades
    BY <1>6 DEF CoreDone
  <2>3. step' = "train" \/ MonteCarlo(run.trades, FALSE)
    BY <1>6 DEF CoreDone
  <2>4. Starts(step', mc', run.trades)
    <3>1. CASE step' = "train"
      BY <3>1 DEF Starts
    <3> QED BY <1>1, <2>3, <3>1, MonteCarloStarts
  <2> QED BY <1>3, <1>4, <2>1, <2>2, <2>4
<1>7. CASE CoreFails
  <2>1. step' = "failed" /\ UNCHANGED <<mc, core, ends>>
    BY <1>7 DEF CoreFails
  <2>2. Starts(step', mc', core'.trades)
    BY <2>1 DEF Starts
  <2> QED BY <1>2, <1>4, <2>1, <2>2
<1>8. CASE NextPair
  <2>1. step' = "core" /\ ends' = <<>>
    BY <1>8 DEF NextPair
  <2>2. Starts(step', mc', core'.trades)
    BY <2>1 DEF Starts
  <2> QED BY <1>3, <1>4, <2>1, <2>2
<1>9. CASE TrainDone
  <2>1. step' = "test" /\ step = "train" /\ UNCHANGED <<mc, core, ends>>
    BY <1>9 DEF TrainDone, Finished
  <2>2. Starts(step', mc', core'.trades)
    BY <2>1 DEF Starts
  <2> QED BY <1>2, <1>4, <2>1, <2>2 DEF ShuffleInv
<1>10. CASE TestDone \/ WalkForwardFails
  <2>1. step \in {"train", "test"} /\ UNCHANGED <<core, ends>>
    BY <1>10 DEF TestDone, WalkForwardFails, Finished
  <2>2. ends' = <<>>
    BY <2>1 DEF ShuffleInv
  <2>3. step' = "train" \/ MonteCarlo(core.trades, TRUE) \/ MonteCarlo(core.trades, FALSE)
    BY <1>10 DEF TestDone, WalkForwardFails
  <2>4. Starts(step', mc', core.trades)
    <3>1. CASE step' = "train"
      BY <3>1 DEF Starts
    <3> QED BY <1>1, <2>3, <3>1, MonteCarloStarts
  <2> QED BY <1>3, <1>4, <2>1, <2>2, <2>4
<1>11. ASSUME NEW i \in DOMAIN core.trades, Shuffle(i) PROVE ShuffleInv'
  <2> DEFINE t == core.trades
             x == t[i].pnl
  <2>1. step = "shuffle" /\ i \in mc.left /\ UNCHANGED <<step, core, ends>>
    BY <1>11 DEF Shuffle
  <2>2. mc'.left = mc.left \ {i} /\ mc'.equity = mc.equity + x
    BY <1>11 DEF Shuffle
  <2>3. i \in 1..Len(t) /\ x \in Int
    BY <1>1, TradeOf
  <2>4. mc.equity \in Int /\ mc.equity + Sum(Rest(t, mc.left)) = Final(t)
    BY <1>2, <2>1 DEF Starts
  <2>5. x + Sum(Rest(t, mc.left \ {i})) = Sum(Rest(t, mc.left))
    BY <1>1, <2>1, <2>3, OneLessLeft
  <2>6. Sum(Rest(t, mc.left)) \in Int /\ Sum(Rest(t, mc.left \ {i})) \in Int
    BY <1>1, RestTyped, SumInt
  <2>7. mc'.equity \in Int /\ mc'.equity + Sum(Rest(t, mc'.left)) = Final(t)
    <3> HIDE DEF t, x
    <3> QED BY <2>2, <2>3, <2>4, <2>5, <2>6
  <2>8. Starts(step', mc', core'.trades)
    BY <2>1, <2>7 DEF Starts
  <2> QED BY <1>2, <1>4, <2>1, <2>8
<1>12. CASE ShuffleDone
  <2> DEFINE t == core.trades
  <2>1. step = "shuffle" /\ mc.left = {} /\ ends' = Append(ends, mc.equity) /\ UNCHANGED core
    BY <1>12 DEF ShuffleDone
  <2>2. mc.equity \in Int /\ mc.equity + Sum(Rest(t, {})) = Final(t)
    BY <1>2, <2>1 DEF Starts
  <2>3. mc.equity = Final(t)
    BY <1>1, <2>2, NoneIsLeft
  <2>4. Same(ends', t)
    <3> HIDE DEF t
    <3>1. ends \in Seq(Int) /\ \A i \in 1..Len(ends) : ends[i] = Final(t)
      BY <1>2 DEF Same, t
    <3>2. ends' \in Seq(Int) /\ Len(ends') = Len(ends) + 1 /\ ends'[Len(ends) + 1] = Final(t)
      BY <2>1, <2>2, <2>3, <3>1
    <3>3. \A i \in 1..Len(ends) : ends'[i] = ends[i]
      BY <2>1, <3>1
    <3>4. \A i \in 1..Len(ends) + 1 : i = Len(ends) + 1 \/ i \in 1..Len(ends)
      BY <3>1
    <3> QED BY <3>1, <3>2, <3>3, <3>4 DEF Same
  <2>5. /\ step' \in {"shuffle", "next", "done"}
        /\ step' = "shuffle" => mc' = [NoShuffle EXCEPT !.left = DOMAIN core.trades]
    BY <1>12, <2>1 DEF ShuffleDone, Report
  <2>6. Starts(step', mc', t)
    <3>1. CASE step' = "shuffle"
      BY <1>1, <2>5, <3>1, StartsOver
    <3>2. CASE step' # "shuffle"
      BY <3>2 DEF Starts
    <3> QED BY <3>1, <3>2
  <2> QED BY <1>4, <2>1, <2>4, <2>5, <2>6
<1>14. CASE MonteCarloFails
  <2>1. core' = core /\ ends' = <<>> /\ step' \in {"next", "done"}
    BY <1>14 DEF MonteCarloFails, Report
  <2> QED BY <1>3, <1>4, <2>1 DEF Starts
<1>13. CASE Terminated \/ UNCHANGED vars
  <2>1. UNCHANGED <<step, mc, core, ends>>
    BY <1>13 DEF Terminated, vars
  <2> QED BY <1>2, <1>4, <2>1 DEF ShuffleInv
<1> QED BY <1>5, <1>6, <1>7, <1>8, <1>9, <1>10, <1>11, <1>12, <1>13, <1>14 DEF Next

(* Equal final equities are all a profit, or none of them is.               *)
LEMMA NoMargin ==
    ASSUME NEW finals \in Seq(Int), finals # <<>>, NEW x \in Int,
           \A i \in 1..Len(finals) : finals[i] = x
    PROVE  MonteCarloVerdict(finals) # "MARGINAL"
<1> DEFINE n == Len(finals)
           won == {i \in DOMAIN finals : finals[i] > Initial}
           ruined == {i \in DOMAIN finals : 10 * finals[i] < Initial}
           profit == 100 * Cardinality(won)
           ruin == 100 * Cardinality(ruined)
<1>1. n \in Nat \ {0} /\ DOMAIN finals = 1..n /\ Initial \in Nat \ {0}
  BY Constants
<1>2. MonteCarloVerdict(finals)
      = IF profit >= 65 * n /\ ruin <= 5 * n THEN "GO"
        ELSE IF ruin > 20 * n \/ profit < 50 * n THEN "NO-GO" ELSE "MARGINAL"
  BY DEF MonteCarloVerdict
<1>3. Cardinality(1..n) = n /\ Cardinality({}) = 0
  BY <1>1, FS_Interval, FS_EmptySet
<1> HIDE DEF n
<1>4. CASE x > Initial
  <2>1. won = 1..n /\ ruined = {}
    BY <1>1, <1>4 DEF n
  <2> HIDE DEF won, ruined
  <2>2. profit = 100 * n /\ ruin = 0
    BY <1>3, <2>1
  <2> HIDE DEF profit, ruin
  <2>3. MonteCarloVerdict(finals) = "GO"
    BY <1>1, <1>2, <2>2
  <2> QED BY <2>3
<1>5. CASE ~(x > Initial)
  <2>1. won = {}
    BY <1>1, <1>5 DEF n
  <2> HIDE DEF won
  <2>2. profit = 0
    BY <1>3, <2>1
  <2> HIDE DEF profit, ruin
  <2>3. ~(profit >= 65 * n) /\ profit < 50 * n
    BY <1>1, <2>2
  <2> QED BY <1>2, <2>3
<1> QED BY <1>4, <1>5

(* Every shuffled order ends at the final bankroll of the backtest, and the *)
(* verdict is never that of the margin.                                     *)
THEOREM BacktestShufflesAgree == Spec => []ShufflesAgree
<1> DEFINE Inv == Balanced(run) /\ CoreInv /\ ShuffleInv
<1>1. Init => Inv
  <2> SUFFICES ASSUME Init PROVE Inv
    OBVIOUS
  <2>1. Balanced(run) /\ CoreInv
    BY NoRunBalanced, NoCoreKept, Zenon DEF Init, CoreInv, Final
  <2>2. ShuffleInv
    BY DEF Init, ShuffleInv
  <2> QED BY <2>1, <2>2
<1>2. Inv /\ [Next]_vars => Inv'
  BY RunBalanced, CoreKept, ShuffleKept
<1>3. Inv => ShufflesAgree
  <2> SUFFICES ASSUME CoreInv, ShuffleInv PROVE ShufflesAgree
    OBVIOUS
  <2>1. core.trades \in Seq(Trade) /\ core.metrics.final = Final(core.trades)
    BY DEF CoreInv, Metrics, Final
  <2>2. ends \in Seq(Int) /\ \A i \in 1..Len(ends) : ends[i] = Final(core.trades)
    BY DEF ShuffleInv
  <2>3. Final(core.trades) \in Int
    BY <2>1, FinalIsSum
  <2>4. DOMAIN ends = 1..Len(ends)
    BY <2>2
  <2>5. ends # <<>> => MonteCarloVerdict(ends) # "MARGINAL"
    BY <2>2, <2>3, NoMargin
  <2> QED BY <2>1, <2>2, <2>4, <2>5 DEF ShufflesAgree
<1> QED BY <1>1, <1>2, <1>3, PTL DEF Spec

-----------------------------------------------------------------------------
(* The seed: what a replay arrives at is a function of the bars drawn.      *)
After(r, bar) == IF Skipped(r, bar) THEN [r EXCEPT !.bar = @ + 1] ELSE Traded(r, Outcome(bar))

Replayed(d) ==
    LET replay[n \in 0..Len(d)] == IF n = 0 THEN NoRun ELSE After(replay[n - 1], d[n])
    IN replay

LEMMA ReplayedIs ==
    ASSUME NEW d \in Seq(Market)
    PROVE  /\ Replayed(d) \in [0..Len(d) -> Replays] /\ Replayed(d)[0] = NoRun
           /\ \A n \in 1..Len(d) : Replayed(d)[n] = After(Replayed(d)[n - 1], d[n])
<1> DEFINE N == Len(d)
           T == {r \in Replays : r.bankroll = Final(r.trades)}
           replay == CHOOSE replay :
             replay = [n \in 0..N |-> IF n = 0 THEN NoRun ELSE After(replay[n - 1], d[n])]
           grow == [n \in Nat |-> [x \in T |-> After(x, d[n])]]
<1>1. Replayed(d) = replay
  BY DEF Replayed
<1>2. N \in Nat /\ NoRun \in T
  BY NoRunBalanced DEF Balanced
<1>3. \A x \in T : \A bar : After(x, bar) \in T
  <2> SUFFICES ASSUME NEW x \in T, NEW bar PROVE After(x, bar) \in T
    OBVIOUS
  <2>1. Balanced(x)
    BY DEF Balanced
  <2>2. Balanced([x EXCEPT !.bar = @ + 1]) /\ Balanced(Traded(x, Outcome(bar)))
    BY <2>1, SkippedBalanced, TradedBalanced, OutcomeTyped
  <2>3. Balanced(After(x, bar))
    BY <2>2 DEF After
  <2> QED BY <2>3 DEF Balanced
<1>4. PICK f : Built(f, T, NoRun, grow, N)
  <2>1. grow \in [Nat -> [T -> T]]
    <3> HIDE DEF N, T
    <3> QED BY <1>3
  <2> HIDE DEF grow, N, T, replay
  <2> QED BY <1>2, <2>1, Recursion
<1>5. f \in [0..N -> T] /\ f[0] = NoRun
  <2> HIDE DEF grow, N, T
  <2> QED BY <1>4 DEF Built
<1>6. \A n \in 1..N : f[n] = After(f[n - 1], d[n])
  <2> SUFFICES ASSUME NEW n \in 1..N PROVE f[n] = After(f[n - 1], d[n])
    OBVIOUS
  <2> HIDE DEF N, T
  <2>1. f[n - 1] \in T /\ n \in Nat
    BY <1>2, <1>5
  <2>2. f[n] = grow[n][f[n - 1]]
    <3> HIDE DEF grow
    <3> QED BY <1>4 DEF Built
  <2> QED BY <2>1, <2>2
<1>7. f = [n \in 0..N |-> IF n = 0 THEN NoRun ELSE After(f[n - 1], d[n])]
  <2> HIDE DEF N, T
  <2> QED BY <1>2, <1>5, <1>6
<1>8. replay = [n \in 0..N |-> IF n = 0 THEN NoRun ELSE After(replay[n - 1], d[n])]
  BY <1>7, Zenon
<1> HIDE DEF replay, N
<1>9. replay[0] = NoRun /\ \A n \in 1..N : replay[n] = After(replay[n - 1], d[n])
  BY <1>2, <1>8
<1>10. \A n \in 0..N : replay[n] = f[n]
  <2>1. \A n \in 1..N : replay[n - 1] = f[n - 1] => replay[n] = f[n]
    BY <1>6, <1>9
  <2>2. N \in Nat /\ replay[0] = f[0]
    BY <1>2, <1>5, <1>9
  <2> QED BY <2>1, <2>2, StepByStep, Zenon
<1>11. replay \in [0..N -> Replays]
  <2>1. \A n \in 0..N : f[n] \in Replays
    BY <1>5
  <2> QED BY <1>8, <1>10, <2>1
<1> QED BY <1>1, <1>9, <1>11 DEF N

(* Another bar changes nothing of what was replayed before it.              *)
LEMMA ReplayedAppend ==
    ASSUME NEW d \in Seq(Market), NEW bar \in Market
    PROVE  /\ \A n \in 0..Len(d) : Replayed(Append(d, bar))[n] = Replayed(d)[n]
           /\ Replayed(Append(d, bar))[Len(d) + 1] = After(Replayed(d)[Len(d)], bar)
<1> DEFINE u == Append(d, bar)
           N == Len(d)
           f == Replayed(d)
           g == Replayed(u)
<1>1. /\ u \in Seq(Market) /\ N \in Nat /\ Len(u) = N + 1 /\ u[N + 1] = bar
      /\ \A n \in 1..N : u[n] = d[n]
  OBVIOUS
<1> HIDE DEF u, N
<1>2. f[0] = NoRun /\ \A n \in 1..N : f[n] = After(f[n - 1], d[n])
  BY ReplayedIs DEF N
<1>3. g[0] = NoRun /\ \A n \in 1..N + 1 : g[n] = After(g[n - 1], u[n])
  BY <1>1, ReplayedIs
<1> HIDE DEF f, g
<1>4. \A n \in 0..N : g[n] = f[n]
  <2>1. \A n \in 1..N : g[n - 1] = f[n - 1] => g[n] = f[n]
    <3>1. \A n \in 1..N : n \in 1..N + 1
      BY <1>1
    <3> QED BY <1>1, <1>2, <1>3, <3>1
  <2>2. N \in Nat /\ g[0] = f[0]
    BY <1>1, <1>2, <1>3
  <2> QED BY <2>1, <2>2, StepByStep, Zenon
<1>5. g[N + 1] = After(f[N], bar)
  <2>1. N + 1 \in 1..N + 1 /\ (N + 1) - 1 = N /\ N \in 0..N
    BY <1>1
  <2> QED BY <1>1, <1>3, <1>4, <2>1
<1> QED BY <1>4, <1>5 DEF u, N, f, g

(* The window every walk-forward window is.                                 *)
Whole(d) ==
    LET trades == Replayed(d)[Bars].trades
    IN [is |-> Metrics(trades), oos |-> Metrics(trades), trades |-> trades]

SeedInv ==
    /\ drawn \in Seq(Market) /\ Len(drawn) <= Bars
    /\ job.by # "records" => run.bar \in 0..Len(drawn) /\ run = Replayed(drawn)[run.bar]
    /\ job.by = "records" => step \in {"core", "done"} /\ ~job.wf /\ ~job.mc
    /\ step \notin {"core", "train", "test"} => run = NoRun
    /\ step = "core" => windows = <<>>
    /\ step = "test" => Len(drawn) = Bars /\ inSample = Whole(drawn).is
    /\ windows \in Seq({Whole(drawn)}) /\ (windows # <<>> => Len(drawn) = Bars)

LEMMA NoRunReplayed == \A d \in Seq(Market) : NoRun.bar \in 0..Len(d) /\ NoRun = Replayed(d)[NoRun.bar]
<1> SUFFICES ASSUME NEW d \in Seq(Market)
             PROVE  NoRun.bar \in 0..Len(d) /\ NoRun = Replayed(d)[NoRun.bar]
  OBVIOUS
<1>1. NoRun.bar = 0 /\ 0 \in 0..Len(d)
  BY DEF NoRun
<1> QED BY <1>1, ReplayedIs

LEMMA ReplaySeeded == SeedInv /\ Replay => SeedInv'
<1> SUFFICES ASSUME SeedInv, Replay PROVE SeedInv'
  OBVIOUS
<1> DEFINE n == run.bar
           f == Replayed(drawn)
<1>1. /\ step \in {"core", "train", "test"} /\ job.by # "records" /\ n < Bars
      /\ UNCHANGED <<job, step, core, inSample, windows>>
  BY DEF Replay
<1>2. /\ drawn \in Seq(Market) /\ Len(drawn) <= Bars /\ Len(drawn) \in Nat
      /\ n \in 0..Len(drawn) /\ run = f[n] /\ Bars \in Nat
  BY <1>1, BacktestAssumption DEF SeedInv, BacktestAssumption
<1>3. PICK bar \in Market :
        /\ IF n < Len(drawn) THEN bar = drawn[n + 1] /\ drawn' = drawn ELSE drawn' = Append(drawn, bar)
        /\ run' = After(run, bar)
  BY DEF Replay, After
<1>4. run'.bar = n + 1
  <2>1. run \in Replays
    BY <1>2, ReplayedIs
  <2>2. CASE Skipped(run, bar)
    BY <1>3, <2>1, <2>2 DEF After, Replays
  <2>3. CASE ~Skipped(run, bar)
    BY <1>3, <2>3 DEF After, Traded
  <2> QED BY <2>2, <2>3
<1>5. CASE n < Len(drawn)
  <2>1. bar = drawn[n + 1] /\ drawn' = drawn
    BY <1>3, <1>5
  <2>2. n + 1 \in 1..Len(drawn) /\ (n + 1) - 1 = n /\ n + 1 \in 0..Len(drawn)
    BY <1>2, <1>5
  <2>3. f[n + 1] = After(f[n], drawn[n + 1])
    <3>1. \A i \in 1..Len(drawn) : f[i] = After(f[i - 1], drawn[i])
      BY <1>2, ReplayedIs
    <3> HIDE DEF f, n
    <3> QED BY <2>2, <3>1
  <2>4. run' = Replayed(drawn)[n + 1]
    BY <1>2, <1>3, <2>1, <2>3
  <2> HIDE DEF n, f
  <2>5. run'.bar \in 0..Len(drawn') /\ run' = Replayed(drawn')[run'.bar]
    BY <1>4, <2>1, <2>2, <2>4
  <2> QED BY <1>1, <2>1, <2>5 DEF SeedInv
<1>6. CASE ~(n < Len(drawn))
  <2>1. n = Len(drawn) /\ drawn' = Append(drawn, bar)
    BY <1>2, <1>3, <1>6
  <2>2. drawn' \in Seq(Market) /\ Len(drawn') = n + 1 /\ n + 1 <= Bars /\ n \in Nat
    BY <1>1, <1>2, <2>1
  <2>3. Replayed(drawn')[n + 1] = After(f[n], bar)
    BY <1>2, <2>1, ReplayedAppend
  <2> HIDE DEF n, f
  <2>4. run'.bar \in 0..Len(drawn') /\ run' = Replayed(drawn')[run'.bar]
    BY <1>2, <1>3, <1>4, <2>2, <2>3
  <2>5. windows = <<>> /\ step # "test" /\ Len(drawn) # Bars
    BY <1>1, <1>2, <2>1 DEF SeedInv, n
  <2>6. windows' \in Seq({Whole(drawn')}) /\ windows' = <<>>
    BY <1>1, <2>5
  <2> QED BY <1>1, <2>2, <2>4, <2>5, <2>6 DEF SeedInv
<1> QED BY <1>5, <1>6

LEMMA MonteCarloEnds ==
    ASSUME NEW trades, NEW wf, MonteCarlo(trades, wf)
    PROVE  /\ drawn' = drawn /\ step' \in {"shuffle", "next", "done"}
           /\ job.by # "evaluator" /\ ~job.mc => step' = "done"
BY DEF MonteCarlo, Report

LEMMA SeedKept == SeedInv /\ [Next]_vars => SeedInv'
<1> SUFFICES ASSUME SeedInv, [Next]_vars PROVE SeedInv'
  OBVIOUS
<1>1. /\ drawn \in Seq(Market) /\ Len(drawn) <= Bars /\ Len(drawn) \in Nat /\ Bars \in Nat
      /\ <<>> \in Seq(Market) /\ Len(<<>>) = 0
  BY BacktestAssumption DEF SeedInv, BacktestAssumption
<1>2. CASE Replay
  BY <1>2, ReplaySeeded
<1>3. CASE ReplayRecord
  <2>1. /\ step = "core" /\ job.by = "records"
        /\ UNCHANGED <<job, step, drawn, core, inSample, windows>>
    BY <1>3 DEF ReplayRecord
  <2> QED BY <1>1, <2>1 DEF SeedInv
<1>4. CASE CoreDone
  <2>1. step = "core" /\ windows = <<>> /\ run' = NoRun /\ UNCHANGED <<job, windows>>
    BY <1>4 DEF CoreDone, Finished, SeedInv
  <2>2. \/ job.wf /\ step' = "train" /\ drawn' \in {<<>>, drawn}
        \/ MonteCarlo(run.trades, FALSE)
    BY <1>4 DEF CoreDone, AfterCore, Seeded
  <2>3. drawn' \in {<<>>, drawn} /\ step' \in {"train", "shuffle", "next", "done"}
    BY <2>2, MonteCarloEnds
  <2>4. drawn' \in Seq(Market) /\ Len(drawn') <= Bars
    <3>1. CASE drawn' = <<>>
      BY <1>1, <3>1
    <3>2. CASE drawn' = drawn
      BY <1>1, <3>2
    <3> QED BY <2>3, <3>1, <3>2
  <2>5. job.by = "records" => step' = "done" /\ ~job.wf /\ ~job.mc
    BY <2>2, MonteCarloEnds DEF SeedInv
  <2>6. run'.bar \in 0..Len(drawn') /\ run' = Replayed(drawn')[run'.bar]
    BY <2>1, <2>4, NoRunReplayed
  <2>7. windows' \in Seq({Whole(drawn')}) /\ windows' = <<>>
    BY <2>1
  <2> QED BY <2>1, <2>3, <2>4, <2>5, <2>6, <2>7 DEF SeedInv
<1>5. CASE CoreFails
  <2>1. /\ step = "core" /\ job.by # "records" /\ run.bar = 0 /\ step' = "failed"
        /\ UNCHANGED <<job, drawn, run, core, inSample, windows>>
    BY <1>5 DEF CoreFails
  <2>2. run = NoRun
    BY <1>1, <2>1, ReplayedIs DEF SeedInv
  <2> QED BY <2>1, <2>2 DEF SeedInv
<1>6. CASE NextPair
  <2>1. /\ step = "next" /\ step' = "core" /\ drawn' = <<>> /\ windows' = <<>>
        /\ UNCHANGED <<job, run>>
    BY <1>6 DEF NextPair
  <2>2. run = NoRun /\ job.by # "records"
    BY <2>1 DEF SeedInv
  <2>3. run'.bar \in 0..Len(drawn') /\ run' = Replayed(drawn')[run'.bar]
    BY <1>1, <2>1, <2>2, NoRunReplayed
  <2>4. windows' \in Seq({Whole(drawn')})
    BY <2>1
  <2> QED BY <1>1, <2>1, <2>2, <2>3, <2>4 DEF SeedInv
<1>7. ASSUME step \in {"train", "test"}, Finished(step)
      PROVE  /\ run' = NoRun /\ Len(drawn) = Bars /\ job.by # "records"
             /\ run = Replayed(drawn)[Bars] /\ Metrics(run.trades) = Whole(drawn).is
  <2>1. run' = NoRun /\ job.by # "records" /\ run.bar = Bars
    BY <1>7 DEF Finished, SeedInv
  <2>2. run.bar \in 0..Len(drawn) /\ run = Replayed(drawn)[run.bar]
    BY <2>1 DEF SeedInv
  <2>3. Len(drawn) = Bars
    BY <1>1, <2>1, <2>2
  <2> QED BY <2>1, <2>2, <2>3 DEF Whole
<1>8. CASE TrainDone
  <2>1. /\ step = "train" /\ Finished(step) /\ step' = "test" /\ inSample' = Metrics(run.trades)
        /\ drawn' = drawn /\ UNCHANGED <<job, windows>>
    BY <1>8 DEF TrainDone, Finished, Seeded
  <2>2. run' = NoRun /\ Len(drawn) = Bars /\ job.by # "records" /\ inSample' = Whole(drawn).is
    BY <1>7, <2>1
  <2>3. run'.bar \in 0..Len(drawn') /\ run' = Replayed(drawn')[run'.bar]
    BY <1>1, <2>1, <2>2, NoRunReplayed
  <2> QED BY <2>1, <2>2, <2>3 DEF SeedInv
<1>9. CASE TestDone
  <2> DEFINE window == [is |-> inSample, oos |-> Metrics(run.trades), trades |-> run.trades]
  <2>1. /\ step = "test" /\ Finished(step) /\ windows' = Append(windows, window) /\ job' = job
        /\ \/ step' = "train" /\ drawn' = drawn
           \/ MonteCarlo(core.trades, TRUE)
    BY <1>9 DEF TestDone, Finished, Seeded
  <2>2. /\ run' = NoRun /\ Len(drawn) = Bars /\ job.by # "records"
        /\ run = Replayed(drawn)[Bars] /\ Metrics(run.trades) = Whole(drawn).is
    BY <1>7, <2>1
  <2>3. drawn' = drawn /\ step' \in {"train", "shuffle", "next", "done"}
    BY <2>1, MonteCarloEnds
  <2>4. window = Whole(drawn)
    BY <2>1, <2>2 DEF SeedInv, Whole
  <2>5. windows' \in Seq({Whole(drawn)})
    <3> HIDE DEF window
    <3>1. windows \in Seq({Whole(drawn)})
      BY DEF SeedInv
    <3> QED BY <2>1, <2>4, <3>1
  <2>6. run'.bar \in 0..Len(drawn') /\ run' = Replayed(drawn')[run'.bar]
    BY <1>1, <2>2, <2>3, NoRunReplayed
  <2> QED BY <1>1, <2>1, <2>2, <2>3, <2>5, <2>6 DEF SeedInv
<1>10. CASE WalkForwardFails
  <2>1. /\ step \in {"train", "test"} /\ run' = NoRun /\ windows' = <<>> /\ job' = job
        /\ MonteCarlo(core.trades, FALSE)
    BY <1>10 DEF WalkForwardFails
  <2>2. drawn' = drawn /\ step' \in {"shuffle", "next", "done"} /\ job.by # "records"
    BY <2>1, MonteCarloEnds DEF SeedInv
  <2>3. run'.bar \in 0..Len(drawn') /\ run' = Replayed(drawn')[run'.bar]
    BY <1>1, <2>1, <2>2, NoRunReplayed
  <2>4. windows' \in Seq({Whole(drawn')})
    BY <2>1
  <2> QED BY <1>1, <2>1, <2>2, <2>3, <2>4 DEF SeedInv
<1>11. CASE (\E i \in DOMAIN core.trades : Shuffle(i)) \/ ShuffleDone \/ MonteCarloFails
  <2>1. step = "shuffle" /\ UNCHANGED <<job, drawn, run, windows>>
    BY <1>11 DEF Shuffle, ShuffleDone, MonteCarloFails, Report
  <2>2. step' \in {"shuffle", "next", "done"}
    BY <1>11, <2>1 DEF Shuffle, ShuffleDone, MonteCarloFails, Report
  <2>3. job.by # "records" /\ run = NoRun
    BY <2>1 DEF SeedInv
  <2> QED BY <2>1, <2>2, <2>3 DEF SeedInv
<1>12. CASE Terminated \/ UNCHANGED vars
  <2>1. UNCHANGED <<job, step, drawn, run, inSample, windows>>
    BY <1>12 DEF Terminated, vars
  <2> QED BY <2>1 DEF SeedInv
<1> QED BY <1>2, <1>3, <1>4, <1>5, <1>6, <1>8, <1>9, <1>10, <1>11, <1>12 DEF Next

-----------------------------------------------------------------------------
(* What equal windows add up to.                                            *)

LEMMA AllTradesIs ==
    ASSUME NEW w, NEW trades \in Seq(Trade), Len(w) \in Nat,
           \A n \in 1..Len(w) : w[n].trades = trades
    PROVE  \E f \in [0..Len(w) -> Seq(Trade)] :
             /\ f[0] = <<>> /\ \A n \in 1..Len(w) : f[n] = f[n - 1] \o trades
             /\ AllTrades(w) = f[Len(w)]
<1> DEFINE N == Len(w)
           T == Seq(Trade)
           joined == CHOOSE joined :
             joined = [n \in 0..N |-> IF n = 0 THEN <<>> ELSE joined[n - 1] \o w[n].trades]
           grow == [n \in Nat |-> [x \in T |-> x \o trades]]
<1>0. N \in Nat /\ \A n \in 1..N : w[n].trades = trades
  OBVIOUS
<1>1. AllTrades(w) = joined[N]
  BY DEF AllTrades
<1>2. <<>> \in T /\ grow \in [Nat -> [T -> T]]
  OBVIOUS
<1>3. PICK f : Built(f, T, <<>>, grow, N)
  <2> HIDE DEF grow, T, joined, N
  <2> QED BY <1>0, <1>2, Recursion
<1>4. f \in [0..N -> T] /\ f[0] = <<>>
  <2> HIDE DEF grow, T, N
  <2> QED BY <1>3 DEF Built
<1>5. \A n \in 1..N : f[n] = f[n - 1] \o trades
  <2> SUFFICES ASSUME NEW n \in 1..N PROVE f[n] = f[n - 1] \o trades
    OBVIOUS
  <2> HIDE DEF T, N
  <2>1. f[n - 1] \in T /\ n \in Nat
    BY <1>0, <1>4
  <2>2. f[n] = grow[n][f[n - 1]]
    <3> HIDE DEF grow
    <3> QED BY <1>3 DEF Built
  <2> QED BY <2>1, <2>2
<1> HIDE DEF T, N
<1>6. f = [n \in 0..N |-> IF n = 0 THEN <<>> ELSE f[n - 1] \o w[n].trades]
  <2>1. \A n \in 0..N : f[n] = IF n = 0 THEN <<>> ELSE f[n - 1] \o w[n].trades
    <3> SUFFICES ASSUME NEW n \in 0..N, n # 0 PROVE f[n] = f[n - 1] \o w[n].trades
      BY <1>4
    <3>1. n \in 1..N
      BY <1>0
    <3> QED BY <1>0, <1>5, <3>1
  <2> QED BY <1>4, <2>1
<1>7. joined = [n \in 0..N |-> IF n = 0 THEN <<>> ELSE joined[n - 1] \o w[n].trades]
  BY <1>6, Zenon
<1> HIDE DEF joined
<1>8. \A n \in 0..N : joined[n] = f[n]
  <2>1. \A n \in 1..N : joined[n] = joined[n - 1] \o trades
    <3> SUFFICES ASSUME NEW n \in 1..N PROVE joined[n] = joined[n - 1] \o trades
      OBVIOUS
    <3>1. n \in 0..N /\ n # 0 /\ w[n].trades = trades
      BY <1>0
    <3> QED BY <1>7, <3>1
  <2>2. \A n \in 1..N : joined[n - 1] = f[n - 1] => joined[n] = f[n]
    BY <1>5, <2>1
  <2>3. N \in Nat /\ joined[0] = f[0]
    <3>1. 0 \in 0..N
      BY <1>0
    <3> QED BY <1>0, <1>4, <1>7, <3>1
  <2> QED BY <2>2, <2>3, StepByStep, Zenon
<1>9. AllTrades(w) = f[N]
  BY <1>0, <1>1, <1>8
<1> QED BY <1>4, <1>5, <1>9 DEF T, N

Counted(x, o) == IF x.outcome = o THEN x.pnl ELSE 0
GrossOf(v, t, o) ==
    /\ v \in Seq(Int) /\ Len(v) = Len(t) /\ Gross(t, o) = Sum(v)
    /\ \A n \in 1..Len(t) : v[n] = Counted(t[n], o)

LEMMA GrossIs ==
    ASSUME NEW t \in Seq(Trade), NEW o
    PROVE  \E v : GrossOf(v, t, o)
<1> DEFINE v == [n \in 1..Len(t) |-> IF t[n].outcome = o THEN t[n].pnl ELSE 0]
<1>1. Len(t) \in Nat /\ DOMAIN t = 1..Len(t) /\ \A n \in 1..Len(t) : t[n].pnl \in Int
  BY TradeOf
<1>2. Gross(t, o) = Sum(v)
  BY <1>1 DEF Gross
<1>3. v \in Seq(Int) /\ Len(v) = Len(t)
  BY <1>1
<1>4. \A n \in 1..Len(t) : v[n] = Counted(t[n], o)
  BY DEF Counted
<1> HIDE DEF v
<1>5. GrossOf(v, t, o)
  BY <1>2, <1>3, <1>4 DEF GrossOf
<1> QED BY <1>5

LEMMA GrossInt == \A t \in Seq(Trade) : \A o : Gross(t, o) \in Int
BY GrossIs, SumInt DEF GrossOf

LEMMA GrossConcat ==
    ASSUME NEW p \in Seq(Trade), NEW q \in Seq(Trade), NEW o
    PROVE  Gross(p \o q, o) = Gross(p, o) + Gross(q, o)
<1> DEFINE u == p \o q
<1>1. /\ u \in Seq(Trade) /\ Len(u) = Len(p) + Len(q) /\ Len(p) \in Nat /\ Len(q) \in Nat
      /\ \A n \in 1..Len(u) : u[n] = IF n <= Len(p) THEN p[n] ELSE q[n - Len(p)]
  OBVIOUS
<1> HIDE DEF u
<1>2. PICK v : GrossOf(v, u, o)
  BY <1>1, GrossIs
<1>3. PICK a : GrossOf(a, p, o)
  BY GrossIs
<1>4. PICK b : GrossOf(b, q, o)
  BY GrossIs
<1> DEFINE w == a \o b
<1>5. /\ w \in Seq(Int) /\ Len(w) = Len(u)
      /\ \A n \in 1..Len(u) : w[n] = IF n <= Len(p) THEN a[n] ELSE b[n - Len(p)]
  <2>1. /\ w \in Seq(Int) /\ Len(w) = Len(a) + Len(b)
        /\ \A n \in 1..Len(a) + Len(b) : w[n] = IF n <= Len(a) THEN a[n] ELSE b[n - Len(a)]
    <3>1. a \in Seq(Int) /\ b \in Seq(Int)
      BY <1>3, <1>4 DEF GrossOf
    <3> QED BY <3>1, ConcatProperties, Zenon
  <2> HIDE DEF w
  <2> QED BY <1>1, <1>3, <1>4, <2>1 DEF GrossOf
<1>6. Sum(w) = Sum(a) + Sum(b)
  BY <1>3, <1>4, SumConcat DEF GrossOf
<1> HIDE DEF w
<1>7. ASSUME NEW n \in 1..Len(u) PROVE v[n] = w[n]
  <2>1. CASE n <= Len(p)
    <3>1. n \in 1..Len(p)
      BY <1>1, <2>1
    <3> QED BY <1>1, <1>2, <1>3, <1>5, <2>1, <3>1 DEF GrossOf
  <2>2. CASE ~(n <= Len(p))
    <3>1. n - Len(p) \in 1..Len(q)
      BY <1>1, <2>2
    <3> QED BY <1>1, <1>2, <1>4, <1>5, <2>2, <3>1 DEF GrossOf
  <2> QED BY <2>1, <2>2
<1>8. v = w
  BY <1>2, <1>5, <1>7, SeqEqual DEF GrossOf
<1> QED BY <1>2, <1>3, <1>4, <1>6, <1>8 DEF GrossOf, u

LEMMA GrossOfAll ==
    ASSUME NEW w, NEW trades \in Seq(Trade), NEW o, Len(w) \in Nat,
           \A n \in 1..Len(w) : w[n].trades = trades
    PROVE  Gross(AllTrades(w), o) = Len(w) * Gross(trades, o)
<1> DEFINE s == Gross(trades, o)
           N == Len(w)
<1>1. N \in Nat /\ s \in Int
  BY GrossInt
<1>2. PICK f \in [0..N -> Seq(Trade)] :
        /\ f[0] = <<>> /\ \A n \in 1..N : f[n] = f[n - 1] \o trades
        /\ AllTrades(w) = f[N]
  BY AllTradesIs
<1> HIDE DEF s, N
<1> DEFINE S == {n \in Nat : n <= N => Gross(f[n], o) = n * s}
<1>3. 0 \in S
  <2>1. Gross(<<>>, o) = Sum(<<>>)
    BY DEF Gross
  <2> QED BY <1>1, <1>2, <2>1, SumOfNothing
<1>4. ASSUME NEW n \in Nat, n \in S PROVE n + 1 \in S
  <2> SUFFICES ASSUME n + 1 <= N PROVE Gross(f[n + 1], o) = (n + 1) * s
    OBVIOUS
  <2>1. n + 1 \in 1..N /\ (n + 1) - 1 = n /\ n \in 0..N
    BY <1>1
  <2>2. f[n + 1] = f[n] \o trades /\ f[n] \in Seq(Trade)
    BY <1>2, <2>1
  <2>3. Gross(f[n + 1], o) = Gross(f[n], o) + s
    BY <2>2, GrossConcat DEF s
  <2>4. Gross(f[n], o) = n * s
    BY <1>4, <2>1
  <2>5. (n + 1) * s = n * s + s
    BY <1>1
  <2> QED BY <2>3, <2>4, <2>5
<1>5. Nat \subseteq S
  <2> HIDE DEF S
  <2> QED BY <1>3, <1>4, AllNumbers
<1> QED BY <1>1, <1>2, <1>5 DEF s, N

LEMMA AggregatedIs ==
    ASSUME NEW w, NEW trades \in Seq(Trade), Len(w) \in Nat,
           \A n \in 1..Len(w) : w[n].trades = trades
    PROVE  Aggregated(w).pnl = Len(w) * Metrics(trades).pnl
<1> DEFINE won == Gross(trades, "WIN")
           lost == Gross(trades, "LOSS")
<1>1. won \in Int /\ lost \in Int
  BY GrossInt
<1>2. Aggregated(w).pnl = Len(w) * won - Size(Len(w) * lost)
  BY GrossOfAll DEF Aggregated, Metrics, TotalPnl
<1>3. Metrics(trades).pnl = won - Size(lost)
  BY DEF Metrics, TotalPnl
<1> HIDE DEF won, lost
<1>4. Size(Len(w) * lost) = Len(w) * Size(lost) /\ Size(lost) \in Int
  <2>1. \A n \in Nat, x \in Int : Size(n * x) = n * Size(x)
    <3> SUFFICES ASSUME NEW n \in Nat, NEW x \in Int PROVE Size(n * x) = n * Size(x)
      OBVIOUS
    <3>1. CASE x < 0
      <4>1. n * x \in Int /\ n * x <= 0 /\ n * (-x) = -(n * x)
        BY <3>1
      <4> QED BY <3>1, <4>1 DEF Size
    <3>2. CASE ~(x < 0)
      <4>1. n * x \in Nat
        BY <3>2
      <4> QED BY <3>2, <4>1 DEF Size
    <3> QED BY <3>1, <3>2
  <2> QED BY <1>1, <2>1 DEF Size
<1>5. \A n \in Nat, x, y \in Int : n * x - n * y = n * (x - y)
  OBVIOUS
<1> QED BY <1>1, <1>2, <1>3, <1>4, <1>5

(* The Sharpe ratio is a number, whatever its deviation.                    *)
LEMMA RootNat == \A x : Root(x) \in Nat
<1> SUFFICES ASSUME NEW x PROVE Root(x) \in Nat
  OBVIOUS
<1> DEFINE N == Len(Digits)
           With(k, digit) == IF (k + digit) * (k + digit) <= x THEN k + digit ELSE k
           root == CHOOSE root :
             root = [n \in 0..N |-> IF n = 0 THEN 0 ELSE With(root[n - 1], Digits[n])]
           grow == [n \in Nat |-> [k \in Nat |-> IF n \in 1..N THEN With(k, Digits[n]) ELSE 0]]
<1>1. Root(x) = root[N]
  BY DEF Root
<1>2. Digits \in Seq(Nat)
  BY DEF Digits
<1>3. N \in Nat /\ \A n \in 1..N : Digits[n] \in Nat
  BY <1>2
<1>4. \A k \in Nat, n \in 1..N : With(k, Digits[n]) \in Nat
  <2> SUFFICES ASSUME NEW k \in Nat, NEW n \in 1..N PROVE With(k, Digits[n]) \in Nat
    OBVIOUS
  <2>1. Digits[n] \in Nat
    BY <1>3
  <2>2. k + Digits[n] \in Nat
    BY <2>1
  <2> QED BY <2>2
<1>5. PICK f : Built(f, Nat, 0, grow, N)
  <2>1. grow \in [Nat -> [Nat -> Nat]] /\ 0 \in Nat
    <3> HIDE DEF N, With
    <3> QED BY <1>4
  <2> HIDE DEF grow, N, root
  <2> QED BY <1>3, <2>1, Recursion
<1>6. f \in [0..N -> Nat] /\ f[0] = 0
  <2> HIDE DEF grow, N
  <2> QED BY <1>5 DEF Built
<1>7. \A n \in 1..N : f[n] = With(f[n - 1], Digits[n])
  <2> SUFFICES ASSUME NEW n \in 1..N PROVE f[n] = With(f[n - 1], Digits[n])
    OBVIOUS
  <2> HIDE DEF N, With
  <2>1. f[n - 1] \in Nat /\ n \in Nat
    BY <1>3, <1>6
  <2>2. f[n] = grow[n][f[n - 1]]
    <3> HIDE DEF grow
    <3> QED BY <1>5 DEF Built
  <2> QED BY <2>1, <2>2
<1>8. f = [n \in 0..N |-> IF n = 0 THEN 0 ELSE With(f[n - 1], Digits[n])]
  <2> HIDE DEF N, With
  <2> QED BY <1>3, <1>6, <1>7
<1>9. root = [n \in 0..N |-> IF n = 0 THEN 0 ELSE With(root[n - 1], Digits[n])]
  BY <1>8, Zenon
<1> HIDE DEF root, N, With
<1>10. \A n \in 0..N : root[n] = f[n]
  <2>1. \A n \in 1..N : root[n] = With(root[n - 1], Digits[n])
    BY <1>3, <1>9
  <2>2. \A n \in 1..N : root[n - 1] = f[n - 1] => root[n] = f[n]
    BY <1>7, <2>1
  <2>3. N \in Nat /\ root[0] = f[0]
    BY <1>3, <1>6, <1>9
  <2> QED BY <2>2, <2>3, StepByStep, Zenon
<1> QED BY <1>1, <1>3, <1>6, <1>10

LEMMA SharpeInt == \A trades : Sharpe(trades) \in Int
<1> SUFFICES ASSUME NEW trades PROVE Sharpe(trades) \in Int
  OBVIOUS
<1>1. \E x, stop, negative : Sharpe(trades) = IF stop THEN 0 ELSE IF negative THEN -Root(x) ELSE Root(x)
  BY DEF Sharpe
<1>2. PICK x, stop, negative :
        Sharpe(trades) = IF stop THEN 0 ELSE IF negative THEN -Root(x) ELSE Root(x)
  BY <1>1
<1>3. Root(x) \in Nat
  BY RootNat
<1> QED BY <1>2, <1>3

LEMMA RatioOfEqual ==
    ASSUME NEW w, w.is.sharpe = w.oos.sharpe, w.is.sharpe \in Int
    PROVE  Ratio(w) \in Int /\ 0 <= Ratio(w) /\ Ratio(w) <= 100
<1> DEFINE s == w.is.sharpe
<1>1. CASE s = 0
  <2>1. Ratio(w) = AtMost(100000 * 0, Windows * 99999)
    BY <1>1 DEF Ratio, Size
  <2>2. Windows * 99999 \in Nat
    BY BacktestAssumption, ProductNat DEF BacktestAssumption
  <2> QED BY <2>1, <2>2 DEF AtMost
<1>2. CASE s # 0
  <2>1. Size(s) \in Nat \ {0}
    BY <1>2 DEF Size
  <2>2. Ratio(w) = (100 * Size(s)) \div Size(s)
    BY <1>2 DEF Ratio
  <2>3. \A n \in Nat \ {0} : (100 * n) \div n = 100
    OBVIOUS
  <2> QED BY <2>1, <2>2, <2>3
<1> QED BY <1>1, <1>2

LEMMA EqualIsRobust ==
    ASSUME NEW x, NEW w \in Seq({x}), x.is.sharpe = x.oos.sharpe, x.is.sharpe \in Int
    PROVE  OverfittingVerdict(OverfittingScore(w)) = "ROBUST"
<1>1. CASE w = <<>>
  BY <1>1 DEF OverfittingScore, OverfittingVerdict
<1>2. CASE w # <<>>
  <2> DEFINE n == Len(w)
             ratios == [i \in DOMAIN w |-> Ratio(w[i])]
             mean == Sum(ratios) \div n
  <2>1. n \in Nat \ {0} /\ DOMAIN w = 1..n /\ \A i \in 1..n : w[i] = x
    BY <1>2
  <2>2. Ratio(x) \in Int /\ 0 <= Ratio(x) /\ Ratio(x) <= 100
    BY RatioOfEqual, Zenon
  <2>3. ratios \in Seq(Int) /\ Len(ratios) = n /\ \A i \in 1..n : 0 <= ratios[i] /\ ratios[i] <= 100
    <3> HIDE DEF n
    <3>1. \A i \in 1..n : Ratio(w[i]) = Ratio(x)
      BY <2>1
    <3>2. ratios = [i \in 1..n |-> Ratio(w[i])]
      BY <2>1
    <3>3. \A i \in 1..n : Ratio(w[i]) \in Int /\ 0 <= Ratio(w[i]) /\ Ratio(w[i]) <= 100
      BY <2>2, <3>1, Zenon
    <3> HIDE DEF ratios
    <3>4. ratios \in Seq(Int) /\ Len(ratios) = n
      BY <2>1, <3>2, <3>3
    <3>5. \A i \in 1..n : ratios[i] = Ratio(w[i])
      BY <3>2
    <3> QED BY <3>3, <3>4, <3>5
  <2>4. OverfittingScore(w) = AtMost(mean, 99999)
    BY <1>2 DEF OverfittingScore
  <2> HIDE DEF n, ratios
  <2>5. 0 <= Sum(ratios) /\ Sum(ratios) <= 100 * n /\ Sum(ratios) \in Int
    BY <2>3, SumBounded, SumInt
  <2>6. \A a \in Int, b \in Nat \ {0} : 0 <= a /\ a <= 100 * b => a \div b \in 0..100
    OBVIOUS
  <2>7. mean \in 0..100
    BY <2>1, <2>5, <2>6
  <2> HIDE DEF mean
  <2> QED BY <2>4, <2>7 DEF AtMost, OverfittingVerdict
<1> QED BY <1>1, <1>2

(* Walk-forward compares a market with itself.                              *)
THEOREM BacktestOutOfSampleRepeats == Spec => []OutOfSampleRepeats
<1>1. Init => SeedInv
  <2> SUFFICES ASSUME Init PROVE SeedInv
    OBVIOUS
  <2>1. /\ step = "core" /\ drawn = <<>> /\ run = NoRun /\ windows = <<>> /\ Bars \in Nat
        /\ job.by = "records" => ~job.wf /\ ~job.mc
    BY BacktestAssumption DEF Init, Jobs, BacktestAssumption
  <2>2. drawn \in Seq(Market) /\ Len(drawn) = 0
    BY <2>1
  <2>3. run.bar \in 0..Len(drawn) /\ run = Replayed(drawn)[run.bar]
    BY <2>1, <2>2, NoRunReplayed
  <2> QED BY <2>1, <2>2, <2>3 DEF SeedInv
<1>2. SeedInv => OutOfSampleRepeats
  <2> SUFFICES ASSUME SeedInv PROVE OutOfSampleRepeats
    OBVIOUS
  <2> DEFINE x == Whole(drawn)
             N == Len(windows)
  <2>1. windows \in Seq({x}) /\ N \in Nat /\ DOMAIN windows = 1..N /\ \A i \in 1..N : windows[i] = x
    BY DEF SeedInv
  <2>2. x.is = Metrics(x.trades) /\ x.oos = Metrics(x.trades)
    BY DEF Whole
  <2>3. x.is.sharpe = x.oos.sharpe /\ x.is.sharpe \in Int
    BY <2>2, SharpeInt DEF Metrics
  <2>4. ASSUME windows # <<>> PROVE Aggregated(windows).pnl = N * windows[1].oos.pnl
    <3>1. x.trades \in Seq(Trade)
      <4>1. Len(drawn) = Bars /\ drawn \in Seq(Market) /\ Bars \in 0..Len(drawn)
        BY <2>4, BacktestAssumption DEF SeedInv, BacktestAssumption
      <4>2. Replayed(drawn)[Bars] \in Replays
        BY <4>1, ReplayedIs
      <4> QED BY <4>2 DEF Whole, Replays
    <3>2. windows[1] = x
      BY <2>1, <2>4
    <3> HIDE DEF x, N
    <3>3. Aggregated(windows).pnl = N * Metrics(x.trades).pnl
      BY <2>1, <3>1, AggregatedIs DEF N
    <3> QED BY <2>2, <3>2, <3>3
  <2> HIDE DEF x
  <2>5. OverfittingVerdict(OverfittingScore(windows)) = "ROBUST"
    BY <2>1, <2>3, EqualIsRobust
  <2>6. \A i, j \in DOMAIN windows : windows[i].is = windows[j].oos
    BY <2>1, <2>2
  <2> QED BY <2>4, <2>5, <2>6 DEF OutOfSampleRepeats
<1> QED BY <1>1, <1>2, SeedKept, PTL DEF Spec
=============================================================================
