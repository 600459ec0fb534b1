------------------------------ MODULE RiskGate ------------------------------
(***************************************************************************)
(* The risk gate in front of the ledger, for the bots of one asset:        *)
(* RiskManager.check_correlation and check_circuit_breaker, called by      *)
(* Executor.execute.  Both read the trades table, decide, and let the      *)
(* trade go; the market, the price and the size are looked up in between,  *)
(* and other bots and the resolver run meanwhile.                          *)
(*                                                                         *)
(* A placement and a resolution are one step here: what happens between    *)
(* their statements is the subject of module Ledger.  The checks before    *)
(* the correlation check (VPN, bankroll, window, elapsed time, drawdown)   *)
(* only refuse, like Refuse below, and decide nothing the properties see.  *)
(***************************************************************************)
EXTENDS Integers, Sequences, FiniteSets

CONSTANTS
  Bots,        \* the strategies that trade this asset
  Directions,  \* {"BUY_YES", "BUY_NO"}
  MaxPct,      \* max_unidirectional_exposure_pct, in percent
  MinOpen,     \* the 3 of "total_open >= 3"
  Losses,      \* circuit_breaker_consecutive_losses
  Cooldown,    \* circuit_breaker_cooldown_windows, in ticks of the clock
  MaxTrades,   \* bound: how many trades a behaviour may place
  MaxCrashes   \* bound: how many times the process may restart

ASSUME RiskAssumption ==
  /\ IsFiniteSet(Bots)
  /\ {MaxPct, MinOpen, MaxTrades, MaxCrashes} \subseteq Nat
  /\ Losses \in Nat \ {0} /\ Cooldown \in Nat \ {0}

(* No entry in _cb_cooldown.                                               *)
Off == -1

Decided == {"WIN", "LOSS", "VOID"}
Trade   == [bot: Bots, dir: Directions, out: {"open"} \cup Decided]
Pcs     == {"idle", "count", "outcomes", "place"}

VARIABLES
  trades,   \* the trades of this asset, in the order of their ids
  bot,      \* bot[b]: where task b is in execute, and the direction it wants
  cool,     \* cool[b]: ticks until resume_ts, or Off
  crashes,
  late,     \* history: late[b] trades were placed during b's current streak
  excess    \* history: excess[b] were placed during the current imbalance

vars == <<trades, bot, cool, crashes, late, excess>>

-----------------------------------------------------------------------------
(* What the queries return                                                 *)

(* get_recent_outcomes: the last n decided trades of b, by id, and whether *)
(* all of them lost.                                                       *)
DecidedBy(s, b) == {i \in DOMAIN s : s[i].bot = b /\ s[i].out \in Decided}
Recent(s, b) ==
  {i \in DecidedBy(s, b) :
     Cardinality({j \in DecidedBy(s, b) : j > i}) < Losses}
Streak(s, b) ==
  /\ Cardinality(DecidedBy(s, b)) >= Losses
  /\ \A i \in Recent(s, b) : s[i].out = "LOSS"

(* count_open_by_direction, over all bots of the asset.                    *)
OpenIn(s, d) ==
  Cardinality({i \in DOMAIN s : s[i].out = "open" /\ s[i].dir = d})
TotalOpen(s) == Cardinality({i \in DOMAIN s : s[i].out = "open"})
Lopsided(s) ==
  /\ TotalOpen(s) >= MinOpen
  /\ \E d \in Directions : 100 * OpenIn(s, d) > MaxPct * TotalOpen(s)

Init ==
  /\ trades = <<>>
  /\ bot = [b \in Bots |-> [pc |-> "idle", dir |-> "none"]]
  /\ cool = [b \in Bots |-> Off]
  /\ crashes = 0
  /\ late = [b \in Bots |-> 0]
  /\ excess = [b \in Bots |-> 0]

Goto(b, pc) == bot' = [bot EXCEPT ![b].pc = pc]

-----------------------------------------------------------------------------
(* A bot task                                                              *)

(* A signal that passed the checks before the correlation check.  A query  *)
(* that raises in one of the checks leads back to here, and changes        *)
(* nothing else.                                                           *)
Signal(b, d) ==
  /\ bot[b].pc = "idle"
  /\ bot' = [bot EXCEPT ![b] = [pc |-> "count", dir |-> d]]
  /\ UNCHANGED <<trades, cool, crashes, late, excess>>

(* Mutated: one-sided exposure is let pass as long as nothing opposes it.  *)
CountOpenBothSides(b) ==
  /\ bot[b].pc = "count"
  /\ IF \/ Lopsided(trades) /\ (\A d \in Directions : OpenIn(trades, d) > 0)
        \/ cool[b] > 0
     THEN Goto(b, "idle") /\ UNCHANGED cool
     ELSE Goto(b, "outcomes") /\ cool' = [cool EXCEPT ![b] = Off]
  /\ UNCHANGED <<trades, crashes, late, excess>>

(* Mutated: an expired cooldown lets the trade go without a look at the    *)
(* outcomes.                                                               *)
CountOpenForgiving(b) ==
  /\ bot[b].pc = "count"
  /\ IF Lopsided(trades) \/ cool[b] > 0
     THEN Goto(b, "idle") /\ UNCHANGED cool
     ELSE /\ Goto(b, IF cool[b] = 0 THEN "place" ELSE "outcomes")
          /\ cool' = [cool EXCEPT ![b] = Off]
  /\ UNCHANGED <<trades, crashes, late, excess>>

(* check_correlation, then the head of check_circuit_breaker: there is no  *)
(* await between the counts' arrival and the look at _cb_cooldown.  More   *)
(* than max_same_direction_per_asset open trades one way are only logged.  *)
CountOpen(b) ==
  /\ bot[b].pc = "count"
  /\ IF Lopsided(trades) \/ cool[b] > 0
     THEN Goto(b, "idle") /\ UNCHANGED cool
     ELSE Goto(b, "outcomes") /\ cool' = [cool EXCEPT ![b] = Off]
  /\ UNCHANGED <<trades, crashes, late, excess>>

(* The rest of check_circuit_breaker: a streak arms the cooldown.          *)
ReadOutcomes(b) ==
  /\ bot[b].pc = "outcomes"
  /\ IF Streak(trades, b)
     THEN Goto(b, "idle") /\ cool' = [cool EXCEPT ![b] = Cooldown]
     ELSE Goto(b, "place") /\ UNCHANGED cool
  /\ UNCHANGED <<trades, crashes, late, excess>>

(* No market, a price out of range, no balance, or a failed call.          *)
Refuse(b) ==
  /\ bot[b].pc = "place"
  /\ Goto(b, "idle")
  /\ UNCHANGED <<trades, cool, crashes, late, excess>>

(* How the history counters follow a change of the table to s, which is a  *)
(* placement by b if there is one.                                         *)
Follow(s, placer) ==
  /\ late' = [c \in Bots |->
                IF ~Streak(s, c) \/ ~Streak(trades, c) THEN 0
                ELSE IF placer = {c} THEN late[c] + 1 ELSE late[c]]
  /\ excess' = [c \in Bots |->
                  IF ~Lopsided(s) \/ ~Lopsided(trades) THEN 0
                  ELSE IF placer = {c} THEN excess[c] + 1 ELSE excess[c]]

(* reserve_and_insert_trade.                                               *)
Place(b) ==
  LET s == Append(trades, [bot |-> b, dir |-> bot[b].dir, out |-> "open"]) IN
  /\ bot[b].pc = "place"
  /\ Len(trades) < MaxTrades
  /\ trades' = s
  /\ Follow(s, {b})
  /\ Goto(b, "idle")
  /\ UNCHANGED <<cool, crashes>>

-----------------------------------------------------------------------------
(* The resolver, the clock and the process                                 *)

(* resolve_trade or move_to_dead_letter, in any order of the trades.       *)
Resolve(i, outcome) ==
  LET s == [trades EXCEPT ![i].out = outcome] IN
  /\ i \in DOMAIN trades
  /\ trades[i].out = "open"
  /\ trades' = s
  /\ Follow(s, {})
  /\ UNCHANGED <<bot, cool, crashes>>

(* Mutated: a cooldown goes on counting when it has expired or is not set. *)
TickBelowZero ==
  /\ cool' = [b \in Bots |-> cool[b] - 1]
  /\ UNCHANGED <<trades, bot, crashes, late, excess>>

Tick ==
  /\ \E b \in Bots : cool[b] > 0
  /\ cool' = [b \in Bots |-> IF cool[b] > 0 THEN cool[b] - 1 ELSE cool[b]]
  /\ UNCHANGED <<trades, bot, crashes, late, excess>>

(* The cooldowns are in memory only.                                       *)
Restart ==
  /\ crashes < MaxCrashes
  /\ crashes' = crashes + 1
  /\ bot' = [b \in Bots |-> [pc |-> "idle", dir |-> "none"]]
  /\ cool' = [b \in Bots |-> Off]
  /\ UNCHANGED <<trades, late, excess>>

Check(b) ==
  (\E d \in Directions : Signal(b, d)) \/ CountOpen(b) \/ ReadOutcomes(b)

Next ==
  \/ \E b \in Bots : Check(b) \/ Refuse(b) \/ Place(b)
  \/ \E i \in 1 .. MaxTrades, outcome \in Decided : Resolve(i, outcome)
  \/ Tick
  \/ Restart

Spec == Init /\ [][Next]_vars

(* Time passes, every bot keeps having a signal that gets as far as the    *)
(* gate, and every trade is decided.  The code owes a bot no signal: this  *)
(* is more than it promises, and what fails under it fails without it.     *)
Fairness ==
  /\ WF_vars(Tick)
  /\ \A b \in Bots : WF_vars(Check(b)) /\ WF_vars(Refuse(b) \/ Place(b))
  /\ \A i \in 1 .. MaxTrades :
       WF_vars(\E outcome \in Decided : Resolve(i, outcome))

FairSpec == Spec /\ Fairness

-----------------------------------------------------------------------------
(* Properties                                                              *)

(* Every row, program point and cooldown has its type.                     *)
TypeOK ==
  /\ trades \in Seq(Trade) /\ Len(trades) <= MaxTrades
  /\ bot \in [Bots -> [pc: Pcs, dir: Directions \cup {"none"}]]
  /\ \A b \in Bots : bot[b].pc # "idle" => bot[b].dir \in Directions
  /\ cool \in [Bots -> Off .. Cooldown]
  /\ crashes \in 0 .. MaxCrashes
  /\ late \in [Bots -> Nat] /\ excess \in [Bots -> Nat]

(* The breaker decides on outcomes read an await before the trade goes, so *)
(* a streak that completes meanwhile lets that trade through: one, and no  *)
(* second one while the streak lasts, cooldowns expired and restarts       *)
(* included.                                                               *)
StreakStopsBot == \A b \in Bots : late[b] <= 1

(* The bots of an asset check the same counts before any of them places.   *)
(* While open trades are out of balance each bot adds at most the one      *)
(* trade it had in flight.                                                 *)
ImbalanceStopsBots == \A b \in Bots : excess[b] <= 1

(* A bot that tripped its breaker places nothing until the cooldown is     *)
(* over or the process has lost it in a restart.                           *)
CooldownHolds ==
  [][\A b \in Bots :
       cool[b] > 0 =>
         ~ (Len(trades') > Len(trades) /\ trades'[Len(trades')].bot = b)]_vars

(* test_cooldown_expires: "After cooldown time passes, circuit breaker     *)
(* allows trading again."  Once tripped, the breaker lets a trade pass in  *)
(* the end.                                                                *)
BreakerReleases == \A b \in Bots : cool[b] # Off ~> bot[b].pc = "place"
=============================================================================
