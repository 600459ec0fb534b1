------------------------------ MODULE Backtest ------------------------------
(* The backtest pipeline (src/src/bot/backtest): the replay of a seeded     *)
(* synthetic market with the fee and sizing model of the engine, the        *)
(* metrics of its trades, walk-forward windows, Monte Carlo shuffles and    *)
(* the two callers: POST /backtest for one strategy, and the evaluator for  *)
(* all of them.  Nothing in it gives the event loop back: a step is a bar   *)
(* or a trade of one sequential computation.                                *)
(*                                                                          *)
(* Amounts are integers of a ten-thousandth of a USDC, and quotients are    *)
(* rounded down to it.  A bar is what the replay makes of a snapshot: the   *)
(* signal of the strategy and where the next price lies.                    *)
EXTENDS Integers, Sequences, FiniteSets

CONSTANTS Market,      \* bars the generator may draw
          Bars,        \* num_points - 1: the last bar has no next price
          Warmup,      \* _KELLY_WARMUP, 20
          Recent,      \* 50 outcomes the win rate is taken over
          Initial,     \* initial_bankroll
          Gas,         \* gas_per_trade
          Slippage,    \* slippage_bps, 50
          Commission,  \* commission_pct, in 1/100
          Accepted,    \* signals whose entry price entry_ok lets through
          Windows,     \* num_windows, 5
          Iterations,  \* mc_iterations, 1000
          Pairs        \* number of ACTIVE_BOTS

Skip == [signal |-> "SKIP", move |-> "none"]
Bar == {Skip} \cup [signal : {"BUY_YES", "BUY_NO"}, move : {"up", "same", "down"}]

ASSUME BacktestAssumption ==
    /\ Market \subseteq Bar
    /\ Bars \in Nat /\ Warmup \in Nat \ {0} /\ Recent \in Nat /\ Warmup <= Recent
    /\ Initial \in Nat \ {0} /\ Gas \in Nat /\ Slippage \in 0..9900
    /\ Commission \in 0..100 /\ Accepted \subseteq {"BUY_YES", "BUY_NO"}
    /\ Windows \in Nat \ {0, 1} /\ Iterations \in Nat \ {0} /\ Pairs \in Nat \ {0}

Unit == 10000

VARIABLES job,       \* the request: who made it and what it wants appended
          step,      \* "core", "train", "test", "shuffle", "next", "done" or "failed"
          drawn,     \* what the generator has produced since it was last seeded with 42
          run,       \* the replay at work
          core,      \* result of the core run: its trades and their metrics
          inSample,  \* metrics of the training run of the window at work
          windows,   \* walk-forward windows done
          mc,        \* the shuffle at work
          ends,      \* final equities of the shuffles done
          reports    \* of the pairs done: which analyses each one holds

vars == <<job, step, drawn, run, core, inSample, windows, mc, ends, reports>>

-----------------------------------------------------------------------------
(* Fees and sizes.                                                          *)

(* _apply_slippage on the entry price: an ask above 1 is an asset price,    *)
(* which every synthetic ask is, and counts as 0.50.                        *)
Entry == LET price == ((Unit \div 2) * (10000 + Slippage)) \div 10000
         IN IF price > 9990 THEN 9990 ELSE price

AtLeast(x, floor) == IF x < floor THEN floor ELSE x
AtMost(x, cap) == IF x > cap THEN cap ELSE x
Percent(n, amount) == (n * amount) \div 100
Dime == Unit \div 10

FixedBet(bankroll) == AtLeast(Percent(3, bankroll), Dime)

(* A third of w - (1 - w) * p / (1 - p) for k wins of n; between 1 % (or a  *)
(* dime, which may be the larger of the two) and 10 %.                      *)
KellyBet(bankroll, k, n) ==
    LET edge == Unit * k - n * Entry
    IN IF edge <= 0 THEN Percent(1, bankroll)
       ELSE AtLeast(AtMost((bankroll * edge) \div (3 * n * (Unit - Entry)), Percent(10, bankroll)),
                    AtLeast(Percent(1, bankroll), Dime))

Wins(outcomes) == Cardinality({i \in DOMAIN outcomes : outcomes[i] = "WIN"})
Wanted(bankroll, recent) ==
    IF Len(recent) >= Warmup THEN KellyBet(bankroll, Wins(recent), Len(recent))
    ELSE FixedBet(bankroll)
BetUnclamped(bankroll, recent) == Wanted(bankroll, recent)   \* mutant: more than there is
Bet(bankroll, recent) == AtMost(Wanted(bankroll, recent), bankroll)

(* _determine_outcome: a price that stands still loses on both sides.       *)
Outcome(bar) ==
    IF <<bar.signal, bar.move>> \in {<<"BUY_YES", "up">>, <<"BUY_NO", "down">>} THEN "WIN" ELSE "LOSS"

(* Commission is taken of the gross profit (1 - p) * bet / p.               *)
Pnl(outcome, bet) ==
    IF outcome = "WIN"
    THEN Percent(100 - Commission, ((Unit - Entry) * bet) \div Entry) - Gas
    ELSE -(bet + Gas)

-----------------------------------------------------------------------------
(* compute_metrics.                                                         *)

Sum(values) ==
    LET sum[n \in 0..Len(values)] == IF n = 0 THEN 0 ELSE sum[n - 1] + values[n]
    IN sum[Len(values)]
Size(x) == IF x < 0 THEN -x ELSE x

(* Gross profit, and gross loss without its sign.                           *)
Gross(trades, outcome) ==
    Sum([i \in DOMAIN trades |-> IF trades[i].outcome = outcome THEN trades[i].pnl ELSE 0])
TotalPnl(trades) == Gross(trades, "WIN") - Size(Gross(trades, "LOSS"))

(* The bankroll before the first trade and after each one.                  *)
EquityCurve(trades) ==
    LET equity[n \in 0..Len(trades)] ==
          IF n = 0 THEN Initial ELSE equity[n - 1] + trades[n].pnl
    IN equity

MaxDrawdown(trades) ==
    LET equity == EquityCurve(trades)
        Fallen(seen, e) == [peak |-> AtLeast(e, seen.peak),
                            dd |-> AtLeast(AtLeast(e, seen.peak) - e, seen.dd)]
        seen[n \in 0..Len(trades)] ==
          IF n = 0 THEN [peak |-> Initial, dd |-> 0] ELSE Fallen(seen[n - 1], equity[n])
    IN seen[Len(trades)].dd

Longer(seen) == [cur |-> seen.cur + 1, max |-> AtLeast(seen.cur + 1, seen.max)]
StreakNeverReset(trades, outcome) ==                    \* mutant: a win does not end it
    LET seen[n \in 0..Len(trades)] ==
          IF n = 0 THEN [cur |-> 0, max |-> 0]
          ELSE IF trades[n].outcome = outcome THEN Longer(seen[n - 1]) ELSE seen[n - 1]
    IN seen[Len(trades)].max
Streak(trades, outcome) ==
    LET seen[n \in 0..Len(trades)] ==
          IF n = 0 THEN [cur |-> 0, max |-> 0]
          ELSE IF trades[n].outcome = outcome THEN Longer(seen[n - 1])
          ELSE [seen[n - 1] EXCEPT !.cur = 0]
    IN seen[Len(trades)].max

(* Returns in tenths of the cost of a stake, the Sharpe ratio in tenths.    *)
Return(t) ==
    LET cost == (Entry * t.bet) \div Unit IN IF cost <= 0 THEN 0 ELSE (10 * t.pnl) \div cost

Digits == <<8192, 4096, 2048, 1024, 512, 256, 128, 64, 32, 16, 8, 4, 2, 1>>
Root(x) ==
    LET With(k, digit) == IF (k + digit) * (k + digit) <= x THEN k + digit ELSE k
        root[n \in 0..Len(Digits)] == IF n = 0 THEN 0 ELSE With(root[n - 1], Digits[n])
    IN root[Len(Digits)]

Sharpe(trades) ==
    LET n == Len(trades)
        returns == [i \in DOMAIN trades |-> Return(trades[i])]
        s == Sum(returns)
        deviation == n * Sum([i \in DOMAIN returns |-> returns[i] * returns[i]]) - s * s
        size == Root((((100 * s * s) \div n) * (n - 1)) \div deviation)
    IN IF n < 2 \/ deviation = 0 THEN 0 ELSE IF s < 0 THEN -size ELSE size

Metrics(trades) ==
    [total |-> Len(trades),
     wins |-> Wins([i \in DOMAIN trades |-> trades[i].outcome]),
     pnl |-> TotalPnl(trades), final |-> EquityCurve(trades)[Len(trades)],
     maxDrawdown |-> MaxDrawdown(trades), sharpe |-> Sharpe(trades),
     maxWins |-> Streak(trades, "WIN"), maxLosses |-> Streak(trades, "LOSS")]

-----------------------------------------------------------------------------
(* What the analyses conclude.                                              *)

(* compute_metrics of the trades of all windows.                            *)
AllTrades(w) ==
    LET all[n \in 0..Len(w)] == IF n = 0 THEN <<>> ELSE all[n - 1] \o w[n].trades
    IN all[Len(w)]
Aggregated(w) == Metrics(AllTrades(w))

(* _compute_overfitting_score in hundredths: a window without an            *)
(* out-of-sample ratio divides by the sentinel of 0.0001.                   *)
Ratio(w) ==
    IF w.oos.sharpe = 0 THEN AtMost(100000 * Size(w.is.sharpe), Windows * 99999)
    ELSE (100 * Size(w.is.sharpe)) \div Size(w.oos.sharpe)

OverfittingScore(w) ==
    IF w = <<>> THEN 0
    ELSE AtMost(Sum([i \in DOMAIN w |-> Ratio(w[i])]) \div Len(w), 99999)

OverfittingVerdict(score) ==
    IF score < 150 THEN "ROBUST" ELSE IF score < 200 THEN "ACCEPTABLE"
    ELSE IF score < 300 THEN "WARNING" ELSE "OVERFIT"

(* interpret_monte_carlo.                                                   *)
MonteCarloVerdict(finals) ==
    LET n == Len(finals)
        profit == 100 * Cardinality({i \in DOMAIN finals : finals[i] > Initial})
        ruin == 100 * Cardinality({i \in DOMAIN finals : 10 * finals[i] < Initial})
    IN IF profit >= 65 * n /\ ruin <= 5 * n THEN "GO"
       ELSE IF ruin > 20 * n \/ profit < 50 * n THEN "NO-GO"
       ELSE "MARGINAL"

-----------------------------------------------------------------------------
NoRun == [bar |-> 0, bankroll |-> Initial, recent |-> <<>>, trades |-> <<>>]
NoCore == [trades |-> <<>>, bankroll |-> Initial, metrics |-> Metrics(<<>>)]
NoShuffle == [left |-> {}, equity |-> Initial, peak |-> Initial, dd |-> 0]

Trade == [outcome : {"WIN", "LOSS"}, bet : Int, pnl : Int]

(* POST /backtest, the evaluator, and run_from_db, which takes resolved     *)
(* trades of the ledger instead of a market and stops at its result.        *)
Jobs == [by : {"api", "evaluator"}, wf : BOOLEAN, mc : BOOLEAN]
        \cup {[by |-> "records", wf |-> FALSE, mc |-> FALSE]}

TypeOK ==
    /\ job \in Jobs
    /\ step \in {"core", "train", "test", "shuffle", "next", "done", "failed"}
    /\ drawn \in Seq(Market) /\ Len(drawn) <= Bars
    /\ run \in [bar : 0..Bars, bankroll : Int, recent : Seq({"WIN", "LOSS"}), trades : Seq(Trade)]
    /\ Len(run.recent) <= Recent /\ Len(run.trades) <= run.bar
    /\ core.trades \in Seq(Trade) /\ core.bankroll \in Int
    /\ Len(windows) <= Windows
    /\ mc.left \subseteq DOMAIN core.trades /\ mc.equity <= mc.peak /\ mc.dd >= 0
    /\ Len(ends) <= Iterations
    /\ Len(reports) <= Pairs

Init ==
    /\ job \in Jobs
    /\ step = "core" /\ drawn = <<>> /\ run = NoRun /\ core = NoCore
    /\ inSample = Metrics(<<>>) /\ windows = <<>>
    /\ mc = NoShuffle /\ ends = <<>> /\ reports = <<>>

(* Every run seeds the generator with the same 42 and asks for the same     *)
(* number of points: it sees the bars of the run before, as far as they     *)
(* have been drawn, whatever dates its configuration names.                 *)
SeededWithNone == <<>>                                  \* mutant: each run draws afresh
Seeded == drawn

(* The evaluator asks for 2000 points in the core run; the windows always   *)
(* take the default of 1000, another market.                                *)
AfterCore == IF job.by = "evaluator" THEN <<>> ELSE Seeded

-----------------------------------------------------------------------------
(* _replay_snapshots, one bar; _simulate_from_db_records, one record.       *)
Traded(r, outcome) ==
    LET bet == Bet(r.bankroll, r.recent)
        pnl == Pnl(outcome, bet)
        recent == Append(r.recent, outcome)
    IN [bar |-> r.bar + 1, bankroll |-> r.bankroll + pnl,
        recent |-> IF Len(recent) > Recent THEN Tail(recent) ELSE recent,
        trades |-> Append(r.trades, [outcome |-> outcome, bet |-> bet, pnl |-> pnl])]

Skipped(r, bar) ==
    \/ bar.signal \notin Accepted
    \/ 100 * r.bankroll < Initial      \* critically low

Replay ==
    /\ step \in {"core", "train", "test"} /\ job.by # "records" /\ run.bar < Bars
    /\ \E bar \in Market :
         /\ IF run.bar < Len(drawn) THEN bar = drawn[run.bar + 1] /\ UNCHANGED drawn
            ELSE drawn' = Append(drawn, bar)
         /\ run' = IF Skipped(run, bar) THEN [run EXCEPT !.bar = @ + 1] ELSE Traded(run, Outcome(bar))
    /\ UNCHANGED <<job, step, core, inSample, windows, mc, ends, reports>>

(* A record brings its outcome, and whatever is no WIN, a VOID too, counts  *)
(* as a LOSS.  No bankroll is too low here.                                 *)
ReplayRecord ==
    /\ step = "core" /\ job.by = "records" /\ run.bar < Bars
    /\ \E outcome \in {"WIN", "LOSS", "VOID"} :
         run' = Traded(run, IF outcome = "WIN" THEN "WIN" ELSE "LOSS")
    /\ UNCHANGED <<job, step, drawn, core, inSample, windows, mc, ends, reports>>

Finished(s) == step = s /\ (run.bar = Bars \/ job.by = "records") /\ run' = NoRun

-----------------------------------------------------------------------------
(* _run_full_backtest and run_all.                                          *)

(* The report of a pair is complete.                                        *)
Report(wf, shuffled) ==
    /\ reports' = Append(reports, [wf |-> wf, mc |-> shuffled])
    /\ step' = IF job.by = "evaluator" /\ Len(reports) + 1 < Pairs THEN "next" ELSE "done"
    /\ UNCHANGED drawn

(* The evaluator takes the next pair, whose core run seeds the generator    *)
(* again, for another strategy.                                             *)
NextPair ==
    /\ step = "next" /\ step' = "core" /\ drawn' = <<>>
    /\ core' = NoCore /\ inSample' = Metrics(<<>>) /\ windows' = <<>> /\ ends' = <<>>
    /\ UNCHANGED <<job, run, mc, reports>>

(* The API shuffles whatever there is (fewer than two trades give a zeroed  *)
(* result); the evaluator leaves the analysis out then.                     *)
MonteCarlo(trades, wf) ==
    IF job.mc /\ Len(trades) >= 2
    THEN /\ step' = "shuffle" /\ mc' = [NoShuffle EXCEPT !.left = DOMAIN trades]
         /\ UNCHANGED <<drawn, reports>>
    ELSE /\ mc' = NoShuffle /\ Report(wf, job.mc /\ job.by = "api")

CoreDone ==
    /\ Finished("core")
    /\ core' = [trades |-> run.trades, bankroll |-> run.bankroll, metrics |-> Metrics(run.trades)]
    /\ IF job.wf THEN step' = "train" /\ drawn' = AfterCore /\ UNCHANGED <<mc, reports>>
       ELSE MonteCarlo(run.trades, FALSE)
    /\ UNCHANGED <<job, inSample, windows, ends>>

(* An exception of the core run, such as an unknown strategy, is the answer *)
(* to the request (400 or 500), and the reports of earlier pairs are lost.  *)
CoreFails ==
    /\ step = "core" /\ job.by # "records" /\ run.bar = 0
    /\ step' = "failed" /\ reports' = <<>>
    /\ UNCHANGED <<job, drawn, run, core, inSample, windows, mc, ends>>

TrainDone ==
    /\ Finished("train") /\ step' = "test" /\ inSample' = Metrics(run.trades)
    /\ drawn' = Seeded
    /\ UNCHANGED <<job, core, windows, mc, ends, reports>>

TestDone ==
    /\ Finished("test")
    /\ windows' = Append(windows, [is |-> inSample, oos |-> Metrics(run.trades), trades |-> run.trades])
    /\ IF Len(windows) + 1 < Windows
       THEN step' = "train" /\ drawn' = Seeded /\ UNCHANGED <<mc, reports>>
       ELSE MonteCarlo(core.trades, TRUE)
    /\ UNCHANGED <<job, core, inSample, ends>>

(* An exception inside the analysis is logged and leaves it out.            *)
WalkForwardFails ==
    /\ step \in {"train", "test"} /\ run.bar = 0
    /\ run' = NoRun /\ windows' = <<>> /\ MonteCarlo(core.trades, FALSE)
    /\ UNCHANGED <<job, core, inSample, ends>>

(* One trade of a shuffled order.                                           *)
ShuffleUntilRuin(i) ==                                  \* mutant: a ruined order is cut short
    /\ step = "shuffle" /\ i \in mc.left
    /\ mc' = LET equity == mc.equity + core.trades[i].pnl
             IN [mc EXCEPT !.left = IF 10 * equity < Initial THEN {} ELSE @ \ {i},
                           !.equity = equity, !.peak = AtLeast(equity, @)]
    /\ UNCHANGED <<job, step, drawn, run, core, inSample, windows, ends, reports>>
Shuffle(i) ==
    /\ step = "shuffle" /\ i \in mc.left
    /\ mc' = LET equity == mc.equity + core.trades[i].pnl
                 peak == AtLeast(equity, mc.peak)
             IN [left |-> mc.left \ {i}, equity |-> equity, peak |-> peak,
                 dd |-> AtLeast(peak - equity, mc.dd)]
    /\ UNCHANGED <<job, step, drawn, run, core, inSample, windows, ends, reports>>

ShuffleDone ==
    /\ step = "shuffle" /\ mc.left = {} /\ ends' = Append(ends, mc.equity)
    /\ IF Len(ends) + 1 < Iterations
       THEN /\ mc' = [NoShuffle EXCEPT !.left = DOMAIN core.trades]
            /\ UNCHANGED <<step, drawn, reports>>
       ELSE mc' = NoShuffle /\ Report(windows # <<>>, TRUE)
    /\ UNCHANGED <<job, run, core, inSample, windows>>

(* An exception inside the analysis is logged and leaves it out, too.       *)
MonteCarloFails ==
    /\ step = "shuffle" /\ mc' = NoShuffle /\ ends' = <<>> /\ Report(windows # <<>>, FALSE)
    /\ UNCHANGED <<job, run, core, inSample, windows>>

(* The computation has ended.                                               *)
Terminated == step \in {"done", "failed"} /\ UNCHANGED vars

Next ==
    \/ Replay \/ ReplayRecord \/ CoreDone \/ CoreFails \/ NextPair
    \/ TrainDone \/ TestDone \/ WalkForwardFails
    \/ (\E i \in DOMAIN core.trades : Shuffle(i)) \/ ShuffleDone \/ MonteCarloFails
    \/ Terminated

Spec == Init /\ [][Next]_vars

-----------------------------------------------------------------------------
(* Properties.                                                              *)

(* A replay of a market never owes more than the gas of one trade: the      *)
(* clamp, the floor of a dime and the limit of 1 % leave no longer way      *)
(* below zero.  (run_from_db has no such limit.)                            *)
DebtIsOneGas == job.by # "records" => run.bankroll >= -Gas

(* The metrics folded trade by trade are what their names say of the trade  *)
(* list: the deepest fall from any equity to a later one, the longest run   *)
(* of losses, and the bankroll the replay itself arrived at.                *)
MetricsMatch ==
    LET t == core.trades
        e == EquityCurve(t)
        falls == {p \in (0..Len(t)) \X (0..Len(t)) : p[1] <= p[2]}
        losing == {p \in (1..Len(t)) \X (1..Len(t)) :
                      p[1] <= p[2] /\ \A i \in p[1]..p[2] : t[i].outcome = "LOSS"}
    IN /\ core.metrics.final = core.bankroll
       /\ \A p \in falls : e[p[1]] - e[p[2]] <= core.metrics.maxDrawdown
       /\ \E p \in falls : e[p[1]] - e[p[2]] = core.metrics.maxDrawdown
       /\ \A p \in losing : p[2] - p[1] + 1 <= core.metrics.maxLosses
       /\ \/ core.metrics.maxLosses = 0
          \/ \E p \in losing : p[2] - p[1] + 1 = core.metrics.maxLosses

(* Walk-forward compares a market with itself: every out-of-sample result   *)
(* equals its in-sample one and those of all windows, the aggregate is one  *)
(* run counted once per window, and the score can only call it robust.      *)
OutOfSampleRepeats ==
    /\ \A i, j \in DOMAIN windows : windows[i].is = windows[j].oos
    /\ windows # <<>> => Aggregated(windows).pnl = Len(windows) * windows[1].oos.pnl
    /\ OverfittingVerdict(OverfittingScore(windows)) = "ROBUST"

(* The profits are kept when the trades are shuffled: every order ends at   *)
(* the final bankroll of the backtest, so the probabilities of profit and   *)
(* of ruin, taken of the final equities, are 0 or 1, and the verdict is     *)
(* never that of the margin.                                                *)
ShufflesAgree ==
    /\ \A i \in DOMAIN ends : ends[i] = core.metrics.final
    /\ ends # <<>> => MonteCarloVerdict(ends) # "MARGINAL"
=============================================================================
