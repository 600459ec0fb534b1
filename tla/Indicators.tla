----------------------------- MODULE Indicators -----------------------------
(* The arithmetic between a price history and a signal: the indicators of   *)
(* the live bots (feeds/rsi_feed.py, strategies/multi_tf.py, adaptive.py),  *)
(* those of the backtest (backtest/data_provider.py), and the strategies.   *)
(* Prices and volumes are integers and every quotient is compared by cross- *)
(* multiplication, so that nothing is rounded.                              *)
EXTENDS Integers, Sequences, FiniteSets

CONSTANTS EmaPeriod,    \* 5
          RsiPeriod,    \* 14
          BbPeriod,     \* 20
          LiveStd2,     \* square of std_mult, in 1/16: get_bollinger's default 2.0
          TestStd2      \* the same of BollingerConfig.bb_std, 1.5

ASSUME IndicatorAssumption ==
    /\ EmaPeriod \in Nat \ {0, 1} /\ RsiPeriod \in Nat \ {0}
    /\ BbPeriod \in Nat \ {0, 1} /\ LiveStd2 \in Nat /\ TestStd2 \in Nat
    \* The backtest's bands are the narrower ones, the sample's deviation included.
    /\ TestStd2 * BbPeriod <= LiveStd2 * (BbPeriod - 1)

Sum(s) ==
    LET upTo[n \in 0..Len(s)] == IF n = 0 THEN 0 ELSE upTo[n - 1] + s[n]
    IN upTo[Len(s)]
LastN(s, n) == SubSeq(s, Len(s) - n + 1, Len(s))
Abs(x) == IF x < 0 THEN -x ELSE x

-----------------------------------------------------------------------------
(* EMA of a series as <<numerator, denominator>>, seeded with its first     *)
(* value: each later one counts 2 / (period + 1).                           *)
Ema(s) ==
    LET Smoothed(e, v) == <<2 * v * e[2] + (EmaPeriod - 1) * e[1], (EmaPeriod + 1) * e[2]>>
        at[n \in 1..Len(s)] == IF n = 1 THEN <<s[1], 1>> ELSE Smoothed(at[n - 1], s[n])
    IN at[Len(s)]

(* _compute_trend: the slope of the EMA between the last two closes.        *)
Trend(closes) ==
    IF Len(closes) < EmaPeriod THEN "FLAT"
    ELSE LET e == Ema(closes)
             f == Ema(SubSeq(closes, 1, Len(closes) - 1))
             slope == e[1] * f[2] - f[1] * e[2]
         IN IF slope = 0 THEN "FLAT" ELSE IF slope > 0 THEN "UP" ELSE "DOWN"

(* is_confirmed: contradicted by the trend, once there are enough candles.  *)
Confirmed(closes, signal) ==
    \/ Len(closes) < EmaPeriod
    \/ /\ signal = "BUY_YES" => Trend(closes) # "DOWN"
       /\ signal = "BUY_NO" => Trend(closes) # "UP"

-----------------------------------------------------------------------------
(* RSI.  What the bots and the backtest do with it turns on the side of 50  *)
(* it is on: on the gains and losses of the last RsiPeriod changes.         *)
Changes(closes) == [i \in 1..Len(closes) - 1 |-> closes[i + 1] - closes[i]]
Positive(changes) == [i \in DOMAIN changes |-> IF changes[i] > 0 THEN changes[i] ELSE 0]
Negative(changes) == [i \in DOMAIN changes |-> IF changes[i] < 0 THEN -changes[i] ELSE 0]
Gain(closes) == Sum(Positive(LastN(Changes(closes), RsiPeriod)))
Loss(closes) == Sum(Negative(LastN(Changes(closes), RsiPeriod)))

Side(gain, loss) == IF gain > loss THEN "above" ELSE IF gain < loss THEN "below" ELSE "at"

(* get_rsi returns 100 when nothing fell, a market that stood still         *)
(* included; generate_rsi puts a tiny loss there and is at 50 then.         *)
LiveRsi(closes) ==
    IF Len(closes) < RsiPeriod + 1 THEN "none"
    ELSE IF Loss(closes) = 0 THEN "above" ELSE Side(Gain(closes), Loss(closes))
TestRsi(closes) ==
    IF Len(closes) < RsiPeriod + 1 THEN "none" ELSE Side(Gain(closes), Loss(closes))

-----------------------------------------------------------------------------
(* Bollinger bands of the last BbPeriod closes.  Price is beyond a band     *)
(* when its distance from the mean exceeds so many standard deviations.     *)
Spread(w) == BbPeriod * Sum([i \in 1..BbPeriod |-> w[i] * w[i]]) - Sum(w) * Sum(w)
Dist(price, w) == BbPeriod * price - Sum(w)
Breakout(d, beyond) ==
    IF ~beyond THEN "SKIP" ELSE IF d > 0 THEN "BUY_YES" ELSE IF d < 0 THEN "BUY_NO" ELSE "SKIP"

LiveBandsOfMean(closes, price) ==                       \* mutant: the bands of one side only
    IF Len(closes) < BbPeriod THEN "SKIP" ELSE Breakout(1, Dist(price, LastN(closes, BbPeriod)) # 0)
(* The live bands take the deviation of the population ...                  *)
LiveBands(closes, price) ==
    IF Len(closes) < BbPeriod THEN "SKIP"
    ELSE LET w == LastN(closes, BbPeriod)
             d == Dist(price, w)
         IN Breakout(d, 16 * d * d > LiveStd2 * Spread(w))

(* ... and the backtest's, that of the sample.                              *)
TestBands(closes, price) ==
    IF Len(closes) < BbPeriod THEN "SKIP"
    ELSE LET w == LastN(closes, BbPeriod)
             d == Dist(price, w)
         IN Breakout(d, 16 * (BbPeriod - 1) * d * d > TestStd2 * BbPeriod * Spread(w))

-----------------------------------------------------------------------------
(* The 75th percentile of a sequence of samples, times 4: numpy puts it     *)
(* between the two samples around position 3(n - 1) / 4 of the sorted ones. *)
PercentileUnsorted(samples) ==                          \* mutant: in order of arrival
    LET at == 3 * (Len(samples) - 1) IN 4 * samples[at \div 4 + 1].v
Ranked(samples, k) ==                                   \* the k-th of the sorted samples
    LET values == {samples[i].v : i \in DOMAIN samples}
        UpTo(v) == Cardinality({i \in DOMAIN samples : samples[i].v <= v})
    IN CHOOSE v \in values : UpTo(v) >= k /\ \A u \in values : UpTo(u) >= k => v <= u
Percentile75(samples) ==
    LET at == 3 * (Len(samples) - 1)
        lo == at \div 4 + 1
        part == at % 4
    IN IF part = 0 THEN 4 * Ranked(samples, lo)
       ELSE (4 - part) * Ranked(samples, lo) + part * Ranked(samples, lo + 1)

(* A measure against a threshold (both times 4): beyond it on either side   *)
(* is a signal, and its confidence divides by the threshold.                *)
Pressure(x, thresh) ==
    IF Abs(x) <= thresh THEN "SKIP"
    ELSE IF thresh = 0 THEN "raise" ELSE IF x > 0 THEN "BUY_YES" ELSE "BUY_NO"

(* MOMENTUM wants order flow and price on the same side.                    *)
Momentum(cvd, cvdThresh, vwap, vwapThresh) ==
    IF Pressure(cvd, cvdThresh) = Pressure(vwap, vwapThresh) THEN Pressure(cvd, cvdThresh) ELSE "SKIP"
=============================================================================
