------------------------------ MODULE Signals ------------------------------
(* From ticks to decisions: what the first, await-free half of run_bot does *)
(* (src/src/bot/main.py).  A bot reads a snapshot of its asset, feeds it to *)
(* the indicators it shares with the other bots of that asset, evaluates    *)
(* its strategy and passes the signal through the filters.                  *)
(*                                                                          *)
(* Time is in minutes.  The market regime, the composite score and the      *)
(* Pearson correlation are floating-point verdicts: each may come out       *)
(* either way.                                                              *)
(*                                                                          *)
(* The specification's own names begin with S: its theorems and those of    *)
(* RiskGate, the next gate of a signal, are proved in one module.           *)
EXTENDS Indicators

CONSTANTS Bot,             \* ACTIVE_BOTS
          StrategyOf, AssetOf,
          Quote,           \* snapshots of each asset, as [price, cvd, vwap]
          Duration,        \* length of a candle of each frame
          MaxCandles,      \* 30 (RSIFeed) or 20 (_CandleBuilder)
          AdaptiveWindow,  \* 3600 s
          MinSamples,      \* 100
          CvdThreshold, VwapThreshold,
          CorrWindow,      \* 1800 s
          DropWindow,      \* 300 s
          MaxTicks, MaxTime  \* bounds of the model

Frame == {"rsi", "1m", "5m"}     \* RSIFeed and the two builders of MultiTimeframeTrend
Measure == {"cvd", "vwap"}
Asset == {AssetOf[b] : b \in Bot} \cup {"BTC"}

ASSUME SignalsAssumption ==
    /\ StrategyOf \in [Bot -> {"MOMENTUM", "BOLLINGER", "TURBO_CVD", "TURBO_VWAP"}]
    /\ \A a \in Asset : Quote[a] \subseteq [price : Nat, cvd : Int, vwap : Int]
    /\ Duration \in [Frame -> Nat \ {0}]
    /\ MaxCandles \in Nat \ {0} /\ MinSamples \in Nat \ {0}
    /\ CvdThreshold \in Nat \ {0} /\ VwapThreshold \in Nat \ {0}
    /\ DropWindow \in Nat /\ CorrWindow \in Nat /\ AdaptiveWindow \in Nat
    /\ DropWindow <= CorrWindow
    /\ MaxTicks \in Nat /\ MaxTime \in Nat

VARIABLES now,
          candles,   \* per frame and asset: the candle being built and the closes
          samples,   \* AdaptiveThreshold: per measure and asset, what the window holds
          prices,    \* CrossAssetCorrelationFilter: the window of each asset
          decision,  \* what the latest turn ended with, and whose; empty for SKIP
          log        \* history: the ticks with a price that each asset's bots saw

svars == <<now, candles, samples, prices, decision, log>>

NoCandle == [bucket |-> -1, last |-> 0, closes |-> <<>>]
Verdict == {"BUY_YES", "BUY_NO", "raise"}
Sample == [t : 0..MaxTime, v : Int]

STypeOK ==
    /\ now \in 0..MaxTime
    /\ \A f \in Frame, a \in Asset :
         /\ candles[f][a].bucket \in -1..MaxTime /\ candles[f][a].last \in Nat
         /\ candles[f][a].closes \in Seq(Nat \ {0})
         /\ Len(candles[f][a].closes) <= MaxCandles
    /\ samples \in [Measure -> [Asset -> Seq(Sample)]]
    /\ prices \in [Asset -> Seq(Sample)]
    /\ decision \subseteq [bot : Bot, signal : Verdict]
    /\ \A a \in Asset : log[a] \in Seq([t : 0..MaxTime, tick : Quote[a]])

SInit ==
    /\ now = 0
    /\ candles = [f \in Frame |-> [a \in Asset |-> NoCandle]]
    /\ samples = [m \in Measure |-> [a \in Asset |-> <<>>]]
    /\ prices = [a \in Asset |-> <<>>]
    /\ decision = {}
    /\ log = [a \in Asset |-> <<>>]

-----------------------------------------------------------------------------
(* The feeds.                                                               *)

(* RSIFeed.update and _CandleBuilder.update: the first tick of another      *)
(* bucket closes the candle with the last price of the old one.             *)
Capped(s) == IF Len(s) > MaxCandles THEN Tail(s) ELSE s
FedOpening(c, bucket, price) ==                         \* mutant: closes at the new price
    IF c.bucket = bucket \/ c.bucket = -1
    THEN [c EXCEPT !.bucket = bucket, !.last = price]
    ELSE [bucket |-> bucket, last |-> price, closes |-> Capped(Append(c.closes, price))]
Fed(c, bucket, price) ==
    CASE c.bucket = -1 -> [bucket |-> bucket, last |-> price, closes |-> <<>>]
      [] c.bucket = bucket -> [c EXCEPT !.last = price]
      [] OTHER -> [bucket |-> bucket, last |-> price,
                   closes |-> Capped(Append(c.closes, c.last))]

(* _trim: a deque loses what is older than its window before every use,     *)
(* from its old end up to the first that is not.                            *)
Old(s, t, n) ==
    /\ \A i \in 1..n : s[i].t < t
    /\ n < Len(s) => s[n + 1].t >= t
SinceAfter(s, t) ==                                     \* mutant: the edge is cut off
    LET old == CHOOSE n \in 0..Len(s) : Old(s, t + 1, n) IN SubSeq(s, old + 1, Len(s))
Since(s, t) ==
    LET old == CHOOSE n \in 0..Len(s) : Old(s, t, n) IN SubSeq(s, old + 1, Len(s))
Kept(s, window) == Since(s, now - window)

(* Every feed but the strategy ignores a snapshot without a price, such as  *)
(* a fail-over snapshot of an asset nobody has quoted yet.                  *)
Feed(a, tick) ==
    IF tick.price = 0 THEN UNCHANGED <<candles, samples, prices, log>>
    ELSE /\ candles' = [f \in Frame |-> [candles[f] EXCEPT
              ![a] = Fed(@, now \div Duration[f], tick.price)]]
         /\ samples' = [m \in Measure |-> [samples[m] EXCEPT
              ![a] = Append(Kept(@, AdaptiveWindow), [t |-> now, v |-> Abs(tick[m])])]]
         /\ prices' = [prices EXCEPT
              ![a] = Append(Kept(@, CorrWindow), [t |-> now, v |-> tick.price])]
         /\ log' = [log EXCEPT ![a] = Append(@, [t |-> now, tick |-> tick])]

-----------------------------------------------------------------------------
(* The strategies.                                                          *)

Closes(a) == candles["rsi"][a].closes

(* Times 4, like the percentile.  With too few samples in the window the    *)
(* configured threshold counts.                                             *)
Threshold(a, m, configured) ==
    LET window == Kept(samples[m][a], AdaptiveWindow)
        enough == \A k \in Measure : Len(Kept(samples[k][a], AdaptiveWindow)) >= MinSamples
    IN IF enough THEN Percentile75(window) ELSE 4 * configured

Evaluated(b, tick) ==
    LET a == AssetOf[b]
    IN CASE StrategyOf[b] = "BOLLINGER" -> LiveBands(Closes(a), tick.price)
         [] StrategyOf[b] = "MOMENTUM" ->
              Momentum(4 * tick.cvd, 4 * CvdThreshold, 4 * tick.vwap, 4 * VwapThreshold)
         [] StrategyOf[b] = "TURBO_CVD" ->
              Pressure(4 * tick.cvd, Threshold(a, "cvd", CvdThreshold))
         [] StrategyOf[b] = "TURBO_VWAP" ->
              Pressure(4 * tick.vwap, Threshold(a, "vwap", VwapThreshold))

(* The filters behind it.                                                   *)

(* _get_recent_return, as <<old, new>>; "now" is the time of the last tick  *)
(* of the asset, not the clock's.                                           *)
RecentMove(a) ==
    IF Len(prices[a]) < 2 THEN <<1, 1>>
    ELSE LET end == prices[a][Len(prices[a])]
         IN <<Since(prices[a], end.t - DropWindow)[1].v, end.v>>

Dropped(move) == 100 * (move[1] - move[2]) >= move[1]         \* by 1 % or more
MovedDown(move) == 1000 * (move[1] - move[2]) > 5 * move[1]   \* by more than 0.5 %
MovedUp(move) == 1000 * (move[2] - move[1]) > 5 * move[1]

Allowed(a, signal, correlated) ==
    LET btc == RecentMove("BTC")
    IN \/ a = "BTC"
       \/ /\ signal = "BUY_YES" => ~Dropped(btc) /\ ~(correlated /\ MovedDown(btc))
          /\ signal = "BUY_NO" => ~(correlated /\ MovedUp(btc))

Decision(b, tick, correlated) ==
    LET a == AssetOf[b]
        s == Evaluated(b, tick)
        passes == Confirmed(candles["1m"][a].closes, s) /\ Allowed(a, s, correlated)
    IN IF s = "raise" \/ (s # "SKIP" /\ passes) THEN {[bot |-> b, signal |-> s]} ELSE {}

-----------------------------------------------------------------------------
Logged == Cardinality(UNION {{a} \X DOMAIN log[a] : a \in Asset})

(* One turn of run_bot up to its first await.                               *)
Turn(b, tick) ==
    /\ Logged < MaxTicks /\ UNCHANGED now /\ Feed(AssetOf[b], tick)
    /\ \E correlated \in BOOLEAN :
         decision' = Decision(b, tick, correlated)'

(* The regime selector forbids the strategy, whose feeds have been updated, *)
(* or the composite score of its signal is below the minimum.               *)
Blocked(b, tick) ==
    /\ Logged < MaxTicks /\ Feed(AssetOf[b], tick)
    /\ decision' = {}
    /\ UNCHANGED now

Minute ==
    /\ now < MaxTime /\ now' = now + 1
    /\ decision' = {}
    /\ UNCHANGED <<candles, samples, prices, log>>

SNext == (\E b \in Bot : \E tick \in Quote[AssetOf[b]] : Turn(b, tick) \/ Blocked(b, tick)) \/ Minute
SSpec == SInit /\ [][SNext]_svars

-----------------------------------------------------------------------------
(* Properties.                                                              *)

(* Candles built tick by tick are the candles of the tick history: a close  *)
(* is the price of the last tick of a bucket that another bucket followed,  *)
(* whatever bots fed it and whatever minutes had no tick at all; the latest *)
(* of them are kept.                                                        *)
Closing(ticks, duration) ==
    LET Bucket(i) == ticks[i].t \div duration
    IN {i \in 1..Len(ticks) - 1 : Bucket(i) # Bucket(i + 1)}
CandlesMatchTicks ==
    \A f \in Frame, a \in Asset :
        LET closes == candles[f][a].closes
            closing == Closing(log[a], Duration[f])
            all == Cardinality(closing)
            Later(i) == Cardinality({j \in closing : j > i})
        IN /\ Len(closes) = IF all < MaxCandles THEN all ELSE MaxCandles
           /\ \A k \in DOMAIN closes : \E i \in closing :
                 Later(i) = Len(closes) - k /\ closes[k] = log[a][i].tick.price

(* No bot decides to buy another asset up while Bitcoin, at its last tick,  *)
(* stood 1 % below the first tick of the drop window: what the filter has   *)
(* thrown away never hides a drop.                                          *)
BtcFell ==
    LET ticks == log["BTC"]
        end == ticks[Len(ticks)]
        from == CHOOSE i \in DOMAIN ticks :
                  /\ ticks[i].t >= end.t - DropWindow
                  /\ \A j \in 1..i - 1 : ticks[j].t < end.t - DropWindow
    IN ticks # <<>> /\ Dropped(<<ticks[from].tick.price, end.tick.price>>)
NoBuyIntoDrop ==
    \A d \in decision : AssetOf[d.bot] # "BTC" /\ d.signal = "BUY_YES" => ~BtcFell

(* A strategy with an adaptive threshold fails (its confidence divides by   *)
(* zero) only when three quarters of the ticks of the last hour carried no  *)
(* measure at all, as those of a fail-over do.                              *)
Hour(b) ==
    LET ticks == log[AssetOf[b]] IN {i \in DOMAIN ticks : ticks[i].t >= now - AdaptiveWindow}
Zeros(b) ==
    LET m == IF StrategyOf[b] = "TURBO_CVD" THEN "cvd" ELSE "vwap"
    IN {i \in Hour(b) : log[AssetOf[b]][i].tick[m] = 0}
MutedOnlyByZeros ==
    \A d \in decision :
        d.signal = "raise" => 4 * Cardinality(Zeros(d.bot)) >= 3 * Cardinality(Hour(d.bot))

(* The backtest judges the same closes as the bots do: a live breakout is a *)
(* breakout to the backtest, to the same side, and its RSI is on the same   *)
(* side of 50, but for a market that stood still.                           *)
TwinsAgree ==
    \A a \in Asset :
        LET c == Closes(a)
            live == IF c = <<>> THEN "SKIP" ELSE LiveBands(c, c[Len(c)])
        IN /\ live # "SKIP" => TestBands(c, c[Len(c)]) = live
           /\ LiveRsi(c) = TestRsi(c) \/ (Gain(c) = 0 /\ Loss(c) = 0)
=============================================================================
