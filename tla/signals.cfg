CONSTANTS
    Bot <- Bots
    StrategyOf <- Strategies
    AssetOf <- Assets
    Quote <- Snapshots
    Duration <- Durations
    EmaPeriod = 2
    RsiPeriod = 1
    BbPeriod = 2
    LiveStd2 = 9
    TestStd2 = 4
    MaxCandles = 2
    AdaptiveWindow = 2
    MinSamples = 2
    CvdThreshold = 1
    VwapThreshold = 1
    CorrWindow = 2
    DropWindow = 1
    MaxTicks = 5
    MaxTime = 3
SPECIFICATION SSpec
CHECK_DEADLOCK FALSE
INVARIANTS CandlesMatchTicks NoBuyIntoDrop MutedOnlyByZeros TwinsAgree
