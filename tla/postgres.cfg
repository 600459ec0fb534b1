CONSTANTS
    Bots = {b1, b2}
    NoBot = NoBot
    MaxTrades = 2
    Stakes <- OneStake
    Initial = 40
    Gas = 1
    MaxPool = 2
    MaxFaults = 1
    MaxCrashes = 1
SPECIFICATION Spec
INVARIANTS MoneyFollowsTrades
PROPERTIES TradesKeepLifecycle CallsEnd
