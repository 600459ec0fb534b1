SPECIFICATION LimitsSpec
CONSTANTS
  Bots = {b1}
  Dynamic = {b1}
  MaxOrders = 1
  MaxKeys = 1
  MaxWindow = 3
  MaxTrades = 3
  MaxFaults = 1
  MaxCrashes = 1
  s1 = s1
  s2 = s2
  s3 = s3
  Senders <- ThreeSenders
  Window = 4
  SendMax = 2
  Limit = 2
  MaxMessages = 5
SYMMETRY Interchangeable
INVARIANTS TypeOK WindowCapUpToFaults OneOpenPerMarket TelegramRate
