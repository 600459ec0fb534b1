SPECIFICATION FairSpec
CONSTANTS
  Bots = {b1}
  NoBot = NoBot
  MaxTrades = 2
  Stakes <- SmallStakes
  Initial = 40
  MinBankroll = 1
  MinBet = 1
  MaxPct = 10
  DdLimit = 25
  Gas = 1
  MaxFaults = 1
  MaxCrashes = 1
INVARIANTS TypeOK PeakIsHighWater Solvency PaidAtMostOnce VoidHasLetter
PROPERTIES MoneyFlows TradesKeepLifecycle EventuallyDecided
