SPECIFICATION Spec
CONSTANTS
  Bots = {b1}
  NoBot = NoBot
  MaxTrades = 2
  Stakes <- SmallStakes
  Initial = 40
  MinBankroll = 1
  MinBet = 1
  MaxPct = 10
  DdLimit = 25
  Gas = 0
  MaxFaults = 0
  MaxCrashes = 0
INVARIANT BooksBalance
