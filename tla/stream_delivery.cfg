SPECIFICATION FairSpec
CONSTANTS
  Sockets = {s1}
  Listeners = {l1}
  NoOne = NoOne
  Channels = {prices, trades}
  MaxQueue = 2
  MaxMessages = 3
CHECK_DEADLOCK FALSE
INVARIANTS TypeOK InOrder StreamAfterSnapshot OnlyOverflowLoses
PROPERTY ZombiesEnd
