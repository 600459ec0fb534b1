SPECIFICATION FairSpec
CONSTANTS
  Bots = {b1}
  Directions = {up, down}
  MaxPct = 60
  MinOpen = 3
  Losses = 2
  Cooldown = 1
  MaxTrades = 3
  MaxCrashes = 0
PROPERTY BreakerReleases
