SPECIFICATION Spec
CONSTANTS
  Bots = {b1, b2}
  Directions = {up, down}
  MaxPct = 60
  MinOpen = 2
  Losses = 2
  Cooldown = 1
  MaxTrades = 4
  MaxCrashes = 1
SYMMETRY Alike
INVARIANTS TypeOK StreakStopsBot ImbalanceStopsBots
