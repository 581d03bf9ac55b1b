SPECIFICATION FairSpec
CONSTANTS
  k1 = k1
  k2 = k2
  Key = {k1, k2}
  MaxPositions = 2
  Quantity = 1
  Faults = {}
  MaxOpen = 2
  LiquidateOnPause = TRUE
PROPERTIES PauseLiquidates
