SPECIFICATION FairSpec
CONSTANTS
  k1 = k1
  Key = {k1}
  MaxPositions = 1
  Quantity = 2
  Faults = {"losses"}
  MaxOpen = 2
  LiquidateOnPause = TRUE
PROPERTIES PauseLiquidates
