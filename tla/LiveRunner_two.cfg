SPECIFICATION Spec
CONSTANTS
  k1 = k1
  k2 = k2
  Key = {k1, k2}
  MaxPositions = 2
  Quantity = 1
  Faults = {"answer", "open_answer", "crash"}
  MaxOpen = 1
  LiquidateOnPause = TRUE
SYMMETRY Keys
INVARIANTS ManualKeepsSwitch PositionLimits
PROPERTIES NoEntryWhileStuck
