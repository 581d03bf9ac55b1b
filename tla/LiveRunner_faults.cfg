SPECIFICATION Spec
CONSTANTS
  k1 = k1
  Key = {k1}
  MaxPositions = 1
  Quantity = 2
  Faults = {"database", "network", "price", "answer", "forced", "losses", "kill_file", "crash"}
  MaxOpen = 2
  LiquidateOnPause = TRUE
INVARIANTS OpenIsHedged NothingForgotten RecordedBeforeSent HeldIsLedger
PROPERTIES SentOnce StartupGate BookSpec
