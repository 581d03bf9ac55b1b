SPECIFICATION OrdersSpec
CONSTANTS
  p1 = p1
  p2 = p2
  i1 = i1
  i2 = i2
  Position = {p1, p2}
  Instrument = {i1}
  InstrumentOf <- TwoOfOne
  Faults = {"crash", "append", "torn", "database"}
  Order = {o1}
  Process = {w1, w2}
  Stamp = {s1, s2}
  MaxVersion = 4
  JournalKind = "sqlite"
  Quantity <- MCQuantity
  pair = pair
  single = single
  near = near
  far = far
  lone = lone
  Plan = {pair, single}
  Leg = {near, far, lone}
  Market = {i1, i2}
  PlanOf <- MCPlanOf
  MarketOf <- MCMarketOf
  Size <- MCSize
  PostOnly = {far}
  CreatedAt <- MCCreatedAt
  ExpiresAt <- MCExpiresAt
  ExitAt <- MCExitAt
  MaxTime = 1
  MaxFill = 1
INVARIANTS WithdrawnOnlyWhenFlat MemoryIsDurablePrefix ReportsAppliedOnce PositionsEndFlat
PROPERTIES PassAccountsForAll InterlockStays RowsContinue LedgerSpec
SYMMETRY Alike
CHECK_DEADLOCK FALSE
