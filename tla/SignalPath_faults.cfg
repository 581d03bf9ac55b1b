SPECIFICATION PathSpec
CONSTANTS
  leg1 = leg1
  leg2 = leg2
  leg3 = leg3
  Order = {leg1, leg2, leg3}
  Process = {p1}
  Stamp = {s1}
  JournalKind = "jsonl"
  MaxVersion = 4
  Quantity <- MCQuantity
  Legs <- MCLegs
  LastVersion = 3
  MaxRows = 3
  MaxSkewed = 1
  Time <- MCTime
  Shapes <- MCShapes
  Replicator = {r1, r2}
  Batch = 2
  MaxStored = 3
  request = request
  again = again
  other = other
  Attempt = {request, again, other}
  Content <- MCContent
  Statement = {done, failed}
  settlement = settlement
  perpA = perpA
  perpB = perpB
  Holding = {h1}
  Perp = {perpA, perpB}
  Settlement = {settlement}
  PerpOf <- MCPerpOf
  FallsAt <- MCFallsAt
  Capital = 1
  Window = 1
  PollEvery = 1
  MaxPolls = 1
  Horizon = 3
  Ttl = 2
  LastTime = 3
  MaxLog = 3
  PageSize = 2
INVARIANTS JournalLoads LegsInOrder ResultIsTrue BooksAreExact NothingSkipped AnswersAgree AccountIsTrue ReconciliationIsTrue PositionsAreHistory NoRowIsMissed
PROPERTIES NeverRetried CursorMovesOn RunsOnce
