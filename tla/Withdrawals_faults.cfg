SPECIFICATION Spec
CONSTANTS
  r1 = r1
  r2 = r2
  ann = ann
  bob = bob
  cid = cid
  risk = risk
  security = security
  Request = {r1, r2}
  Person = {ann, bob, cid}
  Role = {risk, security}
  Amount = {1, 2}
  MaximumDaily = 3
  Opens = 0
  Closes = 2
  LastDay = 2
  Faults = {"crash", "write"}
SYMMETRY Alike
INVARIANTS SeparationOfDuties DailyCapHolds
PROPERTIES NoWayBack
CHECK_DEADLOCK FALSE
