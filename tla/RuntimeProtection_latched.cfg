SPECIFICATION ProtectionSpec
CONSTANTS
  p1 = p1
  p2 = p2
  p3 = p3
  i1 = i1
  i2 = i2
  Position = {p1, p2, p3}
  Instrument = {i1, i2}
  InstrumentOf <- TwoOfOne
  Faults = {"crash"}
PROPERTIES NoEntryWhileLatched
