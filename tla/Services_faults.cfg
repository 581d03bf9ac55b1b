SPECIFICATION ServicesSpec
CONSTANTS
  s1 = s1
  s2 = s2
  a = a
  b = b
  Stream = {s1, s2}
  Event = {a, b}
  Events <- MCEvents
  Stop = Stop
  QueueSize = 2
  BatchSize = 2
  Job = {j1, j2}
  Invalid = {j2}
  Worker = {w1, w2}
  MaxAttempts = 2
INVARIANTS JournalIsTrue CleanStop
PROPERTIES Answered ResultIsTheOwners JobsEnd
