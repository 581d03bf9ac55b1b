SPECIFICATION ReplaySpec
CONSTANTS
  MaxLog = 4
  PageSize = 2
INVARIANTS CheckpointIsAtomic
