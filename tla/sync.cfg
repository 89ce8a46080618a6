SPECIFICATION FairSpec
CONSTANTS
  j1 = j1  j2 = j2  w1 = w1  w2 = w2
  Idle = Idle
  Job = {j1, j2}
  Slot = {w1, w2}
  NumTables = 2
  MaxRetries = 2
  MaxFaults = 1
  MaxChanges = 1
CHECK_DEADLOCK FALSE
INVARIANTS
  CatalogIsSnapshot
  RetriesBounded
  RetryNotLost
PROPERTIES
  RunEnds
