SPECIFICATION Spec
CONSTANTS
  j1 = j1  j2 = j2  w1 = w1  w2 = w2
  Idle = Idle
  Job = {j1, j2}
  Slot = {w1, w2}
  NumTables = 2
  MaxRetries = 1
  MaxFaults = 0
  MaxChanges = 2
SYMMETRY Slots
CHECK_DEADLOCK FALSE
INVARIANT CatalogIsOneSync
