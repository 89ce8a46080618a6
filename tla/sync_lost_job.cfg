SPECIFICATION Spec
CONSTANTS
  j1 = j1  j2 = j2  w1 = w1  w2 = w2
  Idle = Idle
  Job = {j1}
  Slot = {w1, w2}
  NumTables = 1
  MaxRetries = 3
  MaxFaults = 0
  MaxChanges = 0
CHECK_DEADLOCK FALSE
INVARIANT PendingJobHasMessage
