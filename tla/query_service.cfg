SPECIFICATION FairSpec
CONSTANTS
  i1 = i1  i2 = i2  q1 = q1  q2 = q2
  NoTrace = NoTrace
  Request = {i1, i2}
  Trace = {q1, q2}
  TimeoutMs = 3
  StatementMs = 2
  MaxRetries = 1
  MaxConcurrency = 2
  MaxCrashes = 1
CHECK_DEADLOCK FALSE
INVARIANTS
  TypeOK
  BudgetKept
  OnePool
  AnsweredAsRecorded
PROPERTIES
  RecordFinal
  RequestAnswered
