SPECIFICATION FairSpec
CONSTANTS
  t1 = t1  t2 = t2  c1 = c1  k1 = k1  k2 = k2  w1 = w1  w2 = w2
  NoKey = NoKey  Idle = Idle
  Doc = {t1, c1}
  Table = {t1}
  Owner <- MCOwner
  Scopes <- MCScopes
  Key = {k1, k2}
  Slot = {w1, w2}
  MaxRequests = 2
  MaxFaults = 1
  MaxChanges = 1
CHECK_DEADLOCK FALSE
INVARIANTS
  PointerPublished
  PublishedComplete
PROPERTIES
  OneOutcomePerKey
  BuildAnswered
