SPECIFICATION FairSpec
CONSTANTS
  m1 = m1  q1 = q1  r1 = r1  r2 = r2  c1 = c1  c2 = c2
  Idle = Idle
  Metric = {m1}
  Query = {q1}
  Content = {c1, c2}
  Request = {r1, r2}
  Deps <- AllDeps
  Targets <- Status
  RequireFlags = {TRUE}
  MaxVersion = 2
INVARIANTS
  TypeOK
  VersionNumbersContiguous
  ActivePointsAtVersion
  PublishExclusive
  PointerInsertSafe
PROPERTIES
  PublishIsNewest
  ImplementsRegister
  PublishEnds
  TrustKeptApart
  ReleaseShownApart
