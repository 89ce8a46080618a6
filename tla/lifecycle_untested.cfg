SPECIFICATION Spec
CONSTANTS
  m1 = m1  q1 = q1  r1 = r1  r2 = r2  c1 = c1  c2 = c2
  Idle = Idle
  Metric = {m1}
  Query = {q1}
  Content = {c1}
  Request = {r1}
  Deps <- AllDeps
  Targets <- Status
  RequireFlags = {TRUE}
  MaxVersion = 2
INVARIANT PublishedWasTested
