SPECIFICATION RowSpec
CONSTANTS
  BreakerEnabled = TRUE
  FailureThreshold = 2
  ResetTimeout = 2
  CountBound = 3
  c1 = c1
  c2 = c2
  Callers <- OneCaller
  MaxForces = 0
INVARIANT OpensAtThreshold
