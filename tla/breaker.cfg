SPECIFICATION FairSpec
CONSTANTS
  BreakerEnabled = TRUE
  FailureThreshold = 2
  ResetTimeout = 2
  CountBound = 3
  c1 = c1
  c2 = c2
  Callers <- MCCallers
  MaxForces = 2
INVARIANTS TypeOK TrialAfterCooldown ClosedBelowThreshold TrialsInFlight
PROPERTIES FailClosed NoStrayRecovery OpenEnds
