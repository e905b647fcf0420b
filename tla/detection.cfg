SPECIFICATION FairSpec
CONSTANTS
  c1 = c1
  c2 = c2
  c3 = c3
  Nobody = Nobody
  EntityTypes <- MCTypes
  Calls <- ThreeCalls
  Registry <- MCRegistry
  Scenarios <- MCScenarios
  Threshold = 70
  PoolSize = 2
  MaxFaults = 1
  MaxShutdowns = 1
  SensitivityThreshold = 9000
  LocalAvailable = TRUE
  PolicyFiles <- MCPolicyFiles
INVARIANTS TypeOK KeptDisjoint BestIsKept SplicedInPlace AgreesWithMask
  FailureRepeats MoreFindingsMoreSensitive
PROPERTIES EveryCallEnds
CHECK_DEADLOCK FALSE
