SPECIFICATION FairSpec
CONSTANTS
  k1 = k1
  k2 = k2
  c1 = c1
  c2 = c2
  c3 = c3
  Clients <- TwoClients
  Calls <- ThreeCalls
  Mixes <- TwoGoodCalls
  KeysConfigured = TRUE
  RateLimited = TRUE
  Limit = 2
  Window = 2
  MaxSets = 1
INVARIANTS TypeOK WindowBound
PROPERTIES NoFalseRejection EveryCallAnswered
