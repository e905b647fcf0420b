SPECIFICATION Burst
CONSTANTS
  k1 = k1
  k2 = k2
  c1 = c1
  c2 = c2
  c3 = c3
  Clients <- TwoClients
  Calls <- ThreeCalls
  Mixes <- OneGuesser
  KeysConfigured = TRUE
  RateLimited = TRUE
  Limit = 2
  Window = 2
  MaxSets = 0
INVARIANT KeyGuessesLimited
