SPECIFICATION Spec
CONSTANTS
  BreakerEnabled = TRUE
  FailureThreshold = 1
  ResetTimeout = 1
  CountBound = 1
  r1 = r1
  r2 = r2
  w1 = w1
  w2 = w2
  v1 = v1
  v2 = v2
  Nobody = Nobody
  Sessions <- TwoSessions
  Workers <- TwoWorkers
  Values <- TwoValues
  Backends <- AllBackends
  Kinds = {"chat", "stream", "completions", "embeddings"}
  Bodies <- MixedBody
  MaxFaults = 1
SYMMETRY RequestWorkerSymmetry
INVARIANTS TypeOK MaskedBeforeSent FaithfulRestoration RestoresWhatItMasked
  OneTokenPerValue EndedLeavesNothing GaugeCountsChats
PROPERTIES ChatSendsWhenClosed KeepsBoundary
