SPECIFICATION Spec
CONSTANTS
  t1 = t1
  t2 = t2
  v1 = v1
  MaxBlocks = 5
  Names <- TwoNames
  Original <- OneKnown
  Answers <- BlockAnswers
  TailWindow = 5
INVARIANTS TypeOK NothingLost NoneCutWhileArriving EndIsRestored
CHECK_DEADLOCK FALSE
