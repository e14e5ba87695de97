CONSTANTS
  rawtx = rawtx  rawblock = rawblock
  Topics <- MCTopics
  Modulus = 6
  WrapMargin = 2
  MaxRun = 4
  MaxSteps = 5
  MaxRestarts = 1
SPECIFICATION Spec
CHECK_DEADLOCK FALSE
SYMMETRY TopicSymmetry
INVARIANTS
  LossIsFlagged
  CountIsExact
PROPERTIES
  SmallLossIsNoRestart
