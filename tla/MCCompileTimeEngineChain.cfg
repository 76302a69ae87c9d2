SPECIFICATION ChainSpec
CONSTANTS
  NumItems = 4
  Item = {1, 2, 3, 4}
  kMaxIterations = 8
INVARIANT ConvergedMeansDone
CHECK_DEADLOCK FALSE
