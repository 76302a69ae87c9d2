SPECIFICATION MCSpec
CONSTANTS
  NumBlocks = 3
  x = x
  Values = {x}
  MaxInsts = 2
INVARIANTS
  FinishedIsSolution
  BelowEverySolution
  BlockLivenessIsPathLiveness
  IntervalCoversLiveRange
  UnmarkedCallIsAtStart
PROPERTIES
  LiveSetsGrow
  Terminates
CHECK_DEADLOCK FALSE
