SPECIFICATION GraphSpec
CONSTANTS
  NumBlocks = 2
  x = x
  Values = {x}
  MaxInsts = 1
INVARIANT LiveAcrossCallIsMarked
CHECK_DEADLOCK FALSE
