SPECIFICATION MCSpec
CONSTANT NumBlocks = 4
INVARIANTS
  BackEdgesBreakAllCycles
  DepthCountsNaturalLoops
PROPERTY Terminates
CHECK_DEADLOCK FALSE
