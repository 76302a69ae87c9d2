SPECIFICATION MCSpec
CONSTANTS
  NumItems = 4
  Item = {1, 2, 3, 4}
  kMaxIterations = 8
INVARIANTS
  NoProgressIsFixpoint
  IrreducibleIsReported
  ConvergedCoversThePass
  SolvableProgramsConverge
PROPERTY Terminates
CHECK_DEADLOCK FALSE
