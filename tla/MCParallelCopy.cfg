SPECIFICATION MCSpec
CONSTANTS
  Names = {1, 2, 3, 4}
  NoName = 0
  N = 4
INVARIANTS
  ParallelSemantics
  TempHoldsPendingValue
  StuckMoveIsNamed
  HasCycleIsExact
PROPERTIES
  Terminates
  Refines
CHECK_DEADLOCK FALSE
