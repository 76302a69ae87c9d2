SPECIFICATION OveralignedSpec
CONSTANTS
  NumFunctions = 1
  Families = {1, 2, 3, 4}
INVARIANTS
  SlicesKeepTheirDistance
CHECK_DEADLOCK FALSE
