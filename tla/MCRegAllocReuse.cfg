SPECIFICATION ReuseSpec
CONSTANTS
  NumValues = 5
  LastPoint = 9
  MaxPriority = 1
  Widths = {1}
  Registers <- RiscvRegisters
  CalleeSpans <- RiscvCalleeSpans
  CallerSpans <- RiscvCallerSpans
INVARIANTS
  InterferenceIsRespected
CHECK_DEADLOCK FALSE
