SPECIFICATION ScansSpec
CONSTANTS
  NumValues = 4
  LastPoint = 3
  MaxPriority = 2
  Widths = {1, 2}
  Registers <- RiscvRegisters
  CalleeSpans <- RiscvCalleeSpans
  CallerSpans <- RiscvCallerSpans
INVARIANTS
  ScansAreExclusive
  CrossingValuesAreCalleeSaved
  EvictedInsideInterval
  SpillsAreJustified
  SpillReadsItsOwnRegister
  EvictedUsesAreServed
CHECK_DEADLOCK FALSE
