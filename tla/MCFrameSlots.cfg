SPECIFICATION MCSpec
CONSTANTS
  NumFunctions = 2
  Families = {1, 2, 3, 4}
INVARIANTS
  SlotsAreDisjoint
  SlotsAreAligned
  SlicesKeepTheirDistance
  SlotIdsAreUnique
  AssignedSlotsArePublished
  SavedRegistersAreApart
  FramesContainSlots
CHECK_DEADLOCK FALSE
