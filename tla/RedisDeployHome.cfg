SPECIFICATION MCSpec
CONSTANTS
  h1 = h1
  h2 = h2
  h3 = h3
  N = 3
  Host <- MCHost
  Slot <- MCHost
  SlotHost <- MCSlotHost
  Layouts <- MCLayouts
  MaxRuns = 1
  MaxLost = 1
  MaxOthers = 0
INVARIANT
  OnlyTmpDirDeleted
CHECK_DEADLOCK FALSE
