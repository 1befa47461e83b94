SPECIFICATION MCSpec
CONSTANTS
  h1 = h1
  h2 = h2
  h3 = h3
  N = 3
  Host <- MCHost
  Slot <- MCHost
  SlotHost <- MCSlotHost
  Layouts <- MCLayouts
  MaxRuns = 1
  MaxLost = 1
  MaxOthers = 1
INVARIANTS
  TypeOK
  SuccessMeansDeployed
  FailureLeavesNoTrace
  PriorInstancesUntouched
  ForeignFilesKept
  SuccessSparesHome
  RemovalIsComplete
PROPERTIES
  PromiseKept
  RunEnds
CHECK_DEADLOCK FALSE
