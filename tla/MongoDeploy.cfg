SPECIFICATION MCSpec
CONSTANTS
  h1 = h1
  h2 = h2
  h3 = h3
  N = 3
  Shards = 2
  Host <- MCHost
  Slot <- MCSlot
  SlotHost <- MCSlotHost
  Layouts <- MCLayouts
  Clusters <- MCClusters
  MaxRuns = 1
  MaxLost = 1
  MaxOthers = 0
INVARIANTS
  TypeOK
  SuccessMeansCluster
  CompletedGroupsKept
  FailureLeavesCompletedOnly
  PriorInstancesKept
  RemovalReachesAllGroups
  SuccessSparesHomes
PROPERTIES
  RunEnds
CHECK_DEADLOCK FALSE
