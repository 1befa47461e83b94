SPECIFICATION MCSpec
CONSTANTS
  h1 = h1
  h2 = h2
  h3 = h3
  N = 3
  Shards = 2
  Host <- MCHost
  Slot <- MCSlot
  SlotHost <- MCSlotHost
  Layouts <- MCLayouts
  Clusters <- MCClusters
  MaxRuns = 1
  MaxLost = 0
  MaxOthers = 0
INVARIANTS
  AllShardsJoined
CHECK_DEADLOCK FALSE
