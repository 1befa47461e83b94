SPECIFICATION MCSpec
CONSTANTS
  hA = hA
  hB = hB
  s1 = s1
  s2 = s2
  s3 = s3
  q1 = q1
  q2 = q2
  Nobody = Nobody
  N = 2
  Masters = 2
  Host <- MCHost
  Slot <- MCSlot
  SlotHost <- MCSlotHost
  Layouts <- MCLayouts
  HashSlot = {q1, q2}
  MaxRuns = 2
  MaxLost = 0
  MaxOthers = 0
PROPERTY
  NoRollbackKeepsData
CHECK_DEADLOCK FALSE
