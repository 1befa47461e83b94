SPECIFICATION Spec
CONSTANTS
  m1 = m1
  m2 = m2
  m3 = m3
  c1 = c1
  c2 = c2
  n1 = n1
  n10 = n10
  First = m1
  Joiner <- MCJoiner
  MaxInstalls = 4
  MaxStops = 1
  Process <- MCProcess
  Name <- MCName
  Matches <- MCMatches
  MaxEdits = 3
  Backup <- MCBackup
  Shards = 2
  Day = 2
  Longest = 2
  Until = 5
INVARIANTS
  MaintTypeOK
  JoinsAreMembers
  RecordsKept
  BackupsKept
CHECK_DEADLOCK FALSE
