SPECIFICATION MCSpec
CONSTANTS
  h1 = h1
  h2 = h2
  h3 = h3
  h4 = h4
  p1 = p1
  p2 = p2
  Host <- MCHost
  Port <- MCPort
  Files <- MCOtherPort
  MaxNodes = 3
  MaxRuns = 1
  MaxFaults = 0
INVARIANT DumpGoesToNewSlave
CHECK_DEADLOCK FALSE
