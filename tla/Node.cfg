SPECIFICATION NodeSpec
CONSTANTS
  Products   <- MCProducts
  Upgradable <- MCUpgradable
INVARIANTS
  NodeTypeOK
  InstalledRuns
  RollbackFrees
  PriorKept
  NoSecondBootstrap
  OldProgramKept
PROPERTIES
  ResultsJustified
  NoMixedStart
  UpgradedRuns
