SPECIFICATION NodeSpec
CONSTANTS
  Products   <- MCPgAutoFailover
  Upgradable <- MCNone
INVARIANTS
  BootsAgain
