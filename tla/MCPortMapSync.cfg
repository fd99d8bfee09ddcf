CONSTANTS
  a = a
  b = b
  NoRule = NoRule
  RuleIds = {a, b}
  NumPorts = 2
  MaxExp = 2
  MaxRows = 2
  CmdIds = {1, 2, 3, 4, 5, 6}
  MaxAttempts = 2
  PollLimit = 2
  MaxEdits = 2
  MaxFaults = 1
SPECIFICATION MapsSpec
INVARIANTS
  TypeOK
  OneOpenCommand
  DesiredConflictFree
PROPERTIES
  Convergence
