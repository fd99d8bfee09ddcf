CONSTANTS
  RuleIds = {a, b}
  a = a
  b = b
  NumPorts = 2
  MaxExp = 1
  NoRule = NoRule
  h1 = h1
  h2 = h2
  Handlers = {h1, h2}
  NoHandler = NoHandler
  BindMayFail = TRUE
  DiskMayFail = FALSE
SYMMETRY Symmetry
SPECIFICATION Spec
INVARIANTS
  TypeOK
  NoPortClash
  RuntimeMatchesRule
  DurableWhenIdle
PROPERTIES
  UpsertIsAtomic
  ImplementsTable
