CONSTANTS
  RuleIds = {a, b}
  a = a
  b = b
  NumPorts = 1
  MaxExp = 0
  NoRule = NoRule
  h1 = h1
  h2 = h2
  Handlers = {h1, h2}
  NoHandler = NoHandler
  BindMayFail = TRUE
  DiskMayFail = TRUE
SPECIFICATION Spec
PROPERTIES
  RequestsAnswered
