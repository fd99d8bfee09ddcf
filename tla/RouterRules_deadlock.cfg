CONSTANTS
  None = None
  Gone = Gone
  Addrs = {a1, a2}
  Rests = {e1, e2}
  MaxEdits = 2
  MaxMoves = 1
  MaxRequests = 2
  MaxFaults = 1
  Lan = {l1, l2}
  Ddns = {d}
  Contents = {c1, c2}
  UserContent = UserContent
  MaxRows = 3
  MaxPuts = 2
  MaxTableEdits = 1
  Targets = {t1, t2}
  MaxAttempts = 2
  MaxMapEdits = 1
SPECIFICATION RulesSpec
PROPERTIES
  UserCommandCompletes
CHECK_DEADLOCK FALSE
