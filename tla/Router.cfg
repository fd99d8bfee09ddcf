CONSTANTS
  None = None
  MaxCmds = 2
  MaxVersion = 2
  FirstVersion = 1
  KeepCommands = {1, 2}
  PollLimit = 1
  MaxFaults = 1
  Users = {u1, u2}
  Kinds = {nat}
  Loader = bg
  QueueSize = 1
  TaskPolls = 1
  MaxCalls = 3
  Callers = {caller}
  Monitor = mon
  Configs = {A, B}
  MaxChanges = 1
  Requests = {q1, q2}
  MaxStarts = 2
  NatPolls = 2
  Readers = {t1}
  Workers = {w1, w2}
  MaxSwitches = 1
  MaxRevision = 4
  MaxRefresh = 2
  MoreFaults = 2
SPECIFICATION RouterSpec
INVARIANTS
  RouterTypeOK
  SessionSound
  NotesExact
  CompletionEarned
PROPERTIES
  RequestsSettle
  RouterViewSettles
  PreparingResolves
  UpdateSettles
CHECK_DEADLOCK FALSE
