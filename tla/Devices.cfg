CONSTANTS
  DayLength = 2
  GapCap = 1
  LiveCap = 1
  MaxDay = 1
  MaxMoved = 2
  None = None
  Macs = {m1, m2}
  Configured = {m1}
  EmptyConfirmations = 2
  MaxMoves = 1
  MaxRefresh = 1
  MaxFaults = 1
  Clients = {c1}
  Values = {v1}
  Terminals = {t1}
  QueueSize = 2
  MaxWhole = 2
  MaxPushes = 1
  MaxDrops = 1
SPECIFICATION DevicesSpec
INVARIANTS
  DevicesTypeOK
  EventsFollowDevices
  TotalsFit
  LatestShown
PROPERTIES
  EmptyConfirmed
  ViewsConverge
CHECK_DEADLOCK FALSE
