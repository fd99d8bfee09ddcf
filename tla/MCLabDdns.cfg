CONSTANTS
  A = A
  TXT = TXT
  x = x
  y = y
  v = v
  AddrTypes = {A}
  DirectTypes = {TXT}
  Addrs = {x, y}
  Texts = {v}
  None = None
  NotYet = NotYet
  Gone = Gone
  MaxMoves = 2
  MaxRequests = 2
  MaxFaults = 1
SPECIFICATION Spec
INVARIANTS
  TypeOK
PROPERTIES
  OnlyConfirmedSent
  EventuallyPublished
