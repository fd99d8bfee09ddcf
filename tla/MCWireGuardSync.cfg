CONSTANTS
  wg0 = wg0
  wg1 = wg1
  p = p
  Ifaces = {wg0}
  DefaultIface = wg0
  Profiles = {p}
  CmdIds = {1, 2, 3, 4, 5, 6, 7, 8}
  MaxAttempts = 2
  MaxRev = 2
  MaxObs = 1
  MaxFaults = 2
  NoServer = NoServer
  NoProfile = NoProfile
SPECIFICATION Spec
INVARIANTS
  TypeOK
  AppliedIsDesired
PROPERTIES
  NoDowngrade
  Convergence
