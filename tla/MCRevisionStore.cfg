CONSTANTS
  k1 = k1
  k2 = k2
  v1 = v1
  v2 = v2
  Keys = {k1, k2}
  StatusKey = k2
  NoKey = NoKey
  Values = {v1}
  Absent = Absent
  RowCap = 2
  MaxAge = 1
  PageLimit = 1
  MaxRevision = 5
  MaxDay = 3
  MaxBatch = 2
  ClockMaySlip = FALSE
SPECIFICATION Spec
INVARIANTS
  TypeOK
PROPERTIES
  ReplicaIsComplete
  CatchUp
