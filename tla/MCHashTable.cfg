SPECIFICATION HtSpec
CONSTANTS
  k1 = k1
  k2 = k2
  k3 = k3
  v1 = v1
  v2 = v2
  NULL = NULL
  Keys = {k1, k2, k3}
  Vals = {v1, v2}
  Hash <- MCHash
  InitialCapacity = 2
  MaxCapacity = 8
  MaxFreed = 1
  Faults = TRUE
INVARIANTS HtTypeOK RoomToProbe KeysAreFound IterationIsComplete
PROPERTY ActsAsMap
CHECK_DEADLOCK FALSE
