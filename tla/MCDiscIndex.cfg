SPECIFICATION DiscSpec
CONSTANTS
  k1 = k1
  k2 = k2
  v1 = v1
  v2 = v2
  Keys = {k1, k2}
  Vals = {v1, v2}
  NULL = NULL
  Junk = Junk
  MaxRecords = 3
  Faults = TRUE
SYMMETRY Exchange
INVARIANTS OneRecordPerKey FileIsDurable MemoryFollows
PROPERTIES NothingComesBack
