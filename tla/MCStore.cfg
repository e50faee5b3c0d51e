SPECIFICATION StoreSpec
CONSTANTS
  k1 = k1
  k2 = k2
  k3 = k3
  v1 = v1
  v2 = v2
  Keys <- MCKeys
  Vals <- MCVals
  NULL = NULL
  Faults = TRUE
  DbFile = "path"
INVARIANTS StoreTypeOK UniqueIdx KeyAndBlob
PROPERTY ImplementsWriteOnce
