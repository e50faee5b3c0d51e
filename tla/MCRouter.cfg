SPECIFICATION RouterSpec
CONSTANTS
  NULL = NULL
  c1 = c1
  c2 = c2
  Clients = {c1, c2}
  Keys <- MCKeys
  Vals <- MCVals
  DbFile = "empty"
  Faults = TRUE
  Bytes <- MCBytes
  BufLen = 8
  Requests <- MCRequests
  NoSlack = {2}
  Junk <- MCJunk
  MaxSends = 2
SYMMETRY Exchange
INVARIANTS RouterTypeOK ReplyNamesKey
PROPERTIES OnlyItsKey RowsFollowReads
