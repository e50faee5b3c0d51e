SPECIFICATION RouterSpec
CONSTANTS
  NULL = NULL
  c1 = c1
  c2 = c2
  Clients = {c1}
  Keys <- MCKeys
  Vals <- MCVals
  DbFile = "empty"
  Faults = FALSE
  Bytes <- MCBytes
  BufLen = 9
  Requests <- MCClientRequests
  NoSlack = {}
  Junk <- MCJunk
  MaxSends = 2
PROPERTY ClientDeleteTouchesItsKey
