SPECIFICATION SystemSpec
CONSTANTS
  NULL = NULL
  c1 = c1
  Clients = {c1}
  Keys <- MCKeys
  Vals <- MCVals
  DbFile = "path"
  Faults = FALSE
  Bytes <- MCBytes
  BufLen = 14
  Requests <- MCCalls
  NoSlack = {}
  Junk <- MCJunk
  MaxSends = 1
INVARIANT EveryCallIsAnswered
