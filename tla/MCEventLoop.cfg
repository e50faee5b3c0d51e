SPECIFICATION FairElSpec
CONSTANTS
  c1 = c1
  c2 = c2
  Conns = {c1, c2}
  SERVER = SERVER
  NULL = NULL
  MaxFd = 2
  MaxEvents = 2
  MaxPolls = 2
  MaxWrites = 1
INVARIANTS OnlyOpenHandles InterestIsKnown
PROPERTIES ReadableIsServed WritableIsServed QueuedWorkIsDone
