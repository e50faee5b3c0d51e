SPECIFICATION FairServerSpec
CONSTANTS
  c1 = c1
  Conns = {c1}
  MaxReqs = 4
  ReplyLens = {0, 2, 3}
  SockBuf = 2
INVARIANTS ServerTypeOK NoLeakNoDoubleFree NoLostWakeup SizeIsExact RepliesInOrder NothingOutlivesHandle
PROPERTIES RepliesAreReleased GoneClientsAreFreed
CHECK_DEADLOCK FALSE
