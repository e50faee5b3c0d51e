SPECIFICATION ServerSpec
CONSTANTS
  c1 = c1
  Conns = {c1}
  MaxReqs = 2
  ReplyLens = {0, 3}
  SockBuf = 2
INVARIANT WriteErrorIsReported
CHECK_DEADLOCK FALSE
