SPECIFICATION FairStsSpec
CONSTANTS
  main = main
  pusher = pusher
  manager = manager
  v1 = v1
  v2 = v2
  n1 = n1
  n2 = n2
  n3 = n3
  NULL = NULL
  Pushers = {main, pusher}
  Poppers = {main, manager}
  Spinners = {manager}
  Destroyers = {main}
  Vals = {v1, v2}
  Nodes = {n1, n2, n3}
  MaxPushes = 4
  MutexContents = {"unlocked", "locked", "invalid"}
INVARIANTS StsTypeOK NoUseAfterFree ListIsSound NothingLeaks
PROPERTIES ImplementsFifo PushedIsPopped
CHECK_DEADLOCK FALSE
