SPECIFICATION Spec
CONSTANTS
  Msg <- MCMsg
  Blocks = {1}
  Worker <- MCOneWorker
  LocalWorker = l
  global_limit = 2
  peer_limit = 1
  local_limit = 1
  w1 = w1
  w2 = w2
  l = l
CHECK_DEADLOCK FALSE
INVARIANT NoWakeupIsLost
