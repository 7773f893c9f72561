SPECIFICATION Spec
CONSTANTS
  Msg <- MCMsg
  Blocks = {1}
  Worker <- MCWorkers
  LocalWorker = l
  global_limit = 1
  peer_limit = 1
  local_limit = 1
  w1 = w1
  w2 = w2
  l = l
CHECK_DEADLOCK FALSE
PROPERTIES CapacityReturns LocalVotesAreNotBlocked
INVARIANTS TypeOK NoVoteVanishes AggregatedOnce
