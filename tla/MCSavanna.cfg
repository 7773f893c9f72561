SPECIFICATION Spec
CONSTANTS
  Hash = {x, y}
  GenesisHash = x
  GenesisNum = 1
  GenesisTime = 1
  Honest = {a, b}
  a = a
  b = b
  z = z
  Quorum <- MCQuorum
  MaxTime = 5
  MaxBlocks = 5
CONSTRAINT HashesInOrder
INVARIANTS
  FinalBlocksAgree
  LibIsFinal
  StrongVoteCoversOwnVotes
  NobodyIsStuck
CHECK_DEADLOCK FALSE
