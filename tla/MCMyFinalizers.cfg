SPECIFICATION Spec
CONSTANTS
  x = x
  y = y
  j = j
  k = k
  Hash = {x, y}
  GenesisNum = 1
  GenesisTime = 1
  Key = {j, k}
  Blocks <- MCBlocks
  Defaults <- MCDefaults
  Unset <- MCUnset
  MaxStarts = 3
  MaxLosses = 1
INVARIANTS
  VotesAreDurable
PROPERTIES
  FileNeverGoesBack
  EachKeyIsAVoter
CHECK_DEADLOCK FALSE
