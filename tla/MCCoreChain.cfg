SPECIFICATION ChainSpec
CONSTANTS
  Hash = {x, y}
  GenesisNum = 2
  GenesisTime = 3
  MaxNum = 8
  MaxGap = 1
INVARIANTS
  CoreIsWellFormed
  LastFinalMatchesHistory
  ExtendsIsAncestry
  AcceptedClaimsMeetNextPre
PROPERTIES
  FinalityAdvances
SYMMETRY HashSymmetry
CHECK_DEADLOCK FALSE
