SPECIFICATION RestartSpec
CONSTANTS
  Blk <- MCBlk
  Genesis = 1
  previous <- MCPrevious
  Ancestry <- MCAncestry
  num <- MCNum
  timestamp <- MCTimestamp
  claim <- MCClaim
  Invalids <- MCInvalids
  MaxRepeats = 1
  MaxAppendFails = 0
  MaxRestarts = 0
CHECK_DEADLOCK FALSE
INVARIANTS NoOrphans HeadIsOnValidatedBranch RootIsFinal RevisionOnParWithHead NeverLosesSync
