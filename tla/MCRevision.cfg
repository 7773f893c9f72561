SPECIFICATION RestartSpec
CONSTANTS
  Blk <- MCFinal
  Genesis = 1
  previous <- MCPrevious
  Ancestry <- MCAncestry
  num <- MCNum
  timestamp <- MCLateTimestamp
  claim <- MCLateClaim
  Invalids <- MCFinalInvalids
  MaxRepeats = 0
  MaxAppendFails = 1
  MaxRestarts = 0
CHECK_DEADLOCK FALSE
INVARIANT RevisionOnParWithHead
