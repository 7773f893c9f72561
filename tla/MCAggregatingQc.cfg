SPECIFICATION Spec
CONSTANTS
  a = a
  b = b
  c = c
  d = d
  Key = {a, b, c}
  Thread = {1, 2}
  Byzantine = {b}
  NoPolicy = NoPolicy
  Policies <- MCPolicies
  MaxReceived = 2
  MaxBuilt = 1
  IntValues = 16
  LongValues = 64
INVARIANTS
  OneVoteEach
  StateMatchesVotes
  EachPartVerifies
PROPERTIES
  BestNeverWorsens
  DualVoteReachesBoth
CHECK_DEADLOCK FALSE
