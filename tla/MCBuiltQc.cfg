SPECIFICATION Spec
CONSTANTS
  a = a
  b = b
  c = c
  d = d
  Key = {a, b, c, d}
  Thread = {1, 2}
  Byzantine = {}
  NoPolicy = NoPolicy
  Policies <- Duals
  MaxReceived = 0
  MaxBuilt = 1
  IntValues = 32
  LongValues = 64
INVARIANT BuiltQcVerifies
CHECK_DEADLOCK FALSE
