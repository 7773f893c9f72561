SPECIFICATION Spec
CONSTANTS
  g = g  a1 = a1  b1 = b1  b2 = b2  own = own  c3 = c3  t = t
  Trx = {t}
  Block = {a1, b1, b2, own, c3}
  Own = {own}
  Genesis = g
  Path <- MCPath
  Expiration <- MCExpiration
  lib_totem = lib_totem
  NoBlock = NoBlock
  NumBlocks = {1, lib_totem}
  MaxTime = 3
INVARIANTS TrackedFollowsChain StatusFollowsChain NoTransactionIsLost
PROPERTIES AnswersAreRight
CHECK_DEADLOCK FALSE
