SPECIFICATION MCSpec
CONSTANTS
  Hash = {x}
  GenesisNum = 1
  GenesisTime = 4
  producer_repetitions = 3
  MaxNum = 8
  MaxNumTimed = 6
  Gaps = {1,4}
  MaxSkipped = 6
  MaxPolicies = 3
  MaxSchedules = 2
INVARIANTS
  PoliciesAreKnown
  NoPromotionIsMissed
  PoliciesInOrder
  SchedulesInOrder
PROPERTIES
  ActivatedAfterDualQuorum
  SchedulesTakeTwoRounds
CHECK_DEADLOCK FALSE
