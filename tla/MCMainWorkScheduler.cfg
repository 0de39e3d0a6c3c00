CONSTANTS
  a = a
  b = b
  c = c
  d = d
  None = None
  Task <- MCTask
  Rank <- MCRank
  Key <- MCKey
  Owner <- MCOwner
  ConcurrencyKey <- MCConcurrencyKey
  Limit <- MCLimit
  Timed = {a, d}
  MaxInflight = 2
SPECIFICATION FairSpec
INVARIANTS
  CountersExact
  DedupeExact
  NoLostWakeup
PROPERTIES
  EveryCallerAnswered
  PoolSpec
CHECK_DEADLOCK FALSE
