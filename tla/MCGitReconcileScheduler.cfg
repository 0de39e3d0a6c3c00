CONSTANTS
  r1 = r1
  NoRoot = NoRoot
  Root = {r1}
  FocusedInterval = 2
  VisibleInterval = 6
  BackoffFactor = 4
  MaxBackoff = 24
  Ceiling = 8
  SleepLength = 20
  MaxAwake = 7
  MaxRuns = 2
  MaxSleep = 1
SPECIFICATION FairSpec
INVARIANTS
  InFlightHonest
PROPERTIES
  HeartbeatOnTime
  SleepIsNotSlow
  NeverStarves
CHECK_DEADLOCK FALSE
