CONSTANTS
  c1 = c1
  c2 = c2
  Cwd = {c1}
  MaxConcurrent = 1
  Heartbeats = TRUE
  MayMissEvents = TRUE
  MayFail = TRUE
  MaxPoke = 2
SPECIFICATION FairSpec
INVARIANTS
  QuietIsFresh
PROPERTIES
  NeverBackwards
  BecomesFresh
CHECK_DEADLOCK FALSE
