CONSTANTS
  r1 = r1
  r2 = r2
  Repo = {r1, r2}
  Cap = 1
  Interval = 3
  MaxBackoff = 6
  MinSince = 1
  Cooldown = 2
  FetchTimeout = 1
  MaxStreak = 1
  MaxSpawn = 2
  MaxClicks = 1
SPECIFICATION FairSpec
INVARIANTS
  CapKept
  InFlightHonest
PROPERTIES
  WorkConserving
  NoStarvation
CHECK_DEADLOCK FALSE
