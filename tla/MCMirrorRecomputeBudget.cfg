CONSTANTS
  c1 = c1
  c2 = c2
  Cwd <- MCCwd
  MaxConcurrent = 1
  Heartbeats = FALSE
  MayMissEvents = FALSE
  MayFail = FALSE
  MaxPoke = 1
SPECIFICATION Spec
INVARIANTS
  QuietStateIsFresh
CHECK_DEADLOCK FALSE
SYMMETRY MCSymmetry
