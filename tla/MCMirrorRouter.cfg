CONSTANTS
  t1 = t1
  t2 = t2
  w1 = w1
  c1 = c1
  c2 = c2
  Terminal = {t1, t2}
  Renderer = {w1}
  Cwd = {c1, c2}
  MaxAttempts = 1
  MaxHold = 2
  MaxProbes = 1
  MaxCrashes = 2
  MaxInbox = 2
SPECIFICATION Spec
SYMMETRY Perms
INVARIANTS SharesAddUp NeverReleasedEarly WatchesFollow FocusNotElsewhere
CHECK_DEADLOCK FALSE
