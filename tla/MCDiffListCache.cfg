CONSTANTS
  None = None
  Failed = Failed
  Submodules = TRUE
  MayFail = FALSE
  MaxVersion = 2
  MaxCalls = 3
  MaxOpens = 1
  MaxFaults = 1
SPECIFICATION Spec
INVARIANTS ForcedIsFresh RestsFresh
CHECK_DEADLOCK FALSE
