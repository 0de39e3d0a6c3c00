CONSTANTS
  Channels = {"daily", "dev"}
  MaxVersion = 2
  MaxBuild = 2
  Blocks = 2
  MaxAttempts = 2
  MaxChanges = 6
  MaxFaults = 3
  MaxExits = 3
SPECIFICATION FairSpec
INVARIANTS ReadyIsReal
PROPERTIES InstallsWholeBuilds KeepsUp
CHECK_DEADLOCK FALSE
