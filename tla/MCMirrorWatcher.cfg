CONSTANTS
  c1 = c1
  c2 = c2
  r1 = r1
  NoRepo = NoRepo
  Cwd <- MCCwd
  Repo <- MCRepo
  RepoOf <- MCRepoOf
  MaxToggle = 3
  MaxFault = 2
  MaxBoth = 4
  MaxEntry = 3
  MaxGroup = 3
  MaxSub = 6
  MaxProbe = 2
SPECIFICATION WatchFairSpec
INVARIANTS
  NoOrphanSubscription
  HeartbeatCovers
  ReleasedWhenUnwanted
  HealthIsHonest
PROPERTIES
  RecheckWatches
  WatcherComesBack
CHECK_DEADLOCK FALSE
