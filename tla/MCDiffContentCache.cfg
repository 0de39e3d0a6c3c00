CONSTANTS
  draft = draft
  staged = staged
  far = far
  p1 = p1
  p2 = p2
  click = click
  burst = burst
  Key = {draft, staged, far}
  Project = {p1, p2}
  ProjectOf <- Projects
  FileOf <- Files
  Backing <- Backings
  Caller = {click, burst}
  Lane <- OneLane
  Sweeper = {1}
  Size <- BodySizes
  ByteLimit = 3
  FileLimit = 3
  MaxProjects = 1
  LastVersion <- Edits
SYMMETRY Symmetry
SPECIFICATION ContentSpec
INVARIANTS
  LedgerExact
  TokenHonest
  WipeHolds
PROPERTY NoStaleServe
CHECK_DEADLOCK FALSE
