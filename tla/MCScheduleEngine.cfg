SPECIFICATION FairSpec
CONSTANTS
  once = once
  daily = daily
  Prompt = {once, daily}
  Recurring = {daily}
  StartAt <- MCStartAt
  MaxExecutions <- MCMaxExecutions
  Unlimited = Unlimited
  None = None
  Every = 2
  Poll = 1
  Late = 1
  Slot = {1, 2}
  Click = {1, 2}
  MaxTime = 2
  MaxActs = 1
  SendCap = 0
  MaxBoots = 1
  RenderFirst = FALSE
CHECK_DEADLOCK FALSE
INVARIANTS WakesInTime OnGrid
PROPERTIES DeleteHolds EveryDueRuns
