SPECIFICATION Spec
CONSTANTS
  once = once
  daily = daily
  Prompt = {once, daily}
  Recurring = {daily}
  StartAt <- MCStartAt
  MaxExecutions <- MCMaxExecutions
  Unlimited = Unlimited
  None = None
  Every = 2
  Poll = 1
  Late = 0
  Slot = {1, 2}
  Click = {1, 2}
  MaxTime = 3
  MaxActs = 0
  SendCap = 2
  MaxBoots = 0
  RenderFirst = TRUE
CHECK_DEADLOCK FALSE
INVARIANTS MaxRespected
