CONSTANTS
  MinTicks = 2
  CallTicks = 1
  Costs = {1}
  Limits <- MCLimits
  MaxBlocks = 7
  MaxHandling = 2
  MaxLevel = 2
  RemoveFails = FALSE
SPECIFICATION Spec
CONSTRAINT Few
INVARIANTS FramesRight ToldOnce TicksRight
