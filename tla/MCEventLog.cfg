CONSTANTS
  About <- MCAbout
  Polls = {1, 2}
  KernelKeep = 3
  Keep = 3
  Overtakes = FALSE
  MaxEvents = 4
  MaxClears = 1
  MaxLogFaults = 1
SPECIFICATION LogSpec
INVARIANT CountsAddUp
PROPERTIES ToldOnce EventuallyTold
CHECK_DEADLOCK FALSE
