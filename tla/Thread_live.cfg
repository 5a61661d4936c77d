CONSTANTS
  Callers = {c1, c2}
  Runs = {r1}
  None = None
  Spurious = TRUE
  DeletesItself = FALSE
SPECIFICATION FairSpec
PROPERTIES BlockedWaiterReturns StopEndsRun
CHECK_DEADLOCK FALSE
