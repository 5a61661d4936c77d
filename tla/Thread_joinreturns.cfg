CONSTANTS
  Callers = {c1, c2}
  Runs = {r1}
  None = None
  Spurious = FALSE
  DeletesItself = FALSE
SPECIFICATION FairSpec
PROPERTY JoinReturns
CHECK_DEADLOCK FALSE
