CONSTANTS
  Callers = {c1, c2}
  Runs = {r1, r2}
  None = None
  Spurious = FALSE
  DeletesItself = TRUE
SPECIFICATION Spec
SYMMETRY Symmetry
INVARIANTS OneRunAtATime ValueVisible StopVisible WaitSeesEnd
CHECK_DEADLOCK FALSE
