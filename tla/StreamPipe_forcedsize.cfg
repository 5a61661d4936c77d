CONSTANTS
  BufSize = 2
  MaxByte = 3
  MaxCall = 3
  MaxThrow = 1
  InSize = 2
  MaxRead = 3
  MaxFail = 0
SPECIFICATION Spec
INVARIANT ForcedSize
CHECK_DEADLOCK FALSE
