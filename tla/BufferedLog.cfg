SPECIFICATION Spec
CONSTANTS
  Threads = {t1, t2}
  LineLength <- MCLineLength
  BufSize = 6
  None = None
INVARIANTS InOrderOnce ChunksWhole FlushCovers
PROPERTY CallsReturn
CHECK_DEADLOCK FALSE
