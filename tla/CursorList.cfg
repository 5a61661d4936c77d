CONSTANTS
  Nodes = {n1, n2, n3}
  Values = {v1, v2, v3}
  None = None
  MaxLen = 3
  Loggers = {t1, t2}
  Types = {0}
  MaxDevices = 3
SPECIFICATION MCSpec
SYMMETRY Symmetry
INVARIANTS Linked NoDangling NullOnlyInEmptied CursorAtIndex EachDeviceOnce
PROPERTY IsSequence
CHECK_DEADLOCK FALSE
