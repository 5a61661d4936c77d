CONSTANTS
  None = None
  MaxLen = 3
  Cells = {1, 2}
  DefaultBuf = 1
  MaxGrow = 1
  Lists = {l1, l2}
  Elems = {d1, d2, d3}
  Keys = {0, 1, 2, 3}
  Vals = {d1, d2, d3}
  HashSize = 2
SPECIFICATION MCSpec
SYMMETRY Symmetry
INVARIANTS StructuresSound WalkComplete
PROPERTIES IsArray IsMap
CHECK_DEADLOCK FALSE
