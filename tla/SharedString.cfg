CONSTANTS
  Threads = {t1, t2}
  Objects = {x1, x2, x3}
  Buffers = {b1, b2, b3, b4, b5}
  Null = Null
  Kinds = 2
  None = None
SPECIFICATION Spec
SYMMETRY Symmetry
INVARIANTS FreedByLast
PROPERTY IsValue
