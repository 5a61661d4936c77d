CONSTANTS
  Names <- StringNames
  Hash <- StringHash
  ByString = TRUE
  Vals = {v1, v2, v3}
  HashSize = 16
  None = None
SPECIFICATION Spec
PROPERTY OthersKept
