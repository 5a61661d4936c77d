CONSTANTS
  BufSize = 2
  MaxByte = 3
  MaxCall = 3
  MaxThrow = 1
  InSize = 2
  MaxRead = 3
  MaxFail = 1
  Junk = "junk"
  Arguments <- MCArguments
  MaxText = 4
  MaxBuf = 6
  FormatSize = 2
  PropKeys <- MCPropKeys
  PropValues <- MCPropValues
  HandFiles <- MCHandFiles
  MaxProps = 2
  DirNames <- MCDirNames
  MaxStack = 4
  MaxChanges = 2
SPECIFICATION MCSpec
INVARIANTS CopiesInOrder EachByteOnce ReadsInOrder TextIsMeant FileIsReadBack MkdirMakes
PROPERTY ForcedIsFull
CHECK_DEADLOCK FALSE
