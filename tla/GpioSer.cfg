CONSTANTS
  LineRoom = 2
  Size = 2
  Room = 3
  ChunkMax = 2
  Values <- SomePins
  Images <- SomeImages
  MaxSlips = 3
  SelFDs = {0, 1}
  MaxReady = 1
SPECIFICATION MCFairSpec
INVARIANT ChunkFits
PROPERTIES IsRegisters SelectAnswers CallEnds
