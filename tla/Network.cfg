CONSTANTS
  MaxLength = 20
  MaxThrow = 2
  MaxId = 2
  Values = {0, 1}
  MaxCalls = 3
  FDs = {0, 1}
  Other = Other
  None = None
  Unheld = Unheld
  Sockets = {s1, s2}
  Servers = {v1}
  SSLSockets = {s1}
  MaxRounds = 3
  MaxAuthThrow = 2
  LineMax = 4
  ContentMax = 8
  ErrorSize = 7
  FileSize = 5
  MaxRequests = 2
SPECIFICATION MCSpec
INVARIANTS StubsLive DescriptorsOwned AuthAgrees AnswersInOrder
PROPERTIES IsRemote 
CHECK_DEADLOCK FALSE
