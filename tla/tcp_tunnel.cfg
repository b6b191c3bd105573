SPECIFICATION Spec
CONSTANTS
  Half = 8
  OverflowLess = TRUE
  OverflowMore = FALSE
  Port = 443
  RemoteStart = 6
  LocalStarts = {5}
  ClientBytes = 2
  SynLengths = {0}
  ServerBytes = 2
  Windows = {2}
  Mss = 2
INVARIANTS
  SequenceAccounting
  SocketAgreesWithState
PROPERTIES
  ClosedForGood
  ImplementsLifecycle
  ClosedIsFreed
  IdleIsClosed
