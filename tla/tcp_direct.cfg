SPECIFICATION Spec
CONSTANTS
  Half = 8
  OverflowLess = TRUE
  OverflowMore = FALSE
  Port = 22
  RemoteStart = 14
  LocalStarts = {1, 6}
  ClientBytes = 2
  SynLengths = {0, 1}
  ServerBytes = 2
  Windows = {0, 1}
  Mss = 2
INVARIANTS
  TypeOK
  EventHasSession
  SequenceAccounting
  FinAfterForward
  QueueInOrder
PROPERTIES
  WithinWindow
  NeverBackwards
  ClosingIsClosed
