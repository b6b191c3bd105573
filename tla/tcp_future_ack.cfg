SPECIFICATION Spec
CONSTANTS
  Half = 8
  OverflowLess = TRUE
  OverflowMore = FALSE
  Port = 80
  RemoteStart = 14
  LocalStarts = {6}
  ClientBytes = 2
  SynLengths = {0}
  ServerBytes = 2
  Windows = {2}
  Mss = 2
PROPERTIES
  WrittenIsNoFuture
