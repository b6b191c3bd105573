SPECIFICATION Spec
CONSTANTS
  Threads = {t1, t2}
  Descriptors = {d1, d2}
  NULL = NULL
  MaxBytes = 2
INVARIANTS
  TypeOK
  RunningThread
  ClearIsAlone
  TunnelIsServed
  NothingLeft
PROPERTIES
  ImplementsLife
  StopReturns
