SPECIFICATION Spec
CONSTANTS
  Procs = {p1, p2}
  NULL = NULL
  MaxPending = 2
INVARIANTS
  ProcessHeld
  SwitchIsRight
  SwitchInv
PROPERTIES
  SyncStopsNothing
  StopIsDone
