SPECIFICATION Spec
CONSTANTS
  Cap = 1
  MaxLines = 3
  None = None
INVARIANTS
  LogComplete
  OkMeansAll
  TimedWhole
PROPERTIES
  CallEnds
CHECK_DEADLOCK FALSE
