SPECIFICATION Spec
CHECK_DEADLOCK FALSE
CONSTANTS
  o1 = o1
  o2 = o2
  o3 = o3
  Objects = {o1, o2, o3}
  ExitCodes = {0, 1, 259}
INVARIANTS
  RunningIsActual
