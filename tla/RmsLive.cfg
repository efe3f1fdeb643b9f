SPECIFICATION FairSpec
CONSTANTS
  UlongMod = 1048576
  Pid = {p1, p2}
  Pcb = {b1}
  PeriodArg = {4}
  CompArg = {1}
  SMP = TRUE
  ForeignPid = TRUE
  NULL = NULL
CHECK_DEADLOCK FALSE
PROPERTIES
  DispatchProgress
  UnloadReachesProcRemove
