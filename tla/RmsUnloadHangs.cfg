SPECIFICATION FairSpec
CONSTANTS
  UlongMod = 1048576
  Pid = {p1, p2}
  Pcb = {b1, b2}
  PeriodArg = {4}
  CompArg = {1}
  SMP = FALSE
  ForeignPid = FALSE
  NULL = NULL
CHECK_DEADLOCK FALSE
PROPERTIES
  UnloadCompletes
