SPECIFICATION Spec
CONSTANTS
  UlongMod = 1048576
  Pid = {p1, p2}
  Pcb = {b1, b2}
  PeriodArg = {3, 5}
  CompArg = {1}
  SMP = FALSE
  ForeignPid = FALSE
  NULL = NULL
SYMMETRY Symmetry
CHECK_DEADLOCK FALSE
INVARIANTS
  DispatchedIsAwake
