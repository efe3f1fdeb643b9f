SPECIFICATION Spec
CONSTANTS
  UlongMod = 1048576
  Pid = {p1, p2}
  Pcb = {b1, b2}
  PeriodArg = {0, 4}
  CompArg = {1}
  SMP = TRUE
  ForeignPid = TRUE
  NULL = NULL
SYMMETRY Symmetry
CHECK_DEADLOCK FALSE
INVARIANTS
  TypeOK
  NoUseAfterFree
  NoDoubleFree
  OnlyKnownLeaks
  IndInv
PROPERTIES
  ImplementsRegistry
