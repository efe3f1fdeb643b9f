SPECIFICATION FairSpec
CONSTANTS
  Pid = {p1, p2}
  Node = {n1, n2}
  MaxTime = 1
  Cap = 2
  ReadLen = {1, 2}
  NULL = NULL
CHECK_DEADLOCK FALSE
INVARIANTS
  TypeOK
  TrackedSafely
  QuietAfterTeardown
  UnloadFreesAll
  ReadIsSnapshot
PROPERTIES
  DeadAreRemoved
