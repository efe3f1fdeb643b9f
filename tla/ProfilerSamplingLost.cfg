SPECIFICATION Spec
CONSTANTS
  Pid = {p1, p2}
  Writer = {w1, w2}
  BufMax = 8
  Stamps = 3
  MonitorLive = FALSE
  Rmmod = rmmod
  EMPTY = EMPTY
CHECK_DEADLOCK FALSE
INVARIANT SamplingRuns
