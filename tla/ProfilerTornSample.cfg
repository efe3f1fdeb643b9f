SPECIFICATION Spec
CONSTANTS
  Pid = {p1}
  Writer = {w1}
  BufMax = 8
  Stamps = 3
  MonitorLive = TRUE
  Rmmod = rmmod
  EMPTY = EMPTY
CHECK_DEADLOCK FALSE
INVARIANT MonitorPrintsSamples
