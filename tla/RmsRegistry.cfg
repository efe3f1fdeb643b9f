SPECIFICATION Spec
CONSTANTS
  UlongMod = 1048576
  Pid = {1, 2, 3, 4}
  PeriodArg <- SmallPeriods
  CompArg <- SmallComps
INVARIANTS
  TypeOK
  SmallSetsAreSchedulable
  TruncationSlack
  AdmittedInv
