CONSTANTS
  NINODES = 5
  NBLOCKS = 7
  SIZE = 13
  NDIRECT = 1
  W = 4
  IPB = 2
  BPB = 64
  HostFiles = {h1, h2}
  HostSizes = {0, 1, 5}
  MaxLinks = 2
SPECIFICATION Spec
INVARIANTS
  TypeOK
  AcceptsExactlyConsistent
  MessageIsTrue
  BuiltImageVerdict
  HardLinksShared
  ListsEachOnce
  LinkInv
CHECK_DEADLOCK FALSE
