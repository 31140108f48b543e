SPECIFICATION FairSpec
CONSTANTS
  VPage = {1, 2, 3, 4}
  MEMSIZE = 2
  MAX_TRACE = 6
CHECK_DEADLOCK FALSE
INVARIANTS
  TypeOK
  NeverExact
PROPERTIES
  UnneededFirst
  InitTerminates
