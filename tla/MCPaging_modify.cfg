\* A trace with modify references.
SPECIFICATION Spec
CONSTANTS
  Page = {p1, p2, p3}
  NoPage = NoPage
  TYPES = {"L", "M"}
  MEMSIZE = 2
  SWAPSIZE = 3
  ALGS = {"lru"}
  IO_FAILS = FALSE
  MAX_REFS = 6
CHECK_DEADLOCK FALSE
PROPERTIES
  ImplementsMemory
