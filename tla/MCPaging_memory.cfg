\* Room for every page on swap, a disk that works, loads and stores.
SPECIFICATION FairSpec
CONSTANTS
  Page = {p1, p2, p3}
  NoPage = NoPage
  TYPES = {"L", "S"}
  MEMSIZE = 2
  SWAPSIZE = 3
  ALGS = {"rand", "clock"}
  IO_FAILS = FALSE
  MAX_REFS = 7
CHECK_DEADLOCK FALSE
INVARIANTS
  TypeOK
  SwapSlotsOwned
  CleanPagesOnSwap
  PageinFromSwap
  ExpectedPage
PROPERTIES
  ImplementsMemory
  EveryReferenceServed
