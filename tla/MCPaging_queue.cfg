\* A swap file that is too small, and reads and writes that fail.
SPECIFICATION Spec
CONSTANTS
  Page = {p1, p2, p3, p4}
  NoPage = NoPage
  TYPES = {"L"}
  MEMSIZE = 3
  SWAPSIZE = 2
  ALGS = {"fifo", "lru"}
  IO_FAILS = TRUE
  MAX_REFS = 8
CHECK_DEADLOCK FALSE
INVARIANTS
  MappingsAgree
  EvictionSound
  CountersAddUp
PROPERTIES
  ImplementsQueue
