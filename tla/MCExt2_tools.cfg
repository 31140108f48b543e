SPECIFICATION Spec
CONSTANTS
  NAMES = {a, b, c}
  SLOTS = 4
  LAST_INODE = 14
  FIRST = 10
  LAST = 13
  SIZES = {1, 2}
  DEPTH = 1
  COUNTER_MOD = 5
  TOOLS <- AllTools
  MAX_COMMANDS = 8
  ALLOWED = {}
SYMMETRY Symmetry
INVARIANTS
  TypeOK
  RecordsFit
  NoSharedBlocks
  EntriesSound
  ParentsAgree
PROPERTIES
  ImplementsFileTree
  RestoreUndoes
CHECK_DEADLOCK FALSE
