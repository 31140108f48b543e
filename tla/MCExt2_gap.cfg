SPECIFICATION Spec
CONSTANTS
  NAMES = {a, b, c}
  SLOTS = 5
  LAST_INODE = 14
  FIRST = 10
  LAST = 13
  SIZES = {1}
  DEPTH = 0
  COUNTER_MOD = 5
  TOOLS = {"ext2_cp", "ext2_rm"}
  MAX_COMMANDS = 6
  ALLOWED = {"wide_gap"}
SYMMETRY Symmetry
PROPERTIES
  CopyKeeps
CHECK_DEADLOCK FALSE
