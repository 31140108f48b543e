SPECIFICATION Spec
CONSTANTS
  NAMES = {a, b}
  SLOTS = 3
  LAST_INODE = 14
  FIRST = 10
  LAST = 13
  SIZES = {1}
  DEPTH = 0
  COUNTER_MOD = 5
  TOOLS = {"ext2_mkdir", "ext2_cp"}
  MAX_COMMANDS = 4
  ALLOWED = {}
PROPERTIES
  SuccessShows
CHECK_DEADLOCK FALSE
