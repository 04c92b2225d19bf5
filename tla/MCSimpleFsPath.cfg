\* The same disk, no faults.
SPECIFICATION FsSpec
CONSTANTS
  BYTES_PER_SECTOR = 2
  ENTRIES_PER_SECTOR = 3
  INODES_PER_SECTOR = 2
  SIMPLEFS_MAX_INODES = 3
  SIMPLEFS_DATA_BLOCKS = 5
  SIMPLEFS_DIRECT_BLOCKS = 1
  SIMPLEFS_INDIRECT_ENTRIES = 1
  SIMPLEFS_MAX_OPEN_FILES = 1
  NAMES = {"a", "b"}
  x = x
  y = y
  BYTES = {x, y}
  ZERO = ZERO
  INVALID = INVALID
  DATA <- Texts
  OFFSETS = {1, 5}
  FAULTS = {}
  MAX_CALLS = 6
  MAX_OPEN = 0
VIEW WithoutFreeBlocks
INVARIANT WorkingDirectoryShown
