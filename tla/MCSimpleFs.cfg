\* A disk of five blocks: a directory grows over its first block with its second
\* name, the longer text takes three blocks, and the disk soon is full.  The
\* machine stops, or a write is reported as failed, at every sector of every
\* call, with no file open but the one a call writes through; after four calls
\* that write, mkfs.
SPECIFICATION FsSpec
CONSTANTS
  BYTES_PER_SECTOR = 2
  ENTRIES_PER_SECTOR = 3
  INODES_PER_SECTOR = 2
  SIMPLEFS_MAX_INODES = 3
  SIMPLEFS_DATA_BLOCKS = 5
  SIMPLEFS_DIRECT_BLOCKS = 1
  SIMPLEFS_INDIRECT_ENTRIES = 1
  SIMPLEFS_MAX_OPEN_FILES = 1
  NAMES = {"a", "b"}
  x = x
  y = y
  BYTES = {x, y}
  ZERO = ZERO
  INVALID = INVALID
  DATA <- Texts
  OFFSETS = {1, 5}
  FAULTS = {"stop", "late", "lost"}
  MAX_CALLS = 4
  MAX_OPEN = 0
VIEW WithoutFreeBlocks
INVARIANTS TablesSound BlocksOwned Synced
PROPERTIES ImplementsStore StaysMountable
