\* Pages of four bytes and tables of six entries.  The kernel and the bitmap
\* take three pages; map entries overlap, straddle pages, exceed the memory and
\* wrap.  With 11 pages five are left after vmm_init: exactly what uservm takes,
\* or a process with two page tables; every call meets the end of the memory.
SPECIFICATION SpacesSpec
CONSTANTS
  WORD = 256
  PAGE_SIZE = 4
  LOW_MEMORY_RESERVED_BYTES = 4
  KERNEL_END = 6
  TOTALS = {12, 27, 46}
  STARTS = {0, 3, 8, 22, 248}
  LENGTHS = {0, 1, 6, 9, 20, 255}
  MAX_ENTRIES = 2
  PAGE_TABLE_ENTRIES = 6
  KERNEL_DIRECTORY_START = 4
  PAGER_VIRT = {2, 22}
  MEMDEMO_VIRT = {3}
  MEMDEMO_EVENT_COUNT = 2
  VMM_USER_CODE_BASE = 1
  STACK_PAGE = 23
  MAX_SPACES = 2
  MAX_LOST = 2
VIEW WithoutFreePages
INVARIANTS AllocatorExact VmmTypeOK TlbCoherent KernelShared SlotsMapped Isolated PagesAccounted
