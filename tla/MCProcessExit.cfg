\* Two slots; a process that exits with the code 0xFFFFFFFE.
SPECIFICATION ExitSpec
CONSTANTS
  PROCESS_MAX = 2
  PROCESS_PRIORITY_MIN = 0
  PROCESS_PRIORITY_MAX = 0
  PROCESS_PRIORITY_DEFAULT = 0
  MAX_PID = 3
  DIRS = {d1, d2}
  NoDir = NoDir
  KernelDir = KernelDir
  VM_PAGES = {}
  PAGER_MAX_PAGES = 4
  MEMDEMO_SLOTS = {}
  BANKER_MAX_PROCESSES = 1
  BANKER_PIDS = {}
  EXIT_CODES = {7, YieldCode}
  USERMODE_RETURN_YIELD = YieldCode
INVARIANT ExitIsFinal
