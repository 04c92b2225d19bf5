\* Interrupts at every point of the loop: two slots, four commands typed.
\* MAX_PID is large enough never to stop a spawn.
SPECIFICATION KernelSpec
CONSTANTS
  PROCESS_MAX = 2
  PROCESS_PRIORITY_MIN = 0
  PROCESS_PRIORITY_MAX = 1
  PROCESS_PRIORITY_DEFAULT = 0
  MAX_PID = 8
  DIRS = {d1, d2}
  PAGER_MAX_PAGES = 4
  NoDir = NoDir
  KernelDir = KernelDir
  VM_PAGES = {}
  MEMDEMO_SLOTS = {}
  BANKER_MAX_PROCESSES = 1
  BANKER_PIDS = {}
  EXIT_CODES = {0}
  USERMODE_RETURN_YIELD = YieldCode
  DEFAULT_TIMESLICE = 2
  TIMESLICES = {0, 2}
  COMMANDS <- AllCommands
  KEYBOARD_SIZE = 2
  MAX_KEYS = 4
  MAX_PENDING = 2
  SLOW_TIMER = FALSE
SYMMETRY DirSymmetry
INVARIANTS KernelTypeOK ContextExact NoSleepOnWork
