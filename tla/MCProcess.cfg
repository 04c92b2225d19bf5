\* Three slots, four processes one after another; each has its two pages and
\* there is room for one data page; a memdemo slot and a banker registration.
SPECIFICATION Spec
CONSTANTS
  PROCESS_MAX = 3
  PROCESS_PRIORITY_MIN = 0
  PROCESS_PRIORITY_MAX = 1
  PROCESS_PRIORITY_DEFAULT = 0
  MAX_PID = 5
  DIRS = {d1, d2, d3}
  NoDir = NoDir
  KernelDir = KernelDir
  VM_PAGES = {v1}
  PAGER_MAX_PAGES = 7
  MEMDEMO_SLOTS = {m1}
  BANKER_MAX_PROCESSES = 2
  BANKER_PIDS = {1}
  EXIT_CODES = {7, YieldCode}
  USERMODE_RETURN_YIELD = YieldCode
SYMMETRY DirSymmetry
INVARIANTS TypeOK PidsUnique ParentAlive RunningIsCurrent SpacesOwned PagesOwned
PROPERTIES ZombieIsFinal PidNeverReused HighestPriorityFirst ReleaseUnregisters
