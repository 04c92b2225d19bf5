\* Two entries and three pids, so that the table can be full; claims may
\* exceed the total, so that unsafe states occur.
SPECIFICATION BankerSpec
CONSTANTS
  BANKER_MAX_PROCESSES = 2
  RESOURCES = {r1, r2}
  PIDS = {1, 2, 3}
  AMOUNTS = {0, 1, 2}
SYMMETRY ResourceSymmetry
INVARIANTS TableExact WithinTotal LoopDecidesSafety
PROPERTIES GrantsAreSafe
