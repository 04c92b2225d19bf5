\* One resource: a pid that is registered twice.
SPECIFICATION BankerSpec
CONSTANTS
  BANKER_MAX_PROCESSES = 2
  RESOURCES = {r1}
  PIDS = {1, 2}
  AMOUNTS = {0, 1, 2}
INVARIANT AllReturned
