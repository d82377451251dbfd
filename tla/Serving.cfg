SPECIFICATION ServingSpec
CONSTANTS
  Modes = {"shared", "affinity", "soft"}
  NumWorkers = 2
  MaxDepth = 2
  Spill = 1
  Steal = 1
  Threads = {0, 1}
  Keys = {0, 1}
  Tenants = {0, 1}
  MaxRequests = 3
  l1 = l1
  l2 = l2
  Loads = {l1, l2}
  Capacity = 2
  MaxFailures = 1
  NoKey = NoKey
  NoLoad = NoLoad
  NoThread = NoThread
INVARIANTS AffinityNeverCoalesces LoadedOnce
PROPERTY AllCompleted
CHECK_DEADLOCK FALSE
