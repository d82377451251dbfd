SPECIFICATION QueueSpec
CONSTANTS
  Modes = {"shared", "affinity", "soft"}
  NumWorkers = 2
  MaxDepth = 2
  Spill = 2
  Steal = 2
  Tenants = {0, 1, 2}
  MaxRequests = 4
INVARIANTS EachRequestOnce OrderKept NoLostWakeup StaysWhileNeeded
PROPERTY AllServed
CHECK_DEADLOCK FALSE
