SPECIFICATION Spec
CONSTANTS
  Variants = {"preRot", "jp22", "lazy", "lazyMT", "wwl24"}
  N = 5
  Level = 2
  Batchings <- MCBatchings
  Calls = 2
  UsedOnce = {"lazyMT"}
  UsedCovered = {"lazy"}
INVARIANTS ComputesRotation ChunksDisjoint
CHECK_DEADLOCK FALSE
