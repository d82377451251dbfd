SPECIFICATION Spec
CONSTANTS
  c1 = c1
  w1 = w1
  w2 = w2
  Callers = {c1}
  Workers = {w1, w2}
  Count = 1
  MaxRuns = 1
  Throwing = {}
  Collecting = {}
  StopAnytime = FALSE
  NoJob = NoJob
INVARIANT GroupOutlivesFinish
CHECK_DEADLOCK FALSE
