SPECIFICATION Spec
CONSTANTS
  c1 = c1
  w1 = w1
  w2 = w2
  Callers = {c1}
  Workers = {w1, w2}
  Count = 2
  MaxRuns = 2
  Throwing = {"stage", "wait", "get"}
  Collecting = {"wait", "get"}
  StopAnytime = TRUE
  NoJob = NoJob
INVARIANTS TasksInsideFrame NoLostWakeup
PROPERTIES WaitReportsErrors JoinReturns DestructorReturns
CHECK_DEADLOCK FALSE
