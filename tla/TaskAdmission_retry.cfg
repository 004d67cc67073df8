SPECIFICATION FairSpec
CONSTANTS
  c1 = c1
  c2 = c2
  c3 = c3
  d1 = d1
  e1 = e1
  x = x
  y = y
  z = z
  None = None
  Error = Error
  Calls = {c1, c2, c3, d1, e1}
  OpIdOf <- Retried
  CountOf <- OneRun
  MaxOpenTasks = 2
  MaxRuns = 2
  Keep = 2
  MaxCrashes = 1
INVARIANTS
  CreatedOnce
  InflightLive
PROPERTIES
  CallsAnswered
CHECK_DEADLOCK FALSE
