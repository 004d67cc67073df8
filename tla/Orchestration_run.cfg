SPECIFICATION FairSpec
CONSTANTS
  MaxTasks = 2
  MaxDisps = 2
  MaxWorkers = 2
  Places = {"new", "tree", "reuse"}
  MaxCalls = 1
  MaxFaults = 1
CHECK_DEADLOCK FALSE
INVARIANTS TaskAgrees DagSound
PROPERTIES SettledStays StartsEnd
