SPECIFICATION Spec
CONSTANTS
  Threads = {t1}
  PerThread = 2
  MaxLive = 1
  MaxProcs = 3
  MaxSends = 3
  MaxFaults = 2
CHECK_DEADLOCK FALSE
INVARIANTS  TurnsPaired ShownIsDone OneProcessUncrowded
PROPERTIES NotSentTwice Settles
