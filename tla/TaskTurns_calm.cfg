SPECIFICATION Spec
CONSTANTS
  MaxTurns = 3
  MaxAsks = 1
  MaxFails = 0
  MaxCrashes = 0
  Quick = FALSE
  Approvals = FALSE
  Slow = FALSE
INVARIANTS
  NoSilentTurn
  NoDoubleNotice
\* The agent may stay idle for ever.
CHECK_DEADLOCK FALSE
