SPECIFICATION FairSpec
CONSTANTS
  MaxTurns = 2
  MaxAsks = 1
  MaxFails = 1
  MaxCrashes = 1
  Quick = TRUE
  Approvals = TRUE
  Slow = TRUE
INVARIANTS
  ReadyOncePerTurn
PROPERTIES
  ReviewedTurn
\* The agent may stay idle for ever.
CHECK_DEADLOCK FALSE
