SPECIFICATION Spec
CONSTANTS
  Requests = {q1}
  MaxCalls = 2
  MaxFaults = 1
CHECK_DEADLOCK FALSE
INVARIANT ChoiceDecidedOnce
PROPERTY KeepsPromise
