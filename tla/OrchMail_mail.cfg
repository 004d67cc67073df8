SPECIFICATION Spec
CONSTANTS
  Disps = {d1}
  Run = Run
  MaxMsgs = 4
  Batch = 2
  MaxFaults = 2
CHECK_DEADLOCK FALSE
INVARIANTS  NoMissedWake
PROPERTIES KeepsMail
