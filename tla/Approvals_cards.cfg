SPECIFICATION Spec
CONSTANTS
  Requests = {q1}
  MaxCalls = 1
  MaxFaults = 1
CHECK_DEADLOCK FALSE
PROPERTIES CardRevived  DeviceHears
