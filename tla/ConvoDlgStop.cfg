SPECIFICATION Spec
CONSTANTS
  NSteps = 2
  StartWith = {"start"}
  MaxQueue = 0
INVARIANT StopHeeded
CHECK_DEADLOCK FALSE
