CONSTANTS
  N = 2 MaxBackoff = 2 LongFrom = 2 MaxFaults = 1
  FaultKinds = {"silent"}
  MayStop = FALSE Prompt = TRUE
SPECIFICATION EarlySpec
CHECK_DEADLOCK FALSE
PROPERTY NeverHangs
