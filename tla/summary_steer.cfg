SPECIFICATION Spec
CONSTANTS
  Readers = {}
  Writers = {}
  Passed = {}
  Steers = {s1, s2}
  Ttl = 1
  MaxCall = 1
  MaxTurns = 2
  MaxTime = 1
  None = None
CHECK_DEADLOCK FALSE
INVARIANT SteerTold
