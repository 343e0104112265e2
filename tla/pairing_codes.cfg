SPECIFICATION Spec
CONSTANTS
  Code = {h1, h2}
  Node = {n1, n2}
  Caller = {c1, c2}
  None = None
  MaxFailures = 3
  RateMax = 2
  Span = 1
  MaxCuts = 1
INVARIANTS SingleUse TokensBacked FailureBudget
PROPERTIES LockIsFinal
