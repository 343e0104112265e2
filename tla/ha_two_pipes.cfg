SPECIFICATION Spec
CONSTANTS
  DefaultPriority = 0
  Priority <- MCSamePriority
  Dialers = {1, 2}
  InitSaved <- MCSettledStores
  MaxTerm = 3
  FaultKinds <- MCDeathsAndLateClose
  MaxFaults = 1
  QueueCap = 1
INVARIANTS SavedTermIsCurrent LeaseNeedsElection
PROPERTIES LoneOnlyForgotten
