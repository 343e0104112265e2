SPECIFICATION FairSpec
CONSTANTS
  DefaultPriority = 0
  Priority <- MCSamePriority
  Dialers = {1}
  InitSaved <- MCSettledStores
  MaxTerm = 6
  FaultKinds <- MCLateClose
  MaxFaults = 1
  QueueCap = 2
PROPERTIES WritesResume
