SPECIFICATION FairSpec
CONSTANTS
  DefaultPriority = 0
  Priority <- MCSamePriority
  Dialers = {1}
  InitSaved <- MCFreshStores
  MaxTerm = 6
  FaultKinds <- MCNone
  MaxFaults = 0
  QueueCap = 2
PROPERTIES WritesResume
