SPECIFICATION FairSpec
CONSTANTS
  DefaultPriority = 0
  Priority <- MCSamePriority
  Dialers = {1, 2}
  InitSaved <- MCSettledStores
  MaxTerm = 2
  FaultKinds <- MCCuts
  MaxFaults = 1
  QueueCap = 1
PROPERTIES OutboundReturns
