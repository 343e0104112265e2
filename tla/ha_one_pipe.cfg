SPECIFICATION Spec
CONSTANTS
  DefaultPriority = 0
  Priority <- MCSecondFirst
  Dialers = {1}
  InitSaved <- MCFreshStores
  MaxTerm = 4
  FaultKinds <- MCAllFaults
  MaxFaults = 1
  QueueCap = 2
INVARIANTS SingleWriter OneElection
