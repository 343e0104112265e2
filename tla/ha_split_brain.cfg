SPECIFICATION Spec
CONSTANTS
  DefaultPriority = 0
  Priority <- MCSamePriority
  Dialers = {1, 2}
  InitSaved <- MCReplacedLeader
  MaxTerm = 3
  FaultKinds <- MCNone
  MaxFaults = 0
  QueueCap = 1
INVARIANTS SingleWriter
