SPECIFICATION Spec
CONSTANTS
  Hubs = {ha, hb}
  MaxSeen = 3
  MaxMoves = 4
  MaxBreaks = 2
  MaxWire = 2
  None = None
CHECK_DEADLOCK FALSE
INVARIANT SettledSeen
PROPERTY SeenGrows
