SPECIFICATION FairSpec
CONSTANTS
  Hubs = {ha, hb}
  MaxSeen = 2
  MaxMoves = 2
  MaxBreaks = 2
  MaxWire = 2
  None = None
CHECK_DEADLOCK FALSE
PROPERTY SeenConverges
