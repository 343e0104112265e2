SPECIFICATION FairSpec
CONSTANTS
  Hubs = {ha, hb}
  Calls = {c1}
  Offered = {"sessions_cancel"}
  MaxHops = 3
  MaxMoves = 5
  None = None
CHECK_DEADLOCK FALSE
PROPERTY CallsAnswered
