SPECIFICATION Spec
CONSTANTS
  Hubs = {ha, hb}
  Calls = {c1}
  Offered = {"sessions_cancel", "code_read_file"}
  MaxHops = 2
  MaxMoves = 4
  None = None
CHECK_DEADLOCK FALSE
PROPERTY LeaseFences
