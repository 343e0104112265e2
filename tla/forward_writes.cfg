SPECIFICATION Spec
CONSTANTS
  Hubs = {ha, hb}
  Calls = {c1}
  Offered = {"sessions_create", "sessions_cancel", "presence_claim", "code_read_file", "nodes_list"}
  MaxHops = 3
  MaxMoves = 6
  None = None
CHECK_DEADLOCK FALSE
INVARIANT AtMostOnce
INVARIANT UndeclaredNeverRuns
PROPERTY WritesBeginUnderLease
