SPECIFICATION MCSpec
CONSTANTS
  c1 = c1 c2 = c2 c3 = c3 c4 = c4 c5 = c5 c6 = c6 n1 = n1 n2 = n2 n3 = n3 e1 = e1
  NoConn = NoConn
  Conns = {c1} Nodes = {n1} Owner <- MCOwner
  Known = {n1} Enrolling = {} Outdated = {} Releasing = {n1}
  Skew <- MCSkew Lease = 1 MaxTime = 3 FrameCap = 1
CHECK_DEADLOCK FALSE
INVARIANT StatusExpires
