SPECIFICATION MCSpec
CONSTANTS
  c1 = c1 c2 = c2 c3 = c3 c4 = c4 c5 = c5 c6 = c6 n1 = n1 n2 = n2 n3 = n3 e1 = e1
  NoConn = NoConn
  Conns = {c1, c2, c3, c4, c5, c6} Nodes = {n1, n2, n3, e1} Owner <- MCOwner
  Known = {n1} Enrolling = {e1} Outdated = {n3} Releasing = {n1}
  Skew <- MCSkew Lease = 1 MaxTime = 1 FrameCap = 1
CHECK_DEADLOCK FALSE
INVARIANTS NewestRouted OutcomesAgree
PROPERTIES ImplementsDirectory HandshakeEnds
