CONSTANTS
  Conns = {c1, c2, c3}
  Calls = {k1, k2}
  NoConn = NoConn
SPECIFICATION FairSpec
CHECK_DEADLOCK FALSE
INVARIANTS AnswersMatch
PROPERTIES ImplementsCalls EveryCallSettles
