----------------------------- MODULE MCNodeLink -----------------------------
(* NodeLink for TLC: n1 is a node that dials up to three sockets, n2 has a  *)
(* wrong token, n3 speaks another version, e1 enrolls; a socket each.       *)
EXTENDS NodeLink

CONSTANTS c1, c2, c3, c4, c5, c6, n1, n2, n3, e1

MCOwner == [c \in Conns |-> CASE c = c4 -> n2 [] c = c5 -> n3 [] c = c6 -> e1 [] OTHER -> n1]
MCSkew == [n \in Nodes |-> IF n = n1 THEN 1 ELSE 0]

Unused(S) == \A c \in S : client[c] = "off"
Of(n) == {c \in Conns : Owner[c] = n}

\* Three slices of the behaviours: three sockets of n1 at one moment, two of
\* them as time passes, and the strangers' sockets by themselves, which share
\* neither a route nor a row with n1.
DialSliced(c) ==
  /\ IF c \in Of(n1) THEN Unused(Conns \ Of(n1)) ELSE Unused(Of(n1))
  /\ now = 0 \/ c \in {c1, c2}
  /\ Dial(c)

TickSliced == Unused(Conns \ {c1, c2}) /\ Tick

MCNext ==
  \/ \E c \in Conns : DialSliced(c) \/ ClientHears(c) \/ Said(c) \/ SocketDies(c) \/ SocketClosed(c)
  \/ \E c \in Conns : HubHears(c)
  \/ TickSliced

MCSpec == Init /\ [][MCNext]_vars /\ Fairness
=============================================================================
