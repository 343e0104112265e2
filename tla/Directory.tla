----------------------------- MODULE Directory -----------------------------
(***************************************************************************)
(* What the routing table of a hub promises, whatever the sockets do: a    *)
(* node is bound to at most one connection, a binding is always to a       *)
(* connection that never was bound before, and a binding that is gone      *)
(* never comes back.  NodeLink implements it.                              *)
(***************************************************************************)
CONSTANTS Nodes, Conns, NoConn

VARIABLES
  bound,   \* the connection each node is reached over
  spent    \* connections that were bound once

Init == bound = [n \in Nodes |-> NoConn] /\ spent = {}

Bind(n, c) ==
  /\ c \notin spent
  /\ bound' = [bound EXCEPT ![n] = c]
  /\ spent' = spent \cup {c}

Unbind(n) == bound' = [bound EXCEPT ![n] = NoConn] /\ UNCHANGED spent

Next == \E n \in Nodes : Unbind(n) \/ \E c \in Conns : Bind(n, c)

DirectorySpec == Init /\ [][Next]_<<bound, spent>>
=============================================================================
