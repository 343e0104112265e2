------------------------------ MODULE OnePipe ------------------------------
(***************************************************************************)
(* Why one control plane writes at a time when one of them dials: the      *)
(* inductive invariant behind HubHa!SingleWriter for a single pipe.        *)
(*                                                                         *)
(* W is the object of the CP that wins every election the two settle       *)
(* between them (the senior one), L that of its peer; p holds the frames W *)
(* has in flight to L and q those L has in flight to W, on the pipe the CP *)
(* a dialed.  "on" says that a has identified its peer over that pipe.     *)
(* The argument: L never wins, so W grants no election; L never gives a    *)
(* term back, and W gives one back only by winning an election of the term *)
(* below; so an acknowledgement of a lease and one of an earlier or later  *)
(* lease never cross.                                                      *)
(***************************************************************************)
EXTENDS HubHa

Senior == ElectLeader({[cpId |-> c, priority |-> Priority[c]] : c \in CP})
Junior == Peer(Senior)

----------------------------------------------------------------------------
(* What a frame means to the two of them. *)

IsHello(m)  == m.type \in {"sync", "syncReply"}
IsState(m)  == IsHello(m) \/ m.type = "heartbeat"
Tells(m)    == IsState(m) \/ (m.type = "electReply" /\ ~m.ok)
Proposes(m) == m.type = "elect"
Wins(m)     == m.type = "electReply" /\ m.ok
Asks(m)     == m.type = "lease" /\ m.for \in {"election", "tick"}
Grants(m)   == m.type = "leaseReply" /\ m.ok /\ m.for \in {"election", "tick"}

\* The answer to an election someone still awaits, and the proposal of one.
Decides(m)  == m.type = "electReply" /\ m.for = "election"
Pending(m)  == Proposes(m) /\ m.for = "election"

\* W has heard L's declared state over this pipe, or is about to answer it.
Met(a, up, on, p) == up /\ (on \/ (a = Junior /\ \E i \in DOMAIN p : p[i].type = "syncReply"))

----------------------------------------------------------------------------
(* The parts of the invariant. *)

\* The pipe opens with one sync and one reply to it, f being the dialer's
\* frames: until the reply is taken the dialer asks for nothing.
Hello(on, f, g) ==
  /\ \A i \in DOMAIN f : f[i].type # "syncReply" /\ (f[i].type \in {"elect", "lease"} => on)
  /\ \A i \in DOMAIN g : g[i].type # "sync"
  /\ on => (\A i \in DOMAIN f : f[i].type # "sync") /\ (\A i \in DOMAIN g : g[i].type # "syncReply")
  /\ \A i \in DOMAIN f, j \in DOMAIN g : ~(f[i].type = "sync" /\ g[j].type = "syncReply")
  /\ \A i, j \in DOMAIN f : f[i].type = "sync" /\ f[j].type = "sync" => i = j
  /\ \A i, j \in DOMAIN g : g[i].type = "syncReply" /\ g[j].type = "syncReply" => i = j

\* Once they met, W knows L's priority, so it wins and L does not.
Known(W, on, met, p, q) ==
  /\ met \/ W.electedTerm # 0 => W.peerPriority = Priority[Junior]
  /\ W.electedTerm # 0 /\ W.role = "leader" => W.leader = Senior
  /\ \A i \in DOMAIN p : ~Wins(p[i])
  /\ \A i \in DOMAIN q : (Wins(q[i]) => on) /\ (IsState(q[i]) => q[i].priority = Priority[Junior])

\* While W awaits an election it asks for nothing else.
Ordered(p, q) ==
  /\ \A i, j \in DOMAIN p : i < j /\ Pending(p[i]) => ~Proposes(p[j]) /\ ~Asks(p[j])
  /\ \A i \in DOMAIN q : Decides(q[i]) =>
       /\ \A j \in DOMAIN p : ~Proposes(p[j]) /\ ~Asks(p[j])
       /\ \A j \in DOMAIN q : i < j => ~Grants(q[j])

\* W won an election and has not got the lease: it stays where it is until L
\* tells it a later term.
Leads(W) ==
  W.electedTerm = W.term /\ W.leader = Senior /\ W.role = "leader" /\ W.phase = "nominating"

\* W can start no election and take no lease before it hears from L.
Stuck(W, p, q) ==
  /\ W.electing # "asked"
  /\ ~Attached(W) \/ Leads(W)
  /\ \A i \in DOMAIN p : ~Proposes(p[i])
  /\ \A i \in DOMAIN q : ~Grants(q[i])

Loose(W, on, p, q) == on /\ Stuck(W, p, q)

\* How far the terms drift apart: by one more when W went back to win.
Terms(W, L, on, met, p, q) ==
  /\ W.peerTerm <= W.term /\ W.peerTerm <= L.term
  /\ \A i \in DOMAIN q : Tells(q[i]) => q[i].term <= L.term
  /\ \A i \in DOMAIN p : Tells(p[i]) =>
       p[i].term <= W.term \/ (Loose(W, on, p, q) /\ p[i].term <= W.term + 1)
  /\ \A i, j \in DOMAIN p : i < j /\ Asks(p[i]) /\ Tells(p[j]) => p[j].term <= W.term
  /\ met => L.term <= W.term + 1 \/ (Loose(W, on, p, q) /\ L.term <= W.term + 2)
  /\ \A i \in DOMAIN q : IsHello(q[i]) => L.term <= q[i].term + 1 \/ L.term <= W.term + 1

\* Frame i of p is read after the two met.
Heard(p, i) == \A j \in DOMAIN p : p[j].type = "syncReply" => j < i

\* A proposal that may be granted is not behind L, nor is its answer far from W.
Rounds(W, L, met, p, q) ==
  /\ \A i \in DOMAIN p : Proposes(p[i]) => p[i].term <= W.term + 1
  /\ \A i \in DOMAIN p : met /\ Proposes(p[i]) /\ Heard(p, i) =>
       /\ L.term <= p[i].term
       /\ Pending(p[i]) => W.term <= p[i].term + 1
       /\ \A j \in DOMAIN p : j < i /\ Tells(p[j]) => p[j].term < p[i].term
       /\ \A j \in DOMAIN p : j < i /\ Proposes(p[j]) => p[j].term <= p[i].term
  /\ \A i \in DOMAIN q : Wins(q[i]) /\ Decides(q[i]) =>
       /\ W.term <= q[i].proposed + 1
       /\ W.peerTerm <= q[i].proposed
       /\ \A j \in DOMAIN q : j < i /\ Tells(q[j]) => q[j].term <= q[i].proposed

\* W is past the lease it asks for in m, or still leads its term.
Backs(W, m) == W.term >= m.term /\ (W.term = m.term => W.leader = Senior)

\* An acknowledgement that reaches one side rules out one for the other.
Leases(W, L, p, q) ==
  /\ \A i \in DOMAIN p : Asks(p[i]) => Backs(W, p[i])
  /\ \A i \in DOMAIN q : Asks(q[i]) => L.term >= q[i].term
  /\ \A i, j \in DOMAIN p : i < j /\ Asks(p[i]) /\ Grants(p[j]) => L.term > p[i].term
  /\ \A i, j \in DOMAIN q : i < j /\ Asks(q[i]) /\ Grants(q[j]) => Backs(W, q[i])
  /\ \A i \in DOMAIN p, j \in DOMAIN q : ~(Grants(p[i]) /\ Grants(q[j]))
  /\ (\E i \in DOMAIN p : Grants(p[i])) => W.phase # "leader-leased"
  /\ (\E i \in DOMAIN q : Grants(q[i])) => L.phase # "leader-leased"
  /\ ~(W.phase = "leader-leased" /\ L.phase = "leader-leased")

Agrees(a, W, L, p, q, up, on) ==
  LET met == Met(a, up, on, p) IN
  /\ IF a = Senior THEN Hello(on, p, q) ELSE Hello(on, q, p)
  /\ Known(W, on, met, p, q)
  /\ Ordered(p, q)
  /\ Terms(W, L, on, met, p, q)
  /\ Rounds(W, L, met, p, q)
  /\ Leases(W, L, p, q)

----------------------------------------------------------------------------
(* The invariant of the pair. *)

\* Only the pipe of a exists, and its ends know of it in this order.
Wired(a) ==
  LET b == Peer(a) IN
  /\ link[b] = "closed" /\ \A s \in CP : chan[b][s] = << >>
  /\ link[a] # "up" => \A s \in CP : chan[a][s] = << >>
  /\ link[a] = "closed" => ha[a].out = "none"
  /\ ~orphan[a] /\ ~ha[a].peerIn
  /\ ha[a].peerOut = IF ha[a].out = "identified" THEN "live" ELSE "none"
  /\ ha[b].out = "none" /\ ha[b].peerOut = "none"

OnePipeInv(a) ==
  /\ Wired(a)
  /\ Agrees(a, ha[Senior], ha[Junior], chan[a][Senior], chan[a][Junior],
            link[a] = "up", ha[a].peerOut = "live")

=============================================================================
