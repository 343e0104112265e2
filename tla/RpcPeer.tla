------------------------------- MODULE RpcPeer -------------------------------
(***************************************************************************)
(* The JSON-RPC layer of packages/protocol/src/jsonrpc.ts as the hub uses  *)
(* it to call one node agent (ControlPlane.forward -> HubConnection        *)
(* .request -> RpcPeer.request), across the reconnects of that agent: every*)
(* connection has a hub peer of its own whose ids start again at 1, and the*)
(* agent hands every frame it hears to its one current peer (agent.ts,     *)
(* onWire), whichever socket it came from.                                 *)
(*                                                                         *)
(* Frames in flight are sets: no property here depends on their order, so  *)
(* the model allows every one.                                             *)
(***************************************************************************)
EXTENDS Naturals

CONSTANTS
  Conns,    \* the connections the agent opens, one after the other
  Calls,    \* the calls the hub makes
  NoConn    \* no connection

ASSUME ConnAssumption == NoConn \notin Conns

VARIABLES
  \* @agent: sockets it has open, and the connection its this.peer writes to
  agentOpen, cur,
  \* @hub: what became of each connection, the connection of the routing map
  hubConn, route,
  \* @hub peers: next id and the pending map of each connection
  nextId, pending,
  \* frames in flight and handlers that run at the agent
  requests, running, responses,
  \* the promise of each call: its state and the call its answer is for
  status, answer,
  \* calls whose handler the agent has started
  started

agentVars == <<agentOpen, cur>>
hubVars   == <<hubConn, route>>
netVars   == <<requests, running, responses>>
callVars  == <<status, answer, started>>
vars      == <<agentVars, hubVars, nextId, pending, netVars, callVars>>

Frame    == [conn : Conns, id : Nat, call : Calls]
Response == [conn : Conns, id : Nat, call : Calls, ok : BOOLEAN]

Init ==
  /\ agentOpen = {} /\ cur = NoConn
  /\ hubConn = [c \in Conns |-> "new"] /\ route = NoConn
  /\ nextId = [c \in Conns |-> 1] /\ pending = {}
  /\ requests = {} /\ running = {} /\ responses = {}
  /\ status = [k \in Calls |-> "idle"]
  /\ answer = [k \in Calls |-> k]
  /\ started = [k \in Calls |-> FALSE]

-----------------------------------------------------------------------------
(* The pending map of RpcPeer *)

\* pending.delete.  Mutant: a settled entry stays in the map.
KeepEntries(P) == pending

Unregister(P) == pending \ P

\* Mutant of ClosePeer: the map is cleared and nobody told.
ClosePeerSilently(c) ==
  /\ pending' = {p \in pending : p.conn # c}
  /\ UNCHANGED status

\* close(): every pending request of the peer is rejected and forgotten.
ClosePeer(c) ==
  LET lost == {p \in pending : p.conn = c}
  IN /\ pending' = Unregister(lost)
     /\ status' = [k \in Calls |-> IF \E p \in lost : p.call = k THEN "failed" ELSE status[k]]

\* request(): the next id, a pending entry, one frame.  The socket drops the
\* frame when it is no longer open; the entry stays until its timer.
SendRequest(c, k) ==
  LET f == [conn |-> c, id |-> nextId[c], call |-> k]
  IN /\ nextId' = [nextId EXCEPT ![c] = nextId[c] + 1]
     /\ pending' = pending \cup {f}
     /\ requests' = IF c \in agentOpen THEN requests \cup {f} ELSE requests
     /\ status' = [status EXCEPT ![k] = "waiting"]

\* Where the agent's answer to a request with this id goes: the socket of the
\* peer that dispatched it, which is this.peer and not the socket it came from.
Dispatched(f) == [conn |-> cur, id |-> f.id, call |-> f.call]

-----------------------------------------------------------------------------
(* The agent *)

\* Mutant of OpenOnly: connect() leaves the previous socket open.
OpenToo(c) == agentOpen \cup {c}

\* connect() closes the previous socket before it opens the next one.
OpenOnly(c) == {c}

\* connect, handshake and onConnected: a new socket, a new peer; the hub
\* creates its peer and routes the node over the new connection.
Connected(c) ==
  /\ hubConn[c] = "new"
  /\ agentOpen' = OpenOnly(c) /\ cur' = c
  /\ hubConn' = [hubConn EXCEPT ![c] = "live"]
  /\ route' = c
  /\ UNCHANGED <<nextId, pending, netVars, callVars>>

\* The agent's socket closes without its doing; this.peer stays until the
\* reconnect timer fires.
AgentSocketClosed(c) ==
  /\ c \in agentOpen
  /\ agentOpen' = agentOpen \ {c}
  /\ UNCHANGED <<cur, hubVars, nextId, pending, netVars, callVars>>

\* The reconnect timer: peer.close(), peer = undefined, connect() closes the
\* old socket.
ReconnectTimer ==
  /\ cur # NoConn
  /\ cur' = NoConn /\ agentOpen' = {}
  /\ UNCHANGED <<hubVars, nextId, pending, netVars, callVars>>

\* onWire: a request frame arrives over an open socket; without a peer it is
\* dropped.
AgentHears(f) ==
  /\ f \in requests /\ f.conn \in agentOpen
  /\ requests' = requests \ {f}
  /\ IF cur = NoConn
     THEN UNCHANGED <<running, started>>
     ELSE /\ running' = running \cup {Dispatched(f)}
          /\ started' = [started EXCEPT ![f.call] = TRUE]
  /\ UNCHANGED <<agentVars, hubVars, nextId, pending, responses, status, answer>>

\* The handler ends, with a result or an error; a closed socket drops the
\* answer.
AgentAnswers(f, ok) ==
  /\ f \in running
  /\ running' = running \ {f}
  /\ responses' = IF f.conn \in agentOpen
                  THEN responses \cup {[conn |-> f.conn, id |-> f.id, call |-> f.call, ok |-> ok]}
                  ELSE responses
  /\ UNCHANGED <<agentVars, hubVars, nextId, pending, requests, callVars>>

-----------------------------------------------------------------------------
(* The hub *)

\* ControlPlane.forward over the connection of the routing map.
Forward(k) ==
  /\ status[k] = "idle" /\ route # NoConn
  /\ SendRequest(route, k)
  /\ UNCHANGED <<agentVars, hubVars, running, responses, answer, started>>

\* dispatch of a response: settle the pending entry with this id, ignore any
\* other id.  A closed HubConnection reads nothing.
HubHears(r) ==
  /\ r \in responses /\ hubConn[r.conn] = "live"
  /\ responses' = responses \ {r}
  /\ LET mine == {p \in pending : p.conn = r.conn /\ p.id = r.id}
     IN /\ pending' = Unregister(mine)
        /\ status' = [k \in Calls |-> IF \E p \in mine : p.call = k
                                      THEN IF r.ok THEN "ok" ELSE "failed"
                                      ELSE status[k]]
        /\ answer' = [k \in Calls |-> IF \E p \in mine : p.call = k
                                      THEN r.call ELSE answer[k]]
  /\ UNCHANGED <<agentVars, hubVars, nextId, requests, running, started>>

\* The timer of a pending request.
Timeout(p) ==
  /\ p \in pending
  /\ pending' = Unregister({p})
  /\ status' = [status EXCEPT ![p.call] = "failed"]
  /\ UNCHANGED <<agentVars, hubVars, nextId, netVars, answer, started>>

\* HubConnection.close on the socket's close event: it may come long after
\* the agent is back on another connection.
HubCloses(c) ==
  /\ hubConn[c] = "live" /\ c \notin agentOpen
  /\ hubConn' = [hubConn EXCEPT ![c] = "closed"]
  /\ route' = IF route = c THEN NoConn ELSE route
  /\ ClosePeer(c)
  /\ UNCHANGED <<agentVars, nextId, netVars, answer, started>>

Next ==
  \/ \E c \in Conns : Connected(c) \/ AgentSocketClosed(c) \/ HubCloses(c)
  \/ ReconnectTimer
  \/ \E f \in requests : AgentHears(f)
  \/ \E f \in running, ok \in BOOLEAN : AgentAnswers(f, ok)
  \/ \E k \in Calls : Forward(k)
  \/ \E r \in responses : HubHears(r)
  \/ \E p \in pending : Timeout(p)

Spec == Init /\ [][Next]_vars

\* Only the timers are promised by the runtime: no answer, no close event.
FairSpec == Spec /\ \A k \in Calls : WF_vars(\E p \in pending : p.call = k /\ Timeout(p))

-----------------------------------------------------------------------------
(* Properties *)

TypeOK ==
  /\ agentOpen \in SUBSET Conns /\ cur \in Conns \cup {NoConn}
  /\ hubConn \in [Conns -> {"new", "live", "closed"}] /\ route \in Conns \cup {NoConn}
  /\ nextId \in [Conns -> Nat]
  /\ pending \in SUBSET Frame
  /\ requests \in SUBSET Frame /\ running \in SUBSET Frame /\ responses \in SUBSET Response
  /\ status \in [Calls -> {"idle", "waiting", "ok", "failed"}]
  /\ answer \in [Calls -> Calls]
  /\ started \in [Calls -> BOOLEAN]

\* An answer reaches the call it was computed for, although the ids of two
\* connections coincide and the agent answers over whichever peer is current
\* (agent.ts onWire, jsonrpc.ts dispatch).
AnswersMatch == \A k \in Calls : status[k] = "ok" => answer[k] = k

\* The hub waits for exactly the calls some pending map holds: no promise is
\* forgotten by a close, none is left behind by an answer.
NothingForgotten ==
  \A k \in Calls : status[k] = "waiting" <=> \E p \in pending : p.call = k

\* Every call the hub makes settles, even when the node never answers and the
\* close event never comes: the request timer is enough.
EveryCallSettles == \A k \in Calls : status[k] = "waiting" ~> status[k] \in {"ok", "failed"}

\* The promises of RpcCalls hold across reconnects.
Promise == INSTANCE RpcCalls
ImplementsCalls == Promise!CallsSpec

=============================================================================
