------------------------------ MODULE NodeLink ------------------------------
(***************************************************************************)
(* One hub and the sockets its nodes dial: the handshake of both sides     *)
(* (protocol/src/handshake.ts), HubConnection (hub/src/connection.ts) and  *)
(* its wiring to a socket (mesh.ts), the table of live connections and the *)
(* RPC handlers of ControlPlane (control-plane.ts), and the rows of the    *)
(* node registry (store/src/registry.ts) with the health read from them    *)
(* (health.ts).                                                            *)
(*                                                                         *)
(* A node closes its socket before it dials again, but the hub hears of it *)
(* late: frames of the old socket, and its close event, may be processed   *)
(* long after the next connection is up.                                   *)
(***************************************************************************)
EXTENDS Integers, Sequences

CONSTANTS
  Nodes, Conns,
  Owner,        \* the node that dials each connection
  Known,        \* nodes whose stored token is the one they use
  Enrolling,    \* devices that dial as enroll:<uuid>, without a token
  Outdated,     \* nodes of another protocol version
  Releasing,    \* nodes that say node.release
  Skew,         \* how far the clock of a node is ahead of the hub's
  Lease, MaxTime,
  FrameCap,     \* frames a node has under way on one socket
  NoConn

ASSUME LinkAssumption ==
  /\ Owner \in [Conns -> Nodes] /\ NoConn \notin Conns
  /\ Known \subseteq Nodes /\ Enrolling \subseteq Nodes
  /\ Skew \in [Nodes -> Int] /\ Lease \in Nat /\ MaxTime \in Nat /\ FrameCap \in Nat

VARIABLES
  client,    \* the node's end of each socket
  server,    \* the HubConnection of each socket
  up, down,  \* frames under way on each socket
  route,     \* ControlPlane.connections
  row,       \* the nodes table and the health cache
  now,
  latest,    \* history: the last connection of each node that authenticated,
             \* forgotten when the node releases itself
  beat       \* history: when each node last sent a heartbeat or registered

socketVars == <<client, server, up, down>>
vars == <<socketVars, route, row, now, latest, beat>>

Layers == {"ok", "degraded", "down"}
Beat(ts, layer) == [kind |-> "heartbeat", ts |-> ts, layer |-> layer]
Plain(kind) == [kind |-> kind, ts |-> 0, layer |-> "ok"]
UpFrame == [kind : {"hello", "auth", "register", "heartbeat", "release"}, ts : Int, layer : Layers]
DownFrame == {"challenge", "welcome", "error"}
Row == [status : {"absent", "online", "offline"}, seen : Int, layer : Layers \cup {"unknown"}]

Init ==
  /\ client = [c \in Conns |-> "off"] /\ server = [c \in Conns |-> "none"]
  /\ up = [c \in Conns |-> <<>>] /\ down = [c \in Conns |-> <<>>]
  /\ route = [n \in Nodes |-> NoConn]
  /\ row = [n \in Nodes |-> [status |-> "absent", seen |-> 0, layer |-> "unknown"]]
  /\ now = 0
  /\ latest = [n \in Nodes |-> NoConn] /\ beat = [n \in Nodes |-> 0]

-----------------------------------------------------------------------------
(* The registry and what is read from it *)

\* register(): a new row is online as of now; a row that exists keeps its
\* status and last_seen.
Registered(r) == IF r.status = "absent" THEN [status |-> "online", seen |-> now, layer |-> r.layer] ELSE r

\* Mutant of HeartbeatRow: stamped by the hub when the frame is handled.
HeartbeatRowNow(r, f) == [status |-> "online", seen |-> now, layer |-> f.layer]

\* handleHeartbeat: an unknown node is an error; last_seen is the node's own
\* time stamp, whichever connection brings it.
HeartbeatRow(r, f) ==
  IF r.status = "absent" THEN r ELSE [status |-> "online", seen |-> f.ts, layer |-> f.layer]

\* markOffline.
Offline(r) ==
  IF r.status = "absent" THEN r ELSE [status |-> "offline", seen |-> r.seen, layer |-> "unknown"]

\* channelHealth and onlineNodes.
ChannelOk(n) == row[n].status = "online" /\ row[n].seen >= now - Lease

\* nodeHealth: down wins over degraded, ok needs the channel and the report.
NodeHealth(n) ==
  LET channel == IF row[n].status = "absent" THEN "unknown" ELSE IF ChannelOk(n) THEN "ok" ELSE "down"
      layers  == {channel, row[n].layer}
  IN CASE "down" \in layers -> "down"
       [] "down" \notin layers /\ "degraded" \in layers -> "degraded"
       [] OTHER -> IF layers = {"ok"} THEN "ok" ELSE "unknown"

-----------------------------------------------------------------------------
(* The connections table *)

\* onNodeAuthenticated: the newest connection takes the node over.
Bind(c) ==
  /\ route' = [route EXCEPT ![Owner[c]] = c]
  /\ latest' = [latest EXCEPT ![Owner[c]] = c]

\* Mutants of Unbind: delete without the check; delete nothing.
UnbindAny(c) == route' = [route EXCEPT ![Owner[c]] = NoConn]
UnbindNone(c) == route' = route

\* HubConnection.close removes the node only while the table holds this
\* connection.
Unbind(c) == route' = IF route[Owner[c]] = c THEN [route EXCEPT ![Owner[c]] = NoConn] ELSE route

\* close(): idempotent, and the socket itself stays as it is.
CloseConnection(c) ==
  /\ server' = [server EXCEPT ![c] = IF server[c] = "live" THEN "ended" ELSE "refused"]
  /\ Unbind(c)

-----------------------------------------------------------------------------
(* The node's end *)

CloseSockets(n) == [c \in Conns |-> IF Owner[c] = n /\ client[c] # "off" THEN "gone" ELSE client[c]]

\* connect(): the previous socket is closed, a new one says hello.
Dial(c) ==
  /\ client[c] = "off" /\ server[c] = "none"
  /\ client' = [CloseSockets(Owner[c]) EXCEPT ![c] = "hello"]
  /\ server' = [server EXCEPT ![c] = "greeting"]
  /\ up' = [up EXCEPT ![c] = <<Plain("hello")>>]
  /\ UNCHANGED <<down, route, row, now, latest, beat>>

\* HandshakeClient.inbound: every challenge is answered until the outcome.
ClientHears(c) ==
  /\ down[c] # <<>> /\ client[c] \in {"hello", "ready", "failed"}
  /\ down' = [down EXCEPT ![c] = Tail(down[c])]
  /\ LET m == Head(down[c]) IN
       /\ client' = [client EXCEPT ![c] = IF client[c] # "hello" THEN client[c]
                                          ELSE CASE m = "welcome" -> "ready"
                                                 [] m = "error"   -> "failed"
                                                 [] OTHER         -> "hello"]
       /\ up' = IF m = "challenge" /\ client[c] = "hello"
                THEN [up EXCEPT ![c] = Append(up[c], Plain("auth"))] ELSE up
  /\ UNCHANGED <<server, route, row, now, latest, beat>>

\* A connected node registers, reports, and perhaps releases itself.
NodeSays(c, f) ==
  /\ client[c] = "ready" /\ Len(up[c]) < FrameCap
  /\ up' = [up EXCEPT ![c] = Append(up[c], f)]
  /\ beat' = IF f.kind = "release" THEN beat ELSE [beat EXCEPT ![Owner[c]] = now]
  /\ UNCHANGED <<client, server, down, route, row, now, latest>>

Said(c) ==
  \/ NodeSays(c, Plain("register"))
  \/ \E layer \in Layers : NodeSays(c, Beat(now + Skew[Owner[c]], layer))
  \/ Owner[c] \in Releasing /\ NodeSays(c, Plain("release"))

\* The node dies or its network does: what is under way may be lost.
SocketDies(c) ==
  /\ client[c] \in {"hello", "ready", "failed", "gone"}
  /\ client' = [client EXCEPT ![c] = "gone"]
  /\ up' = [up EXCEPT ![c] = <<>>] /\ down' = [down EXCEPT ![c] = <<>>]
  /\ client[c] # "gone" \/ up[c] # <<>> \/ down[c] # <<>>
  /\ UNCHANGED <<server, route, row, now, latest, beat>>

-----------------------------------------------------------------------------
(* The hub's end: HandshakeServer.inbound, then the RPC handlers *)

Send(c, m) == down' = [down EXCEPT ![c] = Append(down[c], m)]

\* Takes the next frame of c if it is one of kinds.
Take(c, kinds) ==
  /\ up[c] # <<>> /\ Head(up[c]).kind \in kinds
  /\ up' = [up EXCEPT ![c] = Tail(up[c])]

\* Mutants of Fail: the connection stays open; the node is not told.
FailOpen(c) == Send(c, "error") /\ UNCHANGED <<client, server, route, row, now, latest, beat>>
FailMute(c) == CloseConnection(c) /\ UNCHANGED <<client, down, row, now, latest, beat>>

\* fail(): an error frame, then onError closes the connection.
Fail(c) == Send(c, "error") /\ CloseConnection(c) /\ UNCHANGED <<client, row, now, latest, beat>>

\* lookupToken and verifyMac.
Accepts(c) == Owner[c] \in Known

HearHello(c) ==
  /\ server[c] = "greeting" /\ Take(c, {"hello"})
  /\ \/ Owner[c] \in Outdated /\ Fail(c)
     \/ /\ Owner[c] \in Enrolling \ Outdated
        /\ server' = [server EXCEPT ![c] = "enroll"] /\ Send(c, "welcome")
        /\ UNCHANGED <<client, route, row, now, latest, beat>>
     \/ /\ Owner[c] \notin Enrolling \cup Outdated
        /\ server' = [server EXCEPT ![c] = "challenged"] /\ Send(c, "challenge")
        /\ UNCHANGED <<client, route, row, now, latest, beat>>

\* The connection is bound before the welcome leaves, so the first request of
\* the node finds its handlers.
HearAuth(c) ==
  /\ server[c] = "challenged" /\ Take(c, {"auth"})
  /\ \/ ~Accepts(c) /\ Fail(c)
     \/ /\ Accepts(c)
        /\ server' = [server EXCEPT ![c] = "live"] /\ Bind(c) /\ Send(c, "welcome")
        /\ UNCHANGED <<client, row, now, beat>>

\* Mutant of HearRegister: a registration takes the node back to the
\* connection it came on.
HearRegisterRebinds(c) ==
  /\ server[c] = "live" /\ Take(c, {"register"})
  /\ row' = [row EXCEPT ![Owner[c]] = Registered(row[Owner[c]])]
  /\ route' = [route EXCEPT ![Owner[c]] = c]
  /\ UNCHANGED <<client, server, down, now, latest, beat>>

HearRegister(c) ==
  /\ server[c] = "live" /\ Take(c, {"register"})
  /\ row' = [row EXCEPT ![Owner[c]] = Registered(row[Owner[c]])]
  /\ UNCHANGED <<client, server, down, route, now, latest, beat>>

HearHeartbeat(c) ==
  /\ server[c] = "live" /\ Take(c, {"heartbeat"})
  /\ row' = [row EXCEPT ![Owner[c]] = HeartbeatRow(row[Owner[c]], Head(up[c]))]
  /\ UNCHANGED <<client, server, down, route, now, latest, beat>>

\* handleRelease: offline, and whatever connection the table holds is removed.
HearRelease(c) ==
  /\ server[c] = "live" /\ Take(c, {"release"})
  /\ LET n == Owner[c] IN
       /\ row' = [row EXCEPT ![n] = Offline(row[n])]
       /\ route' = [route EXCEPT ![n] = NoConn]
       /\ latest' = [latest EXCEPT ![n] = NoConn]
  /\ UNCHANGED <<client, server, down, now, beat>>

\* inbound() of a closed connection, and RPC frames of an enrolling device to
\* handlers it does not have.
Ignore(c) ==
  /\ server[c] \in {"refused", "ended", "enroll"} /\ up[c] # <<>>
  /\ up' = [up EXCEPT ![c] = Tail(up[c])]
  /\ UNCHANGED <<client, server, down, route, row, now, latest, beat>>

\* The close event of the socket, after the last frame of the node; for an
\* enrolling device also the timer after enrollment.consume.
SocketClosed(c) ==
  /\ \/ client[c] = "gone" /\ up[c] = <<>>
     \/ server[c] = "enroll" /\ client[c] = "ready"
  /\ server[c] \notin {"none", "refused", "ended"}
  /\ CloseConnection(c)
  /\ UNCHANGED <<client, up, down, row, now, latest, beat>>

Tick == now < MaxTime /\ now' = now + 1 /\ UNCHANGED <<socketVars, route, row, latest, beat>>

HubHears(c) ==
  HearHello(c) \/ HearAuth(c) \/ HearRegister(c) \/ HearHeartbeat(c) \/ HearRelease(c) \/ Ignore(c)

Next ==
  \/ \E c \in Conns : Dial(c) \/ ClientHears(c) \/ Said(c) \/ SocketDies(c) \/ SocketClosed(c)
  \/ \E c \in Conns : HubHears(c)
  \/ Tick

Spec == Init /\ [][Next]_vars

\* The event loops read what arrives.
Fairness == \A c \in Conns : WF_vars(ClientHears(c)) /\ WF_vars(HubHears(c))

FairSpec == Spec /\ Fairness

-----------------------------------------------------------------------------
(* Properties *)

TypeOK ==
  /\ client \in [Conns -> {"off", "hello", "ready", "failed", "gone"}]
  /\ server \in [Conns -> {"none", "greeting", "challenged", "live", "enroll", "refused", "ended"}]
  /\ up \in [Conns -> Seq(UpFrame)] /\ down \in [Conns -> Seq(DownFrame)]
  /\ route \in [Nodes -> Conns \cup {NoConn}] /\ latest \in [Nodes -> Conns \cup {NoConn}]
  /\ row \in [Nodes -> Row] /\ now \in Nat /\ beat \in [Nodes -> Nat]

\* ControlPlane.forward only finds connections that authenticated as that node
\* and are not closed (connection.ts close, control-plane.ts connections).
RouteLive == \A n \in Nodes : route[n] # NoConn =>
  server[route[n]] = "live" /\ Owner[route[n]] = n /\ n \in Known /\ n \notin Enrolling

\* However late the old socket's close event comes, the newest connection of a
\* node stays routed until it closes (the comment in HubConnection.close).
NewestRouted == \A n \in Nodes :
  latest[n] # NoConn /\ server[latest[n]] = "live" => route[n] = latest[n]

\* Both ends agree on the outcome of the handshake: a node that was welcomed
\* meets an accepted connection, one that was refused a closed one.
OutcomesAgree == \A c \in Conns :
  /\ client[c] = "ready" => server[c] \in {"live", "enroll", "ended", "refused"}
  /\ client[c] = "ready" /\ server[c] = "refused" => Owner[c] \in Enrolling
  /\ client[c] = "failed" => server[c] = "refused"

\* A node that has sent nothing for its lease, plus what its clock is ahead,
\* is not shown healthy, although frames of old sockets are handled late.
SilentExpires == \A n \in Nodes :
  NodeHealth(n) = "ok" => now - beat[n] <= Lease + (IF Skew[n] > 0 THEN Skew[n] ELSE 0)

\* No handshake stays half done on a socket that works: the node reaches an
\* outcome or its socket dies.
HandshakeEnds == \A c \in Conns : client[c] = "hello" ~> client[c] \in {"ready", "failed", "gone"}

\* The table implements Directory: no late event brings an old connection back.
Table == INSTANCE Directory WITH
  bound <- route, spent <- {c \in Conns : server[c] \in {"live", "ended"}}
ImplementsDirectory == Table!DirectorySpec

-----------------------------------------------------------------------------
(* Claims that fail *)

\* health.ts: the channel layer is "node WS connection + lease freshness".
ChannelNeedsConnection == \A n \in Nodes : ChannelOk(n) => route[n] # NoConn

\* docs/architecture.md 7.2: after 45 s without a heartbeat the node's status
\* is offline.  (A row without a report is left aside: a registration may be
\* handled late.)
StatusExpires == \A n \in Nodes :
  row[n].status = "online" /\ row[n].layer # "unknown" => now - beat[n] <= Lease + (IF Skew[n] > 0 THEN Skew[n] ELSE 0)
=============================================================================
