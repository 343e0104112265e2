---------------------------- MODULE RegistrySync ----------------------------
(***************************************************************************)
(* The node registries two control planes keep in step: the full sync of    *)
(* every new pipe, the diffs of the heartbeats, the overlay they are merged *)
(* into and the catalog shown (hub/src/ha.ts mergeRegistryEntries,          *)
(* registryDiff, sendFullSync, heartbeat, handleSyncRequest, mergedCatalog).*)
(*                                                                         *)
(* Rows are independent of each other, so one node stands for all.  A row   *)
(* is its last_seen (0: no row); the metadata come and go with it.  A pipe  *)
(* carries frames in order and loses all of them when it breaks.  Only      *)
(* heartbeats with a diff are sent: the others change nothing here.         *)
(*                                                                         *)
(* A pipe is "fresh" until the answer to its sync tells who the peer is; it *)
(* is "left" when its dialer has forgotten it (onPeerDisconnected, last     *)
(* line) while its socket is open: the dialer neither sends nor hears on it.*)
(***************************************************************************)
EXTENDS Naturals, Sequences

CONSTANTS
  Hubs,
  MaxSeen,     \* times the node is heard of
  MaxMoves,    \* connects and disconnects of the node
  MaxBreaks,   \* pipes that break, hubs that restart
  MaxWire,     \* frames under way in one direction of a pipe
  None

ASSUME RegistrySyncAssumption ==
  /\ \E a, b \in Hubs : a # b /\ Hubs = {a, b}
  /\ None \notin [seen : Nat, connected : BOOLEAN] /\ MaxWire \in Nat \ {0}
  /\ MaxSeen \in Nat /\ MaxMoves \in Nat /\ MaxBreaks \in Nat

Peer(h) == CHOOSE k \in Hubs : k # h

VARIABLES
  row, conn,   \* per hub: the row of the node, a live connection to it
  overlay,     \* registry: what the peer said of the node
  lastSent,
  out,         \* per hub: the pipe it dialed
  wire,        \* wire[h][k]: frames on the pipe h dialed, on their way to k
  now, moves, breaks

nodeVars == <<row, conn, now, moves>>
vars == <<nodeVars, overlay, lastSent, out, wire, breaks>>

Entry == [seen : 1 .. MaxSeen, connected : BOOLEAN]
Frame(kind, reg) == [kind |-> kind, reg |-> reg]

Init ==
  /\ row = [h \in Hubs |-> 0] /\ conn = [h \in Hubs |-> FALSE]
  /\ overlay = [h \in Hubs |-> None] /\ lastSent = [h \in Hubs |-> None]
  /\ out = [h \in Hubs |-> "down"] /\ wire = [h \in Hubs |-> [k \in Hubs |-> <<>>]]
  /\ now = 0 /\ moves = 0 /\ breaks = 0

-----------------------------------------------------------------------------
(* Snapshots, diffs, merging, the catalog *)

\* localRegistry
Local(h) == IF row[h] = 0 THEN None ELSE [seen |-> row[h], connected |-> conn[h]]

\* registryDiff: what differs from the snapshot sent last.
Diff(h) == IF Local(h) = lastSent[h] THEN None ELSE Local(h)

\* Mutant of Newer: the later message wins.
NewerAny(e, old) == TRUE

Newer(e, old) == e.seen > old.seen

\* mergeRegistryEntries at hub h.
Merge(h, e) ==
  LET old == overlay[h]
      shown == conn[h] \/ e.connected
  IN  IF e = None THEN old
      ELSE IF old = None \/ Newer(e, old) THEN [seen |-> e.seen, connected |-> shown]
      ELSE [old EXCEPT !.connected = @ \/ shown]

\* outbound is set.
Sends(h) == out[h] \in {"fresh", "up"}

\* peerAlive: a pipe of either direction on which the peer is heard.
PeerAlive(h) == Sends(h) \/ out[Peer(h)] # "down"

\* mergedCatalog: the connected flag and the last_seen it shows.
Shown(h) == conn[h] \/ (overlay[h] # None /\ overlay[h].connected /\ PeerAlive(h))
ShownSeen(h) == IF overlay[h] # None /\ overlay[h].seen > row[h] THEN overlay[h].seen ELSE row[h]

-----------------------------------------------------------------------------
(* The control planes *)

Send(p, k, f) == wire' = [wire EXCEPT ![p] = [wire[p] EXCEPT ![k] = Append(wire[p][k], f)]]

\* Mutant of SyncPayload: what was sent on the old pipe is not sent again.
SyncPayloadDiff(h) == Diff(h)

SyncPayload(h) == Local(h)

\* dial and sendFullSync: the pipe is up and the full state leaves.
Dial(h) ==
  /\ out[h] = "down" /\ out' = [out EXCEPT ![h] = "fresh"]
  /\ lastSent' = [lastSent EXCEPT ![h] = Local(h)]
  /\ Send(h, Peer(h), Frame("sync", SyncPayload(h)))
  /\ UNCHANGED <<nodeVars, overlay, breaks>>

\* heartbeat: the snapshot is replaced before the send, which may go nowhere.
Heartbeat(h) ==
  /\ Diff(h) # None
  /\ lastSent' = [lastSent EXCEPT ![h] = Local(h)]
  /\ LET p == IF Sends(h) THEN h ELSE Peer(h) IN
     IF out[p] # "down" THEN Len(wire[p][Peer(h)]) < MaxWire /\ Send(p, Peer(h), Frame("beat", Diff(h)))
     ELSE UNCHANGED wire
  /\ UNCHANGED <<nodeVars, overlay, out, breaks>>

\* handleSyncRequest answers with the full state, on the pipe of the request.
Answered(h, f, frames) ==
  IF f.kind = "sync" THEN Append(frames, Frame("state", Local(h))) ELSE frames

Received(p, h) ==
  LET f == Head(wire[p][h])
  IN [wire EXCEPT ![p] = [k \in Hubs |-> IF k = h THEN Tail(wire[p][h])
                                         ELSE Answered(h, f, wire[p][k])]]

\* onPeerState; h hears a frame on pipe p.
Deliver(p, h) ==
  /\ wire[p][h] # <<>> /\ ~(p = h /\ out[h] = "left")
  /\ LET f == Head(wire[p][h]) IN
     /\ overlay' = [overlay EXCEPT ![h] = Merge(h, f.reg)]
     /\ wire' = Received(p, h)
     /\ out' = IF f.kind = "state" THEN [out EXCEPT ![p] = "up"] ELSE out
  /\ UNCHANGED <<nodeVars, lastSent, breaks>>

\* A frame on a pipe its dialer has left is dropped.
Unheard(h) ==
  /\ wire[h][h] # <<>> /\ out[h] = "left"
  /\ wire' = [wire EXCEPT ![h] = [wire[h] EXCEPT ![h] = Tail(wire[h][h])]]
  /\ UNCHANGED <<nodeVars, overlay, lastSent, out, breaks>>

Empty == [k \in Hubs |-> <<>>]

\* Frames under way are lost; those of the old RpcPeer are not heard any more.
AfterBreak(h) == [wire EXCEPT ![h] = Empty]

\* onPeerDisconnected: the end of an inbound pipe makes a hub leave its own.
Break(h) ==
  /\ out[h] # "down" /\ breaks < MaxBreaks /\ breaks' = breaks + 1
  /\ out' = [k \in Hubs |-> IF k = h THEN "down" ELSE IF out[k] = "up" THEN "left" ELSE out[k]]
  /\ wire' = AfterBreak(h)
  /\ UNCHANGED <<nodeVars, overlay, lastSent>>

\* The rows are in the store; overlay, snapshot and connections are not.
Restart(h) ==
  /\ breaks < MaxBreaks /\ breaks' = breaks + 1
  /\ out' = [k \in Hubs |-> "down"] /\ wire' = [k \in Hubs |-> Empty]
  /\ overlay' = [overlay EXCEPT ![h] = None] /\ lastSent' = [lastSent EXCEPT ![h] = None]
  /\ conn' = [conn EXCEPT ![h] = FALSE]
  /\ UNCHANGED <<row, now, moves>>

-----------------------------------------------------------------------------
(* The node *)

Untouched == UNCHANGED <<overlay, lastSent, out, wire, breaks>>

\* handleRegister: a new row carries the time, a known one keeps its own.
NodeJoins(h) ==
  /\ ~conn[h] /\ moves < MaxMoves /\ moves' = moves + 1
  /\ conn' = [conn EXCEPT ![h] = TRUE]
  /\ IF row[h] = 0 THEN now < MaxSeen /\ now' = now + 1 /\ row' = [row EXCEPT ![h] = now']
     ELSE UNCHANGED <<row, now>>
  /\ Untouched

NodeBeats(h) ==
  /\ conn[h] /\ now < MaxSeen /\ now' = now + 1
  /\ row' = [row EXCEPT ![h] = now'] /\ UNCHANGED <<conn, moves>> /\ Untouched

NodeLeaves(h) ==
  /\ conn[h] /\ moves < MaxMoves /\ moves' = moves + 1
  /\ conn' = [conn EXCEPT ![h] = FALSE] /\ UNCHANGED <<row, now>> /\ Untouched

Next ==
  \/ \E h \in Hubs : Dial(h) \/ Heartbeat(h) \/ Unheard(h) \/ Break(h) \/ Restart(h)
  \/ \E p, h \in Hubs : Deliver(p, h)
  \/ \E h \in Hubs : NodeJoins(h) \/ NodeBeats(h) \/ NodeLeaves(h)

Spec == Init /\ [][Next]_vars

\* Redialing never gives up; timers and frames of a pipe that is up go on.
FairSpec ==
  /\ Spec
  /\ \A h \in Hubs : WF_vars(Dial(h)) /\ WF_vars(Heartbeat(h)) /\ WF_vars(Unheard(h))
  /\ \A p, h \in Hubs : WF_vars(Deliver(p, h))

-----------------------------------------------------------------------------
(* Properties *)

TypeOK ==
  /\ row \in [Hubs -> 0 .. now] /\ conn \in [Hubs -> BOOLEAN] /\ now \in 0 .. MaxSeen
  /\ overlay \in [Hubs -> Entry \cup {None}] /\ lastSent \in [Hubs -> Entry \cup {None}]
  /\ out \in [Hubs -> {"down", "fresh", "up", "left"}]
  /\ \A p, h \in Hubs : /\ Len(wire[p][h]) <= MaxWire + 2
                        /\ \A i \in 1 .. Len(wire[p][h]) : wire[p][h][i].kind \in {"sync", "state", "beat"}
                        /\ out[p] = "down" => wire[p][h] = <<>>

\* Nothing is pending: no pipe to dial, no answer or frame under way, no diff.
Settled == \A h \in Hubs : out[h] \in {"up", "left"} /\ Diff(h) = None /\ \A p \in Hubs : wire[p][h] = <<>>

\* Whatever pipes broke and hubs restarted, a diff that was lost on the way has
\* been made up for by the sync of the next pipe: once nothing is pending, each
\* control plane has the last_seen of the other, and both show the same one.
SettledSeen ==
  Settled => /\ \A h \in Hubs : row[Peer(h)] > 0 => overlay[h] # None /\ overlay[h].seen >= row[Peer(h)]
             /\ \A h \in Hubs : ShownSeen(h) = ShownSeen(Peer(h))

\* A frame of one pipe that arrives after a later one of the other pipe takes
\* nothing back: what a control plane shows of a node only gets newer, as long
\* as it runs.
SeenGrows ==
  [][\A h \in Hubs : overlay'[h] # None => overlay[h] = None \/ overlay'[h].seen >= overlay[h].seen]_vars

\* When the node and the pipes rest, the two control planes come to agree.
SeenConverges == <>[](\A h \in Hubs : ShownSeen(h) = ShownSeen(Peer(h)))

\* What server.ts says of connected: the report of the control plane that has
\* the connection is authoritative, so once nothing is pending a node is shown
\* as connected exactly when one of the two is connected to it.
DirectIsAuthoritative ==
  Settled => \A h \in Hubs : Shown(h) = (conn[h] \/ conn[Peer(h)])
==============================================================================
