------------------------------- MODULE HubHa -------------------------------
(***************************************************************************)
(* Dual control-plane high availability of the dsh-helm hub                *)
(* (packages/hub/src/ha.ts).  Two control planes (CPs) dial each other,    *)
(* exchange their (term, leader, phase) over cp.sync and cp.heartbeat,     *)
(* elect a leader with cp.elect and let it hold a write lease that the     *)
(* peer confirms with cp.lease.renew.  A CP executes writes only in phase  *)
(* "leader-leased".                                                        *)
(*                                                                         *)
(* Each CP is one HubHa object on one JavaScript thread: a message         *)
(* handler, a timer callback and the code after an await each run to       *)
(* their next await as one step.  A pipe is one WebSocket: FIFO in each    *)
(* direction, its frames are lost when it is cut, and the two ends learn   *)
(* of the cut at different times.  A CP has two pipes, the one it dialed   *)
(* and the one it accepted, and nothing orders frames of different pipes.  *)
(*                                                                         *)
(* Time is abstracted.  A timeout fires when what it waits for can no      *)
(* longer come; it may also fire early (a suspended laptop, a stalled      *)
(* event loop), and that counts as a fault.  Faults are counted up to      *)
(* MaxFaults and are never owed, so a fair behaviour has finitely many.    *)
(***************************************************************************)
EXTENDS Integers, Sequences, FiniteSets

CONSTANTS
  Priority,         \* [CP -> Nat]: the --cp-priority of each CP
  DefaultPriority,  \* the priority assumed of a peer not yet heard
  Dialers,          \* the CPs whose dial of the peer can succeed
  InitSaved,        \* [CP -> Saved]: what the store holds at the start
  MaxTerm,          \* bound: no election or split brain goes past it
  FaultKinds,       \* the faults that may happen
  MaxFaults,        \* bound: number of faults in a behaviour
  QueueCap          \* bound: requests and replies in flight on a pipe

VARIABLES
  ha,      \* [CP -> HaState]: the fields of each HubHa object and its kv rows
  link,    \* [CP -> LinkState]: the pipe each CP dials
  chan,    \* chan[d][s]: frames in flight, sent by s, on the pipe d dialed
  orphan,  \* orphan[c]: a dead socket c accepted has its close event pending
  faults   \* number of faults so far

vars == <<ha, link, chan, orphan, faults>>

CP == {1, 2}
Peer(c) == 3 - c

\* Pipes are cut, processes die, between handlers or within persistState,
\* timers fire early; a dead accepted socket reports its close after its
\* successor registered.
FaultKind == {"cut", "restart", "torn", "timing", "lateClose"}

NoLeader == 0   \* '' in the store: no leader was ever saved

Phase == {"nominating", "leader-leased", "read-only-no-quorum", "follower"}

\* The kv rows cp_term, cp_leader and cp_leader_term.
Saved == [term: Nat, leader: CP \cup {NoLeader}, leaderTerm: Nat]

ASSUME ConstantsAssumption ==
  /\ Priority \in [CP -> Nat]
  /\ DefaultPriority \in Nat
  /\ Dialers \subseteq CP
  /\ InitSaved \in [CP -> Saved]
  /\ \A c \in CP : InitSaved[c].term >= 1
  /\ FaultKinds \subseteq FaultKind
  /\ MaxTerm \in Nat
  /\ MaxFaults \in Nat
  /\ QueueCap \in Nat

HaState ==
  [ term        : Nat,
    leader      : CP,
    leaderTerm  : Nat,
    role        : {"leader", "follower"},
    phase       : Phase,
    leaseEpoch  : Nat,
    electedTerm : Nat,
    electing    : {"idle", "asked", "leasing"},  \* electInFlight, and at which await
    peerPriority: Nat,        \* what the peers map holds about the peer
    peerTerm    : Nat,
    fresh       : BOOLEAN,    \* the peer was heard within three heartbeats
    peerIn      : BOOLEAN,    \* PeerState.inbound is set
    peerOut     : {"none", "live", "stale"},  \* PeerState.outbound; stale: its socket is gone
    out         : {"none", "unidentified", "identified"},  \* this.outbound, its cpId
    saved       : Saved ]

\* "cut": the socket is dead and its dialer has not noticed; "closed": redial due.
LinkState == {"up", "cut", "closed"}

PeerStateMsg ==
  [type: {"sync", "syncReply", "heartbeat"}, priority: Nat, term: Nat,
   leader: CP, leaderTerm: Nat, phase: Phase]

\* Whose continuation runs when the reply comes; "none": the caller timed out.
Caller == {"election", "tick", "renew", "none"}

ElectMsg      == [type: {"elect"}, term: Nat, for: Caller]
ElectReplyMsg == [type: {"electReply"}, ok: BOOLEAN, term: Nat, leader: CP,
                  phase: Phase, proposed: Nat, for: Caller]
LeaseMsg      == [type: {"lease"}, term: Nat, epoch: Nat, for: Caller]
LeaseReplyMsg == [type: {"leaseReply"}, ok: BOOLEAN, for: Caller]

Message == PeerStateMsg \cup ElectMsg \cup ElectReplyMsg \cup LeaseMsg \cup LeaseReplyMsg

TypeOK ==
  /\ ha \in [CP -> HaState]
  /\ link \in [CP -> LinkState]
  /\ chan \in [CP -> [CP -> Seq(Message)]]
  /\ orphan \in [CP -> BOOLEAN]
  /\ faults \in Nat

----------------------------------------------------------------------------
(* Decisions. *)

MaxOf(x, y) == IF x >= y THEN x ELSE y

\* Smallest priority, then smallest id.
Outranks(x, y) == x.priority < y.priority \/ (x.priority = y.priority /\ x.cpId <= y.cpId)

ElectLeader(candidates) ==
  (CHOOSE x \in candidates : \A y \in candidates : Outranks(x, y)).cpId

JudgeTerm(local, peer) ==
  CASE peer.term > local.term     -> "accept-peer"
    [] peer.term < local.term     -> "stable"
    [] peer.term = local.term     -> IF peer.leader = local.leader THEN "stable" ELSE "split-brain"

\* Some pipe to the peer is attached.
Attached(s) == s.peerIn \/ s.peerOut # "none"

PeerConnected(s) == Attached(s) /\ s.fresh

Candidates(c, s) ==
  {[cpId |-> c, priority |-> Priority[c]]}
    \cup (IF PeerConnected(s) THEN {[cpId |-> Peer(c), priority |-> s.peerPriority]} ELSE {})

Desired(c, s) == ElectLeader(Candidates(c, s))

----------------------------------------------------------------------------
(* The object: construction, persistence and what the handlers do to it. *)

PersistState(s) ==
  [s EXCEPT !.saved = [term |-> s.term, leader |-> s.leader, leaderTerm |-> s.leaderTerm]]

\* The constructor over the persisted rows.
Boot(c, saved) ==
  LET leader == IF saved.leader = NoLeader THEN c ELSE saved.leader IN
  [ term         |-> saved.term,
    leader       |-> leader,
    leaderTerm   |-> IF saved.leaderTerm = 0 THEN saved.term ELSE saved.leaderTerm,
    role         |-> IF leader = c THEN "leader" ELSE "follower",
    phase        |-> "nominating",
    leaseEpoch   |-> 0,
    electedTerm  |-> 0,
    electing     |-> "idle",
    peerPriority |-> DefaultPriority,
    peerTerm     |-> 0,
    fresh        |-> FALSE,
    peerIn       |-> FALSE,
    peerOut      |-> "none",
    out          |-> "none",
    saved        |-> saved ]

CurrentState(type, c, s) ==
  [type |-> type, priority |-> Priority[c], term |-> s.term, leader |-> s.leader,
   leaderTerm |-> s.leaderTerm, phase |-> s.phase]

LoseQuorum(s) == [s EXCEPT !.phase = "read-only-no-quorum", !.leaseEpoch = 0]

\* Mutant of OnPeerLost: a leader whose peer went away waits for its lease to expire.
OnPeerLostUnlessLeased(s) ==
  IF s.phase \in {"read-only-no-quorum", "leader-leased"} THEN s ELSE LoseQuorum(s)

OnPeerLost(s) == IF s.phase = "read-only-no-quorum" THEN s ELSE LoseQuorum(s)

OnPeerDisconnected(s, pipe) ==
  LET detached == IF pipe = "inbound" THEN [s EXCEPT !.peerIn = FALSE]
                                      ELSE [s EXCEPT !.peerOut = "none"]
      demoted  == IF Attached(s) /\ ~Attached(detached) THEN OnPeerLost(detached) ELSE detached
  IN  [demoted EXCEPT !.out = IF @ = "identified" THEN "none" ELSE @]

\* The onclose handler of the dialed socket.
OnOutboundClose(s) ==
  CASE s.out = "identified"   -> OnPeerDisconnected([s EXCEPT !.out = "none"], "outbound")
    [] s.out = "unidentified" -> [s EXCEPT !.out = "none"]
    [] s.out = "none"         -> [s EXCEPT !.peerOut = IF @ = "live" THEN "stale" ELSE @]

\* The peer's declared state m arrives from the peer of c.
NotePeer(s, m) ==
  [s EXCEPT !.peerPriority = m.priority, !.peerTerm = m.term, !.fresh = TRUE]

AcceptPeer(c, s, m) ==
  LET t      == PersistState([s EXCEPT !.term = m.term, !.leader = m.leader,
                                      !.leaderTerm = m.leaderTerm])
      leased == m.phase = "leader-leased" /\ m.leader = Peer(c)
  IN  CASE m.leader = c ->
             [t EXCEPT !.electedTerm = m.term, !.role = "leader", !.phase = "nominating"]
        [] m.leader # c /\ leased ->
             [t EXCEPT !.role = "follower", !.phase = "follower", !.leaseEpoch = m.term]
        [] m.leader # c /\ ~leased ->
             [t EXCEPT !.role = "follower", !.phase = "read-only-no-quorum"]

\* Mutant of SplitBrain: the bumped term is not persisted.
SplitBrainUnsaved(s) == [s EXCEPT !.term = @ + 1, !.phase = "read-only-no-quorum"]

SplitBrain(s) ==
  [PersistState([s EXCEPT !.term = @ + 1]) EXCEPT !.phase = "read-only-no-quorum"]

FollowLeased(c, s, m) ==
  IF /\ s.leader # c
     /\ m.leader = s.leader
     /\ m.phase = "leader-leased"
     /\ s.phase # "follower"
  THEN [s EXCEPT !.role = "follower", !.phase = "follower", !.leaseEpoch = m.term]
  ELSE s

OnPeerState(c, s, m) ==
  LET t == NotePeer(s, m)
      j == JudgeTerm(t, m)
  IN  CASE j = "accept-peer" -> AcceptPeer(c, t, m)
        [] j = "split-brain" -> SplitBrain(t)
        [] j = "stable"      -> FollowLeased(c, t, m)

\* Mutants of AcceptElection: the leader is not aligned; its term is not.
AcceptElectionKeepsLeader(c, s, term) ==
  [PersistState([s EXCEPT !.term = term, !.leaderTerm = term, !.role = "follower"])
     EXCEPT !.phase = "follower", !.leaseEpoch = 0]

AcceptElectionKeepsLeaderTerm(c, s, term) ==
  [PersistState([s EXCEPT !.term = term, !.leader = Peer(c), !.role = "follower"])
     EXCEPT !.phase = "follower", !.leaseEpoch = 0]

AcceptElection(c, s, term) ==
  [PersistState([s EXCEPT !.term = term, !.leader = Peer(c), !.leaderTerm = term, !.role = "follower"])
     EXCEPT !.phase = "follower", !.leaseEpoch = 0]

AcksLease(c, s, m) ==
  m.term = s.term /\ m.epoch = s.term /\ m.term = s.leaderTerm /\ s.leader # c

WinElection(c, s, term) ==
  [PersistState([s EXCEPT !.term = term, !.electedTerm = term, !.leader = c,
                          !.leaderTerm = term, !.role = "leader"])
     EXCEPT !.phase = "nominating", !.leaseEpoch = 0]

\* A refusal that names another leader.
FollowRefusal(s, m) ==
  [PersistState([s EXCEPT !.term = MaxOf(@, m.term), !.leader = m.leader,
                          !.leaderTerm = m.term, !.role = "follower"])
     EXCEPT !.phase = IF m.phase = "leader-leased" THEN "follower" ELSE "read-only-no-quorum",
            !.electing = "idle"]

\* The peer is the expected leader; nothing is persisted.
ExpectPeer(c, s) ==
  [s EXCEPT !.leader = Peer(c), !.leaderTerm = s.term, !.phase = "nominating"]

FailElection(s) == [s EXCEPT !.phase = "read-only-no-quorum", !.electing = "idle"]

----------------------------------------------------------------------------
(* Pipes. *)

NoFrames == [d \in CP |-> [s \in CP |-> << >>]]

\* s sends m on the pipe dialed by d; a dead socket swallows it.
Push(ch, d, s, m) == IF link[d] = "up" THEN [ch EXCEPT ![d][s] = Append(@, m)] ELSE ch

\* The pipe a request of c goes through.
RpcPipe(c, s) == IF s.peerOut # "none" THEN c ELSE Peer(c)

SendRequest(ch, c, s, m) ==
  IF s.peerOut = "stale" THEN ch ELSE Push(ch, RpcPipe(c, s), c, m)

Heartbeats(q) == {i \in DOMAIN q : q[i].type = "heartbeat"}

\* The bounds: a pipe carries one heartbeat of each side, and QueueCap other
\* frames before a new request.
HeartbeatRoom(c, d) == Heartbeats(chan[d][c]) = {}

RequestRoom(c) ==
  LET d == RpcPipe(c, ha[c])
      Calls(q) == Len(q) - Cardinality(Heartbeats(q))
  IN  Calls(chan[d][1]) + Calls(chan[d][2]) < QueueCap

\* Frames on c's own pipe are dispatched only through this.outbound.
Hears(c, d) == d = Peer(c) \/ ha[c].out # "none"

HasFrame(c, d) == Hears(c, d) /\ chan[d][Peer(c)] # << >>
Frame(c, d) == Head(chan[d][Peer(c)])
Popped(c, d) == [chan EXCEPT ![d][Peer(c)] = Tail(@)]

\* The pipes a heartbeat of c goes out on: at most one.
HeartbeatPipes(c) ==
  IF ha[c].out # "none" THEN {c} ELSE IF ha[c].peerIn THEN {Peer(c)} ELSE {}

\* Heartbeats of the peer can still reach c.
CanBeHeard(c) == \E d \in HeartbeatPipes(Peer(c)) : link[d] = "up" /\ Hears(c, d)

\* A renewal by c can still be acknowledged.
CanRenew(c) ==
  /\ PeerConnected(ha[c])
  /\ ha[c].peerOut # "stale"
  /\ link[RpcPipe(c, ha[c])] = "up"
  /\ Hears(c, RpcPipe(c, ha[c]))
  /\ AcksLease(Peer(c), ha[Peer(c)], [term |-> ha[c].term, epoch |-> ha[c].leaseEpoch])

Fault(kind) == kind \in FaultKinds /\ faults < MaxFaults /\ faults' = faults + 1

\* A step of a timer that is due when cond holds, and early when it does not.
DueOrEarly(cond) == IF cond THEN UNCHANGED faults ELSE Fault("timing")

----------------------------------------------------------------------------
(* Connections. *)

\* The handshake completes: the acceptor registers the pipe, the dialer
\* starts the full sync over it.
Dial(d) ==
  /\ d \in Dialers
  /\ link[d] = "closed"
  /\ orphan[Peer(d)] => "lateClose" \in FaultKinds
  /\ link' = [link EXCEPT ![d] = "up"]
  /\ ha' = [ha EXCEPT ![d].out = "unidentified",
                      ![Peer(d)].peerIn = TRUE, ![Peer(d)].fresh = TRUE]
  /\ chan' = [chan EXCEPT ![d] = [s \in CP |->
                IF s = d THEN <<CurrentState("sync", d, ha[d])>> ELSE << >>]]
  /\ UNCHANGED <<orphan, faults>>

Cut(d) ==
  /\ link[d] = "up"
  /\ link' = [link EXCEPT ![d] = "cut"]
  /\ chan' = [chan EXCEPT ![d] = [s \in CP |-> << >>]]
  /\ orphan' = [orphan EXCEPT ![Peer(d)] = TRUE]
  /\ Fault("cut")
  /\ UNCHANGED ha

\* Mutant of OutboundClosed: a pipe that was never identified is not redialed.
OutboundClosedForGood(d) ==
  /\ link[d] = "cut"
  /\ link' = [link EXCEPT ![d] = IF ha[d].out = "identified" THEN "closed" ELSE @]
  /\ ha' = [ha EXCEPT ![d] = OnOutboundClose(@)]
  /\ UNCHANGED <<chan, orphan, faults>>

\* The dialer's socket reports its close.
OutboundClosed(d) ==
  /\ link[d] = "cut"
  /\ link' = [link EXCEPT ![d] = "closed"]
  /\ ha' = [ha EXCEPT ![d] = OnOutboundClose(@)]
  /\ UNCHANGED <<chan, orphan, faults>>

\* A dead accepted socket reports its close, possibly after its successor
\* registered.
InboundClosed(c) ==
  /\ orphan[c]
  /\ orphan' = [orphan EXCEPT ![c] = FALSE]
  /\ ha' = [ha EXCEPT ![c] = OnPeerDisconnected(@, "inbound")]
  /\ UNCHANGED <<link, chan, faults>>

\* The process of c dies and starts again over the rows in its store.
Reborn(c, rows) ==
  /\ ha' = [ha EXCEPT ![c] = Boot(c, rows)]
  /\ link' = [d \in CP |-> IF d = c THEN "closed" ELSE IF link[d] = "up" THEN "cut" ELSE link[d]]
  /\ chan' = NoFrames
  /\ orphan' = [orphan EXCEPT ![c] = FALSE, ![Peer(c)] = @ \/ link[c] = "up"]

Restart(c) == Reborn(c, ha[c].saved) /\ Fault("restart")

\* What the handler of m makes of the object.
Handled(c, s, m) ==
  CASE m.type \in {"sync", "syncReply", "heartbeat"} -> OnPeerState(c, s, m)
    [] m.type = "elect" /\ Desired(c, s) = Peer(c)   -> AcceptElection(c, s, m.term)
    [] m.type = "electReply" /\ m.for = "election"    ->
         IF m.ok THEN WinElection(c, s, m.proposed) ELSE FollowRefusal(s, m)
    [] OTHER -> s

\* persistState writes term, leader and leaderTerm in three statements: what
\* is in the store after the first and after the second one.
Torn(old, new) == {[old EXCEPT !.term = new.term], [new EXCEPT !.leaderTerm = old.leaderTerm]}

\* The bound: a declared state that would take c past MaxTerm is dropped.
PastBound(c, m) ==
  m.type \in {"sync", "syncReply", "heartbeat"} /\ OnPeerState(c, ha[c], m).term > MaxTerm

\* The process of c dies in the handler of a frame, between two statements of
\* persistState, before anything is sent.
RestartTorn(c) ==
  /\ \E d \in CP :
       /\ HasFrame(c, d)
       /\ ~PastBound(c, Frame(c, d))
       /\ \E rows \in Torn(ha[c].saved, Handled(c, ha[c], Frame(c, d)).saved) : Reborn(c, rows)
  /\ Fault("torn")

----------------------------------------------------------------------------
(* Timers. *)

Heartbeat(c) ==
  \E d \in HeartbeatPipes(c) :
    /\ HeartbeatRoom(c, d)
    /\ chan' = Push(chan, d, c, CurrentState("heartbeat", c, ha[c]))
    /\ UNCHANGED <<ha, link, orphan, faults>>

\* The peer was not heard for three heartbeats.
PeerSilent(c) ==
  /\ ha[c].fresh
  /\ ha' = [ha EXCEPT ![c].fresh = FALSE]
  /\ DueOrEarly(~CanBeHeard(c))
  /\ UNCHANGED <<link, chan, orphan>>

\* tick: no acknowledged renewal for the lease TTL.
LeaseExpired(c) ==
  /\ ha[c].phase = "leader-leased"
  /\ ha' = [ha EXCEPT ![c] = LoseQuorum(@)]
  /\ DueOrEarly(~CanRenew(c))
  /\ UNCHANGED <<link, chan, orphan>>

\* tick: the leader was not heard for the lease TTL.
LeaderSilent(c) ==
  /\ ha[c].phase = "follower"
  /\ ha' = [ha EXCEPT ![c] = LoseQuorum(@)]
  /\ DueOrEarly(~CanBeHeard(c))
  /\ UNCHANGED <<link, chan, orphan>>

\* Mutant of RetryLease: a restarted leader asks for its old lease.
RetryLeaseUnelected(c) ==
  /\ ha[c].phase = "nominating" /\ ha[c].role = "leader"
  /\ ha[c].electing = "idle"
  /\ PeerConnected(ha[c])
  /\ RequestRoom(c)
  /\ chan' = SendRequest(chan, c, ha[c],
               [type |-> "lease", term |-> ha[c].term, epoch |-> ha[c].term, for |-> "tick"])
  /\ UNCHANGED <<ha, link, orphan, faults>>

\* tick: elected, and only the lease is missing.
RetryLease(c) ==
  /\ ha[c].phase = "nominating" /\ ha[c].role = "leader"
  /\ ha[c].electedTerm = ha[c].term
  /\ ha[c].electing = "idle"
  /\ PeerConnected(ha[c])
  /\ RequestRoom(c)
  /\ chan' = SendRequest(chan, c, ha[c],
               [type |-> "lease", term |-> ha[c].term, epoch |-> ha[c].term, for |-> "tick"])
  /\ UNCHANGED <<ha, link, orphan, faults>>

\* A restarted leader must run an election; any other CP only when it is the winner.
MayPropose(c, s) ==
  IF s.phase = "nominating" /\ s.role = "leader"
  THEN s.electedTerm # s.term
  ELSE s.phase \in {"nominating", "read-only-no-quorum"} /\ Desired(c, s) = c

\* Mutant of StartElection: electInFlight is not tested.
StartElectionInFlight(c) ==
  LET proposed == MaxOf(ha[c].term, ha[c].peerTerm) + 1 IN
  /\ MayPropose(c, ha[c])
  /\ PeerConnected(ha[c])
  /\ proposed <= MaxTerm
  /\ RequestRoom(c)
  /\ ha' = [ha EXCEPT ![c].phase = "nominating", ![c].electing = "asked"]
  /\ chan' = SendRequest(chan, c, ha[c],
               [type |-> "elect", term |-> proposed, for |-> "election"])
  /\ UNCHANGED <<link, orphan, faults>>

StartElection(c) ==
  LET proposed == MaxOf(ha[c].term, ha[c].peerTerm) + 1 IN
  /\ MayPropose(c, ha[c])
  /\ ha[c].electing = "idle"
  /\ PeerConnected(ha[c])
  /\ proposed <= MaxTerm
  /\ RequestRoom(c)
  /\ ha' = [ha EXCEPT ![c].phase = "nominating", ![c].electing = "asked"]
  /\ chan' = SendRequest(chan, c, ha[c],
               [type |-> "elect", term |-> proposed, for |-> "election"])
  /\ UNCHANGED <<link, orphan, faults>>

\* tick: the peer is the expected leader; wait for its election.
AlignToPeer(c) ==
  /\ ha[c].phase = "read-only-no-quorum"
  /\ ha[c].electing = "idle"
  /\ PeerConnected(ha[c])
  /\ Desired(c, ha[c]) = Peer(c)
  /\ ha[c].leader = c
  /\ ha' = [ha EXCEPT ![c] = ExpectPeer(c, @)]
  /\ UNCHANGED <<link, chan, orphan, faults>>

RenewLease(c) ==
  /\ ha[c].phase = "leader-leased"
  /\ PeerConnected(ha[c])
  /\ RequestRoom(c)
  /\ chan' = SendRequest(chan, c, ha[c],
               [type |-> "lease", term |-> ha[c].term, epoch |-> ha[c].leaseEpoch, for |-> "renew"])
  /\ UNCHANGED <<ha, link, orphan, faults>>

----------------------------------------------------------------------------
(* Frames: c receives the next frame of the pipe d dialed. *)

\* cp.sync and cp.heartbeat.
ReceiveState(c, d) ==
  LET m == Frame(c, d)
      s == OnPeerState(c, ha[c], m)
  IN  /\ HasFrame(c, d)
      /\ m.type \in {"sync", "heartbeat"}
      /\ ~PastBound(c, m)
      /\ ha' = [ha EXCEPT ![c] = s]
      /\ chan' = IF m.type = "sync"
                 THEN Push(Popped(c, d), d, c, CurrentState("syncReply", c, s))
                 ELSE Popped(c, d)
      /\ UNCHANGED <<link, orphan, faults>>

\* The rest of sendFullSync: the pipe's peer is identified.
ReceiveSyncReply(c, d) ==
  LET m == Frame(c, d)
      s == OnPeerState(c, [ha[c] EXCEPT !.out = "identified", !.peerOut = "live"], m)
  IN  /\ HasFrame(c, d)
      /\ m.type = "syncReply"
      /\ ~PastBound(c, m)
      /\ ha' = [ha EXCEPT ![c] = s]
      /\ chan' = Popped(c, d)
      /\ UNCHANGED <<link, orphan, faults>>

ElectReply(ok, term, leader, phase, m) ==
  [type |-> "electReply", ok |-> ok, term |-> term, leader |-> leader, phase |-> phase,
   proposed |-> m.term, for |-> m.for]

\* handleElectRequest; the peer proposes itself.
ReceiveElect(c, d) ==
  LET m == Frame(c, d) IN
  /\ HasFrame(c, d)
  /\ m.type = "elect"
  /\ \/ /\ Desired(c, ha[c]) = Peer(c)
        /\ ha' = [ha EXCEPT ![c] = AcceptElection(c, @, m.term)]
        /\ chan' = Push(Popped(c, d), d, c, ElectReply(TRUE, m.term, Peer(c), "follower", m))
     \/ /\ Desired(c, ha[c]) = c
        /\ ha' = ha
        /\ chan' = Push(Popped(c, d), d, c, ElectReply(FALSE, ha[c].term, c, ha[c].phase, m))
  /\ UNCHANGED <<link, orphan, faults>>

\* The rest of startElection.
ReceiveElectReply(c, d) ==
  LET m   == Frame(c, d)
      won == WinElection(c, ha[c], m.proposed)
  IN  /\ HasFrame(c, d)
      /\ m.type = "electReply"
      /\ m.for = "election"
      /\ \/ /\ m.ok
            /\ PeerConnected(won)
            /\ ha' = [ha EXCEPT ![c] = [won EXCEPT !.electing = "leasing"]]
            /\ chan' = SendRequest(Popped(c, d), c, won,
                 [type |-> "lease", term |-> won.term, epoch |-> won.term, for |-> "election"])
         \/ /\ m.ok
            /\ ~PeerConnected(won)
            /\ ha' = [ha EXCEPT ![c] = [won EXCEPT !.electing = "idle"]]
            /\ chan' = Popped(c, d)
         \/ /\ ~m.ok
            /\ ha' = [ha EXCEPT ![c] = FollowRefusal(@, m)]
            /\ chan' = Popped(c, d)
      /\ UNCHANGED <<link, orphan, faults>>

\* Mutant of ReceiveLease: acknowledging a lease does not demote the one who acks.
ReceiveLeaseKeepsPhase(c, d) ==
  LET m   == Frame(c, d)
      ack == AcksLease(c, ha[c], m)
  IN  /\ HasFrame(c, d)
      /\ m.type = "lease"
      /\ ha' = IF ack THEN [ha EXCEPT ![c].leaseEpoch = m.epoch] ELSE ha
      /\ chan' = Push(Popped(c, d), d, c, [type |-> "leaseReply", ok |-> ack, for |-> m.for])
      /\ UNCHANGED <<link, orphan, faults>>

\* handleLeaseRenew.
ReceiveLease(c, d) ==
  LET m   == Frame(c, d)
      ack == AcksLease(c, ha[c], m)
  IN  /\ HasFrame(c, d)
      /\ m.type = "lease"
      /\ ha' = IF ack THEN [ha EXCEPT ![c].phase = "follower", ![c].leaseEpoch = m.epoch] ELSE ha
      /\ chan' = Push(Popped(c, d), d, c, [type |-> "leaseReply", ok |-> ack, for |-> m.for])
      /\ UNCHANGED <<link, orphan, faults>>

\* The rest of takeLease: nothing is read again after the await.
TakeLease(s) == [s EXCEPT !.phase = "leader-leased", !.leaseEpoch = s.term]

EndElection(s) == [s EXCEPT !.electing = "idle"]

\* The rest of takeLease (from startElection or from tick) and of renewLease.
ReceiveLeaseReply(c, d) ==
  LET m     == Frame(c, d)
      taken == IF m.ok /\ m.for # "renew" THEN TakeLease(ha[c]) ELSE ha[c]
  IN  /\ HasFrame(c, d)
      /\ m.type = "leaseReply"
      /\ m.for # "none"
      /\ ha' = [ha EXCEPT ![c] = IF m.for = "election" THEN EndElection(taken) ELSE taken]
      /\ chan' = Popped(c, d)
      /\ UNCHANGED <<link, orphan, faults>>

\* A frame nobody takes: its caller timed out, or this.outbound is unset.
DropFrame(c, d) ==
  /\ chan[d][Peer(c)] # << >>
  /\ \/ ~Hears(c, d)
     \/ Frame(c, d).type \in {"electReply", "leaseReply"} /\ Frame(c, d).for = "none"
     \/ PastBound(c, Frame(c, d))
  /\ chan' = Popped(c, d)
  /\ UNCHANGED <<ha, link, orphan, faults>>

\* The caller of a full sync or of a lease request timed out before the reply came.
LateReply(c, d) ==
  /\ HasFrame(c, d)
  /\ \/ Frame(c, d).type = "syncReply"
     \/ Frame(c, d).type = "leaseReply" /\ Frame(c, d).for \in {"tick", "renew"}
  /\ chan' = Popped(c, d)
  /\ Fault("timing")
  /\ UNCHANGED <<ha, link, orphan>>

\* m, sent by s, is the election request of c, its lease request, or the reply to one.
OfElection(c, s, m) ==
  /\ m.type \in (IF s = c THEN {"elect", "lease"} ELSE {"electReply", "leaseReply"})
  /\ m.for = "election"

Forget(c, s, m) == IF OfElection(c, s, m) THEN [m EXCEPT !.for = "none"] ELSE m

\* The request startElection awaits fails: lost with its pipe, or too slow.
ElectionTimeout(c) ==
  /\ ha[c].electing # "idle"
  /\ ha' = [ha EXCEPT ![c] = IF @.electing = "asked" THEN FailElection(@) ELSE EndElection(@)]
  /\ chan' = [d \in CP |-> [s \in CP |->
               [i \in DOMAIN chan[d][s] |-> Forget(c, s, chan[d][s][i])]]]
  /\ DueOrEarly(\A d, s \in CP : \A i \in DOMAIN chan[d][s] : ~OfElection(c, s, chan[d][s][i]))
  /\ UNCHANGED <<link, orphan>>

----------------------------------------------------------------------------

Init ==
  /\ ha = [c \in CP |-> Boot(c, InitSaved[c])]
  /\ link = [c \in CP |-> "closed"]
  /\ chan = NoFrames
  /\ orphan = [c \in CP |-> FALSE]
  /\ faults = 0

Receive(c, d) ==
  \/ ReceiveState(c, d)
  \/ ReceiveSyncReply(c, d)
  \/ ReceiveElect(c, d)
  \/ ReceiveElectReply(c, d)
  \/ ReceiveLease(c, d)
  \/ ReceiveLeaseReply(c, d)
  \/ DropFrame(c, d)

Tick(c) ==
  \/ LeaseExpired(c)
  \/ LeaderSilent(c)
  \/ RetryLease(c)
  \/ StartElection(c)
  \/ AlignToPeer(c)

Next ==
  \E c \in CP :
    \/ Dial(c) \/ Cut(c) \/ OutboundClosed(c) \/ InboundClosed(c)
    \/ Restart(c) \/ RestartTorn(c)
    \/ Heartbeat(c) \/ PeerSilent(c) \/ Tick(c) \/ RenewLease(c) \/ ElectionTimeout(c)
    \/ \E d \in CP : Receive(c, d) \/ LateReply(c, d)

Spec == Init /\ [][Next]_vars

\* Timers keep firing, frames on a live pipe arrive, closes are reported and
\* broken pipes are redialed.  Faults are never owed.
OnTime(A) == A /\ UNCHANGED faults

Fairness ==
  \A c \in CP :
    /\ WF_vars(Dial(c)) /\ WF_vars(OutboundClosed(c)) /\ WF_vars(InboundClosed(c))
    /\ \A d \in CP : WF_vars(Receive(c, d))
    /\ SF_vars(Heartbeat(c))
    /\ WF_vars(OnTime(PeerSilent(c)))
    /\ WF_vars(OnTime(LeaseExpired(c))) /\ WF_vars(OnTime(LeaderSilent(c)))
    /\ SF_vars(RetryLease(c)) /\ SF_vars(StartElection(c)) /\ WF_vars(AlignToPeer(c))
    /\ WF_vars(OnTime(ElectionTimeout(c)))

FairSpec == Spec /\ Fairness

----------------------------------------------------------------------------
(* Safety. *)

Leased(c) == ha[c].phase = "leader-leased"

\* At most one control plane executes writes at any moment: a leader that was
\* superseded has left phase leader-leased before the next one enters it.
SingleWriter == \A c, d \in CP : Leased(c) /\ Leased(d) => c = d

\* The recovery contract: a CP takes the write lease only after it won an
\* election since its process started; no lease survives a restart, whatever
\* acknowledgements were in flight.
LeaseNeedsElection == \A c \in CP : Leased(c) => ha[c].electedTerm # 0

\* Losing the last pipe to the peer takes the lease away in the same step: a
\* CP that holds it has a pipe attached, whatever acknowledgement arrives late.
NoLoneLeader == \A c \in CP : Leased(c) => Attached(ha[c])

\* A leader with no pipe attached; and a CP whose open accepted pipe is not
\* registered, because its predecessor's close event came after it.
Lone(c) == Leased(c) /\ ~Attached(ha[c])
Forgotten(c) == link[Peer(c)] = "up" /\ ~ha[c].peerIn

\* Whatever fails, a CP becomes a lone leader only while an open pipe is
\* forgotten: no loss of a pipe and no late acknowledgement leads there else.
LoneOnlyForgotten == [][\A c \in CP : Lone(c)' => Lone(c) \/ Forgotten(c)]_vars

\* Every change of the fencing term reaches the store in the step that makes
\* it, so a process that dies at any moment comes back at its latest term.
SavedTermIsCurrent == \A c \in CP : ha[c].saved.term = ha[c].term

\* A follower names its peer as leader, whichever message made it one, so a
\* write it forwards never looks for its own address.
FollowerHasLeader == \A c \in CP : ha[c].phase = "follower" => ha[c].leader = Peer(c)

\* Frame i that s sent on the pipe of d belongs to the request c's election awaits.
Awaited(c, d, s, i) == i \in DOMAIN chan[d][s] /\ OfElection(c, s, chan[d][s][i])

\* electInFlight: a CP has at most one election request in flight that it
\* still listens to, of the kind it awaits, and none when it awaits none: the
\* answer to an abandoned election never decides a later one.
OneElection ==
  \A c, d, s \in CP : \A i \in DOMAIN chan[d][s] : Awaited(c, d, s, i) =>
    /\ ha[c].electing =
         IF chan[d][s][i].type \in {"elect", "electReply"} THEN "asked" ELSE "leasing"
    /\ \A e, t \in CP : \A j \in DOMAIN chan[e][t] :
         Awaited(c, e, t, j) => d = e /\ s = t /\ i = j

\* The term a CP has persisted never goes back.
TermNeverRegresses == [][\A c \in CP : ha'[c].saved.term >= ha[c].saved.term]_vars

----------------------------------------------------------------------------
(* The inductive invariant behind the safety properties that are proved. *)

\* What holds of one control plane between two steps.
Sound(c, s) ==
  /\ s.term >= 1
  /\ s.saved.term = s.term
  /\ s.phase = "leader-leased" => s.electedTerm # 0
  /\ s.phase = "follower" => s.leader = Peer(c)

\* What a frame that s sent promises until it is received: terms are positive,
\* a refusal names its sender, and only an elected CP asks for a first lease.
Promises(h, s, m) ==
  /\ m.type = "elect" => m.term >= 1
  /\ m.type = "electReply" => m.proposed >= 1 /\ (~m.ok => m.leader = s)
  /\ m.type = "lease" /\ m.for # "renew" => h[s].electedTerm # 0
  /\ m.type = "leaseReply" /\ m.for # "renew" => h[Peer(s)].electedTerm # 0

FramesSound(h, ch) ==
  \A d, s \in CP : \A i \in DOMAIN ch[d][s] : Promises(h, s, ch[d][s][i])

IInv == TypeOK /\ (\A c \in CP : Sound(c, ha[c])) /\ FramesSound(ha, chan)

\* No frame of the type is in the queue.
Lacks(q, type) == \A i \in DOMAIN q : q[i].type # type

\* Nothing on the pipe that c dialed is about a lease of c.
NoOwnLease(ch, c) == Lacks(ch[c][c], "lease") /\ Lacks(ch[c][Peer(c)], "leaseReply")

\* A frame in flight has a live pipe under it, and while one is about a lease
\* of c on the pipe c dialed, that pipe is attached.  Where no dead socket
\* reports its close late, an open pipe is registered at its acceptor.
PipesSound ==
  \A c \in CP :
    /\ link[c] # "up" => \A s \in CP : chan[c][s] = << >>
    /\ ha[c].peerOut = "none" => NoOwnLease(chan, c)
    /\ "lateClose" \notin FaultKinds =>
         /\ orphan[c] => link[Peer(c)] # "up"
         /\ link[Peer(c)] = "up" => ha[c].peerIn

----------------------------------------------------------------------------
(* Liveness, under FairSpec. *)

\* One CP holds the lease and the other follows it: writes are served.
Serving == \E c \in CP : Leased(c) /\ ha[Peer(c)].phase = "follower"

\* Once faults stop, the pair elects a leader, the leader takes the lease, and
\* writes are served from then on.
WritesResume == <>[]Serving

\* The dial loop gives every dialing CP its outbound pipe back.
OutboundReturns == \A d \in Dialers : []<>(ha[d].out # "none")

=============================================================================
