---------------------------- MODULE HubHaProofs ----------------------------
(***************************************************************************)
(* Invariants of HubHa, proved for all priorities, dialers, initial        *)
(* stores, faults and bounds.                                              *)
(***************************************************************************)
EXTENDS OnePipe, SequenceTheorems, TLAPS

USE DEF CP

Channels == [CP -> [CP -> Seq(Message)]]

----------------------------------------------------------------------------
(* What the handlers do to one object stays a HubHa object. *)

LEMMA PeerType == \A c \in CP : Peer(c) \in CP /\ Peer(c) # c /\ Peer(Peer(c)) = c
  BY DEF Peer

LEMMA BootType ==
  ASSUME NEW c \in CP, NEW saved \in Saved
  PROVE  Boot(c, saved) \in HaState
  BY ConstantsAssumption DEF Boot, HaState, Saved, NoLeader, Phase

LEMMA PersistType ==
  ASSUME NEW s \in HaState
  PROVE  PersistState(s) \in HaState
  BY DEF PersistState, HaState, Saved, NoLeader

LEMMA DisconnectType ==
  ASSUME NEW s \in HaState, NEW pipe \in {"inbound", "outbound"}
  PROVE  OnPeerDisconnected(s, pipe) \in HaState
  BY DEF OnPeerDisconnected, OnPeerLost, LoseQuorum, HaState, Phase

LEMMA OutboundCloseType ==
  ASSUME NEW s \in HaState
  PROVE  OnOutboundClose(s) \in HaState
<1>1. [s EXCEPT !.out = "none"] \in HaState
  BY DEF HaState
<1>2. OnPeerDisconnected([s EXCEPT !.out = "none"], "outbound") \in HaState
  BY <1>1, DisconnectType
<1>3. [s EXCEPT !.peerOut = IF @ = "live" THEN "stale" ELSE @] \in HaState
  BY DEF HaState
<1>4. s.out \in {"none", "unidentified", "identified"}
  BY DEF HaState
<1>5. QED
  BY <1>1, <1>2, <1>3, <1>4 DEF OnOutboundClose

LEMMA AcceptPeerType ==
  ASSUME NEW c \in CP, NEW s \in HaState, NEW m \in PeerStateMsg
  PROVE  AcceptPeer(c, s, m) \in HaState
<1> DEFINE t == [s EXCEPT !.term = m.term, !.leader = m.leader, !.leaderTerm = m.leaderTerm]
<1>1. t \in HaState
  BY DEF HaState, PeerStateMsg
<1>2. PersistState(t) \in HaState
  BY <1>1, PersistType
<1>3. m.term \in Nat
  BY DEF PeerStateMsg
<1> HIDE DEF t
<1>4. QED
  BY <1>2, <1>3 DEF AcceptPeer, HaState, Phase, t

LEMMA FollowLeasedType ==
  ASSUME NEW c \in CP, NEW s \in HaState, NEW m \in PeerStateMsg
  PROVE  FollowLeased(c, s, m) \in HaState
<1>1. m.term \in Nat
  BY DEF PeerStateMsg
<1>2. [s EXCEPT !.role = "follower", !.phase = "follower", !.leaseEpoch = m.term] \in HaState
  BY <1>1 DEF HaState, Phase
<1>3. QED
  BY <1>2 DEF FollowLeased

LEMMA OnPeerStateType ==
  ASSUME NEW c \in CP, NEW s \in HaState, NEW m \in PeerStateMsg
  PROVE  OnPeerState(c, s, m) \in HaState
<1> DEFINE t == NotePeer(s, m)
<1>1. t \in HaState
  BY DEF NotePeer, HaState, PeerStateMsg
<1> HIDE DEF t
<1>2. AcceptPeer(c, t, m) \in HaState
  BY <1>1, AcceptPeerType
<1>3. SplitBrain(t) \in HaState
  <2>1. [t EXCEPT !.term = @ + 1] \in HaState
    BY <1>1 DEF HaState
  <2>2. QED
    BY <2>1, PersistType DEF SplitBrain, HaState, Phase
<1>4. FollowLeased(c, t, m) \in HaState
  BY <1>1, FollowLeasedType
<1>5. JudgeTerm(t, m) \in {"accept-peer", "split-brain", "stable"}
  BY <1>1 DEF JudgeTerm, HaState, PeerStateMsg
<1>6. QED
  BY <1>2, <1>3, <1>4, <1>5 DEF OnPeerState, t

LEMMA AcceptElectionType ==
  ASSUME NEW c \in CP, NEW s \in HaState, NEW term \in Nat
  PROVE  AcceptElection(c, s, term) \in HaState
<1> DEFINE t == [s EXCEPT !.term = term, !.leader = Peer(c), !.leaderTerm = term, !.role = "follower"]
<1>1. t \in HaState
  BY PeerType DEF HaState
<1>2. PersistState(t) \in HaState
  BY <1>1, PersistType
<1> HIDE DEF t
<1>3. [PersistState(t) EXCEPT !.phase = "follower", !.leaseEpoch = 0] \in HaState
  BY <1>2 DEF HaState, Phase
<1>4. QED
  BY <1>3 DEF AcceptElection, t

LEMMA ElectionTypes ==
  ASSUME NEW c \in CP, NEW s \in HaState, NEW term \in Nat, NEW m \in ElectReplyMsg
  PROVE  /\ WinElection(c, s, term) \in HaState
         /\ FollowRefusal(s, m) \in HaState
         /\ FailElection(s) \in HaState
         /\ TakeLease(s) \in HaState
         /\ EndElection(s) \in HaState
<1>1. WinElection(c, s, term) \in HaState
  <2> DEFINE t == [s EXCEPT !.term = term, !.electedTerm = term, !.leader = c,
                            !.leaderTerm = term, !.role = "leader"]
  <2>1. t \in HaState
    BY DEF HaState
  <2>2. PersistState(t) \in HaState
    BY <2>1, PersistType
  <2> HIDE DEF t
  <2>3. [PersistState(t) EXCEPT !.phase = "nominating", !.leaseEpoch = 0] \in HaState
    BY <2>2 DEF HaState, Phase
  <2>4. QED
    BY <2>3 DEF WinElection, t
<1>2. FollowRefusal(s, m) \in HaState
  <2> DEFINE t == [s EXCEPT !.term = MaxOf(@, m.term), !.leader = m.leader,
                            !.leaderTerm = m.term, !.role = "follower"]
  <2>1. t \in HaState
    BY DEF HaState, MaxOf, ElectReplyMsg
  <2>2. PersistState(t) \in HaState
    BY <2>1, PersistType
  <2> HIDE DEF t
  <2>3. [PersistState(t) EXCEPT !.phase = IF m.phase = "leader-leased" THEN "follower"
                                          ELSE "read-only-no-quorum",
                                !.electing = "idle"] \in HaState
    BY <2>2 DEF HaState, Phase
  <2>4. QED
    BY <2>3 DEF FollowRefusal, t
<1>3. QED
  BY <1>1, <1>2 DEF FailElection, TakeLease, EndElection, HaState, Phase

----------------------------------------------------------------------------
(* What the transport does to the channels. *)

LEMMA FrameType ==
  ASSUME chan \in Channels, NEW c \in CP, NEW d \in CP, chan[d][Peer(c)] # << >>
  PROVE  Frame(c, d) \in Message /\ Popped(c, d) \in Channels
<1>1. Peer(c) \in CP
  BY PeerType
<1>2. chan[d][Peer(c)] \in Seq(Message)
  BY <1>1 DEF Channels
<1>3. Head(chan[d][Peer(c)]) \in Message /\ Tail(chan[d][Peer(c)]) \in Seq(Message)
  BY <1>2
<1>4. QED
  BY <1>1, <1>3 DEF Frame, Popped, Channels

LEMMA PushType ==
  ASSUME NEW ch \in Channels, NEW d \in CP, NEW s \in CP, NEW m \in Message
  PROVE  Push(ch, d, s, m) \in Channels
<1>1. ch[d][s] \in Seq(Message)
  BY DEF Channels
<1>2. Append(ch[d][s], m) \in Seq(Message)
  BY <1>1
<1>3. QED
  BY <1>2 DEF Push, Channels

LEMMA SendRequestType ==
  ASSUME NEW ch \in Channels, NEW c \in CP, NEW s, NEW m \in Message
  PROVE  SendRequest(ch, c, s, m) \in Channels
<1>1. RpcPipe(c, s) \in CP
  BY PeerType DEF RpcPipe
<1>2. QED
  BY <1>1, PushType DEF SendRequest

LEMMA StateMessageType ==
  ASSUME NEW c \in CP, NEW s \in HaState, NEW type \in {"sync", "syncReply", "heartbeat"}
  PROVE  CurrentState(type, c, s) \in Message
  BY ConstantsAssumption DEF CurrentState, PeerStateMsg, Message, HaState

LEMMA MessageTypes ==
  ASSUME NEW m \in Message
  PROVE  /\ m.type \in {"sync", "syncReply", "heartbeat"} => m \in PeerStateMsg
         /\ m.type = "elect" => m \in ElectMsg
         /\ m.type = "electReply" => m \in ElectReplyMsg
         /\ m.type = "lease" => m \in LeaseMsg
         /\ m.type = "leaseReply" => m \in LeaseReplyMsg
  BY DEF Message, PeerStateMsg, ElectMsg, ElectReplyMsg, LeaseMsg, LeaseReplyMsg

----------------------------------------------------------------------------
(* Every action keeps the types.  One lemma per group of actions. *)

LEMMA ConnectionTypes ==
  ASSUME TypeOK, NEW c \in CP, Dial(c) \/ Cut(c) \/ OutboundClosed(c) \/ InboundClosed(c)
  PROVE  TypeOK'
<1>0. ha[c] \in HaState /\ ha[Peer(c)] \in HaState /\ Peer(c) \in CP
  BY PeerType DEF TypeOK
<1>f. \A kind \in FaultKind : Fault(kind) => faults' \in Nat
  BY DEF Fault, TypeOK
<1>1. CASE Dial(c)
  <2>1. CurrentState("sync", c, ha[c]) \in Message
    BY <1>0, StateMessageType
  <2>2. ha' \in [CP -> HaState]
    BY <1>1, <1>0 DEF Dial, TypeOK, HaState
  <2>3. chan' \in [CP -> [CP -> Seq(Message)]]
    BY <1>1, <2>1 DEF Dial, TypeOK
  <2>4. QED
    BY <1>1, <2>2, <2>3 DEF Dial, TypeOK, LinkState
<1>2. CASE Cut(c)
  <2>1. chan' \in [CP -> [CP -> Seq(Message)]]
    BY <1>2 DEF Cut, TypeOK
  <2>2. QED
    BY <1>2, <1>f, <1>0, <2>1 DEF Cut, TypeOK, LinkState, FaultKind
<1>3. CASE OutboundClosed(c)
  <2>1. OnOutboundClose(ha[c]) \in HaState
    BY <1>0, OutboundCloseType
  <2>2. QED
    BY <1>3, <2>1 DEF OutboundClosed, TypeOK, LinkState
<1>4. CASE InboundClosed(c)
  <2>1. OnPeerDisconnected(ha[c], "inbound") \in HaState
    BY <1>0, DisconnectType
  <2>2. QED
    BY <1>4, <2>1 DEF InboundClosed, TypeOK
<1>5. QED
  BY <1>1, <1>2, <1>3, <1>4

\* Whatever part of it persistState wrote, the store holds rows.
LEMMA TornType ==
  ASSUME NEW old \in Saved, NEW new \in Saved, NEW rows \in Torn(old, new)
  PROVE  rows \in Saved
  BY DEF Torn, Saved

LEMMA HandledType ==
  ASSUME NEW c \in CP, NEW s \in HaState, NEW m \in Message
  PROVE  Handled(c, s, m) \in HaState
<1>1. CASE m.type \in {"sync", "syncReply", "heartbeat"}
  <2>1. m \in PeerStateMsg
    BY <1>1, MessageTypes
  <2>2. QED
    BY <1>1, <2>1, OnPeerStateType DEF Handled
<1>2. CASE m.type = "elect"
  <2>1. m.term \in Nat
    BY <1>2, MessageTypes DEF ElectMsg
  <2>2. QED
    BY <1>2, <2>1, AcceptElectionType DEF Handled
<1>3. CASE m.type = "electReply"
  <2>1. m \in ElectReplyMsg
    BY <1>3, MessageTypes
  <2>2. WinElection(c, s, m.proposed) \in HaState /\ FollowRefusal(s, m) \in HaState
    BY <2>1, ElectionTypes DEF ElectReplyMsg
  <2>3. QED
    BY <1>3, <2>2 DEF Handled
<1>4. CASE m.type \notin {"sync", "syncReply", "heartbeat", "elect", "electReply"}
  BY <1>4 DEF Handled
<1>5. QED
  BY <1>1, <1>2, <1>3, <1>4

LEMMA RebornTypes ==
  ASSUME TypeOK, NEW c \in CP, NEW rows \in Saved, Reborn(c, rows), faults' \in Nat
  PROVE  TypeOK'
<1>1. Boot(c, rows) \in HaState
  BY BootType
<1>2. ha' \in [CP -> HaState]
  BY <1>1 DEF Reborn, TypeOK
<1>3. chan' \in [CP -> [CP -> Seq(Message)]]
  BY DEF Reborn, NoFrames
<1>4. link' \in [CP -> LinkState]
  BY DEF Reborn, TypeOK, LinkState
<1>5. orphan' \in [CP -> BOOLEAN]
  BY PeerType DEF Reborn, TypeOK
<1>6. QED
  BY <1>2, <1>3, <1>4, <1>5 DEF TypeOK

LEMMA RestartTypes ==
  ASSUME TypeOK, NEW c \in CP, Restart(c) \/ RestartTorn(c)
  PROVE  TypeOK'
<1>1. ha[c] \in HaState /\ ha[c].saved \in Saved /\ chan \in Channels
  BY DEF TypeOK, HaState, Channels
<1>2. faults' \in Nat
  BY DEF Restart, RestartTorn, Fault, TypeOK
<1>3. CASE Restart(c)
  BY <1>1, <1>2, <1>3, RebornTypes DEF Restart
<1>4. CASE RestartTorn(c)
  <2>1. PICK d \in CP : /\ HasFrame(c, d)
                        /\ \E rows \in Torn(ha[c].saved, Handled(c, ha[c], Frame(c, d)).saved) :
                             Reborn(c, rows)
    BY <1>4 DEF RestartTorn
  <2>2. Frame(c, d) \in Message
    BY <1>1, <2>1, FrameType DEF HasFrame
  <2>3. Handled(c, ha[c], Frame(c, d)).saved \in Saved
    BY <1>1, <2>2, HandledType DEF HaState
  <2>4. QED
    BY <1>1, <1>2, <2>1, <2>3, TornType, RebornTypes
<1>5. QED
  BY <1>3, <1>4

LEMMA TimerTypes ==
  ASSUME TypeOK, NEW c \in CP,
         \/ Heartbeat(c) \/ PeerSilent(c) \/ Tick(c) \/ RenewLease(c) \/ ElectionTimeout(c)
  PROVE  TypeOK'
<1>0. ha[c] \in HaState /\ Peer(c) \in CP /\ chan \in Channels
  BY PeerType DEF TypeOK, Channels
<1>f. \A cond \in BOOLEAN : DueOrEarly(cond) => faults' \in Nat
  BY DEF Fault, DueOrEarly, TypeOK
<1>r. \A m \in Message : SendRequest(chan, c, ha[c], m) \in Channels
  BY <1>0, SendRequestType
<1>l. LoseQuorum(ha[c]) \in HaState
  BY <1>0 DEF LoseQuorum, HaState, Phase
<1>1. CASE Heartbeat(c)
  <2>1. PICK d \in HeartbeatPipes(c) :
          chan' = Push(chan, d, c, CurrentState("heartbeat", c, ha[c]))
    BY <1>1 DEF Heartbeat
  <2>2. d \in CP
    BY <1>0 DEF HeartbeatPipes
  <2>3. CurrentState("heartbeat", c, ha[c]) \in Message
    BY <1>0, StateMessageType
  <2>4. chan' \in Channels
    BY <1>0, <2>1, <2>2, <2>3, PushType
  <2>5. QED
    BY <1>1, <2>4 DEF Heartbeat, TypeOK, Channels
<1>2. CASE PeerSilent(c)
  <2>1. [ha[c] EXCEPT !.fresh = FALSE] \in HaState
    BY <1>0 DEF HaState
  <2>2. ha' \in [CP -> HaState]
    BY <1>2, <2>1 DEF PeerSilent, TypeOK
  <2>3. faults' \in Nat
    BY <1>2 DEF PeerSilent, DueOrEarly, Fault, TypeOK
  <2>4. QED
    BY <1>2, <2>2, <2>3 DEF PeerSilent, TypeOK
<1>3. CASE LeaseExpired(c) \/ LeaderSilent(c)
  <2>1. faults' \in Nat
    BY <1>3 DEF LeaseExpired, LeaderSilent, DueOrEarly, Fault, TypeOK
  <2>2. ha' \in [CP -> HaState]
    BY <1>3, <1>l DEF LeaseExpired, LeaderSilent, TypeOK
  <2>3. QED
    BY <1>3, <2>1, <2>2 DEF LeaseExpired, LeaderSilent, TypeOK
<1>4. CASE RetryLease(c)
  <2> DEFINE m == [type |-> "lease", term |-> ha[c].term, epoch |-> ha[c].term, for |-> "tick"]
  <2>1. m \in Message
    BY <1>0 DEF Message, LeaseMsg, Caller, HaState
  <2>2. chan' \in Channels
    BY <1>4, <1>r, <2>1 DEF RetryLease
  <2>3. QED
    BY <1>4, <2>2 DEF RetryLease, TypeOK, Channels
<1>5. CASE StartElection(c)
  <2> DEFINE m == [type |-> "elect", term |-> MaxOf(ha[c].term, ha[c].peerTerm) + 1,
                   for |-> "election"]
  <2>1. m \in Message
    BY <1>0 DEF Message, ElectMsg, Caller, HaState, MaxOf
  <2>2. chan' = SendRequest(chan, c, ha[c], m)
    BY <1>5 DEF StartElection
  <2>3. chan' \in Channels
    BY <1>r, <2>1, <2>2
  <2>4. [ha[c] EXCEPT !.phase = "nominating", !.electing = "asked"] \in HaState
    BY <1>0 DEF HaState, Phase
  <2>5. ha' \in [CP -> HaState]
    BY <1>5, <2>4 DEF StartElection, TypeOK
  <2>6. QED
    BY <1>5, <2>3, <2>5 DEF StartElection, TypeOK, Channels
<1>6. CASE AlignToPeer(c)
  <2>1. ExpectPeer(c, ha[c]) \in HaState
    BY <1>0 DEF ExpectPeer, HaState, Phase
  <2>2. ha' \in [CP -> HaState]
    BY <1>6, <2>1 DEF AlignToPeer, TypeOK
  <2>3. QED
    BY <1>6, <2>2 DEF AlignToPeer, TypeOK
<1>7. CASE RenewLease(c)
  <2> DEFINE m == [type |-> "lease", term |-> ha[c].term, epoch |-> ha[c].leaseEpoch,
                   for |-> "renew"]
  <2>1. m \in Message
    BY <1>0 DEF Message, LeaseMsg, Caller, HaState
  <2>2. chan' \in Channels
    BY <1>7, <1>r, <2>1 DEF RenewLease
  <2>3. QED
    BY <1>7, <2>2 DEF RenewLease, TypeOK, Channels
<1>8. CASE ElectionTimeout(c)
  <2>1. \A s \in CP, m \in Message : Forget(c, s, m) \in Message
    BY DEF Forget, OfElection, Message, PeerStateMsg, ElectMsg, ElectReplyMsg, LeaseMsg,
           LeaseReplyMsg, Caller
  <2>2. \A d, s \in CP : chan[d][s] \in Seq(Message)
    BY DEF TypeOK
  <2>3. \A d, s \in CP :
          [i \in DOMAIN chan[d][s] |-> Forget(c, s, chan[d][s][i])] \in Seq(Message)
    <3> TAKE d, s \in CP
    <3> DEFINE q == chan[d][s]
    <3>1. q \in Seq(Message)
      BY <2>2
    <3> HIDE DEF q
    <3>2. Len(q) \in Nat /\ DOMAIN q = 1..Len(q) /\ \A i \in 1..Len(q) : q[i] \in Message
      BY <3>1
    <3>3. [i \in DOMAIN q |-> Forget(c, s, q[i])] \in [1..Len(q) -> Message]
      BY <2>1, <3>2
    <3>4. [i \in DOMAIN q |-> Forget(c, s, q[i])] \in Seq(Message)
      BY <3>2, <3>3, SeqDef
    <3>5. QED
      BY <3>4 DEF q
  <2>4. chan' \in Channels
    BY <1>8, <2>3 DEF ElectionTimeout, Channels
  <2>5. FailElection(ha[c]) \in HaState /\ EndElection(ha[c]) \in HaState
    BY <1>0 DEF FailElection, EndElection, HaState, Phase
  <2>6. ha' \in [CP -> HaState]
    BY <1>8, <2>5 DEF ElectionTimeout, TypeOK
  <2>7. faults' \in Nat
    BY <1>8 DEF ElectionTimeout, DueOrEarly, Fault, TypeOK
  <2>8. QED
    BY <1>8, <2>4, <2>6, <2>7 DEF ElectionTimeout, TypeOK, Channels
<1>9. QED
  BY <1>1, <1>2, <1>3, <1>4, <1>5, <1>6, <1>7, <1>8 DEF Tick

LEMMA ReceiveTypes ==
  ASSUME TypeOK, NEW c \in CP, NEW d \in CP, Receive(c, d) \/ LateReply(c, d)
  PROVE  TypeOK'
<1> DEFINE m == Frame(c, d)
           popped == Popped(c, d)
<1>0. ha[c] \in HaState /\ Peer(c) \in CP /\ chan \in Channels
  BY PeerType DEF TypeOK, Channels
<1>1. chan[d][Peer(c)] # << >>
  BY DEF Receive, ReceiveState, ReceiveSyncReply, ReceiveElect, ReceiveElectReply,
         ReceiveLease, ReceiveLeaseReply, DropFrame, LateReply, HasFrame
<1>2. m \in Message /\ popped \in Channels
  BY <1>0, <1>1, FrameType
<1>p. \A n \in Message : Push(popped, d, c, n) \in Channels
  BY <1>2, PushType
<1>k. \A s \in HaState : [ha EXCEPT ![c] = s] \in [CP -> HaState]
  BY DEF TypeOK
<1> HIDE DEF m, popped
<1>3. CASE ReceiveState(c, d)
  <2>1. m \in PeerStateMsg
    BY <1>2, <1>3, MessageTypes DEF ReceiveState, m
  <2>2. OnPeerState(c, ha[c], m) \in HaState
    BY <1>0, <2>1, OnPeerStateType
  <2>3. CurrentState("syncReply", c, OnPeerState(c, ha[c], m)) \in Message
    BY <2>2, StateMessageType
  <2>4. chan' \in Channels
    BY <1>2, <1>3, <1>p, <2>3 DEF ReceiveState, m, popped
  <2>5. QED
    BY <1>3, <1>k, <2>2, <2>4 DEF ReceiveState, TypeOK, Channels, m
<1>4. CASE ReceiveSyncReply(c, d)
  <2>1. m \in PeerStateMsg
    BY <1>2, <1>4, MessageTypes DEF ReceiveSyncReply, m
  <2>2. [ha[c] EXCEPT !.out = "identified", !.peerOut = "live"] \in HaState
    BY <1>0 DEF HaState
  <2>3. OnPeerState(c, [ha[c] EXCEPT !.out = "identified", !.peerOut = "live"], m) \in HaState
    BY <2>1, <2>2, OnPeerStateType
  <2>4. QED
    BY <1>2, <1>4, <1>k, <2>3 DEF ReceiveSyncReply, TypeOK, Channels, m, popped
<1>5. CASE ReceiveElect(c, d)
  <2>1. m.term \in Nat /\ m.for \in Caller
    BY <1>2, <1>5, MessageTypes DEF ReceiveElect, m, ElectMsg
  <2>2. /\ ElectReply(TRUE, m.term, Peer(c), "follower", m) \in Message
        /\ ElectReply(FALSE, ha[c].term, c, ha[c].phase, m) \in Message
    BY <1>0, <2>1 DEF ElectReply, Message, ElectReplyMsg, HaState, Phase
  <2>3. AcceptElection(c, ha[c], m.term) \in HaState
    BY <1>0, <2>1, AcceptElectionType
  <2>4. ha' \in [CP -> HaState] /\ chan' \in Channels
    BY <1>5, <1>k, <1>p, <2>2, <2>3 DEF ReceiveElect, TypeOK, m, popped
  <2>5. QED
    BY <1>5, <2>4 DEF ReceiveElect, TypeOK, Channels
<1>6. CASE ReceiveElectReply(c, d)
  <2> DEFINE won == WinElection(c, ha[c], m.proposed)
             lease == [type |-> "lease", term |-> won.term, epoch |-> won.term, for |-> "election"]
  <2>1. m \in ElectReplyMsg
    BY <1>2, <1>6, MessageTypes DEF ReceiveElectReply, m
  <2>2. won \in HaState /\ FollowRefusal(ha[c], m) \in HaState
    BY <1>0, <2>1, ElectionTypes DEF ElectReplyMsg
  <2> HIDE DEF won
  <2>3. [won EXCEPT !.electing = "leasing"] \in HaState /\ [won EXCEPT !.electing = "idle"] \in HaState
    BY <2>2 DEF HaState
  <2>4. lease \in Message
    BY <2>2 DEF Message, LeaseMsg, Caller, HaState
  <2>5. SendRequest(popped, c, won, lease) \in Channels
    BY <1>2, <2>4, SendRequestType
  <2>6. ha' \in [CP -> HaState] /\ chan' \in Channels
    BY <1>2, <1>6, <1>k, <2>2, <2>3, <2>5 DEF ReceiveElectReply, m, popped, won
  <2>7. QED
    BY <1>6, <2>6 DEF ReceiveElectReply, TypeOK, Channels
<1>7. CASE ReceiveLease(c, d)
  <2>1. m.epoch \in Nat /\ m.for \in Caller
    BY <1>2, <1>7, MessageTypes DEF ReceiveLease, m, LeaseMsg
  <2>2. AcksLease(c, ha[c], m) \in BOOLEAN
    BY DEF AcksLease
  <2>3. [type |-> "leaseReply", ok |-> AcksLease(c, ha[c], m), for |-> m.for] \in Message
    BY <2>1, <2>2 DEF Message, LeaseReplyMsg
  <2>4. chan' \in Channels
    BY <1>7, <1>p, <2>3 DEF ReceiveLease, m, popped
  <2>5. [ha[c] EXCEPT !.phase = "follower", !.leaseEpoch = m.epoch] \in HaState
    BY <1>0, <2>1 DEF HaState, Phase
  <2>6. ha' \in [CP -> HaState]
    BY <1>7, <2>5 DEF ReceiveLease, TypeOK, m
  <2>7. QED
    BY <1>7, <2>4, <2>6 DEF ReceiveLease, TypeOK, Channels
<1>8. CASE ReceiveLeaseReply(c, d)
  <2>1. TakeLease(ha[c]) \in HaState
    BY <1>0 DEF TakeLease, HaState, Phase
  <2>2. \A s \in HaState : EndElection(s) \in HaState
    BY DEF EndElection, HaState
  <2>3. ha' \in [CP -> HaState]
    BY <1>0, <1>8, <1>k, <2>1, <2>2 DEF ReceiveLeaseReply
  <2>4. QED
    BY <1>2, <1>8, <2>3 DEF ReceiveLeaseReply, TypeOK, Channels, popped
<1>9. CASE DropFrame(c, d) \/ LateReply(c, d)
  BY <1>2, <1>9 DEF DropFrame, LateReply, Fault, TypeOK, Channels, popped
<1>10. QED
  BY <1>3, <1>4, <1>5, <1>6, <1>7, <1>8, <1>9 DEF Receive

\* Every field, frame and socket state keeps its range: no handler, timer or
\* continuation leaves a HubHa object with a phase, role or leader that the
\* rest of the code does not know.
THEOREM TypeCorrect == Spec => []TypeOK
<1>1. Init => TypeOK
  BY BootType, ConstantsAssumption DEF Init, TypeOK, NoFrames, LinkState
<1>2. TypeOK /\ [Next]_vars => TypeOK'
  <2> SUFFICES ASSUME TypeOK, [Next]_vars PROVE TypeOK'
    OBVIOUS
  <2>1. CASE UNCHANGED vars
    BY <2>1 DEF vars, TypeOK
  <2>2. CASE Next
    BY <2>2, ConnectionTypes, RestartTypes, TimerTypes, ReceiveTypes DEF Next
  <2>3. QED
    BY <2>1, <2>2
<1>3. QED
  BY <1>1, <1>2, PTL DEF Spec

----------------------------------------------------------------------------
(* One object. *)

\* t is s after a step that leaves its term, leader and election alone and
\* does not promote it.
Quiet(s, t) ==
  /\ t.term = s.term /\ t.saved = s.saved /\ t.leader = s.leader
  /\ t.electedTerm = s.electedTerm
  /\ t.phase \in {s.phase, "nominating", "read-only-no-quorum"}

LEMMA QuietSound ==
  ASSUME NEW c \in CP, NEW s \in HaState, NEW t \in HaState, Sound(c, s), Quiet(s, t)
  PROVE  Sound(c, t)
  BY DEF Sound, Quiet

LEMMA DisconnectQuiet ==
  ASSUME NEW s \in HaState, NEW pipe \in {"inbound", "outbound"}
  PROVE  Quiet(s, OnPeerDisconnected(s, pipe))
  BY DEF Quiet, OnPeerDisconnected, OnPeerLost, LoseQuorum, HaState, Phase

LEMMA OutboundCloseQuiet ==
  ASSUME NEW s \in HaState
  PROVE  Quiet(s, OnOutboundClose(s))
<1> DEFINE t == [s EXCEPT !.out = "none"]
<1>1. t \in HaState /\ Quiet(s, t)
  BY DEF HaState, Quiet
<1> HIDE DEF t
<1>2. Quiet(t, OnPeerDisconnected(t, "outbound"))
  BY <1>1, DisconnectQuiet
<1>3. Quiet(s, OnPeerDisconnected(t, "outbound"))
  BY <1>1, <1>2 DEF Quiet
<1>4. Quiet(s, [s EXCEPT !.peerOut = IF @ = "live" THEN "stale" ELSE @])
  BY DEF HaState, Quiet
<1>5. s.out \in {"none", "unidentified", "identified"}
  BY DEF HaState
<1>6. QED
  BY <1>1, <1>3, <1>4, <1>5 DEF OnOutboundClose, t

LEMMA PeerStateSound ==
  ASSUME NEW c \in CP, NEW s \in HaState, NEW m \in PeerStateMsg, Sound(c, s)
  PROVE  /\ Sound(c, OnPeerState(c, s, m))
         /\ s.electedTerm # 0 => OnPeerState(c, s, m).electedTerm # 0
<1> DEFINE t == NotePeer(s, m)
<1>1. t \in HaState /\ Quiet(s, t)
  BY DEF NotePeer, HaState, PeerStateMsg, Quiet
<1>2. Sound(c, t)
  BY <1>1, QuietSound
<1>3. t.electedTerm = s.electedTerm
  BY <1>1 DEF Quiet
<1>m. m.term \in Nat /\ m.leader \in CP /\ m.phase \in Phase
  BY DEF PeerStateMsg
<1>t. t.term \in Nat /\ t.electedTerm \in Nat /\ t.leader \in CP
  BY <1>1 DEF HaState
<1> HIDE DEF t
<1>4. CASE m.term > t.term
  <2>1. OnPeerState(c, s, m) = AcceptPeer(c, t, m)
    BY <1>4, <1>m, <1>t DEF OnPeerState, JudgeTerm, t
  <2>2. AcceptPeer(c, t, m).term = m.term /\ AcceptPeer(c, t, m).saved.term = m.term
    BY <1>1 DEF AcceptPeer, PersistState, HaState
  <2>3. AcceptPeer(c, t, m).leader = m.leader
    BY <1>1 DEF AcceptPeer, PersistState, HaState
  <2>4. AcceptPeer(c, t, m).electedTerm \in {m.term, t.electedTerm}
    BY <1>1 DEF AcceptPeer, PersistState, HaState
  <2>5. AcceptPeer(c, t, m).phase # "leader-leased"
    BY <1>1 DEF AcceptPeer, PersistState, HaState
  <2>6. AcceptPeer(c, t, m).phase = "follower" => m.leader # c
    BY <1>1 DEF AcceptPeer, PersistState, HaState
  <2>7. QED
    BY <1>2, <1>3, <1>4, <1>m, <1>t, <2>1, <2>2, <2>3, <2>4, <2>5, <2>6, PeerType DEF Sound, Peer
<1>5. CASE m.term < t.term \/ (m.term = t.term /\ m.leader = t.leader)
  <2>1. OnPeerState(c, s, m) = FollowLeased(c, t, m)
    BY <1>5, <1>m, <1>t DEF OnPeerState, JudgeTerm, t
  <2>2. CASE FollowLeased(c, t, m) = t
    BY <1>2, <1>3, <2>1, <2>2
  <2>3. CASE t.leader # c
    <3> DEFINE u == [t EXCEPT !.role = "follower", !.phase = "follower", !.leaseEpoch = m.term]
    <3>1. /\ u.term = t.term /\ u.saved = t.saved /\ u.leader = t.leader
          /\ u.electedTerm = t.electedTerm /\ u.phase = "follower"
      BY <1>1 DEF HaState
    <3> HIDE DEF u
    <3>2. Sound(c, u)
      BY <1>2, <1>t, <2>3, <3>1 DEF Sound, Peer
    <3>3. QED
      BY <1>2, <1>3, <2>1, <3>1, <3>2 DEF FollowLeased, u
  <2>4. QED
    BY <2>2, <2>3 DEF FollowLeased
<1>6. CASE m.term = t.term /\ m.leader # t.leader
  <2>1. OnPeerState(c, s, m) = SplitBrain(t)
    BY <1>6, <1>m, <1>t DEF OnPeerState, JudgeTerm, t
  <2>2. /\ SplitBrain(t).term = t.term + 1 /\ SplitBrain(t).saved.term = t.term + 1
        /\ SplitBrain(t).phase = "read-only-no-quorum"
        /\ SplitBrain(t).electedTerm = t.electedTerm
    BY <1>1 DEF SplitBrain, PersistState, HaState
  <2>3. QED
    BY <1>2, <1>3, <1>t, <2>1, <2>2 DEF Sound
<1>7. QED
  BY <1>4, <1>5, <1>6, <1>m, <1>t

LEMMA AcceptElectionSound ==
  ASSUME NEW c \in CP, NEW s \in HaState, NEW term \in Nat, term >= 1
  PROVE  /\ Sound(c, AcceptElection(c, s, term))
         /\ AcceptElection(c, s, term).electedTerm = s.electedTerm
  BY DEF AcceptElection, PersistState, HaState, Sound

LEMMA WinElectionSound ==
  ASSUME NEW c \in CP, NEW s \in HaState, NEW term \in Nat, term >= 1
  PROVE  Sound(c, WinElection(c, s, term)) /\ WinElection(c, s, term).electedTerm # 0
  BY DEF WinElection, PersistState, HaState, Sound

LEMMA FollowRefusalSound ==
  ASSUME NEW c \in CP, NEW s \in HaState, NEW m \in ElectReplyMsg, Sound(c, s), m.leader = Peer(c)
  PROVE  /\ Sound(c, FollowRefusal(s, m))
         /\ FollowRefusal(s, m).electedTerm = s.electedTerm
<1>1. m.term \in Nat /\ s.term \in Nat
  BY DEF ElectReplyMsg, HaState
<1>2. MaxOf(s.term, m.term) >= s.term
  BY <1>1 DEF MaxOf
<1>3. /\ FollowRefusal(s, m).term = MaxOf(s.term, m.term)
      /\ FollowRefusal(s, m).saved.term = MaxOf(s.term, m.term)
      /\ FollowRefusal(s, m).leader = m.leader
      /\ FollowRefusal(s, m).electedTerm = s.electedTerm
      /\ FollowRefusal(s, m).phase \in {"follower", "read-only-no-quorum"}
  BY DEF FollowRefusal, PersistState, HaState
<1>4. s.term >= 1
  BY DEF Sound
<1>5. MaxOf(s.term, m.term) >= 1
  BY <1>1, <1>4 DEF MaxOf
<1>6. QED
  BY <1>3, <1>5 DEF Sound

----------------------------------------------------------------------------
(* The frames in flight. *)

\* A promise outlives every step that does not unset an election.
LEMMA PromisesKept ==
  ASSUME NEW h, NEW g, NEW s \in CP, NEW m, Promises(h, s, m),
         \A c \in CP : h[c].electedTerm # 0 => g[c].electedTerm # 0
  PROVE  Promises(g, s, m)
  BY PeerType DEF Promises

LEMMA FramesKept ==
  ASSUME NEW h, NEW g, NEW ch \in Channels, FramesSound(h, ch),
         \A c \in CP : h[c].electedTerm # 0 => g[c].electedTerm # 0
  PROVE  FramesSound(g, ch)
<1> SUFFICES ASSUME NEW d \in CP, NEW s \in CP, NEW i \in DOMAIN ch[d][s]
             PROVE  Promises(g, s, ch[d][s][i])
  BY DEF FramesSound
<1>1. Promises(h, s, ch[d][s][i])
  BY DEF FramesSound
<1>2. QED
  BY <1>1, PromisesKept

LEMMA PushSound ==
  ASSUME NEW h, NEW ch \in Channels, NEW d \in CP, NEW s \in CP, NEW m \in Message,
         FramesSound(h, ch), Promises(h, s, m)
  PROVE  FramesSound(h, Push(ch, d, s, m))
<1> DEFINE q == Append(ch[d][s], m)
           new == [ch EXCEPT ![d][s] = q]
<1>1. ch[d][s] \in Seq(Message)
  BY DEF Channels
<1>2. \A i \in DOMAIN q : q[i] = m \/ (i \in DOMAIN ch[d][s] /\ q[i] = ch[d][s][i])
  BY <1>1
<1>3. \A e, t \in CP : new[e][t] = IF e = d /\ t = s THEN q ELSE ch[e][t]
  BY DEF Channels
<1> HIDE DEF q, new
<1>4. \A e, t \in CP : \A i \in DOMAIN new[e][t] : Promises(h, t, new[e][t][i])
  <2> TAKE e, t \in CP
  <2> TAKE i \in DOMAIN new[e][t]
  <2>1. CASE e = d /\ t = s
    BY <1>2, <1>3, <2>1 DEF FramesSound
  <2>2. CASE ~(e = d /\ t = s)
    BY <1>3, <2>2 DEF FramesSound
  <2>3. QED
    BY <2>1, <2>2
<1>5. QED
  BY <1>4 DEF Push, FramesSound, new, q

LEMMA SendRequestSound ==
  ASSUME NEW h, NEW ch \in Channels, NEW c \in CP, NEW s, NEW m \in Message,
         FramesSound(h, ch), Promises(h, c, m)
  PROVE  FramesSound(h, SendRequest(ch, c, s, m))
<1>1. RpcPipe(c, s) \in CP
  BY PeerType DEF RpcPipe
<1>2. QED
  BY <1>1, PushSound DEF SendRequest

LEMMA PoppedSound ==
  ASSUME chan \in Channels, NEW h, FramesSound(h, chan), NEW c \in CP, NEW d \in CP,
         chan[d][Peer(c)] # << >>
  PROVE  FramesSound(h, Popped(c, d)) /\ Promises(h, Peer(c), Frame(c, d))
<1> DEFINE p == Peer(c)
           q == chan[d][p]
<1>1. p \in CP
  BY PeerType
<1>2. q \in Seq(Message) /\ q # << >>
  BY <1>1 DEF Channels
<1>3. \A e, t \in CP : Popped(c, d)[e][t] = IF e = d /\ t = p THEN Tail(q) ELSE chan[e][t]
  BY <1>1 DEF Channels, Popped
<1>4. \A i \in DOMAIN q : Promises(h, p, q[i])
  BY <1>1 DEF FramesSound
<1>5. Frame(c, d) = Head(q)
  BY DEF Frame
<1> HIDE DEF p, q
<1>6. \A i \in DOMAIN Tail(q) : i + 1 \in DOMAIN q /\ Tail(q)[i] = q[i + 1]
  BY <1>2
<1>7. 1 \in DOMAIN q /\ Head(q) = q[1]
  BY <1>2
<1>8. \A e, t \in CP : \A i \in DOMAIN Popped(c, d)[e][t] : Promises(h, t, Popped(c, d)[e][t][i])
  <2> TAKE e, t \in CP
  <2> TAKE i \in DOMAIN Popped(c, d)[e][t]
  <2>1. CASE e = d /\ t = p
    <3>1. Popped(c, d)[e][t] = Tail(q)
      BY <1>3, <2>1
    <3>2. i \in DOMAIN Tail(q)
      BY <3>1
    <3>3. Promises(h, p, Tail(q)[i])
      BY <1>4, <1>6, <3>2
    <3>4. QED
      BY <2>1, <3>1, <3>3
  <2>2. CASE ~(e = d /\ t = p)
    <3>1. Popped(c, d)[e][t] = chan[e][t]
      BY <1>3, <2>2
    <3>2. QED
      BY <3>1 DEF FramesSound
  <2>3. QED
    BY <2>1, <2>2
<1>9. QED
  BY <1>4, <1>5, <1>7, <1>8 DEF FramesSound, p

----------------------------------------------------------------------------
(* Every action keeps the invariant. *)

\* A step of c that leaves it sound and elected, over frames that are sound.
LEMMA StepSound ==
  ASSUME IInv, TypeOK', NEW c \in CP, NEW s, ha' = [ha EXCEPT ![c] = s], Sound(c, s),
         ha[c].electedTerm # 0 => s.electedTerm # 0,
         FramesSound(ha, chan')
  PROVE  IInv'
<1>1. \A e \in CP : ha'[e] = IF e = c THEN s ELSE ha[e]
  BY DEF IInv, TypeOK
<1>2. \A e \in CP : Sound(e, ha'[e])
  BY <1>1 DEF IInv
<1>3. \A e \in CP : ha[e].electedTerm # 0 => ha'[e].electedTerm # 0
  BY <1>1
<1>4. FramesSound(ha', chan')
  BY <1>3, FramesKept DEF TypeOK, Channels
<1>5. QED
  BY <1>2, <1>4 DEF IInv

\* A step of c that changes no frame.
LEMMA QuietStep ==
  ASSUME IInv, TypeOK', NEW c \in CP, NEW s \in HaState, ha' = [ha EXCEPT ![c] = s], Quiet(ha[c], s),
         FramesSound(ha, chan')
  PROVE  IInv'
<1>1. Sound(c, s)
  BY QuietSound DEF IInv, TypeOK
<1>2. QED
  BY <1>1, StepSound DEF Quiet

LEMMA ConnectionSound ==
  ASSUME IInv, TypeOK', NEW c \in CP,
         Dial(c) \/ Cut(c) \/ OutboundClosed(c) \/ InboundClosed(c)
  PROVE  IInv'
<1>0. /\ ha[c] \in HaState /\ ha \in [CP -> HaState] /\ chan \in Channels
      /\ Sound(c, ha[c]) /\ FramesSound(ha, chan)
  BY DEF IInv, TypeOK, Channels
<1>1. CASE Dial(c)
  <2>1. \A e \in CP : Quiet(ha[e], ha'[e])
    <3>1. ha'[c] = [ha[c] EXCEPT !.out = "unidentified"]
      BY <1>0, <1>1, PeerType DEF Dial
    <3>2. ha'[Peer(c)] = [ha[Peer(c)] EXCEPT !.peerIn = TRUE, !.fresh = TRUE]
      BY <1>0, <1>1, PeerType DEF Dial
    <3>3. ha[Peer(c)] \in HaState
      BY <1>0, PeerType
    <3>4. Quiet(ha[c], ha'[c])
      BY <1>0, <3>1 DEF Quiet, HaState
    <3>5. Quiet(ha[Peer(c)], ha'[Peer(c)])
      BY <3>2, <3>3 DEF Quiet, HaState
    <3> QED
      BY <3>4, <3>5 DEF Peer
  <2>2. \A e \in CP : Sound(e, ha'[e])
    BY <2>1, QuietSound DEF IInv, TypeOK
  <2>3. \A e \in CP : ha[e].electedTerm # 0 => ha'[e].electedTerm # 0
    BY <2>1 DEF Quiet
  <2> DEFINE q(t) == IF t = c THEN <<CurrentState("sync", c, ha[c])>> ELSE << >>
  <2>4. \A d, t \in CP : chan'[d][t] = IF d = c THEN q(t) ELSE chan[d][t]
    BY <1>0, <1>1 DEF Dial, Channels
  <2>5. Promises(ha, c, CurrentState("sync", c, ha[c]))
    BY DEF Promises, CurrentState
  <2>6. \A t \in CP : \A i \in DOMAIN q(t) : Promises(ha, t, q(t)[i])
    BY <2>5
  <2> HIDE DEF q
  <2>7. FramesSound(ha, chan')
    BY <1>0, <2>4, <2>6 DEF FramesSound
  <2>8. FramesSound(ha', chan')
    BY <2>3, <2>7, FramesKept DEF TypeOK, Channels
  <2>9. QED
    BY <2>2, <2>8 DEF IInv
<1>2. CASE Cut(c)
  <2>1. \A d, t \in CP : chan'[d][t] = IF d = c THEN << >> ELSE chan[d][t]
    BY <1>0, <1>2 DEF Cut, Channels
  <2>2. FramesSound(ha, chan')
    BY <1>0, <2>1 DEF FramesSound
  <2>3. QED
    BY <1>2, <2>2 DEF Cut, IInv
<1>3. CASE OutboundClosed(c)
  BY <1>0, <1>3, OutboundCloseQuiet, OutboundCloseType, QuietStep DEF OutboundClosed
<1>4. CASE InboundClosed(c)
  BY <1>0, <1>4, DisconnectQuiet, DisconnectType, QuietStep DEF InboundClosed
<1>5. QED
  BY <1>1, <1>2, <1>3, <1>4

LEMMA RebornSound ==
  ASSUME IInv, TypeOK', NEW c \in CP, NEW rows \in Saved, rows.term >= 1, Reborn(c, rows)
  PROVE  IInv'
<1>1. \A e \in CP : ha'[e] = IF e = c THEN Boot(c, rows) ELSE ha[e]
  BY DEF Reborn, IInv, TypeOK
<1>2. Sound(c, Boot(c, rows))
  BY DEF Sound, Boot
<1>3. FramesSound(ha', chan')
  BY DEF Reborn, NoFrames, FramesSound
<1>4. QED
  BY <1>1, <1>2, <1>3 DEF IInv

\* What a handler persists has a positive term.
LEMMA HandledSound ==
  ASSUME NEW c \in CP, NEW s \in HaState, NEW m \in Message, Sound(c, s), Promises(ha, Peer(c), m)
  PROVE  Sound(c, Handled(c, s, m))
<1>1. CASE m.type \in {"sync", "syncReply", "heartbeat"}
  <2>1. m \in PeerStateMsg
    BY <1>1, MessageTypes
  <2>2. QED
    BY <1>1, <2>1, PeerStateSound DEF Handled
<1>2. CASE m.type = "elect"
  <2>1. m.term \in Nat /\ m.term >= 1
    BY <1>2, MessageTypes DEF ElectMsg, Promises
  <2>2. QED
    BY <1>2, <2>1, AcceptElectionSound DEF Handled
<1>3. CASE m.type = "electReply"
  <2>1. m \in ElectReplyMsg
    BY <1>3, MessageTypes
  <2>2. m.proposed \in Nat /\ m.proposed >= 1 /\ (~m.ok => m.leader = Peer(c))
    BY <1>3, <2>1 DEF ElectReplyMsg, Promises
  <2>3. Sound(c, WinElection(c, s, m.proposed)) /\ (~m.ok => Sound(c, FollowRefusal(s, m)))
    BY <2>1, <2>2, WinElectionSound, FollowRefusalSound
  <2>4. QED
    BY <1>3, <2>3 DEF Handled
<1>4. CASE m.type \notin {"sync", "syncReply", "heartbeat", "elect", "electReply"}
  BY <1>4 DEF Handled
<1>5. QED
  BY <1>1, <1>2, <1>3, <1>4

\* A process comes back sound even from rows that were written in part.
LEMMA RestartSound ==
  ASSUME IInv, TypeOK', NEW c \in CP, Restart(c) \/ RestartTorn(c)
  PROVE  IInv'
<1>1. /\ ha[c] \in HaState /\ ha[c].saved \in Saved /\ ha[c].saved.term >= 1
      /\ Sound(c, ha[c]) /\ FramesSound(ha, chan) /\ chan \in Channels
  BY DEF IInv, TypeOK, HaState, Sound, Channels
<1>2. CASE Restart(c)
  BY <1>1, <1>2, RebornSound DEF Restart
<1>3. CASE RestartTorn(c)
  <2>1. PICK d \in CP : /\ HasFrame(c, d)
                        /\ \E rows \in Torn(ha[c].saved, Handled(c, ha[c], Frame(c, d)).saved) :
                             Reborn(c, rows)
    BY <1>3 DEF RestartTorn
  <2> DEFINE new == Handled(c, ha[c], Frame(c, d))
  <2>2. Frame(c, d) \in Message /\ Promises(ha, Peer(c), Frame(c, d))
    BY <1>1, <2>1, FrameType, PoppedSound DEF HasFrame
  <2>3. new \in HaState /\ Sound(c, new)
    BY <1>1, <2>2, HandledType, HandledSound
  <2>4. PICK rows \in Torn(ha[c].saved, new.saved) : Reborn(c, rows)
    BY <2>1
  <2> HIDE DEF new
  <2>5. new.saved \in Saved /\ new.saved.term >= 1
    BY <2>3 DEF HaState, Sound
  <2>6. rows \in Saved
    BY <1>1, <2>4, <2>5, TornType
  <2>7. rows.term = new.saved.term
    BY <1>1, <2>4, <2>5 DEF Torn, Saved
  <2>8. QED
    BY <2>4, <2>5, <2>6, <2>7, RebornSound
<1>4. QED
  BY <1>2, <1>3

LEMMA TimerSound ==
  ASSUME IInv, TypeOK', NEW c \in CP,
         \/ Heartbeat(c) \/ PeerSilent(c) \/ Tick(c) \/ RenewLease(c) \/ ElectionTimeout(c)
  PROVE  IInv'
<1>0. /\ ha[c] \in HaState /\ ha \in [CP -> HaState] /\ chan \in Channels
      /\ Sound(c, ha[c]) /\ FramesSound(ha, chan)
  BY DEF IInv, TypeOK, Channels
<1>s. ASSUME NEW m \in Message, Promises(ha, c, m)
      PROVE  FramesSound(ha, SendRequest(chan, c, ha[c], m))
  BY <1>0, <1>s, SendRequestSound
<1>1. CASE Heartbeat(c)
  <2>1. PICK d \in HeartbeatPipes(c) :
          chan' = Push(chan, d, c, CurrentState("heartbeat", c, ha[c]))
    BY <1>1 DEF Heartbeat
  <2>2. d \in CP
    BY PeerType DEF HeartbeatPipes
  <2>3. CurrentState("heartbeat", c, ha[c]) \in Message
    BY <1>0, StateMessageType
  <2>4. Promises(ha, c, CurrentState("heartbeat", c, ha[c]))
    BY DEF Promises, CurrentState
  <2>5. FramesSound(ha, chan')
    BY <1>0, <2>1, <2>2, <2>3, <2>4, PushSound
  <2>6. QED
    BY <1>1, <2>5 DEF Heartbeat, IInv
<1>2. CASE PeerSilent(c)
  <2>1. Quiet(ha[c], [ha[c] EXCEPT !.fresh = FALSE]) /\ [ha[c] EXCEPT !.fresh = FALSE] \in HaState
    BY <1>0 DEF HaState, Quiet
  <2>2. ha' = [ha EXCEPT ![c] = [ha[c] EXCEPT !.fresh = FALSE]]
    BY <1>2 DEF PeerSilent
  <2>3. QED
    BY <1>0, <1>2, <2>1, <2>2, QuietStep DEF PeerSilent
<1>3. CASE LeaseExpired(c) \/ LeaderSilent(c)
  <2>1. Quiet(ha[c], LoseQuorum(ha[c])) /\ LoseQuorum(ha[c]) \in HaState
    BY <1>0 DEF HaState, Quiet, LoseQuorum, Phase
  <2>2. QED
    BY <1>0, <1>3, <2>1, QuietStep DEF LeaseExpired, LeaderSilent
<1>4. CASE RetryLease(c)
  <2> DEFINE m == [type |-> "lease", term |-> ha[c].term, epoch |-> ha[c].term, for |-> "tick"]
  <2>1. m \in Message
    BY <1>0 DEF Message, LeaseMsg, Caller, HaState
  <2>2. Promises(ha, c, m)
    BY <1>0, <1>4 DEF RetryLease, Promises, Sound, HaState
  <2> HIDE DEF m
  <2>3. FramesSound(ha, chan')
    BY <1>4, <1>s, <2>1, <2>2 DEF RetryLease, m
  <2>4. QED
    BY <1>4, <2>3 DEF RetryLease, IInv
<1>5. CASE StartElection(c)
  <2> DEFINE m == [type |-> "elect", term |-> MaxOf(ha[c].term, ha[c].peerTerm) + 1,
                   for |-> "election"]
             s == [ha[c] EXCEPT !.phase = "nominating", !.electing = "asked"]
  <2>1. m.term >= 1 /\ m \in Message
    BY <1>0 DEF Message, ElectMsg, Caller, HaState, MaxOf
  <2>2. Promises(ha, c, m)
    BY <2>1 DEF Promises
  <2>3. chan' = SendRequest(chan, c, ha[c], m)
    BY <1>5 DEF StartElection
  <2> HIDE DEF m
  <2>4. FramesSound(ha, chan')
    BY <1>s, <2>1, <2>2, <2>3
  <2>5. s \in HaState /\ Quiet(ha[c], s)
    BY <1>0 DEF HaState, Quiet, Phase
  <2>6. ha' = [ha EXCEPT ![c] = s]
    BY <1>0, <1>5 DEF StartElection, HaState
  <2>7. QED
    BY <2>4, <2>5, <2>6, QuietStep
<1>6. CASE AlignToPeer(c)
  <2>1. Sound(c, ExpectPeer(c, ha[c])) /\ ExpectPeer(c, ha[c]).electedTerm = ha[c].electedTerm
    BY <1>0 DEF ExpectPeer, HaState, Sound
  <2>2. QED
    BY <1>0, <1>6, <2>1, StepSound DEF AlignToPeer
<1>7. CASE RenewLease(c)
  <2> DEFINE m == [type |-> "lease", term |-> ha[c].term, epoch |-> ha[c].leaseEpoch,
                   for |-> "renew"]
  <2>1. m \in Message /\ Promises(ha, c, m)
    BY <1>0 DEF Message, LeaseMsg, Caller, HaState, Promises
  <2> HIDE DEF m
  <2>2. FramesSound(ha, chan')
    BY <1>7, <1>s, <2>1 DEF RenewLease, m
  <2>3. QED
    BY <1>7, <2>2 DEF RenewLease, IInv
<1>8. CASE ElectionTimeout(c)
  <2>1. \A s \in CP, m \in Message : Promises(ha, s, m) => Promises(ha, s, Forget(c, s, m))
    BY DEF Forget, OfElection, Promises, Message, PeerStateMsg, ElectMsg, ElectReplyMsg, LeaseMsg,
           LeaseReplyMsg
  <2>2. \A d, s \in CP : chan[d][s] \in Seq(Message)
    BY <1>0 DEF Channels
  <2>3. \A d, s \in CP : \A i \in DOMAIN chan[d][s] : chan[d][s][i] \in Message
    BY <2>2
  <2>4. \A d, s \in CP : chan'[d][s] = [i \in DOMAIN chan[d][s] |-> Forget(c, s, chan[d][s][i])]
    BY <1>8 DEF ElectionTimeout
  <2>5. FramesSound(ha, chan')
    BY <1>0, <2>1, <2>3, <2>4 DEF FramesSound
  <2>6. FailElection(ha[c]) \in HaState /\ EndElection(ha[c]) \in HaState
    BY <1>0 DEF FailElection, EndElection, HaState, Phase
  <2>7. Quiet(ha[c], FailElection(ha[c])) /\ Quiet(ha[c], EndElection(ha[c]))
    BY <1>0 DEF FailElection, EndElection, HaState, Quiet
  <2>8. \E s \in {FailElection(ha[c]), EndElection(ha[c])} : ha' = [ha EXCEPT ![c] = s]
    BY <1>8 DEF ElectionTimeout
  <2>9. QED
    BY <2>5, <2>6, <2>7, <2>8, QuietStep
<1>9. QED
  BY <1>1, <1>2, <1>3, <1>4, <1>5, <1>6, <1>7, <1>8 DEF Tick

LEMMA ReceiveSound ==
  ASSUME IInv, TypeOK', NEW c \in CP, NEW d \in CP, Receive(c, d) \/ LateReply(c, d)
  PROVE  IInv'
<1> DEFINE m == Frame(c, d)
           popped == Popped(c, d)
<1>0. /\ ha[c] \in HaState /\ ha \in [CP -> HaState] /\ chan \in Channels
      /\ Sound(c, ha[c]) /\ FramesSound(ha, chan)
  BY DEF IInv, TypeOK, Channels
<1>1. chan[d][Peer(c)] # << >>
  BY DEF Receive, ReceiveState, ReceiveSyncReply, ReceiveElect, ReceiveElectReply,
         ReceiveLease, ReceiveLeaseReply, DropFrame, LateReply, HasFrame
<1>2. m \in Message /\ popped \in Channels
  BY <1>0, <1>1, FrameType
<1>3. FramesSound(ha, popped) /\ Promises(ha, Peer(c), m)
  BY <1>0, <1>1, PoppedSound
<1>p. ASSUME NEW n \in Message, Promises(ha, c, n)
      PROVE  FramesSound(ha, Push(popped, d, c, n))
  BY <1>2, <1>3, <1>p, PushSound
<1> HIDE DEF m, popped
<1>4. CASE ReceiveState(c, d)
  <2> DEFINE s == OnPeerState(c, ha[c], m)
             r == CurrentState("syncReply", c, s)
  <2>1. m \in PeerStateMsg
    BY <1>2, <1>4, MessageTypes DEF ReceiveState, m
  <2>2. s \in HaState /\ Sound(c, s) /\ (ha[c].electedTerm # 0 => s.electedTerm # 0)
    BY <1>0, <2>1, OnPeerStateType, PeerStateSound
  <2>3. r \in Message /\ Promises(ha, c, r)
    BY <2>2, StateMessageType DEF CurrentState, Promises
  <2>4. ha' = [ha EXCEPT ![c] = s] /\ chan' \in {popped, Push(popped, d, c, r)}
    BY <1>4 DEF ReceiveState, m, popped
  <2> HIDE DEF s, r
  <2>5. FramesSound(ha, chan')
    BY <1>3, <1>p, <2>3, <2>4
  <2>6. QED
    BY <2>2, <2>4, <2>5, StepSound
<1>5. CASE ReceiveSyncReply(c, d)
  <2> DEFINE t == [ha[c] EXCEPT !.out = "identified", !.peerOut = "live"]
             s == OnPeerState(c, t, m)
  <2>1. m \in PeerStateMsg
    BY <1>2, <1>5, MessageTypes DEF ReceiveSyncReply, m
  <2>2. t \in HaState /\ Quiet(ha[c], t)
    BY <1>0 DEF HaState, Quiet
  <2>3. Sound(c, t) /\ t.electedTerm = ha[c].electedTerm
    BY <1>0, <2>2, QuietSound DEF Quiet
  <2> HIDE DEF t
  <2>4. Sound(c, s) /\ (ha[c].electedTerm # 0 => s.electedTerm # 0)
    BY <2>1, <2>2, <2>3, PeerStateSound
  <2>5. ha' = [ha EXCEPT ![c] = s] /\ chan' = popped
    BY <1>5 DEF ReceiveSyncReply, m, popped, t
  <2> HIDE DEF s
  <2>6. QED
    BY <1>3, <2>4, <2>5, StepSound
<1>6. CASE ReceiveElect(c, d)
  <2>1. m.term \in Nat /\ m.term >= 1 /\ m.for \in Caller
    BY <1>2, <1>3, <1>6, MessageTypes DEF ReceiveElect, m, ElectMsg, Promises
  <2> DEFINE yes == ElectReply(TRUE, m.term, Peer(c), "follower", m)
             no == ElectReply(FALSE, ha[c].term, c, ha[c].phase, m)
  <2>2. yes \in Message /\ no \in Message
    BY <1>0, <2>1, PeerType DEF ElectReply, Message, ElectReplyMsg, HaState, Phase
  <2>3. Promises(ha, c, yes) /\ Promises(ha, c, no)
    BY <2>1 DEF Promises, ElectReply
  <2>4. \/ ha' = [ha EXCEPT ![c] = AcceptElection(c, ha[c], m.term)] /\ chan' = Push(popped, d, c, yes)
        \/ ha' = ha /\ chan' = Push(popped, d, c, no)
    BY <1>6 DEF ReceiveElect, m, popped
  <2> HIDE DEF yes, no
  <2>5. FramesSound(ha, chan')
    BY <1>p, <2>2, <2>3, <2>4
  <2>6. CASE ha' = [ha EXCEPT ![c] = AcceptElection(c, ha[c], m.term)]
    BY <1>0, <2>1, <2>5, <2>6, AcceptElectionSound, StepSound
  <2>7. CASE ha' = ha
    BY <2>5, <2>7 DEF IInv
  <2>8. QED
    BY <2>4, <2>6, <2>7
<1>7. CASE ReceiveElectReply(c, d)
  <2> DEFINE won == WinElection(c, ha[c], m.proposed)
             lease == [type |-> "lease", term |-> won.term, epoch |-> won.term, for |-> "election"]
  <2>1. m \in ElectReplyMsg
    BY <1>2, <1>7, MessageTypes DEF ReceiveElectReply, m
  <2>2. m.proposed \in Nat /\ m.proposed >= 1 /\ (~m.ok => m.leader = Peer(c))
    BY <1>3, <2>1 DEF ElectReplyMsg, Promises
  <2>3. won \in HaState /\ Sound(c, won) /\ won.electedTerm # 0
    BY <1>0, <2>1, <2>2, ElectionTypes, WinElectionSound
  <2>e. /\ won \in HaState
        /\ won.term \in Nat
    BY <2>3 DEF HaState
  <2>4. CASE ~m.ok
    <3>1. ha' = [ha EXCEPT ![c] = FollowRefusal(ha[c], m)] /\ chan' = popped
      BY <1>7, <2>4 DEF ReceiveElectReply, m, popped
    <3>2. Sound(c, FollowRefusal(ha[c], m)) /\ FollowRefusal(ha[c], m).electedTerm = ha[c].electedTerm
      BY <1>0, <2>1, <2>2, <2>4, FollowRefusalSound
    <3>3. QED
      BY <1>3, <3>1, <3>2, StepSound
  <2>5. CASE m.ok
    <3>1. lease \in Message
      BY <2>e DEF Message, LeaseMsg, Caller
    <3> HIDE DEF won
    <3>2. /\ Quiet(won, [won EXCEPT !.electing = "leasing"])
          /\ Quiet(won, [won EXCEPT !.electing = "idle"])
          /\ [won EXCEPT !.electing = "leasing"] \in HaState
          /\ [won EXCEPT !.electing = "idle"] \in HaState
      BY <2>3 DEF HaState, Quiet
    <3>3. \E e \in {"leasing", "idle"} : ha' = [ha EXCEPT ![c] = [won EXCEPT !.electing = e]]
      BY <1>7, <2>5 DEF ReceiveElectReply, m, won
    <3>4. chan' \in {popped, SendRequest(popped, c, won, lease)}
      BY <1>7, <2>5 DEF ReceiveElectReply, m, popped, won
    <3>5. PICK e \in {"leasing", "idle"} : ha' = [ha EXCEPT ![c] = [won EXCEPT !.electing = e]]
      BY <3>3
    <3>6. \A f \in CP : ha'[f] = IF f = c THEN [won EXCEPT !.electing = e] ELSE ha[f]
      BY <1>0, <3>5
    <3>7. /\ Sound(c, [won EXCEPT !.electing = e])
          /\ [won EXCEPT !.electing = e].electedTerm # 0
      BY <2>3, <3>2, <3>5, QuietSound DEF Quiet
    <3>8. \A f \in CP : Sound(f, ha'[f]) /\ (ha[f].electedTerm # 0 => ha'[f].electedTerm # 0)
      BY <3>6, <3>7 DEF IInv
    <3>9. FramesSound(ha', popped)
      BY <1>2, <1>3, <3>8, FramesKept
    <3>10. Promises(ha', c, lease)
      BY <3>6, <3>7 DEF Promises
    <3> HIDE DEF lease
    <3>11. FramesSound(ha', SendRequest(popped, c, won, lease))
      BY <1>2, <3>1, <3>9, <3>10, SendRequestSound
    <3>12. QED
      BY <3>4, <3>8, <3>9, <3>11 DEF IInv
  <2>6. QED
    BY <2>4, <2>5
<1>8. CASE ReceiveLease(c, d)
  <2> DEFINE ack == AcksLease(c, ha[c], m)
             r == [type |-> "leaseReply", ok |-> ack, for |-> m.for]
             s == [ha[c] EXCEPT !.phase = "follower", !.leaseEpoch = m.epoch]
  <2>1. m.type = "lease" /\ m.for \in Caller
    BY <1>2, <1>8, MessageTypes DEF ReceiveLease, m, LeaseMsg
  <2>2. ack \in BOOLEAN
    BY DEF AcksLease
  <2>3. r \in Message /\ Promises(ha, c, r)
    BY <1>3, <2>1, <2>2, PeerType DEF Message, LeaseReplyMsg, Promises
  <2>4. chan' = Push(popped, d, c, r)
    BY <1>8 DEF ReceiveLease, m, popped
  <2>5. ha' = IF ack THEN [ha EXCEPT ![c] = s] ELSE ha
    BY <1>0, <1>8 DEF ReceiveLease, m, HaState
  <2> HIDE DEF r
  <2>6. FramesSound(ha, chan')
    BY <1>p, <2>3, <2>4
  <2>7. CASE ack
    <3>1. ha[c].leader = Peer(c)
      BY <1>0, <2>7 DEF AcksLease, Peer, HaState
    <3>2. Sound(c, s) /\ s.electedTerm = ha[c].electedTerm
      BY <1>0, <3>1 DEF HaState, Sound
    <3> HIDE DEF ack, s
    <3>3. QED
      BY <2>5, <2>6, <2>7, <3>2, StepSound
  <2>8. CASE ~ack
    BY <2>5, <2>6, <2>8 DEF IInv
  <2>9. QED
    BY <2>7, <2>8
<1>9. CASE ReceiveLeaseReply(c, d)
  <2>1. m.type = "leaseReply"
    BY <1>9 DEF ReceiveLeaseReply, m
  <2>2. m.for # "renew" => ha[c].electedTerm # 0
    BY <1>3, <2>1, PeerType DEF Promises
  <2> DEFINE taken == IF m.ok /\ m.for # "renew" THEN TakeLease(ha[c]) ELSE ha[c]
  <2>3. Sound(c, taken) /\ taken.electedTerm = ha[c].electedTerm /\ taken \in HaState
    <3>1. CASE m.ok /\ m.for # "renew"
      <4>1. taken = TakeLease(ha[c]) /\ ha[c].electedTerm # 0
        BY <2>2, <3>1
      <4>2. TakeLease(ha[c]) \in HaState /\ TakeLease(ha[c]).electedTerm = ha[c].electedTerm
        BY <1>0 DEF TakeLease, HaState, Phase
      <4>3. Sound(c, TakeLease(ha[c]))
        BY <1>0, <4>1 DEF TakeLease, HaState, Sound
      <4>4. QED
        BY <4>1, <4>2, <4>3
    <3>2. CASE ~(m.ok /\ m.for # "renew")
      BY <1>0, <3>2
    <3>3. QED
      BY <3>1, <3>2
  <2> HIDE DEF taken
  <2>4. EndElection(taken) \in HaState /\ Quiet(taken, EndElection(taken))
    BY <2>3 DEF EndElection, Quiet, HaState
  <2>5. Sound(c, EndElection(taken)) /\ EndElection(taken).electedTerm = ha[c].electedTerm
    BY <2>3, <2>4, QuietSound DEF Quiet
  <2>6. PICK s \in {taken, EndElection(taken)} : ha' = [ha EXCEPT ![c] = s]
    BY <1>9 DEF ReceiveLeaseReply, m, taken
  <2>7. chan' = popped
    BY <1>9 DEF ReceiveLeaseReply, popped
  <2>8. QED
    BY <1>3, <2>3, <2>5, <2>6, <2>7, StepSound
<1>10. CASE DropFrame(c, d) \/ LateReply(c, d)
  BY <1>3, <1>10 DEF DropFrame, LateReply, IInv, popped
<1>11. QED
  BY <1>4, <1>5, <1>6, <1>7, <1>8, <1>9, <1>10 DEF Receive

\* IInv holds of every reachable state.
THEOREM Invariance == Spec => []IInv
<1>1. Init => IInv
  <2> SUFFICES ASSUME Init PROVE IInv
    OBVIOUS
  <2>1. TypeOK
    BY BootType, ConstantsAssumption DEF Init, TypeOK, NoFrames, LinkState
  <2>2. \A c \in CP : Sound(c, ha[c])
    BY ConstantsAssumption DEF Init, Boot, Sound
  <2>3. FramesSound(ha, chan)
    BY DEF Init, NoFrames, FramesSound
  <2>4. QED
    BY <2>1, <2>2, <2>3 DEF IInv
<1>2. IInv /\ [Next]_vars => IInv'
  <2> SUFFICES ASSUME IInv, [Next]_vars PROVE IInv'
    OBVIOUS
  <2>1. CASE UNCHANGED vars
    BY <2>1 DEF vars, IInv, TypeOK
  <2>2. CASE Next
    <3>1. TypeOK
      BY DEF IInv
    <3>2. TypeOK'
      BY <2>2, <3>1, ConnectionTypes, RestartTypes, TimerTypes, ReceiveTypes DEF Next
    <3>3. QED
      BY <2>2, <3>2, ConnectionSound, RestartSound, TimerSound, ReceiveSound DEF Next
  <2>3. QED
    BY <2>1, <2>2
<1>3. QED
  BY <1>1, <1>2, PTL DEF Spec

\* Every change of the fencing term is persisted in the step that makes it.
THEOREM SavedTermSafe == Spec => []SavedTermIsCurrent
<1>1. IInv => SavedTermIsCurrent
  BY DEF IInv, Sound, SavedTermIsCurrent
<1>2. QED
  BY <1>1, Invariance, PTL

\* No control plane holds the lease without an election since its process started.
THEOREM LeaseSafe == Spec => []LeaseNeedsElection
<1>1. IInv => LeaseNeedsElection
  BY DEF IInv, Sound, LeaseNeedsElection, Leased
<1>2. QED
  BY <1>1, Invariance, PTL

\* A follower forwards writes to its peer, never to itself.
THEOREM FollowerSafe == Spec => []FollowerHasLeader
<1>1. IInv => FollowerHasLeader
  BY DEF IInv, Sound, FollowerHasLeader
<1>2. QED
  BY <1>1, Invariance, PTL

----------------------------------------------------------------------------
(* A leader without a peer. *)

\* t is s after a handler or a timer that touches no pipe and grants no lease.
Steady(s, t) ==
  /\ t.peerIn = s.peerIn /\ t.peerOut = s.peerOut
  /\ t.phase = "leader-leased" => s.phase = "leader-leased"

LEMMA PeerStateSteady ==
  ASSUME NEW c \in CP, NEW s \in HaState, NEW m \in PeerStateMsg
  PROVE  Steady(s, OnPeerState(c, s, m)) /\ OnPeerState(c, s, m).electing = s.electing
<1> DEFINE t == NotePeer(s, m)
<1>1. /\ t \in HaState /\ t.peerIn = s.peerIn /\ t.peerOut = s.peerOut /\ t.phase = s.phase
      /\ t.electing = s.electing
  BY DEF NotePeer, HaState, PeerStateMsg
<1> HIDE DEF t
<1>2. Steady(t, AcceptPeer(c, t, m)) /\ AcceptPeer(c, t, m).electing = t.electing
  BY <1>1 DEF AcceptPeer, PersistState, HaState, Steady
<1>3. Steady(t, SplitBrain(t)) /\ SplitBrain(t).electing = t.electing
  BY <1>1 DEF SplitBrain, PersistState, HaState, Steady
<1>4. Steady(t, FollowLeased(c, t, m)) /\ FollowLeased(c, t, m).electing = t.electing
  BY <1>1 DEF FollowLeased, HaState, Steady
<1>5. JudgeTerm(t, m) \in {"accept-peer", "split-brain", "stable"}
  BY <1>1 DEF JudgeTerm, HaState, PeerStateMsg
<1> QED
  BY <1>1, <1>2, <1>3, <1>4, <1>5 DEF OnPeerState, Steady, t

LEMMA AcceptSteady ==
  ASSUME NEW c \in CP, NEW s \in HaState, NEW term \in Nat
  PROVE  Steady(s, AcceptElection(c, s, term)) /\ AcceptElection(c, s, term).electing = s.electing
  BY DEF AcceptElection, PersistState, HaState, Steady

LEMMA WonSteady ==
  ASSUME NEW c \in CP, NEW s \in HaState, NEW term \in Nat
  PROVE  /\ \A e : /\ Steady(s, [WinElection(c, s, term) EXCEPT !.electing = e])
                   /\ [WinElection(c, s, term) EXCEPT !.electing = e].electing = e
         /\ WinElection(c, s, term).peerOut = s.peerOut
  BY DEF WinElection, PersistState, HaState, Steady

LEMMA RefusalSteady ==
  ASSUME NEW s \in HaState, NEW m \in ElectReplyMsg
  PROVE  Steady(s, FollowRefusal(s, m)) /\ FollowRefusal(s, m).electing = "idle"
  BY DEF FollowRefusal, PersistState, HaState, Steady

\* A pipe goes: a CP that holds the lease afterwards held it before, and it
\* still has a pipe if it had one.
Detached(s, t) ==
  /\ t.phase = "leader-leased" => s.phase = "leader-leased" /\ (Attached(s) => Attached(t))
  /\ t.electing = s.electing

LEMMA DisconnectDetached ==
  ASSUME NEW s \in HaState
  PROVE  /\ Detached(s, OnPeerDisconnected(s, "inbound")) /\ Detached(s, OnPeerDisconnected(s, "outbound"))
         /\ OnPeerDisconnected(s, "inbound").peerOut = s.peerOut
         /\ OnPeerDisconnected(s, "outbound").peerIn = s.peerIn
  BY DEF Detached, OnPeerDisconnected, OnPeerLost, LoseQuorum, Attached, HaState, Phase

LEMMA OutboundCloseDetached ==
  ASSUME NEW s \in HaState
  PROVE  Detached(s, OnOutboundClose(s)) /\ OnOutboundClose(s).peerIn = s.peerIn
<1> DEFINE t == [s EXCEPT !.out = "none"]
<1>1. /\ t \in HaState /\ t.peerIn = s.peerIn /\ t.peerOut = s.peerOut /\ t.phase = s.phase
      /\ t.electing = s.electing
  BY DEF HaState
<1> HIDE DEF t
<1>2. Detached(t, OnPeerDisconnected(t, "outbound")) /\ OnPeerDisconnected(t, "outbound").peerIn = t.peerIn
  BY <1>1, DisconnectDetached
<1>3. Detached(s, OnPeerDisconnected(t, "outbound")) /\ Detached(s, t)
  BY <1>1, <1>2 DEF Detached, Attached
<1> DEFINE u == [s EXCEPT !.peerOut = IF @ = "live" THEN "stale" ELSE @]
<1>4. Detached(s, u) /\ u.peerIn = s.peerIn
  BY DEF Detached, Attached, HaState
<1>5. s.out \in {"none", "unidentified", "identified"}
  BY DEF HaState
<1> QED
  BY <1>1, <1>2, <1>3, <1>4, <1>5 DEF OnOutboundClose, t

\* The queues of a pipe after a frame is taken, or one is sent.
LEMMA PoppedQueues ==
  ASSUME chan \in Channels, NEW c \in CP, NEW d \in CP, chan[d][Peer(c)] # << >>
  PROVE  /\ \A e, t \in CP : Popped(c, d)[e][t] = IF e = d /\ t = Peer(c) THEN Tail(chan[d][Peer(c)]) ELSE chan[e][t]
         /\ DOMAIN Tail(chan[d][Peer(c)]) = 1 .. Len(chan[d][Peer(c)]) - 1
         /\ DOMAIN chan[d][Peer(c)] = 1 .. Len(chan[d][Peer(c)]) /\ Len(chan[d][Peer(c)]) \in Nat \ {0}
         /\ \A i \in 1 .. Len(chan[d][Peer(c)]) - 1 : Tail(chan[d][Peer(c)])[i] = chan[d][Peer(c)][i + 1]
         /\ Frame(c, d) = chan[d][Peer(c)][1]
<1>1. chan[d][Peer(c)] \in Seq(Message) /\ Peer(c) \in CP
  BY PeerType DEF Channels
<1>2. \A e, t \in CP : Popped(c, d)[e][t] = IF e = d /\ t = Peer(c) THEN Tail(chan[d][Peer(c)]) ELSE chan[e][t]
  BY <1>1 DEF Channels, Popped
<1> QED
  BY <1>1, <1>2 DEF Frame

LEMMA PushQueues ==
  ASSUME NEW ch \in Channels, NEW d \in CP, NEW s \in CP, NEW m \in Message
  PROVE  /\ link[d] # "up" => Push(ch, d, s, m) = ch
         /\ link[d] = "up" =>
              \A e, t \in CP : Push(ch, d, s, m)[e][t] = IF e = d /\ t = s THEN Append(ch[d][s], m) ELSE ch[e][t]
         /\ ch[d][s] \in Seq(Message)
<1>1. ch[d][s] \in Seq(Message)
  BY DEF Channels
<1>2. ASSUME link[d] = "up", NEW e \in CP, NEW t \in CP
      PROVE  Push(ch, d, s, m)[e][t] = IF e = d /\ t = s THEN Append(ch[d][s], m) ELSE ch[e][t]
  BY <1>2 DEF Push, Channels
<1>3. link[d] # "up" => Push(ch, d, s, m) = ch
  BY DEF Push
<1> QED
  BY <1>1, <1>2, <1>3

LEMMA Appended ==
  ASSUME NEW q \in Seq(Message), NEW m
  PROVE  /\ Len(q) \in Nat /\ DOMAIN q = 1 .. Len(q) /\ DOMAIN Append(q, m) = 1 .. Len(q) + 1
         /\ \A i \in 1 .. Len(q) : Append(q, m)[i] = q[i]
         /\ Append(q, m)[Len(q) + 1] = m
  OBVIOUS

\* What the invariant asks of the channels.
ChannelsSound(ch) ==
  \A c \in CP : /\ link[c] # "up" => \A s \in CP : ch[c][s] = << >>
                /\ ha[c].peerOut = "none" => NoOwnLease(ch, c)

LEMMA PoppedKeepsPipes ==
  ASSUME chan \in Channels, ChannelsSound(chan), NEW c \in CP, NEW d \in CP, chan[d][Peer(c)] # << >>
  PROVE  /\ ChannelsSound(Popped(c, d)) /\ link[d] = "up"
         /\ Frame(c, d).type = "lease" /\ d = Peer(c) => ha[d].peerOut # "none"
         /\ Frame(c, d).type = "leaseReply" /\ d = c => ha[c].peerOut # "none"
<1> DEFINE q == chan[d][Peer(c)]
<1>1. /\ \A e, t \in CP : Popped(c, d)[e][t] = IF e = d /\ t = Peer(c) THEN Tail(q) ELSE chan[e][t]
      /\ DOMAIN Tail(q) = 1 .. Len(q) - 1 /\ DOMAIN q = 1 .. Len(q) /\ Len(q) \in Nat \ {0}
      /\ \A i \in 1 .. Len(q) - 1 : Tail(q)[i] = q[i + 1]
      /\ Frame(c, d) = q[1] /\ q # << >> /\ Peer(c) \in CP
  BY PoppedQueues, PeerType
<1> HIDE DEF q
<1>2. \A type : Lacks(q, type) => Lacks(Tail(q), type) /\ Frame(c, d).type # type
  <2> SUFFICES ASSUME NEW type, Lacks(q, type) PROVE Lacks(Tail(q), type) /\ Frame(c, d).type # type
    OBVIOUS
  <2>1. 1 \in DOMAIN q /\ \A i \in DOMAIN Tail(q) : i + 1 \in DOMAIN q
    BY <1>1
  <2> QED
    BY <1>1, <2>1 DEF Lacks
<1>3. link[d] = "up"
  BY <1>1 DEF ChannelsSound, q
<1>4. \A e \in CP : NoOwnLease(chan, e) => NoOwnLease(Popped(c, d), e)
  BY <1>1, <1>2, PeerType DEF NoOwnLease, q
<1>5. \A e \in CP : link[e] # "up" => \A s \in CP : Popped(c, d)[e][s] = << >>
  BY <1>1, <1>3 DEF ChannelsSound
<1>6. Frame(c, d).type = "lease" /\ d = Peer(c) => ha[d].peerOut # "none"
  BY <1>1, <1>2 DEF ChannelsSound, NoOwnLease, q
<1>7. Frame(c, d).type = "leaseReply" /\ d = c => ha[c].peerOut # "none"
  BY <1>1, <1>2 DEF ChannelsSound, NoOwnLease, q
<1> QED
  BY <1>3, <1>4, <1>5, <1>6, <1>7 DEF ChannelsSound

LEMMA PushKeepsPipes ==
  ASSUME NEW ch \in Channels, ChannelsSound(ch), NEW d \in CP, NEW s \in CP, NEW m \in Message,
         m.type = "lease" /\ d = s => ha[d].peerOut # "none",
         m.type = "leaseReply" /\ d # s => ha[d].peerOut # "none"
  PROVE  ChannelsSound(Push(ch, d, s, m))
<1> DEFINE new == Push(ch, d, s, m)
           q == ch[d][s]
<1>1. CASE link[d] # "up"
  BY <1>1, PushQueues
<1>2. CASE link[d] = "up"
  <2>0. /\ \A e, t \in CP : new[e][t] = IF e = d /\ t = s THEN Append(q, m) ELSE ch[e][t]
        /\ q \in Seq(Message)
    <3> HIDE DEF CP
    <3> QED
      BY <1>2, PushQueues
  <2> HIDE DEF new, q
  <2>1. /\ \A e, t \in CP : new[e][t] = IF e = d /\ t = s THEN Append(q, m) ELSE ch[e][t]
        /\ Len(q) \in Nat /\ DOMAIN q = 1 .. Len(q) /\ DOMAIN Append(q, m) = 1 .. Len(q) + 1
        /\ \A i \in 1 .. Len(q) : Append(q, m)[i] = q[i]
        /\ Append(q, m)[Len(q) + 1] = m
    BY <2>0, Appended
  <2>2. \A type : Lacks(q, type) /\ m.type # type => Lacks(Append(q, m), type)
    <3> SUFFICES ASSUME NEW type, Lacks(q, type), m.type # type, NEW i \in 1 .. Len(q) + 1
                 PROVE  Append(q, m)[i].type # type
      BY <2>1 DEF Lacks
    <3>1. i = Len(q) + 1 \/ i \in 1 .. Len(q)
      BY <2>1
    <3> QED
      BY <2>1, <3>1 DEF Lacks
  <2>3. ASSUME NEW c \in CP, ha[c].peerOut = "none", NoOwnLease(ch, c)
        PROVE  NoOwnLease(new, c)
    BY <2>1, <2>2, <2>3, PeerType DEF NoOwnLease, q
  <2> QED
    BY <1>2, <2>1, <2>3 DEF ChannelsSound, new
<1> QED
  BY <1>1, <1>2

LEMMA RequestKeepsPipes ==
  ASSUME NEW ch \in Channels, ChannelsSound(ch), NEW c \in CP, NEW s, s.peerOut = ha[c].peerOut,
         NEW m \in Message, m.type # "leaseReply"
  PROVE  ChannelsSound(SendRequest(ch, c, s, m))
<1>1. RpcPipe(c, s) \in CP /\ (RpcPipe(c, s) = c => ha[c].peerOut # "none")
  BY PeerType DEF RpcPipe
<1> QED
  BY <1>1, PushKeepsPipes DEF SendRequest

\* What a step may not do: a CP becomes a lone leader only while forgotten.
LoneStep == \A e \in CP : Lone(e)' => Lone(e) \/ Forgotten(e)

\* A step of c that touches no pipe.
LEMMA SteadyStep ==
  ASSUME PipesSound, TypeOK, NEW c \in CP, NEW s, ha' = [ha EXCEPT ![c] = s], UNCHANGED <<link, orphan>>,
         s.peerIn = ha[c].peerIn, s.peerOut = ha[c].peerOut,
         s.phase = "leader-leased" => Leased(c) \/ Attached(ha[c]) \/ Forgotten(c),
         ChannelsSound(chan')
  PROVE  PipesSound' /\ LoneStep
<1>1. \A e \in CP : ha'[e] = IF e = c THEN s ELSE ha[e]
  BY DEF TypeOK
<1>2. \A e \in CP : ha'[e].peerIn = ha[e].peerIn /\ ha'[e].peerOut = ha[e].peerOut
  BY <1>1
<1>3. LoneStep
  BY <1>1, <1>2 DEF LoneStep, Lone, Leased, Attached, Forgotten
<1> QED
  BY <1>2, <1>3 DEF PipesSound, ChannelsSound

\* A step that changes frames only.
LEMMA FrameStep ==
  ASSUME PipesSound, UNCHANGED <<ha, link, orphan>>, ChannelsSound(chan')
  PROVE  PipesSound' /\ LoneStep
  BY DEF PipesSound, ChannelsSound, LoneStep, Lone, Leased, Attached

LEMMA ConnectionKeepsPipes ==
  ASSUME PipesSound, TypeOK, NEW c \in CP,
         Dial(c) \/ Cut(c) \/ OutboundClosed(c) \/ InboundClosed(c)
  PROVE  PipesSound' /\ LoneStep
<1>0. /\ ha[c] \in HaState /\ ha \in [CP -> HaState] /\ link \in [CP -> LinkState] /\ orphan \in [CP -> BOOLEAN]
      /\ chan \in Channels /\ Peer(c) \in CP /\ Peer(c) # c /\ Peer(Peer(c)) = c
  BY PeerType DEF TypeOK, Channels
<1>1. CASE Dial(c)
  <2>1. /\ UNCHANGED orphan /\ ("lateClose" \notin FaultKinds => ~orphan[Peer(c)])
        /\ \A e \in CP : link'[e] = IF e = c THEN "up" ELSE link[e]
        /\ \A e \in CP : /\ ha'[e].peerIn = (e = Peer(c) \/ ha[e].peerIn) /\ ha'[e].peerOut = ha[e].peerOut
                         /\ ha'[e].phase = ha[e].phase
    <3>1. /\ UNCHANGED orphan /\ ("lateClose" \notin FaultKinds => ~orphan[Peer(c)])
          /\ \A e \in CP : link'[e] = IF e = c THEN "up" ELSE link[e]
      BY <1>0, <1>1 DEF Dial
    <3>2. /\ ha'[c] = [ha[c] EXCEPT !.out = "unidentified"]
          /\ ha'[Peer(c)] = [ha[Peer(c)] EXCEPT !.peerIn = TRUE, !.fresh = TRUE]
      BY <1>0, <1>1 DEF Dial
    <3>3. /\ ha'[c].peerIn = ha[c].peerIn /\ ha'[c].peerOut = ha[c].peerOut /\ ha'[c].phase = ha[c].phase
      BY <1>0, <3>2 DEF HaState
    <3>4. ha[Peer(c)] \in HaState
      BY <1>0
    <3>5. /\ ha'[Peer(c)].peerIn = TRUE /\ ha'[Peer(c)].peerOut = ha[Peer(c)].peerOut
          /\ ha'[Peer(c)].phase = ha[Peer(c)].phase
      BY <3>2, <3>4 DEF HaState
    <3>6. ASSUME NEW e \in CP
          PROVE  /\ ha'[e].peerIn = (e = Peer(c) \/ ha[e].peerIn) /\ ha'[e].peerOut = ha[e].peerOut
                 /\ ha'[e].phase = ha[e].phase
      <4>1. CASE e = c
        BY <1>0, <3>3, <4>1 DEF HaState
      <4>2. CASE e = Peer(c)
        BY <3>5, <4>2
      <4> QED
        BY <4>1, <4>2 DEF Peer
    <3> QED
      BY <3>1, <3>6
  <2>2. /\ \A e, t \in CP : e # c => chan'[e][t] = chan[e][t]
        /\ chan'[c][Peer(c)] = << >> /\ chan'[c][c] = <<CurrentState("sync", c, ha[c])>>
    BY <1>0, <1>1 DEF Dial, Channels
  <2>3. NoOwnLease(chan', c)
    BY <2>2 DEF NoOwnLease, Lacks, CurrentState
  <2>4. \A e \in CP : e # c /\ NoOwnLease(chan, e) => NoOwnLease(chan', e)
    BY <2>2, PeerType DEF NoOwnLease
  <2>5. LoneStep
    BY <2>1 DEF LoneStep, Lone, Leased, Attached
  <2>6. ASSUME NEW e \in CP
        PROVE  /\ link'[e] # "up" => \A t \in CP : chan'[e][t] = << >>
               /\ ha'[e].peerOut = "none" => NoOwnLease(chan', e)
               /\ "lateClose" \notin FaultKinds =>
                    /\ orphan'[e] => link'[Peer(e)] # "up"
                    /\ link'[Peer(e)] = "up" => ha'[e].peerIn
    <3>1. CASE e = c
      BY <1>0, <2>1, <2>2, <2>3, <3>1 DEF PipesSound
    <3>2. CASE e = Peer(c)
      <4>1. /\ link[e] # "up" => \A t \in CP : chan[e][t] = << >>
            /\ ha[e].peerOut = "none" => NoOwnLease(chan, e)
        BY DEF PipesSound
      <4>2. e # c /\ Peer(e) = c /\ link'[e] = link[e] /\ ha'[e].peerIn /\ ha'[e].peerOut = ha[e].peerOut
            /\ ("lateClose" \notin FaultKinds => ~orphan'[e])
        BY <1>0, <2>1, <3>2
      <4> QED
        BY <2>2, <2>4, <4>1, <4>2
    <3> QED
      BY <3>1, <3>2 DEF Peer
  <2> QED
    BY <2>5, <2>6 DEF PipesSound
<1>2. CASE Cut(c)
  <2>1. /\ \A e \in CP : link'[e] = IF e = c THEN "cut" ELSE link[e]
        /\ \A e \in CP : orphan'[e] => orphan[e] \/ e = Peer(c)
        /\ UNCHANGED ha
    BY <1>0, <1>2 DEF Cut
  <2>2. /\ \A e, t \in CP : e # c => chan'[e][t] = chan[e][t]
        /\ \A t \in CP : chan'[c][t] = << >>
    BY <1>0, <1>2 DEF Cut, Channels
  <2>3. \A e \in CP : NoOwnLease(chan, e) => NoOwnLease(chan', e)
    BY <2>2, PeerType DEF NoOwnLease, Lacks
  <2>4. LoneStep
    BY <2>1 DEF LoneStep, Lone, Leased, Attached
  <2> QED
    BY <1>0, <2>1, <2>2, <2>3, <2>4 DEF PipesSound
<1>3. CASE OutboundClosed(c)
  <2> DEFINE t == OnOutboundClose(ha[c])
  <2>1. /\ link[c] = "cut" /\ UNCHANGED <<chan, orphan>>
        /\ \A e \in CP : link'[e] = IF e = c THEN "closed" ELSE link[e]
        /\ \A e \in CP : ha'[e] = IF e = c THEN t ELSE ha[e]
    BY <1>0, <1>3 DEF OutboundClosed
  <2>2. Detached(ha[c], t) /\ t.peerIn = ha[c].peerIn
    BY <1>0, OutboundCloseDetached
  <2> HIDE DEF t
  <2>3. NoOwnLease(chan', c)
    BY <1>0, <2>1 DEF PipesSound, NoOwnLease, Lacks
  <2>4. LoneStep
    BY <2>1, <2>2 DEF LoneStep, Lone, Leased, Detached, Attached
  <2> QED
    BY <1>0, <2>1, <2>2, <2>3, <2>4 DEF PipesSound
<1>4. CASE InboundClosed(c)
  <2> DEFINE t == OnPeerDisconnected(ha[c], "inbound")
  <2>1. /\ orphan[c] /\ UNCHANGED <<chan, link>>
        /\ \A e \in CP : orphan'[e] = (e # c /\ orphan[e])
        /\ \A e \in CP : ha'[e] = IF e = c THEN t ELSE ha[e]
    BY <1>0, <1>4 DEF InboundClosed
  <2>2. Detached(ha[c], t) /\ t.peerOut = ha[c].peerOut
    BY <1>0, DisconnectDetached
  <2> HIDE DEF t
  <2>3. LoneStep
    BY <2>1, <2>2 DEF LoneStep, Lone, Leased, Detached, Attached
  <2> QED
    BY <1>0, <2>1, <2>2, <2>3 DEF PipesSound
<1> QED
  BY <1>1, <1>2, <1>3, <1>4

LEMMA RestartKeepsPipes ==
  ASSUME PipesSound, TypeOK, NEW c \in CP, Restart(c) \/ RestartTorn(c)
  PROVE  PipesSound' /\ LoneStep
<1>1. PICK rows : Reborn(c, rows)
  BY DEF Restart, RestartTorn
<1>2. /\ \A e \in CP : ha'[e] = IF e = c THEN Boot(c, rows) ELSE ha[e]
      /\ \A e \in CP : link'[e] # "up"
      /\ chan' = NoFrames
  BY <1>1 DEF Reborn, TypeOK, LinkState
<1>3. Boot(c, rows).phase = "nominating"
  BY DEF Boot
<1>4. \A e \in CP : (\A s \in CP : chan'[e][s] = << >>) /\ NoOwnLease(chan', e)
  BY <1>2, PeerType DEF NoFrames, NoOwnLease, Lacks
<1>5. LoneStep
  BY <1>2, <1>3 DEF LoneStep, Lone, Leased, Attached
<1> QED
  BY <1>2, <1>4, <1>5, PeerType DEF PipesSound

LEMMA TimerKeepsPipes ==
  ASSUME PipesSound, TypeOK, NEW c \in CP,
         \/ Heartbeat(c) \/ PeerSilent(c) \/ Tick(c) \/ RenewLease(c) \/ ElectionTimeout(c)
  PROVE  PipesSound' /\ LoneStep
<1>0. /\ ha[c] \in HaState /\ chan \in Channels /\ ChannelsSound(chan) /\ Peer(c) \in CP
  BY PeerType DEF TypeOK, Channels, PipesSound, ChannelsSound
<1>s. \A m \in Message : m.type # "leaseReply" => ChannelsSound(SendRequest(chan, c, ha[c], m))
  BY <1>0, RequestKeepsPipes
<1>a. ha[c].phase = "leader-leased" => Leased(c)
  BY DEF Leased
<1>1. CASE Heartbeat(c)
  <2>1. PICK d \in HeartbeatPipes(c) :
          chan' = Push(chan, d, c, CurrentState("heartbeat", c, ha[c])) /\ UNCHANGED <<ha, link, orphan>>
    BY <1>1 DEF Heartbeat
  <2>2. d \in CP
    BY <1>0 DEF HeartbeatPipes
  <2>3. CurrentState("heartbeat", c, ha[c]) \in Message /\ CurrentState("heartbeat", c, ha[c]).type = "heartbeat"
    BY <1>0, StateMessageType DEF CurrentState
  <2>4. ChannelsSound(chan')
    BY <1>0, <2>1, <2>2, <2>3, PushKeepsPipes
  <2> QED
    BY <2>1, <2>4, FrameStep
<1>2. CASE PeerSilent(c)
  <2> DEFINE s == [ha[c] EXCEPT !.fresh = FALSE]
  <2>1. s.peerIn = ha[c].peerIn /\ s.peerOut = ha[c].peerOut /\ s.phase = ha[c].phase
    BY <1>0 DEF HaState
  <2>2. ha' = [ha EXCEPT ![c] = s] /\ UNCHANGED <<link, chan, orphan>>
    BY <1>2 DEF PeerSilent
  <2> HIDE DEF s
  <2> QED
    BY <1>0, <1>a, <2>1, <2>2, SteadyStep
<1>3. CASE LeaseExpired(c) \/ LeaderSilent(c)
  <2>1. /\ LoseQuorum(ha[c]).peerIn = ha[c].peerIn /\ LoseQuorum(ha[c]).peerOut = ha[c].peerOut
        /\ LoseQuorum(ha[c]).phase = "read-only-no-quorum"
    BY <1>0 DEF HaState, LoseQuorum
  <2>2. ha' = [ha EXCEPT ![c] = LoseQuorum(ha[c])] /\ UNCHANGED <<link, chan, orphan>>
    BY <1>3 DEF LeaseExpired, LeaderSilent
  <2> QED
    BY <1>0, <2>1, <2>2, SteadyStep
<1>4. CASE RetryLease(c)
  <2> DEFINE m == [type |-> "lease", term |-> ha[c].term, epoch |-> ha[c].term, for |-> "tick"]
  <2>1. m \in Message /\ m.type = "lease"
    BY <1>0 DEF Message, LeaseMsg, Caller, HaState
  <2>2. chan' = SendRequest(chan, c, ha[c], m) /\ UNCHANGED <<ha, link, orphan>>
    BY <1>4 DEF RetryLease
  <2> HIDE DEF m
  <2> QED
    BY <1>s, <2>1, <2>2, FrameStep
<1>5. CASE RenewLease(c)
  <2> DEFINE m == [type |-> "lease", term |-> ha[c].term, epoch |-> ha[c].leaseEpoch, for |-> "renew"]
  <2>1. m \in Message /\ m.type = "lease"
    BY <1>0 DEF Message, LeaseMsg, Caller, HaState
  <2>2. chan' = SendRequest(chan, c, ha[c], m) /\ UNCHANGED <<ha, link, orphan>>
    BY <1>5 DEF RenewLease
  <2> HIDE DEF m
  <2> QED
    BY <1>s, <2>1, <2>2, FrameStep
<1>6. CASE StartElection(c)
  <2> DEFINE m == [type |-> "elect", term |-> MaxOf(ha[c].term, ha[c].peerTerm) + 1, for |-> "election"]
             s == [ha[c] EXCEPT !.phase = "nominating", !.electing = "asked"]
  <2>1. m \in Message /\ m.type = "elect"
    BY <1>0 DEF Message, ElectMsg, Caller, HaState, MaxOf
  <2>2. s.peerIn = ha[c].peerIn /\ s.peerOut = ha[c].peerOut /\ s.phase = "nominating"
    BY <1>0 DEF HaState
  <2>3. chan' = SendRequest(chan, c, ha[c], m) /\ UNCHANGED <<link, orphan>>
    BY <1>6 DEF StartElection
  <2>4. ha' = [ha EXCEPT ![c] = s]
    BY <1>0, <1>6 DEF StartElection, TypeOK, HaState
  <2> HIDE DEF m, s
  <2> QED
    BY <1>s, <2>1, <2>2, <2>3, <2>4, SteadyStep
<1>7. CASE AlignToPeer(c)
  <2>1. /\ ExpectPeer(c, ha[c]).peerIn = ha[c].peerIn /\ ExpectPeer(c, ha[c]).peerOut = ha[c].peerOut
        /\ ExpectPeer(c, ha[c]).phase = "nominating"
    BY <1>0 DEF HaState, ExpectPeer
  <2>2. ha' = [ha EXCEPT ![c] = ExpectPeer(c, ha[c])] /\ UNCHANGED <<link, chan, orphan>>
    BY <1>7 DEF AlignToPeer
  <2> QED
    BY <1>0, <2>1, <2>2, SteadyStep
<1>8. CASE ElectionTimeout(c)
  <2>1. PICK s \in {FailElection(ha[c]), EndElection(ha[c])} : ha' = [ha EXCEPT ![c] = s]
    BY <1>8 DEF ElectionTimeout
  <2>2. /\ s.peerIn = ha[c].peerIn /\ s.peerOut = ha[c].peerOut
        /\ s.phase = "leader-leased" => ha[c].phase = "leader-leased"
    BY <1>0, <2>1 DEF FailElection, EndElection, HaState
  <2>3. /\ \A d, t \in CP : chan'[d][t] = [i \in DOMAIN chan[d][t] |-> Forget(c, t, chan[d][t][i])]
        /\ UNCHANGED <<link, orphan>>
    BY <1>8 DEF ElectionTimeout
  <2>4. \A d, t \in CP : chan[d][t] \in Seq(Message)
    BY <1>0 DEF Channels
  <2>5. \A t \in CP, m \in Message : Forget(c, t, m).type = m.type
    BY DEF Forget, OfElection, Message, PeerStateMsg, ElectMsg, ElectReplyMsg, LeaseMsg, LeaseReplyMsg
  <2>6. ASSUME NEW d \in CP, NEW t \in CP, NEW type, Lacks(chan[d][t], type)
        PROVE  Lacks(chan'[d][t], type)
    <3>1. \A i \in DOMAIN chan[d][t] : chan[d][t][i] \in Message
      BY <2>4
    <3>2. \A i \in DOMAIN chan[d][t] : chan'[d][t][i].type = chan[d][t][i].type
      BY <2>3, <2>5, <3>1
    <3>3. DOMAIN chan'[d][t] = DOMAIN chan[d][t]
      BY <2>3
    <3> QED
      BY <2>6, <3>2, <3>3 DEF Lacks
  <2>7. \A d, t \in CP : chan[d][t] = << >> => chan'[d][t] = << >>
    BY <2>3
  <2>8. ChannelsSound(chan')
    BY <1>0, <2>6, <2>7, PeerType DEF ChannelsSound, NoOwnLease
  <2> QED
    BY <1>a, <2>1, <2>2, <2>3, <2>8, SteadyStep
<1> QED
  BY <1>1, <1>2, <1>3, <1>4, <1>5, <1>6, <1>7, <1>8 DEF Tick

LEMMA ReceiveKeepsPipes ==
  ASSUME PipesSound, TypeOK, NEW c \in CP, NEW d \in CP, Receive(c, d) \/ LateReply(c, d)
  PROVE  PipesSound' /\ LoneStep
<1> DEFINE m == Frame(c, d)
           popped == Popped(c, d)
<1>0. /\ ha[c] \in HaState /\ chan \in Channels /\ ChannelsSound(chan) /\ Peer(c) \in CP
  BY PeerType DEF TypeOK, Channels, PipesSound, ChannelsSound
<1>1. chan[d][Peer(c)] # << >>
  BY DEF Receive, ReceiveState, ReceiveSyncReply, ReceiveElect, ReceiveElectReply,
         ReceiveLease, ReceiveLeaseReply, DropFrame, LateReply, HasFrame
<1>2. m \in Message /\ popped \in Channels
  BY <1>0, <1>1, FrameType
<1>3. /\ ChannelsSound(popped) /\ link[d] = "up"
      /\ m.type = "lease" /\ d = Peer(c) => ha[d].peerOut # "none"
      /\ m.type = "leaseReply" /\ d = c => ha[c].peerOut # "none"
  BY <1>0, <1>1, PoppedKeepsPipes
<1>a. ha[c].phase = "leader-leased" => Leased(c)
  BY DEF Leased
<1>p. ASSUME NEW n \in Message, n.type \notin {"lease", "leaseReply"}
      PROVE  ChannelsSound(Push(popped, d, c, n))
  BY <1>2, <1>3, <1>p, PushKeepsPipes
<1> HIDE DEF m, popped
<1>4. CASE ReceiveState(c, d)
  <2> DEFINE s == OnPeerState(c, ha[c], m)
             r == CurrentState("syncReply", c, s)
  <2>1. m \in PeerStateMsg
    BY <1>2, <1>4, MessageTypes DEF ReceiveState, m
  <2>2. s \in HaState /\ Steady(ha[c], s)
    BY <1>0, <2>1, OnPeerStateType, PeerStateSteady
  <2>3. r \in Message /\ r.type = "syncReply"
    BY <2>2, StateMessageType DEF CurrentState
  <2>4. /\ ha' = [ha EXCEPT ![c] = s] /\ chan' \in {popped, Push(popped, d, c, r)}
        /\ UNCHANGED <<link, orphan>>
    BY <1>4 DEF ReceiveState, m, popped
  <2> HIDE DEF s, r
  <2>5. ChannelsSound(chan')
    BY <1>3, <1>p, <2>3, <2>4
  <2> QED
    BY <1>a, <2>2, <2>4, <2>5, SteadyStep DEF Steady
<1>5. CASE ReceiveSyncReply(c, d)
  <2> DEFINE t == [ha[c] EXCEPT !.out = "identified", !.peerOut = "live"]
             s == OnPeerState(c, t, m)
  <2>1. m \in PeerStateMsg
    BY <1>2, <1>5, MessageTypes DEF ReceiveSyncReply, m
  <2>2. t \in HaState /\ t.peerIn = ha[c].peerIn /\ t.peerOut = "live" /\ t.phase = ha[c].phase
    BY <1>0 DEF HaState
  <2> HIDE DEF t
  <2>3. Steady(t, s)
    BY <2>1, <2>2, PeerStateSteady
  <2>4. ha' = [ha EXCEPT ![c] = s] /\ chan' = popped /\ UNCHANGED <<link, orphan>>
    BY <1>5 DEF ReceiveSyncReply, m, popped, t
  <2> HIDE DEF s
  <2>5. s.peerIn = ha[c].peerIn /\ s.peerOut = "live"
    BY <2>2, <2>3 DEF Steady
  <2>6. \A e \in CP : ha'[e] = IF e = c THEN s ELSE ha[e]
    BY <2>4 DEF TypeOK
  <2>7. Attached(s)
    BY <2>5 DEF Attached
  <2>8. \A e \in CP : /\ ha'[e].peerIn = ha[e].peerIn
                      /\ ha'[e].peerOut = "none" => ha[e].peerOut = "none"
    BY <2>5, <2>6
  <2>9. LoneStep
    BY <2>6, <2>7 DEF LoneStep, Lone, Leased, Attached
  <2> QED
    BY <1>3, <2>4, <2>8, <2>9 DEF PipesSound, ChannelsSound
<1>6. CASE ReceiveElect(c, d)
  <2>1. m.term \in Nat /\ m.for \in Caller
    BY <1>2, <1>6, MessageTypes DEF ReceiveElect, m, ElectMsg
  <2> DEFINE yes == ElectReply(TRUE, m.term, Peer(c), "follower", m)
             no == ElectReply(FALSE, ha[c].term, c, ha[c].phase, m)
             s == AcceptElection(c, ha[c], m.term)
  <2>2. yes \in Message /\ no \in Message /\ yes.type = "electReply" /\ no.type = "electReply"
    BY <1>0, <2>1 DEF ElectReply, Message, ElectReplyMsg, HaState, Phase
  <2>3. Steady(ha[c], s)
    BY <1>0, <2>1, AcceptSteady
  <2>4. /\ UNCHANGED <<link, orphan>>
        /\ \/ ha' = [ha EXCEPT ![c] = s] /\ chan' = Push(popped, d, c, yes)
           \/ ha' = ha /\ chan' = Push(popped, d, c, no)
    BY <1>6 DEF ReceiveElect, m, popped
  <2> HIDE DEF yes, no, s
  <2>5. ChannelsSound(chan')
    BY <1>p, <2>2, <2>4
  <2> QED
    BY <1>a, <2>3, <2>4, <2>5, SteadyStep, FrameStep DEF Steady
<1>7. CASE ReceiveElectReply(c, d)
  <2> DEFINE won == WinElection(c, ha[c], m.proposed)
             lease == [type |-> "lease", term |-> won.term, epoch |-> won.term, for |-> "election"]
  <2>1. m \in ElectReplyMsg /\ m.proposed \in Nat
    BY <1>2, <1>7, MessageTypes DEF ReceiveElectReply, m, ElectReplyMsg
  <2>2. won \in HaState /\ won.peerOut = ha[c].peerOut
    BY <1>0, <2>1, ElectionTypes, WonSteady
  <2>3. \A e : Steady(ha[c], [won EXCEPT !.electing = e])
    BY <1>0, <2>1, WonSteady
  <2>4. Steady(ha[c], FollowRefusal(ha[c], m))
    BY <1>0, <2>1, RefusalSteady
  <2>5. /\ UNCHANGED <<link, orphan>>
        /\ chan' \in {popped, SendRequest(popped, c, won, lease)}
        /\ \/ ha' = [ha EXCEPT ![c] = [won EXCEPT !.electing = "leasing"]]
           \/ ha' = [ha EXCEPT ![c] = [won EXCEPT !.electing = "idle"]]
           \/ ha' = [ha EXCEPT ![c] = FollowRefusal(ha[c], m)]
    BY <1>7 DEF ReceiveElectReply, m, popped
  <2> HIDE DEF won
  <2>6. lease \in Message /\ lease.type = "lease"
    BY <2>2 DEF Message, LeaseMsg, Caller, HaState
  <2> HIDE DEF lease
  <2>7. ChannelsSound(chan')
    BY <1>2, <1>3, <2>2, <2>5, <2>6, RequestKeepsPipes
  <2>8. PICK s : ha' = [ha EXCEPT ![c] = s] /\ Steady(ha[c], s)
    BY <2>3, <2>4, <2>5
  <2> QED
    BY <1>a, <2>5, <2>7, <2>8, SteadyStep DEF Steady
<1>8. CASE ReceiveLease(c, d)
  <2> DEFINE ack == AcksLease(c, ha[c], m)
             r == [type |-> "leaseReply", ok |-> ack, for |-> m.for]
             s == [ha[c] EXCEPT !.phase = "follower", !.leaseEpoch = m.epoch]
  <2>1. m.type = "lease" /\ m.for \in Caller
    BY <1>2, <1>8, MessageTypes DEF ReceiveLease, m, LeaseMsg
  <2>2. r \in Message /\ r.type = "leaseReply"
    BY <2>1 DEF AcksLease, Message, LeaseReplyMsg
  <2>3. /\ UNCHANGED <<link, orphan>> /\ chan' = Push(popped, d, c, r)
        /\ ha' = [ha EXCEPT ![c] = s] \/ ha' = ha
    BY <1>0, <1>8 DEF ReceiveLease, m, popped, HaState, TypeOK
  <2>4. s.peerIn = ha[c].peerIn /\ s.peerOut = ha[c].peerOut /\ s.phase = "follower"
    BY <1>0 DEF HaState
  <2> HIDE DEF r, s
  <2>5. d # c => ha[d].peerOut # "none"
    BY <1>3, <2>1 DEF Peer
  <2>6. ChannelsSound(chan')
    BY <1>2, <1>3, <2>2, <2>3, <2>5, PushKeepsPipes
  <2> QED
    BY <2>3, <2>4, <2>6, SteadyStep, FrameStep
<1>9. CASE ReceiveLeaseReply(c, d)
  <2>1. m.type = "leaseReply" /\ chan' = popped /\ UNCHANGED <<link, orphan>>
    BY <1>9 DEF ReceiveLeaseReply, m, popped
  <2>2. Attached(ha[c]) \/ Forgotten(c)
    <3>1. CASE d = c
      BY <1>3, <2>1, <3>1 DEF Attached
    <3>2. CASE d # c
      BY <1>3, <3>2 DEF Attached, Forgotten, CP, Peer
    <3> QED
      BY <3>1, <3>2
  <2> DEFINE taken == IF m.ok /\ m.for # "renew" THEN TakeLease(ha[c]) ELSE ha[c]
  <2>3. taken.peerIn = ha[c].peerIn /\ taken.peerOut = ha[c].peerOut /\ taken \in HaState
    <3>1. /\ TakeLease(ha[c]).peerIn = ha[c].peerIn /\ TakeLease(ha[c]).peerOut = ha[c].peerOut
          /\ TakeLease(ha[c]) \in HaState
      BY <1>0 DEF TakeLease, HaState, Phase
    <3> QED
      BY <1>0, <3>1
  <2>4. PICK s \in {taken, EndElection(taken)} : ha' = [ha EXCEPT ![c] = s]
    BY <1>9 DEF ReceiveLeaseReply, m
  <2> HIDE DEF taken
  <2>5. s.peerIn = ha[c].peerIn /\ s.peerOut = ha[c].peerOut
    BY <2>3, <2>4 DEF EndElection, HaState
  <2> QED
    BY <1>3, <2>1, <2>2, <2>4, <2>5, SteadyStep
<1>10. CASE DropFrame(c, d) \/ LateReply(c, d)
  <2>1. chan' = popped /\ UNCHANGED <<ha, link, orphan>>
    BY <1>10 DEF DropFrame, LateReply, popped
  <2> QED
    BY <1>3, <2>1, FrameStep
<1> QED
  BY <1>4, <1>5, <1>6, <1>7, <1>8, <1>9, <1>10 DEF Receive

\* Losing the last pipe to the peer takes the lease away in the same step, and
\* no acknowledgement that arrives late gives it back: proved for every fault.
\* A CP becomes a leader with no pipe only while an open pipe it accepted is
\* unregistered, which takes the close event of a dead socket after its
\* successor's registration; where that cannot happen there is no lone leader.
THEOREM LeaderIsAttached ==
  /\ Spec => LoneOnlyForgotten
  /\ "lateClose" \notin FaultKinds => (Spec => []NoLoneLeader)
<1>1. Init => PipesSound /\ NoLoneLeader
  <2> SUFFICES ASSUME Init PROVE PipesSound /\ NoLoneLeader
    OBVIOUS
  <2>1. /\ \A c \in CP : ha[c].phase = "nominating" /\ link[c] = "closed" /\ ~orphan[c]
        /\ \A c, s \in CP : chan[c][s] = << >>
    BY DEF Init, Boot, NoFrames
  <2> QED
    BY <2>1, PeerType DEF PipesSound, NoLoneLeader, Leased, NoOwnLease, Lacks
<1>2. TypeOK /\ PipesSound /\ [Next]_vars => PipesSound' /\ LoneStep
  <2> SUFFICES ASSUME TypeOK, PipesSound, [Next]_vars PROVE PipesSound' /\ LoneStep
    OBVIOUS
  <2>1. CASE UNCHANGED vars
    BY <2>1 DEF vars, PipesSound, LoneStep, Lone, Leased, Attached
  <2>2. CASE Next
    BY <2>2, ConnectionKeepsPipes, RestartKeepsPipes, TimerKeepsPipes, ReceiveKeepsPipes DEF Next
  <2> QED
    BY <2>1, <2>2
<1>3. LoneStep => [\A c \in CP : Lone(c)' => Lone(c) \/ Forgotten(c)]_vars
  BY DEF LoneStep
<1>4. Spec => [](TypeOK /\ PipesSound)
  BY <1>1, <1>2, TypeCorrect, PTL DEF Spec
<1>5. Spec => LoneOnlyForgotten
  BY <1>2, <1>3, <1>4, PTL DEF Spec, LoneOnlyForgotten
<1>6. ASSUME "lateClose" \notin FaultKinds
      PROVE  Spec => []NoLoneLeader
  <2>1. TypeOK /\ PipesSound /\ NoLoneLeader /\ [Next]_vars => NoLoneLeader'
    <3> SUFFICES ASSUME TypeOK, PipesSound, NoLoneLeader, [Next]_vars PROVE NoLoneLeader'
      OBVIOUS
    <3>1. LoneStep
      BY <1>2
    <3>2. \A c \in CP : ~Lone(c) /\ ~Forgotten(c)
      BY <1>6 DEF PipesSound, NoLoneLeader, Lone, Forgotten
    <3>3. \A c \in CP : ~Lone(c)'
      BY <3>1, <3>2 DEF LoneStep
    <3> QED
      BY <3>3 DEF Lone, NoLoneLeader
  <2> QED
    BY <1>1, <1>4, <2>1, PTL DEF Spec
<1> QED
  BY <1>5, <1>6

----------------------------------------------------------------------------
(* One election at a time. *)

AwaitedIn(ch, c, d, s, i) == i \in DOMAIN ch[d][s] /\ OfElection(c, s, ch[d][s][i])

NoneAwaited(ch, c) == \A d, s \in CP : \A i : ~AwaitedIn(ch, c, d, s, i)

\* At most one frame belongs to the election of c, and it is of its stage.
OneAwaited(ch, c, stage) ==
  \A d, s \in CP : \A i : AwaitedIn(ch, c, d, s, i) =>
    /\ stage = IF ch[d][s][i].type \in {"elect", "electReply"} THEN "asked" ELSE "leasing"
    /\ \A e, t \in CP : \A j : AwaitedIn(ch, c, e, t, j) => d = e /\ s = t /\ i = j

LEMMA OneElectionIs == OneElection <=> \A c \in CP : OneAwaited(chan, c, ha[c].electing)
<1>1. \A c, d, s, i : Awaited(c, d, s, i) <=> AwaitedIn(chan, c, d, s, i)
  BY DEF Awaited, AwaitedIn
<1>2. ASSUME OneElection, NEW c \in CP
      PROVE  OneAwaited(chan, c, ha[c].electing)
  <2> SUFFICES ASSUME NEW d \in CP, NEW s \in CP, NEW i, AwaitedIn(chan, c, d, s, i)
               PROVE  /\ ha[c].electing = IF chan[d][s][i].type \in {"elect", "electReply"} THEN "asked" ELSE "leasing"
                      /\ \A e, t \in CP : \A j : AwaitedIn(chan, c, e, t, j) => d = e /\ s = t /\ i = j
    BY DEF OneAwaited
  <2>1. i \in DOMAIN chan[d][s] /\ \A e, t \in CP : \A j : AwaitedIn(chan, c, e, t, j) => j \in DOMAIN chan[e][t]
    BY DEF AwaitedIn
  <2> QED
    BY <1>1, <1>2, <2>1 DEF OneElection
<1>3. ASSUME \A c \in CP : OneAwaited(chan, c, ha[c].electing)
      PROVE  OneElection
  BY <1>1, <1>3 DEF OneElection, OneAwaited
<1> QED
  BY <1>2, <1>3

LEMMA NoneIsOne ==
  ASSUME NEW ch, NEW c, NEW stage
  PROVE  /\ NoneAwaited(ch, c) => OneAwaited(ch, c, stage)
         /\ OneAwaited(ch, c, "idle") => NoneAwaited(ch, c)
  BY DEF NoneAwaited, OneAwaited

\* What is awaited after a frame is taken was awaited before; nothing is if the
\* frame was it.
LEMMA PoppedAwaits ==
  ASSUME chan \in Channels, NEW c \in CP, NEW d \in CP, chan[d][Peer(c)] # << >>, NEW x \in CP, NEW stage,
         OneAwaited(chan, x, stage)
  PROVE  /\ OneAwaited(Popped(c, d), x, stage)
         /\ OfElection(x, Peer(c), Frame(c, d)) =>
              /\ NoneAwaited(Popped(c, d), x)
              /\ stage = IF Frame(c, d).type \in {"elect", "electReply"} THEN "asked" ELSE "leasing"
<1> DEFINE p == Peer(c)
           q == chan[d][p]
           old(e, t, i) == IF e = d /\ t = p THEN i + 1 ELSE i
<1>1. /\ \A e, t \in CP : Popped(c, d)[e][t] = IF e = d /\ t = p THEN Tail(q) ELSE chan[e][t]
      /\ DOMAIN Tail(q) = 1 .. Len(q) - 1 /\ DOMAIN q = 1 .. Len(q) /\ Len(q) \in Nat \ {0}
      /\ \A i \in 1 .. Len(q) - 1 : Tail(q)[i] = q[i + 1]
      /\ Frame(c, d) = q[1] /\ p \in CP
  BY PoppedQueues, PeerType
<1>2. \A e, t \in CP : chan[e][t] \in Seq(Message)
  BY DEF Channels
<1> HIDE DEF p
<1>3. ASSUME NEW e \in CP, NEW t \in CP, NEW i, AwaitedIn(Popped(c, d), x, e, t, i)
      PROVE  /\ AwaitedIn(chan, x, e, t, old(e, t, i)) /\ Popped(c, d)[e][t][i] = chan[e][t][old(e, t, i)]
             /\ i \in Nat \ {0}
  <2>1. CASE e = d /\ t = p
    <3> HIDE DEF q
    <3>1. i \in 1 .. Len(q) - 1 /\ Popped(c, d)[e][t][i] = q[i + 1]
      BY <1>1, <1>3, <2>1 DEF AwaitedIn
    <3>2. i + 1 \in DOMAIN q
      BY <1>1, <3>1
    <3> QED
      BY <1>1, <1>3, <2>1, <3>1, <3>2 DEF AwaitedIn, q
  <2>2. CASE ~(e = d /\ t = p)
    <3>1. Popped(c, d)[e][t] = chan[e][t]
      BY <1>1, <2>2
    <3>2. i \in DOMAIN chan[e][t]
      BY <1>3, <3>1 DEF AwaitedIn
    <3> QED
      BY <1>2, <1>3, <2>2, <3>1, <3>2 DEF AwaitedIn
  <2> QED
    BY <2>1, <2>2
<1>4. OneAwaited(Popped(c, d), x, stage)
  <2> SUFFICES ASSUME NEW e \in CP, NEW t \in CP, NEW i, AwaitedIn(Popped(c, d), x, e, t, i)
               PROVE  /\ stage = IF Popped(c, d)[e][t][i].type \in {"elect", "electReply"} THEN "asked" ELSE "leasing"
                      /\ \A f, u \in CP : \A j : AwaitedIn(Popped(c, d), x, f, u, j) => e = f /\ t = u /\ i = j
    BY DEF OneAwaited
  <2>1. AwaitedIn(chan, x, e, t, old(e, t, i)) /\ Popped(c, d)[e][t][i] = chan[e][t][old(e, t, i)] /\ i \in Nat \ {0}
    BY <1>3
  <2>2. ASSUME NEW f \in CP, NEW u \in CP, NEW j, AwaitedIn(Popped(c, d), x, f, u, j)
        PROVE  e = f /\ t = u /\ i = j
    <3>1. AwaitedIn(chan, x, f, u, old(f, u, j)) /\ j \in Nat \ {0}
      BY <1>3, <2>2
    <3>2. e = f /\ t = u /\ old(e, t, i) = old(f, u, j)
      BY <2>1, <3>1 DEF OneAwaited
    <3> QED
      BY <2>1, <3>1, <3>2
  <2> QED
    BY <2>1, <2>2 DEF OneAwaited
<1>5. ASSUME OfElection(x, p, Frame(c, d))
      PROVE  /\ NoneAwaited(Popped(c, d), x)
             /\ stage = IF Frame(c, d).type \in {"elect", "electReply"} THEN "asked" ELSE "leasing"
  <2>1. AwaitedIn(chan, x, d, p, 1) /\ chan[d][p][1] = Frame(c, d)
    BY <1>1, <1>5 DEF AwaitedIn
  <2>2. ASSUME NEW e \in CP, NEW t \in CP, NEW i, AwaitedIn(Popped(c, d), x, e, t, i)
        PROVE  FALSE
    <3>1. AwaitedIn(chan, x, e, t, old(e, t, i)) /\ i \in Nat \ {0}
      BY <1>3, <2>2
    <3>2. d = e /\ p = t /\ 1 = old(e, t, i)
      BY <1>1, <2>1, <3>1 DEF OneAwaited
    <3> QED
      BY <3>1, <3>2
  <2> QED
    BY <1>1, <2>1, <2>2 DEF NoneAwaited, OneAwaited
<1> QED
  BY <1>4, <1>5 DEF p

\* A frame that no election awaits changes nothing, and the only one may go
\* where none was.
LEMMA PushAwaits ==
  ASSUME NEW ch \in Channels, NEW d \in CP, NEW s \in CP, NEW m \in Message, NEW x \in CP, NEW stage
  PROVE  /\ OneAwaited(ch, x, stage) /\ ~OfElection(x, s, m) => OneAwaited(Push(ch, d, s, m), x, stage)
         /\ NoneAwaited(ch, x) /\ stage = (IF m.type \in {"elect", "electReply"} THEN "asked" ELSE "leasing")
              => OneAwaited(Push(ch, d, s, m), x, stage)
<1> DEFINE res == Push(ch, d, s, m)
           q == ch[d][s]
           new(e, t, i) == e = d /\ t = s /\ i = Len(q) + 1
<1>1. CASE link[d] # "up"
  BY <1>1, PushQueues, NoneIsOne
<1>2. CASE link[d] = "up"
  <2>0. /\ \A e, t \in CP : res[e][t] = IF e = d /\ t = s THEN Append(q, m) ELSE ch[e][t]
        /\ q \in Seq(Message)
    <3> HIDE DEF CP
    <3> QED
      BY <1>2, PushQueues
  <2> HIDE DEF res, q
  <2>1. /\ Len(q) \in Nat /\ DOMAIN q = 1 .. Len(q) /\ DOMAIN Append(q, m) = 1 .. Len(q) + 1
        /\ \A i \in 1 .. Len(q) : Append(q, m)[i] = q[i]
        /\ Append(q, m)[Len(q) + 1] = m
    BY <2>0, Appended
  <2>2. ASSUME NEW e \in CP, NEW t \in CP, NEW i, AwaitedIn(res, x, e, t, i)
        PROVE  \/ new(e, t, i) /\ OfElection(x, s, m) /\ res[e][t][i] = m
               \/ AwaitedIn(ch, x, e, t, i) /\ res[e][t][i] = ch[e][t][i]
    <3>1. CASE e = d /\ t = s
      <4>1. i \in 1 .. Len(q) + 1 /\ res[e][t] = Append(q, m)
        BY <2>0, <2>1, <2>2, <3>1 DEF AwaitedIn
      <4>2. CASE i = Len(q) + 1
        BY <2>1, <2>2, <3>1, <4>1, <4>2 DEF AwaitedIn
      <4>3. CASE i \in 1 .. Len(q)
        <5>1. res[e][t][i] = ch[e][t][i] /\ i \in DOMAIN ch[e][t]
          BY <2>1, <3>1, <4>1, <4>3 DEF q
        <5> QED
          BY <2>2, <5>1 DEF AwaitedIn
      <4> QED
        BY <2>1, <4>1, <4>2, <4>3
    <3>2. CASE ~(e = d /\ t = s)
      BY <2>0, <2>2, <3>2 DEF AwaitedIn
    <3> QED
      BY <3>1, <3>2
  <2> HIDE DEF new
  <2>3. OneAwaited(ch, x, stage) /\ ~OfElection(x, s, m) => OneAwaited(res, x, stage)
    BY <2>2 DEF OneAwaited
  <2>4. ASSUME NoneAwaited(ch, x), stage = (IF m.type \in {"elect", "electReply"} THEN "asked" ELSE "leasing")
        PROVE  OneAwaited(res, x, stage)
    <3>1. \A e, t \in CP : \A i : AwaitedIn(res, x, e, t, i) => new(e, t, i) /\ res[e][t][i] = m
      BY <2>2, <2>4 DEF NoneAwaited
    <3> QED
      BY <2>4, <3>1 DEF OneAwaited, new
  <2> QED
    BY <2>3, <2>4 DEF res
<1> QED
  BY <1>1, <1>2

LEMMA RequestAwaits ==
  ASSUME NEW ch \in Channels, NEW c \in CP, NEW s, NEW m \in Message, NEW x \in CP, NEW stage
  PROVE  /\ OneAwaited(ch, x, stage) /\ ~OfElection(x, c, m) => OneAwaited(SendRequest(ch, c, s, m), x, stage)
         /\ NoneAwaited(ch, x) /\ stage = (IF m.type \in {"elect", "electReply"} THEN "asked" ELSE "leasing")
              => OneAwaited(SendRequest(ch, c, s, m), x, stage)
<1>1. RpcPipe(c, s) \in CP
  BY PeerType DEF RpcPipe
<1> QED
  BY <1>1, PushAwaits, NoneIsOne DEF SendRequest

LEMMA FewerAwaited ==
  ASSUME NEW ch, NEW new, NEW x \in CP, NEW stage, OneAwaited(ch, x, stage),
         \A e, t \in CP : \A i : AwaitedIn(new, x, e, t, i) =>
           AwaitedIn(ch, x, e, t, i) /\ new[e][t][i] = ch[e][t][i]
  PROVE  OneAwaited(new, x, stage)
  BY DEF OneAwaited

\* The invariant, as a fact about every election.
Elections == \A x \in CP : OneAwaited(chan, x, ha[x].electing)

\* A step of c that takes its election to stage e.
LEMMA ElectionStep ==
  ASSUME TypeOK, NEW c \in CP, NEW s, ha' = [ha EXCEPT ![c] = s], OneAwaited(chan', c, s.electing),
         \A x \in CP : x # c => OneAwaited(chan', x, ha[x].electing)
  PROVE  Elections'
<1>1. \A x \in CP : ha'[x] = IF x = c THEN s ELSE ha[x]
  BY DEF TypeOK
<1> QED
  BY <1>1 DEF Elections

LEMMA ConnectionKeepsElections ==
  ASSUME Elections, TypeOK, NEW c \in CP,
         Dial(c) \/ Cut(c) \/ OutboundClosed(c) \/ InboundClosed(c) \/ Restart(c) \/ RestartTorn(c)
  PROVE  Elections'
<1>0. /\ ha[c] \in HaState /\ ha \in [CP -> HaState] /\ chan \in Channels
      /\ Peer(c) \in CP /\ Peer(c) # c
  BY PeerType DEF TypeOK, Channels
<1>1. CASE Dial(c)
  <2>1. \A x \in CP : ha'[x].electing = ha[x].electing
    BY <1>0, <1>1 DEF Dial, HaState
  <2>2. /\ \A e, t \in CP : e # c => chan'[e][t] = chan[e][t]
        /\ \A t \in CP : chan'[c][t] = IF t = c THEN <<CurrentState("sync", c, ha[c])>> ELSE << >>
    BY <1>0, <1>1 DEF Dial, Channels
  <2>3. ASSUME NEW x \in CP, NEW e \in CP, NEW t \in CP, NEW i, AwaitedIn(chan', x, e, t, i)
        PROVE  AwaitedIn(chan, x, e, t, i) /\ chan'[e][t][i] = chan[e][t][i]
    <3>1. CASE e = c
      BY <2>2, <2>3, <3>1 DEF AwaitedIn, OfElection, CurrentState
    <3>2. CASE e # c
      BY <2>2, <2>3, <3>2 DEF AwaitedIn
    <3> QED
      BY <3>1, <3>2
  <2>4. \A x \in CP : OneAwaited(chan', x, ha[x].electing)
    BY <2>3, FewerAwaited DEF Elections
  <2> QED
    BY <2>1, <2>4 DEF Elections
<1>2. CASE Cut(c)
  <2>1. UNCHANGED ha
    BY <1>2 DEF Cut
  <2>2. /\ \A e, t \in CP : e # c => chan'[e][t] = chan[e][t]
        /\ \A t \in CP : chan'[c][t] = << >>
    BY <1>0, <1>2 DEF Cut, Channels
  <2>3. ASSUME NEW x \in CP, NEW e \in CP, NEW t \in CP, NEW i, AwaitedIn(chan', x, e, t, i)
        PROVE  AwaitedIn(chan, x, e, t, i) /\ chan'[e][t][i] = chan[e][t][i]
    BY <2>2, <2>3 DEF AwaitedIn
  <2>4. \A x \in CP : OneAwaited(chan', x, ha[x].electing)
    BY <2>3, FewerAwaited DEF Elections
  <2> QED
    BY <2>1, <2>4 DEF Elections
<1>3. CASE OutboundClosed(c) \/ InboundClosed(c)
  <2>1. PICK s \in {OnOutboundClose(ha[c]), OnPeerDisconnected(ha[c], "inbound")} :
          ha' = [ha EXCEPT ![c] = s] /\ chan' = chan
    BY <1>3 DEF OutboundClosed, InboundClosed
  <2>2. s.electing = ha[c].electing
    BY <1>0, <2>1, DisconnectDetached, OutboundCloseDetached DEF Detached
  <2> QED
    BY <2>1, <2>2, ElectionStep DEF Elections
<1>4. CASE Restart(c) \/ RestartTorn(c)
  <2>1. chan' = NoFrames
    BY <1>4 DEF Restart, RestartTorn, Reborn
  <2>2. \A x \in CP : NoneAwaited(chan', x)
    BY <2>1 DEF NoneAwaited, AwaitedIn, NoFrames
  <2> QED
    BY <2>2, NoneIsOne DEF Elections
<1> QED
  BY <1>1, <1>2, <1>3, <1>4

LEMMA TimerKeepsElections ==
  ASSUME Elections, TypeOK, NEW c \in CP,
         \/ Heartbeat(c) \/ PeerSilent(c) \/ Tick(c) \/ RenewLease(c) \/ ElectionTimeout(c)
  PROVE  Elections'
<1>0. ha[c] \in HaState /\ chan \in Channels /\ Peer(c) \in CP
  BY PeerType DEF TypeOK, Channels
<1>1. CASE Heartbeat(c)
  <2>1. PICK d \in HeartbeatPipes(c) :
          chan' = Push(chan, d, c, CurrentState("heartbeat", c, ha[c])) /\ UNCHANGED ha
    BY <1>1 DEF Heartbeat
  <2>2. d \in CP
    BY <1>0 DEF HeartbeatPipes
  <2>3. CurrentState("heartbeat", c, ha[c]) \in Message /\ CurrentState("heartbeat", c, ha[c]).type = "heartbeat"
    BY <1>0, StateMessageType DEF CurrentState
  <2>4. \A x \in CP : ~OfElection(x, c, CurrentState("heartbeat", c, ha[c]))
    BY <2>3 DEF OfElection
  <2>5. \A x \in CP : OneAwaited(chan', x, ha[x].electing)
    BY <1>0, <2>1, <2>2, <2>3, <2>4, PushAwaits DEF Elections
  <2> QED
    BY <2>1, <2>5 DEF Elections
<1>2. CASE PeerSilent(c) \/ LeaseExpired(c) \/ LeaderSilent(c) \/ AlignToPeer(c)
  <2>1. PICK s \in {[ha[c] EXCEPT !.fresh = FALSE], LoseQuorum(ha[c]), ExpectPeer(c, ha[c])} :
          ha' = [ha EXCEPT ![c] = s] /\ chan' = chan
    BY <1>0, <1>2 DEF PeerSilent, LeaseExpired, LeaderSilent, AlignToPeer, TypeOK
  <2>2. s.electing = ha[c].electing
    BY <1>0, <2>1 DEF LoseQuorum, ExpectPeer, HaState
  <2> QED
    BY <2>1, <2>2, ElectionStep DEF Elections
<1>3. CASE RetryLease(c) \/ RenewLease(c)
  <2>1. PICK m \in Message : /\ m.type = "lease" /\ m.for # "election"
                             /\ chan' = SendRequest(chan, c, ha[c], m) /\ UNCHANGED ha
    BY <1>0, <1>3 DEF RetryLease, RenewLease, Message, LeaseMsg, Caller, HaState
  <2>2. \A x \in CP : ~OfElection(x, c, m)
    BY <2>1 DEF OfElection
  <2>3. \A x \in CP : OneAwaited(chan', x, ha[x].electing)
    BY <1>0, <2>1, <2>2, RequestAwaits DEF Elections
  <2> QED
    BY <2>1, <2>3 DEF Elections
<1>4. CASE StartElection(c)
  <2> DEFINE m == [type |-> "elect", term |-> MaxOf(ha[c].term, ha[c].peerTerm) + 1, for |-> "election"]
             s == [ha[c] EXCEPT !.phase = "nominating", !.electing = "asked"]
  <2>1. m \in Message /\ m.type = "elect"
    BY <1>0 DEF Message, ElectMsg, Caller, HaState, MaxOf
  <2>2. s.electing = "asked"
    BY <1>0 DEF HaState
  <2>3. chan' = SendRequest(chan, c, ha[c], m) /\ ha[c].electing = "idle"
    BY <1>4 DEF StartElection
  <2>4. ha' = [ha EXCEPT ![c] = s]
    BY <1>0, <1>4 DEF StartElection, TypeOK, HaState
  <2> HIDE DEF m, s
  <2>5. NoneAwaited(chan, c)
    BY <2>3, NoneIsOne DEF Elections
  <2>6. OneAwaited(chan', c, "asked")
    BY <1>0, <2>1, <2>3, <2>5, RequestAwaits
  <2>7. \A x \in CP : x # c => ~OfElection(x, c, m)
    BY <2>1 DEF OfElection
  <2>8. \A x \in CP : x # c => OneAwaited(chan', x, ha[x].electing)
    BY <1>0, <2>1, <2>3, <2>7, RequestAwaits DEF Elections
  <2> QED
    BY <2>2, <2>4, <2>6, <2>8, ElectionStep
<1>5. CASE ElectionTimeout(c)
  <2>1. PICK s : ha' = [ha EXCEPT ![c] = s]
    BY <1>5 DEF ElectionTimeout
  <2>2. \A e, t \in CP : chan'[e][t] = [i \in DOMAIN chan[e][t] |-> Forget(c, t, chan[e][t][i])]
    BY <1>5 DEF ElectionTimeout
  <2>3. ASSUME NEW t \in CP, NEW m \in Message
        PROVE  /\ Forget(c, t, m).type = m.type
               /\ OfElection(c, t, m) => Forget(c, t, m).for = "none"
               /\ ~OfElection(c, t, m) => Forget(c, t, m) = m
    BY DEF Forget, OfElection, Message, PeerStateMsg, ElectMsg, ElectReplyMsg, LeaseMsg, LeaseReplyMsg
  <2>4. ASSUME NEW x \in CP, NEW e \in CP, NEW t \in CP, NEW i, AwaitedIn(chan', x, e, t, i)
        PROVE  x # c /\ AwaitedIn(chan, x, e, t, i) /\ chan'[e][t][i] = chan[e][t][i]
    <3> DEFINE m == chan[e][t][i]
    <3>1. i \in DOMAIN chan[e][t] /\ chan'[e][t][i] = Forget(c, t, m)
      BY <2>2, <2>4 DEF AwaitedIn
    <3>2. chan[e][t] \in Seq(Message)
      BY <1>0 DEF Channels
    <3>3. m \in Message
      BY <3>1, <3>2
    <3>4. OfElection(x, t, Forget(c, t, m))
      BY <2>4, <3>1 DEF AwaitedIn
    <3> HIDE DEF m
    <3>5. ~OfElection(c, t, m)
      BY <2>3, <3>3, <3>4 DEF OfElection
    <3>6. Forget(c, t, m) = m
      BY <2>3, <3>3, <3>5
    <3> QED
      BY <3>1, <3>4, <3>5, <3>6 DEF AwaitedIn, m
  <2>5. NoneAwaited(chan', c)
    BY <2>4 DEF NoneAwaited
  <2>6. \A x \in CP : x # c => OneAwaited(chan', x, ha[x].electing)
    BY <2>4, FewerAwaited DEF Elections
  <2> QED
    BY <2>1, <2>5, <2>6, NoneIsOne, ElectionStep
<1> QED
  BY <1>1, <1>2, <1>3, <1>4, <1>5 DEF Tick

LEMMA ReceiveKeepsElections ==
  ASSUME Elections, TypeOK, NEW c \in CP, NEW d \in CP, Receive(c, d) \/ LateReply(c, d)
  PROVE  Elections'
<1> DEFINE m == Frame(c, d)
           popped == Popped(c, d)
<1>0. /\ ha[c] \in HaState /\ chan \in Channels /\ Peer(c) \in CP /\ Peer(c) # c
      /\ \A x \in CP : x # c => x = Peer(c)
  BY PeerType DEF TypeOK, Channels
<1>1. chan[d][Peer(c)] # << >>
  BY DEF Receive, ReceiveState, ReceiveSyncReply, ReceiveElect, ReceiveElectReply,
         ReceiveLease, ReceiveLeaseReply, DropFrame, LateReply, HasFrame
<1>2. m \in Message /\ popped \in Channels
  BY <1>0, <1>1, FrameType
<1>3. \A x \in CP : /\ OneAwaited(popped, x, ha[x].electing)
                    /\ OfElection(x, Peer(c), m) =>
                         /\ NoneAwaited(popped, x)
                         /\ ha[x].electing = IF m.type \in {"elect", "electReply"} THEN "asked" ELSE "leasing"
  <2> HIDE DEF CP
  <2> QED
    BY <1>0, <1>1, PoppedAwaits DEF Elections
<1> HIDE DEF m, popped
\* A reply carries on the election of the request it answers.
<1>r. ASSUME NEW r \in Message, r.for = m.for,
             \/ m.type = "elect" /\ r.type = "electReply"
             \/ m.type = "lease" /\ r.type = "leaseReply"
      PROVE  \A x \in CP : OneAwaited(Push(popped, d, c, r), x, ha[x].electing)
  <2> SUFFICES ASSUME NEW x \in CP PROVE OneAwaited(Push(popped, d, c, r), x, ha[x].electing)
    OBVIOUS
  <2>1. CASE OfElection(x, c, r)
    <3>1. x = Peer(c) /\ OfElection(x, Peer(c), m)
      BY <1>0, <1>r, <2>1 DEF OfElection
    <3>2. NoneAwaited(popped, x) /\ ha[x].electing = IF r.type \in {"elect", "electReply"} THEN "asked" ELSE "leasing"
      BY <1>3, <1>r, <3>1
    <3> QED
      BY <1>2, <3>2, PushAwaits
  <2>2. CASE ~OfElection(x, c, r)
    BY <1>2, <1>3, <2>2, PushAwaits
  <2> QED
    BY <2>1, <2>2
<1>4. CASE ReceiveState(c, d) \/ ReceiveSyncReply(c, d)
  <2> DEFINE t == [ha[c] EXCEPT !.out = "identified", !.peerOut = "live"]
  <2>1. m \in PeerStateMsg
    BY <1>2, <1>4, MessageTypes DEF ReceiveState, ReceiveSyncReply, m
  <2>2. t \in HaState /\ t.electing = ha[c].electing
    BY <1>0 DEF HaState
  <2>3. PICK s \in {OnPeerState(c, ha[c], m), OnPeerState(c, t, m)} :
          /\ ha' = [ha EXCEPT ![c] = s]
          /\ chan' \in {popped, Push(popped, d, c, CurrentState("syncReply", c, s))}
    BY <1>4 DEF ReceiveState, ReceiveSyncReply, m, popped
  <2> HIDE DEF t
  <2>4. s \in HaState /\ s.electing = ha[c].electing
    BY <1>0, <2>1, <2>2, <2>3, OnPeerStateType, PeerStateSteady
  <2> DEFINE r == CurrentState("syncReply", c, s)
  <2>5. r \in Message /\ \A x \in CP : ~OfElection(x, c, r)
    BY <2>4, StateMessageType DEF CurrentState, OfElection
  <2> HIDE DEF r
  <2>6. \A x \in CP : OneAwaited(Push(popped, d, c, r), x, ha[x].electing)
    BY <1>2, <1>3, <2>5, PushAwaits
  <2>7. \A x \in CP : OneAwaited(chan', x, ha[x].electing)
    BY <1>3, <2>3, <2>6 DEF r
  <2> QED
    BY <2>3, <2>4, <2>7, ElectionStep
<1>5. CASE ReceiveElect(c, d)
  <2>1. m.type = "elect" /\ m.term \in Nat /\ m.for \in Caller
    BY <1>2, <1>5, MessageTypes DEF ReceiveElect, m, ElectMsg
  <2> DEFINE yes == ElectReply(TRUE, m.term, Peer(c), "follower", m)
             no == ElectReply(FALSE, ha[c].term, c, ha[c].phase, m)
             s == AcceptElection(c, ha[c], m.term)
  <2>2. /\ yes \in Message /\ yes.type = "electReply" /\ yes.for = m.for
        /\ no \in Message /\ no.type = "electReply" /\ no.for = m.for
    BY <1>0, <2>1 DEF ElectReply, Message, ElectReplyMsg, HaState, Phase
  <2>3. s.electing = ha[c].electing
    BY <1>0, <2>1, AcceptSteady
  <2>4. /\ ha' = [ha EXCEPT ![c] = s] \/ ha' = ha
        /\ chan' = Push(popped, d, c, yes) \/ chan' = Push(popped, d, c, no)
    BY <1>5 DEF ReceiveElect, m, popped
  <2> HIDE DEF yes, no, s
  <2>5. \A x \in CP : OneAwaited(chan', x, ha[x].electing)
    BY <1>r, <2>1, <2>2, <2>4
  <2> QED
    BY <2>3, <2>4, <2>5, ElectionStep DEF Elections
<1>6. CASE ReceiveElectReply(c, d)
  <2> DEFINE won == WinElection(c, ha[c], m.proposed)
             lease == [type |-> "lease", term |-> won.term, epoch |-> won.term, for |-> "election"]
  <2>1. m \in ElectReplyMsg /\ m.proposed \in Nat /\ m.type = "electReply" /\ m.for = "election"
    BY <1>2, <1>6, MessageTypes DEF ReceiveElectReply, m, ElectReplyMsg
  <2>2. NoneAwaited(popped, c)
    BY <1>0, <1>3, <2>1 DEF OfElection
  <2>3. won \in HaState
    BY <1>0, <2>1, ElectionTypes
  <2>4. /\ \/ chan' = popped
           \/ ha' = [ha EXCEPT ![c] = [won EXCEPT !.electing = "leasing"]] /\ chan' = SendRequest(popped, c, won, lease)
        /\ \E s : ha' = [ha EXCEPT ![c] = s]
    BY <1>6 DEF ReceiveElectReply, m, popped
  <2> HIDE DEF won
  <2>5. lease \in Message /\ lease.type = "lease"
    BY <2>3 DEF Message, LeaseMsg, Caller, HaState
  <2> HIDE DEF lease
  <2>6. CASE chan' = popped
    <3>1. PICK s : ha' = [ha EXCEPT ![c] = s]
      BY <2>4
    <3>2. OneAwaited(chan', c, s.electing) /\ \A x \in CP : OneAwaited(chan', x, ha[x].electing)
      BY <1>3, <2>2, <2>6, NoneIsOne
    <3> QED
      BY <3>1, <3>2, ElectionStep
  <2>7. CASE ha' = [ha EXCEPT ![c] = [won EXCEPT !.electing = "leasing"]] /\ chan' = SendRequest(popped, c, won, lease)
    <3>1. [won EXCEPT !.electing = "leasing"].electing = "leasing"
      BY <2>3 DEF HaState
    <3>2. OneAwaited(chan', c, "leasing")
      BY <1>2, <2>2, <2>5, <2>7, RequestAwaits
    <3>3. \A x \in CP : x # c => ~OfElection(x, c, lease)
      BY <2>5 DEF OfElection
    <3>4. \A x \in CP : x # c => OneAwaited(chan', x, ha[x].electing)
      BY <1>2, <1>3, <2>5, <2>7, <3>3, RequestAwaits
    <3> QED
      BY <2>7, <3>1, <3>2, <3>4, ElectionStep
  <2> QED
    BY <2>4, <2>6, <2>7
<1>7. CASE ReceiveLease(c, d)
  <2> DEFINE ack == AcksLease(c, ha[c], m)
             r == [type |-> "leaseReply", ok |-> ack, for |-> m.for]
             s == [ha[c] EXCEPT !.phase = "follower", !.leaseEpoch = m.epoch]
  <2>1. m.type = "lease" /\ m.for \in Caller
    BY <1>2, <1>7, MessageTypes DEF ReceiveLease, m, LeaseMsg
  <2>2. r \in Message /\ r.type = "leaseReply" /\ r.for = m.for
    BY <2>1 DEF AcksLease, Message, LeaseReplyMsg
  <2>3. chan' = Push(popped, d, c, r) /\ (ha' = [ha EXCEPT ![c] = s] \/ ha' = ha)
    BY <1>0, <1>7 DEF ReceiveLease, m, popped, HaState, TypeOK
  <2>4. s.electing = ha[c].electing
    BY <1>0 DEF HaState
  <2> HIDE DEF r, s
  <2>5. \A x \in CP : OneAwaited(chan', x, ha[x].electing)
    BY <1>r, <2>1, <2>2, <2>3
  <2> QED
    BY <2>3, <2>4, <2>5, ElectionStep DEF Elections
<1>8. CASE ReceiveLeaseReply(c, d)
  <2> DEFINE taken == IF m.ok /\ m.for # "renew" THEN TakeLease(ha[c]) ELSE ha[c]
             s == IF m.for = "election" THEN EndElection(taken) ELSE taken
  <2>1. m.type = "leaseReply" /\ chan' = popped /\ ha' = [ha EXCEPT ![c] = s]
    BY <1>8 DEF ReceiveLeaseReply, m, popped
  <2>2. \A x \in CP : OneAwaited(chan', x, ha[x].electing)
    BY <1>3, <2>1
  <2>3. CASE m.for = "election"
    <3>1. NoneAwaited(popped, c)
      BY <1>0, <1>3, <2>1, <2>3 DEF OfElection
    <3> HIDE DEF s
    <3> QED
      BY <2>1, <2>2, <3>1, NoneIsOne, ElectionStep
  <2>4. CASE m.for # "election"
    <3>1. TakeLease(ha[c]).electing = ha[c].electing
      BY <1>0 DEF TakeLease, HaState
    <3>2. s.electing = ha[c].electing
      BY <2>4, <3>1
    <3> HIDE DEF s
    <3> QED
      BY <2>1, <2>2, <3>2, ElectionStep
  <2> QED
    BY <2>3, <2>4
<1>9. CASE DropFrame(c, d) \/ LateReply(c, d)
  <2>1. chan' = popped /\ UNCHANGED ha
    BY <1>9 DEF DropFrame, LateReply, popped
  <2> QED
    BY <1>3, <2>1 DEF Elections
<1> QED
  BY <1>4, <1>5, <1>6, <1>7, <1>8, <1>9 DEF Receive

\* electInFlight: whatever is lost, delayed or restarted, and on whichever
\* pipe, a control plane listens to at most one election request or reply, the
\* one its election awaits now; the answer to an abandoned election never
\* decides a later one.
THEOREM OneElectionSafe == Spec => []OneElection
<1>1. Init => Elections
  <2> SUFFICES ASSUME Init PROVE Elections
    OBVIOUS
  <2>1. \A x \in CP : NoneAwaited(chan, x)
    BY DEF Init, NoFrames, NoneAwaited, AwaitedIn
  <2> QED
    BY <2>1, NoneIsOne DEF Elections
<1>2. TypeOK /\ Elections /\ [Next]_vars => Elections'
  <2> SUFFICES ASSUME TypeOK, Elections, [Next]_vars PROVE Elections'
    OBVIOUS
  <2>1. CASE UNCHANGED vars
    BY <2>1 DEF vars, Elections
  <2>2. CASE Next
    BY <2>2, ConnectionKeepsElections, TimerKeepsElections, ReceiveKeepsElections DEF Next
  <2> QED
    BY <2>1, <2>2
<1>3. Elections => OneElection
  BY OneElectionIs DEF Elections
<1> QED
  BY <1>1, <1>2, <1>3, TypeCorrect, PTL DEF Spec

----------------------------------------------------------------------------
(***************************************************************************)
(* The one writer of one dialer (OnePipe).  First what is true of any two  *)
(* objects, pipes and messages, whatever the control planes are.           *)
(***************************************************************************)

HIDE DEF CP

\* p2 is p without its first frame.
Pops(p, p2) ==
  /\ 1 \in DOMAIN p
  /\ \A i \in DOMAIN p : i \in Nat /\ i >= 1
  /\ \A i \in DOMAIN p2 : i \in Nat /\ i >= 1 /\ i + 1 \in DOMAIN p /\ p2[i] = p[i + 1]
  /\ \A i \in DOMAIN p : i = 1 \/ (i - 1 \in DOMAIN p2 /\ p2[i - 1] = p[i])

\* p2 is p and x behind it.
Adds(p, p2, x) ==
  /\ Len(p) \in Nat
  /\ \A i \in DOMAIN p : i \in Nat /\ i <= Len(p)
  /\ \A i \in DOMAIN p : i \in DOMAIN p2 /\ p2[i] = p[i]
  /\ \A i \in DOMAIN p2 : i \in DOMAIN p \/ (i = Len(p) + 1 /\ p2[i] = x)

\* The terms of an object are numbers, and those of the frames of a pipe.
Counts(s) == s.term \in Nat /\ s.peerTerm \in Nat /\ s.electedTerm \in Nat
Numbers(p) ==
  \A i \in DOMAIN p : /\ Tells(p[i]) \/ Proposes(p[i]) \/ Asks(p[i]) => p[i].term \in Nat
                      /\ Wins(p[i]) => p[i].proposed \in Nat

\* The parts of the invariant over numbers.
Pair(a, W, L, p, q, up, on) ==
  /\ Counts(W) /\ Counts(L) /\ Numbers(p) /\ Numbers(q)
  /\ \A i \in DOMAIN p : i \in Nat /\ i >= 1
  /\ \A i \in DOMAIN q : i \in Nat /\ i >= 1
  /\ up \in BOOLEAN /\ on \in BOOLEAN
  /\ Agrees(a, W, L, p, q, up, on)

\* L takes the first frame of p and is M after it.
JuniorTook(a, L, p, up, on, M, p2, on2) ==
  /\ Pops(p, p2) /\ Counts(M) /\ on2 \in BOOLEAN
  /\ on2 = on \/ (a # Senior /\ a = Junior /\ on2 /\ p[1].type = "syncReply")
  /\ M.term >= L.term
  /\ \/ M.term = L.term
     \/ Tells(p[1]) /\ M.term <= p[1].term + 1
     \/ Proposes(p[1]) /\ on /\ up /\ M.term = p[1].term
  /\ M.phase = "leader-leased" => L.phase = "leader-leased" \/ Grants(p[1])

\* The junior takes a frame of p and keeps the pair.
LEMMA JuniorTakes ==
  ASSUME NEW a, NEW W, NEW L, NEW p, NEW q, NEW up, NEW on, NEW M, NEW p2, NEW on2,
         Pair(a, W, L, p, q, up, on), JuniorTook(a, L, p, up, on, M, p2, on2)
  PROVE  Pair(a, W, M, p2, q, up, on2)
<1> USE DEF Pair, JuniorTook
<1> DEFINE met == Met(a, up, on, p)
           met2 == Met(a, up, on2, p2)
<1>1. met2 => met
  BY DEF Met, Pops
<1>h. IF a = Senior THEN Hello(on, p, q) ELSE Hello(on, q, p)
  BY DEF Agrees
<1>2. IF a = Senior THEN Hello(on2, p2, q) ELSE Hello(on2, q, p2)
  <2>1. CASE a = Senior
    BY <1>h, <2>1 DEF Hello, Pops
  <2>2. CASE a # Senior
    BY <1>h, <2>2 DEF Hello, Pops
  <2> QED
    BY <2>1, <2>2
<1>3. Known(W, on2, met2, p2, q)
  BY <1>1 DEF Agrees, Known, Pops
<1>4. Ordered(p2, q)
  BY DEF Agrees, Ordered, Pops
<1>s. Stuck(W, p, q) => Stuck(W, p2, q)
  BY DEF Stuck, Pops
<1>l. Loose(W, on, p, q) => Loose(W, on2, p2, q)
  BY <1>s DEF Loose
<1>q. on => \A i \in DOMAIN q : ~IsHello(q[i])
  BY <1>h DEF Hello, IsHello
<1>t. Terms(W, L, on, met, p, q)
  BY DEF Agrees
<1>p. /\ Tells(p[1]) => p[1].term <= W.term \/ (Loose(W, on, p, q) /\ p[1].term <= W.term + 1)
      /\ Tells(p[1]) => p[1].term \in Nat
      /\ Proposes(p[1]) => p[1].term <= W.term + 1 /\ p[1].term \in Nat
  BY DEF Agrees, Terms, Rounds, Pops, Numbers
<1>5. Terms(W, M, on2, met2, p2, q)
  <2>1. W.peerTerm <= W.term /\ W.peerTerm <= M.term
    BY <1>t DEF Terms, Counts
  <2>2. \A i \in DOMAIN q : Tells(q[i]) => q[i].term <= M.term
    BY <1>t DEF Terms, Counts, Numbers
  <2>3. \A i \in DOMAIN p2 : Tells(p2[i]) =>
          p2[i].term <= W.term \/ (Loose(W, on2, p2, q) /\ p2[i].term <= W.term + 1)
    BY <1>t, <1>l DEF Terms, Pops
  <2>4. \A i, j \in DOMAIN p2 : i < j /\ Asks(p2[i]) /\ Tells(p2[j]) => p2[j].term <= W.term
    BY <1>t DEF Terms, Pops
  <2>5. met2 => M.term <= W.term + 1 \/ (Loose(W, on2, p2, q) /\ M.term <= W.term + 2)
    <3>1. met => L.term <= W.term + 1 \/ (Loose(W, on, p, q) /\ L.term <= W.term + 2)
      BY <1>t DEF Terms
    <3> QED
      BY <1>1, <1>l, <1>p, <3>1 DEF Counts
  <2>6. \A i \in DOMAIN q : IsHello(q[i]) => M.term <= q[i].term + 1 \/ M.term <= W.term + 1
    <3> SUFFICES ASSUME NEW i \in DOMAIN q, IsHello(q[i])
                 PROVE  M.term <= q[i].term + 1 \/ M.term <= W.term + 1
      OBVIOUS
    <3>1. ~on /\ ~Loose(W, on, p, q)
      BY <1>q DEF Loose
    <3>2. L.term <= q[i].term + 1 \/ L.term <= W.term + 1
      BY <1>t DEF Terms
    <3> QED
      BY <1>p, <3>1, <3>2 DEF Counts
  <2> QED
    BY <2>1, <2>2, <2>3, <2>4, <2>5, <2>6 DEF Terms
<1>r. Rounds(W, L, met, p, q)
  BY DEF Agrees
<1>6. Rounds(W, M, met2, p2, q)
  <2>1. \A i \in DOMAIN p2 : Proposes(p2[i]) => p2[i].term <= W.term + 1
    BY <1>r DEF Rounds, Pops
  <2>2. ASSUME NEW i \in DOMAIN p2, met2, Proposes(p2[i]), Heard(p2, i)
        PROVE  /\ M.term <= p2[i].term
               /\ Pending(p2[i]) => W.term <= p2[i].term + 1
               /\ \A j \in DOMAIN p2 : j < i /\ Tells(p2[j]) => p2[j].term < p2[i].term
               /\ \A j \in DOMAIN p2 : j < i /\ Proposes(p2[j]) => p2[j].term <= p2[i].term
    <3>1. i + 1 \in DOMAIN p /\ p2[i] = p[i + 1] /\ 1 \in DOMAIN p /\ 1 < i + 1 /\ p[i + 1].term \in Nat
      BY <2>2 DEF Pops, Numbers
    <3>2. Heard(p, i + 1)
      BY <2>2 DEF Heard, Pops
    <3>3. /\ L.term <= p[i + 1].term
          /\ Pending(p[i + 1]) => W.term <= p[i + 1].term + 1
          /\ \A j \in DOMAIN p : j < i + 1 /\ Tells(p[j]) => p[j].term < p[i + 1].term
          /\ \A j \in DOMAIN p : j < i + 1 /\ Proposes(p[j]) => p[j].term <= p[i + 1].term
      BY <1>1, <1>r, <2>2, <3>1, <3>2 DEF Rounds
    <3>4. M.term <= p[i + 1].term
      BY <1>p, <3>1, <3>3 DEF Counts
    <3>5. \A j \in DOMAIN p2 : j < i => j + 1 \in DOMAIN p /\ p2[j] = p[j + 1] /\ j + 1 < i + 1
      BY DEF Pops
    <3> QED
      BY <3>1, <3>3, <3>4, <3>5
  <2>3. \A i \in DOMAIN q : Wins(q[i]) /\ Decides(q[i]) =>
       /\ W.term <= q[i].proposed + 1
       /\ W.peerTerm <= q[i].proposed
       /\ \A j \in DOMAIN q : j < i /\ Tells(q[j]) => q[j].term <= q[i].proposed
    BY <1>r DEF Rounds
  <2> QED
    BY <2>1, <2>2, <2>3 DEF Rounds
<1>v. Leases(W, L, p, q)
  BY DEF Agrees
<1>7. Leases(W, M, p2, q)
  <2>1. /\ \A i \in DOMAIN p2 : Asks(p2[i]) => Backs(W, p2[i])
        /\ \A i \in DOMAIN p2, j \in DOMAIN q : ~(Grants(p2[i]) /\ Grants(q[j]))
        /\ (\E i \in DOMAIN p2 : Grants(p2[i])) => W.phase # "leader-leased"
        /\ \A i, j \in DOMAIN q : i < j /\ Asks(q[i]) /\ Grants(q[j]) => Backs(W, q[i])
    BY <1>v DEF Leases, Pops
  <2>2. \A i \in DOMAIN q : Asks(q[i]) => M.term >= q[i].term
    BY <1>v DEF Leases, Counts, Numbers
  <2>3. \A i, j \in DOMAIN p2 : i < j /\ Asks(p2[i]) /\ Grants(p2[j]) => M.term > p2[i].term
    BY <1>v DEF Leases, Pops, Counts, Numbers
  <2>4. /\ (\E i \in DOMAIN q : Grants(q[i])) => M.phase # "leader-leased"
        /\ ~(W.phase = "leader-leased" /\ M.phase = "leader-leased")
    BY <1>v DEF Leases, Pops
  <2> QED
    BY <2>1, <2>2, <2>3, <2>4 DEF Leases
<1>9. Numbers(p2) /\ \A i \in DOMAIN p2 : i \in Nat /\ i >= 1
  BY DEF Numbers, Pops
<1> QED
  BY <1>2, <1>3, <1>4, <1>5, <1>6, <1>7, <1>9 DEF Agrees

\* L may send x in its state.
JuniorSent(a, W, L, p, q, on, x, q2) ==
  /\ Adds(q, q2, x)
  /\ Tells(x) => x.term = L.term
  /\ IsState(x) => x.priority = Priority[Junior]
  /\ x.type = "sync" => a # Senior /\ DOMAIN p = {} /\ DOMAIN q = {} /\ ~on
  /\ x.type = "syncReply" => /\ a = Senior /\ ~on
                             /\ \A i \in DOMAIN p : p[i].type # "sync"
                             /\ \A i \in DOMAIN q : q[i].type # "syncReply"
  /\ a # Senior /\ x.type \in {"elect", "lease"} => on
  /\ Wins(x) => on
  /\ Wins(x) /\ Decides(x) => /\ W.term <= x.proposed + 1
                              /\ W.peerTerm <= x.proposed /\ L.term <= x.proposed
  /\ Decides(x) => \A i \in DOMAIN p : ~Proposes(p[i]) /\ ~Asks(p[i])
  /\ Asks(x) => x.term = L.term
  /\ Grants(x) => /\ L.phase # "leader-leased" /\ L.term <= W.term
                  /\ \A i \in DOMAIN p : ~Grants(p[i]) /\ (Tells(p[i]) => p[i].term <= W.term)
                  /\ \A i \in DOMAIN q : ~Decides(q[i]) /\ (Asks(q[i]) => Backs(W, q[i]))
  /\ Tells(x) \/ Proposes(x) \/ Asks(x) => x.term \in Nat
  /\ Wins(x) => x.proposed \in Nat

\* The junior sends a frame, or none, and keeps the pair.
LEMMA JuniorSends ==
  ASSUME NEW a, NEW W, NEW L, NEW p, NEW q, NEW up, NEW on, NEW x, NEW q2,
         Pair(a, W, L, p, q, up, on), JuniorSent(a, W, L, p, q, on, x, q2)
  PROVE  Pair(a, W, L, p, q2, up, on)
<1> USE DEF Pair, JuniorSent
<1> DEFINE met == Met(a, up, on, p)
<1>h. IF a = Senior THEN Hello(on, p, q) ELSE Hello(on, q, p)
  BY DEF Agrees
<1>2. IF a = Senior THEN Hello(on, p, q2) ELSE Hello(on, q2, p)
  <2>1. CASE a = Senior
    <3>1. Hello(on, p, q)
      BY <1>h, <2>1
    <3>2. \A i \in DOMAIN q2 : q2[i].type # "sync" /\ (on => q2[i].type # "syncReply")
      BY <2>1, <3>1 DEF Hello, Adds
    <3>3. \A i \in DOMAIN p, j \in DOMAIN q2 : ~(p[i].type = "sync" /\ q2[j].type = "syncReply")
      BY <2>1, <3>1 DEF Hello, Adds
    <3>4. \A i, j \in DOMAIN q2 : q2[i].type = "syncReply" /\ q2[j].type = "syncReply" => i = j
      BY <2>1, <3>1 DEF Hello, Adds
    <3> QED
      BY <2>1, <3>1, <3>2, <3>3, <3>4 DEF Hello
  <2>2. CASE a # Senior
    <3>1. Hello(on, q, p)
      BY <1>h, <2>2
    <3>2. \A i \in DOMAIN q2 : q2[i].type # "syncReply" /\ (q2[i].type \in {"elect", "lease"} => on)
      BY <2>2, <3>1 DEF Hello, Adds
    <3>3. /\ on => \A i \in DOMAIN q2 : q2[i].type # "sync"
          /\ \A i \in DOMAIN q2, j \in DOMAIN p : ~(q2[i].type = "sync" /\ p[j].type = "syncReply")
      BY <2>2, <3>1 DEF Hello, Adds
    <3>4. \A i, j \in DOMAIN q2 : q2[i].type = "sync" /\ q2[j].type = "sync" => i = j
      BY <2>2, <3>1 DEF Hello, Adds
    <3> QED
      BY <2>2, <3>1, <3>2, <3>3, <3>4 DEF Hello
  <2> QED
    BY <2>1, <2>2
<1>3. Known(W, on, met, p, q2)
  BY DEF Agrees, Known, Adds
<1>4. Ordered(p, q2)
  <2>1. Ordered(p, q)
    BY DEF Agrees
  <2>2. ASSUME NEW i \in DOMAIN q2, Decides(q2[i])
        PROVE  \A j \in DOMAIN p : ~Proposes(p[j]) /\ ~Asks(p[j])
    BY <2>1, <2>2 DEF Ordered, Adds
  <2>3. ASSUME NEW i \in DOMAIN q2, NEW j \in DOMAIN q2, Decides(q2[i]), i < j
        PROVE  ~Grants(q2[j])
    BY <2>1, <2>3 DEF Ordered, Adds
  <2> QED
    BY <2>1, <2>2, <2>3 DEF Ordered
<1>l. Loose(W, on, p, q) => Grants(x) \/ Loose(W, on, p, q2)
  BY DEF Stuck, Loose, Adds
<1>t. Terms(W, L, on, met, p, q)
  BY DEF Agrees
<1>5. Terms(W, L, on, met, p, q2)
  <2>1. W.peerTerm <= W.term /\ W.peerTerm <= L.term
    BY <1>t DEF Terms
  <2>2. \A i \in DOMAIN q2 : Tells(q2[i]) => q2[i].term <= L.term
    BY <1>t DEF Terms, Counts, Adds
  <2>3. \A i \in DOMAIN p : Tells(p[i]) =>
          p[i].term <= W.term \/ (Loose(W, on, p, q2) /\ p[i].term <= W.term + 1)
    BY <1>t, <1>l DEF Terms
  <2>4. \A i, j \in DOMAIN p : i < j /\ Asks(p[i]) /\ Tells(p[j]) => p[j].term <= W.term
    BY <1>t DEF Terms
  <2>5. met => L.term <= W.term + 1 \/ (Loose(W, on, p, q2) /\ L.term <= W.term + 2)
    <3>1. met => L.term <= W.term + 1 \/ (Loose(W, on, p, q) /\ L.term <= W.term + 2)
      BY <1>t DEF Terms
    <3> QED
      BY <1>l, <3>1 DEF Counts
  <2>6. \A i \in DOMAIN q2 : IsHello(q2[i]) => L.term <= q2[i].term + 1 \/ L.term <= W.term + 1
    BY <1>t DEF Terms, Counts, Adds, IsHello, IsState, Tells
  <2> QED
    BY <2>1, <2>2, <2>3, <2>4, <2>5, <2>6 DEF Terms
<1>r. Rounds(W, L, met, p, q)
  BY DEF Agrees
<1>6. Rounds(W, L, met, p, q2)
  <2>1. ASSUME NEW i \in DOMAIN q2, Wins(q2[i]), Decides(q2[i])
        PROVE  /\ W.term <= q2[i].proposed + 1
               /\ W.peerTerm <= q2[i].proposed
               /\ \A j \in DOMAIN q2 : j < i /\ Tells(q2[j]) => q2[j].term <= q2[i].proposed
    <3>1. CASE i \in DOMAIN q
      <4>1. \A j \in DOMAIN q2 : j < i => j \in DOMAIN q /\ q2[j] = q[j]
        BY <3>1 DEF Adds
      <4>2. q2[i] = q[i]
        BY <3>1 DEF Adds
      <4> QED
        BY <1>r, <2>1, <3>1, <4>1, <4>2 DEF Rounds
    <3>2. CASE i \notin DOMAIN q
      <4>1. q2[i] = x
        BY <3>2 DEF Adds
      <4>2. \A j \in DOMAIN q2 : j < i => j \in DOMAIN q /\ q2[j] = q[j]
        BY <3>2 DEF Adds
      <4>3. \A j \in DOMAIN q : Tells(q[j]) => q[j].term <= L.term /\ q[j].term \in Nat
        BY <1>t DEF Terms, Numbers
      <4> QED
        BY <2>1, <4>1, <4>2, <4>3 DEF Counts
    <3> QED
      BY <3>1, <3>2
  <2> QED
    BY <1>r, <2>1 DEF Rounds
<1>v. Leases(W, L, p, q)
  BY DEF Agrees
<1>7. Leases(W, L, p, q2)
  <2>1. \A i \in DOMAIN q2 : Asks(q2[i]) => L.term >= q2[i].term
    BY <1>v DEF Leases, Adds, Counts
  <2>2. ASSUME NEW i \in DOMAIN q2, NEW j \in DOMAIN q2, i < j, Asks(q2[i]), Grants(q2[j])
        PROVE  Backs(W, q2[i])
    <3>1. i \in DOMAIN q /\ q2[i] = q[i]
      BY <2>2 DEF Adds
    <3>2. (j \in DOMAIN q /\ q2[j] = q[j]) \/ q2[j] = x
      BY DEF Adds
    <3> QED
      BY <1>v, <2>2, <3>1, <3>2 DEF Leases
  <2>3. /\ \A i \in DOMAIN p, j \in DOMAIN q2 : ~(Grants(p[i]) /\ Grants(q2[j]))
        /\ (\E i \in DOMAIN q2 : Grants(q2[i])) => L.phase # "leader-leased"
    BY <1>v DEF Leases, Adds
  <2> QED
    BY <1>v, <2>1, <2>2, <2>3 DEF Leases
<1>9. Numbers(q2) /\ \A i \in DOMAIN q2 : i \in Nat /\ i >= 1
  BY DEF Numbers, Adds
<1> QED
  BY <1>2, <1>3, <1>4, <1>5, <1>6, <1>7, <1>9 DEF Agrees

\* W may send x in its state.
SeniorSent(a, W, L, p, q, on, x, p2) ==
  /\ Adds(p, p2, x)
  /\ Tells(x) => x.term = W.term
  /\ ~Wins(x)
  /\ x.type = "sync" => a = Senior /\ DOMAIN p = {} /\ DOMAIN q = {} /\ ~on
  /\ x.type = "syncReply" => /\ a # Senior /\ ~on
                             /\ \A i \in DOMAIN q : q[i].type # "sync"
                             /\ \A i \in DOMAIN p : p[i].type # "syncReply"
                             /\ W.peerPriority = Priority[Junior] /\ L.term <= W.term + 1
  /\ a = Senior /\ x.type \in {"elect", "lease"} => on
  /\ Proposes(x) => W.electing = "asked" /\ x.term = W.term + 1
  /\ Asks(x) => x.term = W.term /\ W.leader = Senior
  /\ Proposes(x) \/ Asks(x) => /\ \A i \in DOMAIN p : ~Pending(p[i])
                               /\ \A i \in DOMAIN q : ~Decides(q[i])
  /\ Grants(x) => /\ W.phase # "leader-leased"
                  /\ \A i \in DOMAIN p : Asks(p[i]) => L.term > p[i].term
                  /\ \A i \in DOMAIN q : ~Grants(q[i])
  /\ Tells(x) \/ Proposes(x) \/ Asks(x) => x.term \in Nat

\* The senior sends a frame, or none, and keeps the pair.
LEMMA SeniorSends ==
  ASSUME NEW a, NEW W, NEW L, NEW p, NEW q, NEW up, NEW on, NEW x, NEW p2,
         Pair(a, W, L, p, q, up, on), SeniorSent(a, W, L, p, q, on, x, p2)
  PROVE  Pair(a, W, L, p2, q, up, on)
<1> USE DEF Pair, SeniorSent
<1> DEFINE met == Met(a, up, on, p)
           met2 == Met(a, up, on, p2)
<1>1. met2 => met \/ (W.peerPriority = Priority[Junior] /\ L.term <= W.term + 1 /\ x.type = "syncReply" /\ Len(p) + 1 \in DOMAIN p2 /\ p2[Len(p) + 1] = x)
  BY DEF Met, Adds
<1>h. IF a = Senior THEN Hello(on, p, q) ELSE Hello(on, q, p)
  BY DEF Agrees
<1>2. IF a = Senior THEN Hello(on, p2, q) ELSE Hello(on, q, p2)
  <2>1. CASE a = Senior
    BY <1>h, <2>1 DEF Hello, Adds
  <2>2. CASE a # Senior
    BY <1>h, <2>2 DEF Hello, Adds
  <2> QED
    BY <2>1, <2>2
<1>3. Known(W, on, met2, p2, q)
  BY <1>1 DEF Agrees, Known, Adds
<1>4. Ordered(p2, q)
  <2>1. Ordered(p, q)
    BY DEF Agrees
  <2>2. ASSUME NEW i \in DOMAIN p2, NEW j \in DOMAIN p2, i < j, Pending(p2[i])
        PROVE  ~Proposes(p2[j]) /\ ~Asks(p2[j])
    BY <2>1, <2>2 DEF Ordered, Adds
  <2>3. ASSUME NEW i \in DOMAIN q, Decides(q[i]), NEW j \in DOMAIN p2
        PROVE  ~Proposes(p2[j]) /\ ~Asks(p2[j])
    BY <2>1, <2>3 DEF Ordered, Adds
  <2> QED
    BY <2>1, <2>2, <2>3 DEF Ordered
<1>l. Loose(W, on, p, q) => Loose(W, on, p2, q)
  BY DEF Stuck, Loose, Adds
<1>t. Terms(W, L, on, met, p, q)
  BY DEF Agrees
<1>5. Terms(W, L, on, met2, p2, q)
  <2>1. W.peerTerm <= W.term /\ W.peerTerm <= L.term
    BY <1>t DEF Terms
  <2>2. \A i \in DOMAIN q : Tells(q[i]) => q[i].term <= L.term
    BY <1>t DEF Terms
  <2>3. \A i \in DOMAIN p2 : Tells(p2[i]) =>
          p2[i].term <= W.term \/ (Loose(W, on, p2, q) /\ p2[i].term <= W.term + 1)
    BY <1>t, <1>l DEF Terms, Adds, Counts
  <2>4. ASSUME NEW i \in DOMAIN p2, NEW j \in DOMAIN p2, i < j, Asks(p2[i]), Tells(p2[j])
        PROVE  p2[j].term <= W.term
    <3>1. i \in DOMAIN p /\ p2[i] = p[i]
      BY <2>4 DEF Adds
    <3>2. (j \in DOMAIN p /\ p2[j] = p[j]) \/ p2[j] = x
      BY DEF Adds
    <3> QED
      BY <1>t, <2>4, <3>1, <3>2 DEF Terms, Counts
  <2>5. met2 => L.term <= W.term + 1 \/ (Loose(W, on, p2, q) /\ L.term <= W.term + 2)
    <3>1. met => L.term <= W.term + 1 \/ (Loose(W, on, p, q) /\ L.term <= W.term + 2)
      BY <1>t DEF Terms
    <3> QED
      BY <1>1, <1>l, <3>1
  <2>6. \A i \in DOMAIN q : IsHello(q[i]) => L.term <= q[i].term + 1 \/ L.term <= W.term + 1
    BY <1>t DEF Terms
  <2> QED
    BY <2>1, <2>2, <2>3, <2>4, <2>5, <2>6 DEF Terms
<1>r. Rounds(W, L, met, p, q)
  BY DEF Agrees
<1>n. Proposes(x) => ~Loose(W, on, p, q)
  BY DEF Loose, Stuck
<1>6. Rounds(W, L, met2, p2, q)
  <2>1. \A i \in DOMAIN p2 : Proposes(p2[i]) => p2[i].term <= W.term + 1
    BY <1>r DEF Rounds, Adds, Counts
  <2>2. ASSUME NEW i \in DOMAIN p2, met2, Proposes(p2[i]), Heard(p2, i)
        PROVE  /\ L.term <= p2[i].term
               /\ Pending(p2[i]) => W.term <= p2[i].term + 1
               /\ \A j \in DOMAIN p2 : j < i /\ Tells(p2[j]) => p2[j].term < p2[i].term
               /\ \A j \in DOMAIN p2 : j < i /\ Proposes(p2[j]) => p2[j].term <= p2[i].term
    <3>1. \A j \in DOMAIN p2 : j < i => j \in DOMAIN p /\ p2[j] = p[j]
      BY DEF Adds
    <3>2. met
      <4> SUFFICES ASSUME ~met PROVE FALSE
        OBVIOUS
      <4>1. Len(p) + 1 \in DOMAIN p2 /\ p2[Len(p) + 1].type = "syncReply"
        BY <1>1, <2>2
      <4>2. Len(p) + 1 < i
        BY <2>2, <4>1 DEF Heard
      <4> QED
        BY <4>2 DEF Adds
    <3>3. CASE i \in DOMAIN p
      <4>1. p2[i] = p[i] /\ Heard(p, i)
        BY <2>2, <3>3 DEF Adds, Heard
      <4> QED
        BY <1>r, <2>2, <3>1, <3>2, <3>3, <4>1 DEF Rounds
    <3>4. CASE i \notin DOMAIN p
      <4>1. p2[i] = x /\ Proposes(x)
        BY <2>2, <3>4 DEF Adds
      <4>2. L.term <= W.term + 1
        BY <1>n, <1>t, <3>2, <4>1 DEF Terms
      <4>3. \A j \in DOMAIN p : Tells(p[j]) => p[j].term <= W.term /\ p[j].term \in Nat
        BY <1>n, <1>t, <4>1 DEF Terms, Numbers
      <4>4. \A j \in DOMAIN p : Proposes(p[j]) => p[j].term <= W.term + 1
        BY <1>r DEF Rounds
      <4> QED
        BY <3>1, <4>1, <4>2, <4>3, <4>4 DEF Counts
    <3> QED
      BY <3>3, <3>4
  <2>3. \A i \in DOMAIN q : Wins(q[i]) /\ Decides(q[i]) =>
       /\ W.term <= q[i].proposed + 1
       /\ W.peerTerm <= q[i].proposed
       /\ \A j \in DOMAIN q : j < i /\ Tells(q[j]) => q[j].term <= q[i].proposed
    BY <1>r DEF Rounds
  <2> QED
    BY <2>1, <2>2, <2>3 DEF Rounds
<1>v. Leases(W, L, p, q)
  BY DEF Agrees
<1>7. Leases(W, L, p2, q)
  <2>1. \A i \in DOMAIN p2 : Asks(p2[i]) => Backs(W, p2[i])
    BY <1>v DEF Leases, Adds, Counts, Backs
  <2>2. ASSUME NEW i \in DOMAIN p2, NEW j \in DOMAIN p2, i < j, Asks(p2[i]), Grants(p2[j])
        PROVE  L.term > p2[i].term
    <3>1. i \in DOMAIN p /\ p2[i] = p[i]
      BY <2>2 DEF Adds
    <3>2. (j \in DOMAIN p /\ p2[j] = p[j]) \/ p2[j] = x
      BY DEF Adds
    <3> QED
      BY <1>v, <2>2, <3>1, <3>2 DEF Leases
  <2>3. /\ \A i \in DOMAIN p2, j \in DOMAIN q : ~(Grants(p2[i]) /\ Grants(q[j]))
        /\ (\E i \in DOMAIN p2 : Grants(p2[i])) => W.phase # "leader-leased"
    BY <1>v DEF Leases, Adds
  <2> QED
    BY <1>v, <2>1, <2>2, <2>3 DEF Leases
<1>9. Numbers(p2) /\ \A i \in DOMAIN p2 : i \in Nat /\ i >= 1
  BY DEF Numbers, Adds
<1> QED
  BY <1>2, <1>3, <1>4, <1>5, <1>6, <1>7, <1>9 DEF Agrees

\* W takes the first frame of q, which does not make it win, and is V after it.
SeniorTook(a, W, p, q, on, V, q2, on2) ==
  /\ Pops(q, q2) /\ Counts(V) /\ on2 \in BOOLEAN
  /\ on2 = on \/ (a = Senior /\ on2 /\ q[1].type = "syncReply" /\ V.term >= q[1].term
                    /\ V.peerPriority = Priority[Junior])
  /\ V.term >= W.term
  /\ V.term = W.term \/ (Tells(q[1]) /\ V.term <= q[1].term + 1)
  /\ V.peerTerm = W.peerTerm \/ (Tells(q[1]) /\ V.peerTerm = q[1].term /\ q[1].term <= V.term)
  /\ V.peerPriority = W.peerPriority \/ V.peerPriority = Priority[Junior]
  /\ V.electedTerm # 0 => W.electedTerm # 0 \/ V.peerPriority = Priority[Junior]
  /\ V.electedTerm # 0 /\ V.role = "leader" => V.leader = Senior
  /\ V.term = W.term =>
       \/ V.leader = W.leader
       \/ (\A i \in DOMAIN p : ~Asks(p[i])) /\ (\A i \in DOMAIN q2 : ~Grants(q2[i]))
  /\ V.electing = "asked" => W.electing = "asked"
  /\ on /\ V.term = W.term /\ ~Grants(q[1]) /\ W.electing # "asked" /\ (~Attached(W) \/ Leads(W))
       => ~Attached(V) \/ Leads(V)
  /\ V.phase = "leader-leased" => W.phase = "leader-leased" \/ Grants(q[1])

\* The senior takes a frame of q and keeps the pair.
LEMMA SeniorTakes ==
  ASSUME NEW a, NEW W, NEW L, NEW p, NEW q, NEW up, NEW on, NEW V, NEW q2, NEW on2,
         Pair(a, W, L, p, q, up, on), SeniorTook(a, W, p, q, on, V, q2, on2)
  PROVE  Pair(a, V, L, p, q2, up, on2)
<1> USE DEF Pair, SeniorTook
<1> DEFINE met == Met(a, up, on, p)
           met2 == Met(a, up, on2, p)
<1>1. met2 => met \/ (on2 /\ ~on)
  BY DEF Met
<1>h. IF a = Senior THEN Hello(on, p, q) ELSE Hello(on, q, p)
  BY DEF Agrees
<1>2. IF a = Senior THEN Hello(on2, p, q2) ELSE Hello(on2, q2, p)
  <2>1. CASE a = Senior
    BY <1>h, <2>1 DEF Hello, Pops
  <2>2. CASE a # Senior
    BY <1>h, <2>2 DEF Hello, Pops
  <2> QED
    BY <2>1, <2>2
<1>e. on2 /\ ~on => /\ \A i \in DOMAIN p : ~Proposes(p[i]) /\ ~Asks(p[i])
                    /\ IsHello(q[1]) /\ Tells(q[1]) /\ V.term >= q[1].term
                    /\ V.peerPriority = Priority[Junior]
  BY <1>h DEF Hello, Proposes, Asks, IsHello, Tells, IsState
<1>3. Known(V, on2, met2, p, q2)
  <2>1. Known(W, on, met, p, q)
    BY DEF Agrees
  <2> QED
    BY <1>1, <1>e, <2>1 DEF Known, Pops
<1>4. Ordered(p, q2)
  BY DEF Agrees, Ordered, Pops
<1>t. Terms(W, L, on, met, p, q)
  BY DEF Agrees
<1>m. Tells(q[1]) => q[1].term <= L.term /\ q[1].term \in Nat
  BY <1>t DEF Terms, Pops, Numbers
<1>l. Loose(W, on, p, q) => V.term >= W.term + 1 \/ Loose(V, on2, p, q2)
  <2> SUFFICES ASSUME Loose(W, on, p, q), V.term = W.term
               PROVE  Loose(V, on2, p, q2)
    BY DEF Counts
  <2>1. on /\ on2 /\ Stuck(W, p, q)
    BY DEF Loose
  <2>2. ~Grants(q[1]) /\ \A i \in DOMAIN q2 : ~Grants(q2[i])
    BY <2>1 DEF Stuck, Pops
  <2> QED
    BY <2>1, <2>2 DEF Loose, Stuck
<1>5. Terms(V, L, on2, met2, p, q2)
  <2>1. V.peerTerm <= V.term /\ V.peerTerm <= L.term
    BY <1>t, <1>m DEF Terms, Counts
  <2>2. \A i \in DOMAIN q2 : Tells(q2[i]) => q2[i].term <= L.term
    BY <1>t DEF Terms, Pops
  <2>3. ASSUME NEW i \in DOMAIN p, Tells(p[i])
        PROVE  p[i].term <= V.term \/ (Loose(V, on2, p, q2) /\ p[i].term <= V.term + 1)
    <3>1. p[i].term <= W.term \/ (Loose(W, on, p, q) /\ p[i].term <= W.term + 1)
      BY <1>t, <2>3 DEF Terms
    <3>2. p[i].term \in Nat
      BY <2>3 DEF Numbers
    <3> QED
      BY <1>l, <3>1, <3>2 DEF Counts
  <2>4. ASSUME NEW i \in DOMAIN p, NEW j \in DOMAIN p, i < j, Asks(p[i]), Tells(p[j])
        PROVE  p[j].term <= V.term
    <3>1. p[j].term <= W.term /\ p[j].term \in Nat
      BY <1>t, <2>4 DEF Terms, Numbers
    <3> QED
      BY <3>1 DEF Counts
  <2>5. met2 => L.term <= V.term + 1 \/ (Loose(V, on2, p, q2) /\ L.term <= V.term + 2)
    <3>1. met => L.term <= W.term + 1 \/ (Loose(W, on, p, q) /\ L.term <= W.term + 2)
      BY <1>t DEF Terms
    <3>2. IsHello(q[1]) => L.term <= q[1].term + 1 \/ L.term <= W.term + 1
      BY <1>t DEF Terms, Pops
    <3> QED
      BY <1>1, <1>e, <1>l, <1>m, <3>1, <3>2 DEF Counts
  <2>6. ASSUME NEW i \in DOMAIN q2, IsHello(q2[i])
        PROVE  L.term <= q2[i].term + 1 \/ L.term <= V.term + 1
    <3>1. i + 1 \in DOMAIN q /\ q2[i] = q[i + 1]
      BY DEF Pops
    <3>2. L.term <= q[i + 1].term + 1 \/ L.term <= W.term + 1
      BY <1>t, <2>6, <3>1 DEF Terms
    <3> QED
      BY <3>1, <3>2 DEF Counts
  <2> QED
    BY <2>1, <2>2, <2>3, <2>4, <2>5, <2>6 DEF Terms
<1>r. Rounds(W, L, met, p, q)
  BY DEF Agrees
<1>6. Rounds(V, L, met2, p, q2)
  <2>1. \A i \in DOMAIN p : Proposes(p[i]) => p[i].term <= V.term + 1
    BY <1>r DEF Rounds, Counts, Numbers
  <2>2. ASSUME NEW i \in DOMAIN p, met2, Proposes(p[i]), Heard(p, i)
        PROVE  /\ L.term <= p[i].term
               /\ Pending(p[i]) => V.term <= p[i].term + 1
               /\ \A j \in DOMAIN p : j < i /\ Tells(p[j]) => p[j].term < p[i].term
               /\ \A j \in DOMAIN p : j < i /\ Proposes(p[j]) => p[j].term <= p[i].term
    <3>1. met
      BY <1>1, <1>e, <2>2
    <3>2. /\ L.term <= p[i].term
          /\ Pending(p[i]) => W.term <= p[i].term + 1
          /\ \A j \in DOMAIN p : j < i /\ Tells(p[j]) => p[j].term < p[i].term
          /\ \A j \in DOMAIN p : j < i /\ Proposes(p[j]) => p[j].term <= p[i].term
      BY <1>r, <2>2, <3>1 DEF Rounds
    <3>3. p[i].term \in Nat
      BY <2>2 DEF Numbers
    <3>4. Pending(p[i]) => V.term <= p[i].term + 1
      BY <1>m, <3>2, <3>3 DEF Counts
    <3> QED
      BY <3>2, <3>4
  <2>3. ASSUME NEW i \in DOMAIN q2, Wins(q2[i]), Decides(q2[i])
        PROVE  /\ V.term <= q2[i].proposed + 1
               /\ V.peerTerm <= q2[i].proposed
               /\ \A j \in DOMAIN q2 : j < i /\ Tells(q2[j]) => q2[j].term <= q2[i].proposed
    <3>1. i + 1 \in DOMAIN q /\ q2[i] = q[i + 1] /\ 1 \in DOMAIN q /\ 1 < i + 1 /\ q[i + 1].proposed \in Nat
      BY <2>3 DEF Pops, Numbers
    <3>2. /\ W.term <= q[i + 1].proposed + 1
          /\ W.peerTerm <= q[i + 1].proposed
          /\ \A j \in DOMAIN q : j < i + 1 /\ Tells(q[j]) => q[j].term <= q[i + 1].proposed
      BY <1>r, <2>3, <3>1 DEF Rounds
    <3>3. Tells(q[1]) => q[1].term <= q[i + 1].proposed
      BY <3>1, <3>2
    <3>4. V.term <= q[i + 1].proposed + 1 /\ V.peerTerm <= q[i + 1].proposed
      BY <1>m, <3>1, <3>2, <3>3 DEF Counts
    <3>5. \A j \in DOMAIN q2 : j < i => j + 1 \in DOMAIN q /\ q2[j] = q[j + 1] /\ j + 1 < i + 1
      BY DEF Pops
    <3> QED
      BY <3>1, <3>2, <3>4, <3>5
  <2> QED
    BY <2>1, <2>2, <2>3 DEF Rounds
<1>v. Leases(W, L, p, q)
  BY DEF Agrees
<1>7. Leases(V, L, p, q2)
  <2>1. ASSUME NEW i \in DOMAIN p, Asks(p[i])
        PROVE  Backs(V, p[i])
    <3>1. Backs(W, p[i]) /\ p[i].term \in Nat
      BY <1>v, <2>1 DEF Leases, Numbers
    <3> QED
      BY <2>1, <3>1 DEF Backs, Counts
  <2>2. ASSUME NEW i \in DOMAIN q2, NEW j \in DOMAIN q2, i < j, Asks(q2[i]), Grants(q2[j])
        PROVE  Backs(V, q2[i])
    <3>1. /\ i + 1 \in DOMAIN q /\ q2[i] = q[i + 1] /\ q[i + 1].term \in Nat
          /\ j + 1 \in DOMAIN q /\ q2[j] = q[j + 1] /\ i + 1 < j + 1
      BY <2>2 DEF Pops, Numbers
    <3>2. Backs(W, q[i + 1])
      BY <1>v, <2>2, <3>1 DEF Leases
    <3> QED
      BY <2>2, <3>1, <3>2 DEF Backs, Counts
  <2>3. /\ \A i \in DOMAIN q2 : Asks(q2[i]) => L.term >= q2[i].term
        /\ \A i \in DOMAIN p, j \in DOMAIN q2 : ~(Grants(p[i]) /\ Grants(q2[j]))
        /\ (\E i \in DOMAIN q2 : Grants(q2[i])) => L.phase # "leader-leased"
    BY <1>v DEF Leases, Pops
  <2>4. /\ (\E i \in DOMAIN p : Grants(p[i])) => V.phase # "leader-leased"
        /\ ~(V.phase = "leader-leased" /\ L.phase = "leader-leased")
    BY <1>v DEF Leases, Pops
  <2> QED
    BY <1>v, <2>1, <2>2, <2>3, <2>4 DEF Leases
<1>9. Numbers(q2) /\ \A i \in DOMAIN q2 : i \in Nat /\ i >= 1
  BY DEF Numbers, Pops
<1> QED
  BY <1>2, <1>3, <1>4, <1>5, <1>6, <1>7, <1>9 DEF Agrees

\* W takes the answer that makes it win and is V after it.
SeniorWon(W, q, V, q2) ==
  /\ Pops(q, q2) /\ Counts(V)
  /\ Wins(q[1]) /\ Decides(q[1]) /\ (\A i \in DOMAIN q2 : ~Decides(q2[i]))
  /\ W.electing = "asked" /\ V.electing # "asked"
  /\ V.term = q[1].proposed /\ V.electedTerm = V.term /\ V.leader = Senior /\ V.role = "leader"
  /\ V.phase = "nominating" /\ V.peerTerm = W.peerTerm /\ V.peerPriority = W.peerPriority

\* The senior takes the vote that elects it and keeps the pair.
LEMMA SeniorWins ==
  ASSUME NEW a, NEW W, NEW L, NEW p, NEW q, NEW on, NEW V, NEW q2,
         Pair(a, W, L, p, q, TRUE, on), SeniorWon(W, q, V, q2)
  PROVE  Pair(a, V, L, p, q2, TRUE, on)
<1> USE DEF Pair, SeniorWon
<1> DEFINE met == Met(a, TRUE, on, p)
<1>1. on /\ met
  BY DEF Agrees, Known, Met, Pops
<1>h. IF a = Senior THEN Hello(on, p, q) ELSE Hello(on, q, p)
  BY DEF Agrees
<1>2. IF a = Senior THEN Hello(on, p, q2) ELSE Hello(on, q2, p)
  <2>1. CASE a = Senior
    BY <1>h, <2>1 DEF Hello, Pops
  <2>2. CASE a # Senior
    BY <1>h, <2>2 DEF Hello, Pops
  <2> QED
    BY <2>1, <2>2
<1>q. \A i \in DOMAIN q : ~IsHello(q[i])
  BY <1>1, <1>h DEF Hello, IsHello
<1>3. Known(V, on, met, p, q2)
  BY <1>1 DEF Agrees, Known, Pops
<1>o. /\ \A i \in DOMAIN p : ~Proposes(p[i]) /\ ~Asks(p[i])
      /\ \A i \in DOMAIN q2 : ~Grants(q2[i])
  BY DEF Agrees, Ordered, Pops
<1>4. Ordered(p, q2)
  BY <1>o DEF Ordered
<1>l. ~Loose(W, on, p, q) /\ Loose(V, on, p, q2)
  <2>1. Leads(V)
    BY DEF Leads
  <2> QED
    BY <1>1, <1>o, <2>1 DEF Loose, Stuck
<1>r. W.term <= V.term + 1 /\ W.peerTerm <= V.term
  BY DEF Agrees, Rounds, Pops
<1>5. Terms(V, L, on, met, p, q2)
  <2>t. Terms(W, L, on, met, p, q)
    BY DEF Agrees
  <2>1. V.peerTerm <= V.term /\ V.peerTerm <= L.term
    BY <1>r, <2>t DEF Terms
  <2>2. \A i \in DOMAIN q2 : Tells(q2[i]) => q2[i].term <= L.term
    BY <2>t DEF Terms, Pops
  <2>3. \A i \in DOMAIN p : Tells(p[i]) => p[i].term <= V.term + 1
    BY <1>l, <1>r, <2>t DEF Terms, Counts, Numbers
  <2>4. L.term <= V.term + 2
    <3>1. L.term <= W.term + 1
      BY <1>1, <1>l, <2>t DEF Terms
    <3> QED
      BY <1>r, <3>1 DEF Counts
  <2>5. \A i \in DOMAIN q2 : ~IsHello(q2[i])
    BY <1>q DEF Pops
  <2> QED
    BY <1>l, <1>o, <2>1, <2>2, <2>3, <2>4, <2>5 DEF Terms
<1>6. Rounds(V, L, met, p, q2)
  BY <1>o DEF Rounds
<1>7. Leases(V, L, p, q2)
  <2>1. Leases(W, L, p, q)
    BY DEF Agrees
  <2> QED
    BY <1>o, <2>1 DEF Leases, Pops
<1>9. Numbers(q2) /\ \A i \in DOMAIN q2 : i \in Nat /\ i >= 1
  BY DEF Numbers, Pops
<1> QED
  BY <1>2, <1>3, <1>4, <1>5, <1>6, <1>7, <1>9 DEF Agrees

\* W changes without a frame and is V.
SeniorRested(W, p, q, V) ==
  /\ V.term = W.term /\ V.peerTerm = W.peerTerm /\ V.electedTerm = W.electedTerm
  /\ V.peerPriority = W.peerPriority /\ V.role = W.role
  /\ \/ V.leader = W.leader
     \/ W.electedTerm = 0 /\ (\A i \in DOMAIN p : ~Asks(p[i])) /\ (\A i \in DOMAIN q : ~Grants(q[i]))
  /\ Stuck(W, p, q) => V.electing # "asked" /\ (~Attached(V) \/ Leads(V))
  /\ V.phase = "leader-leased" => W.phase = "leader-leased"

\* The senior changes and no frame does.
LEMMA SeniorRests ==
  ASSUME NEW a, NEW W, NEW L, NEW p, NEW q, NEW up, NEW on, NEW V,
         Pair(a, W, L, p, q, up, on), SeniorRested(W, p, q, V)
  PROVE  Pair(a, V, L, p, q, up, on)
<1> USE DEF Pair, SeniorRested
<1> DEFINE met == Met(a, up, on, p)
<1>1. Loose(W, on, p, q) => Loose(V, on, p, q)
  BY DEF Loose, Stuck
<1>2. Known(V, on, met, p, q)
  BY DEF Agrees, Known
<1>3. Terms(V, L, on, met, p, q)
  <2>1. Terms(W, L, on, met, p, q)
    BY DEF Agrees
  <2> QED
    BY <1>1, <2>1 DEF Terms
<1>4. Rounds(V, L, met, p, q)
  <2>1. Rounds(W, L, met, p, q)
    BY DEF Agrees
  <2> QED
    BY <2>1 DEF Rounds
<1>5. Leases(V, L, p, q)
  <2>1. Leases(W, L, p, q)
    BY DEF Agrees
  <2> QED
    BY <2>1 DEF Leases, Backs
<1> QED
  BY <1>2, <1>3, <1>4, <1>5 DEF Agrees, Counts

\* L changes without a frame and is M.
JuniorRested(L, M) ==
  /\ M.term = L.term /\ Counts(M)
  /\ M.phase = "leader-leased" => L.phase = "leader-leased"

\* The junior changes and no frame does.
LEMMA JuniorRests ==
  ASSUME NEW a, NEW W, NEW L, NEW p, NEW q, NEW up, NEW on, NEW M,
         Pair(a, W, L, p, q, up, on), JuniorRested(L, M)
  PROVE  Pair(a, W, M, p, q, up, on)
<1> USE DEF Pair, JuniorRested
<1> DEFINE met == Met(a, up, on, p)
<1>1. Terms(W, M, on, met, p, q)
  <2>1. Terms(W, L, on, met, p, q)
    BY DEF Agrees
  <2> QED
    BY <2>1 DEF Terms
<1>2. Rounds(W, M, met, p, q)
  <2>1. Rounds(W, L, met, p, q)
    BY DEF Agrees
  <2> QED
    BY <2>1 DEF Rounds
<1>3. Leases(W, M, p, q)
  <2>1. Leases(W, L, p, q)
    BY DEF Agrees
  <2> QED
    BY <2>1 DEF Leases
<1> QED
  BY <1>1, <1>2, <1>3 DEF Agrees

\* p2 is p with some frames no longer awaited.
Fades(p, p2) ==
  /\ DOMAIN p2 = DOMAIN p
  /\ \A i \in DOMAIN p :
       /\ p2[i].type = p[i].type
       /\ Tells(p2[i]) <=> Tells(p[i])
       /\ Wins(p2[i]) <=> Wins(p[i])
       /\ Asks(p2[i]) => Asks(p[i])
       /\ Grants(p2[i]) => Grants(p[i])
       /\ Pending(p2[i]) => Pending(p[i])
       /\ Decides(p2[i]) => Decides(p[i])
       /\ IsState(p[i]) => p2[i] = p[i]
       /\ Tells(p[i]) \/ Proposes(p[i]) \/ Asks(p[i]) => p2[i].term = p[i].term
       /\ Wins(p[i]) => p2[i].proposed = p[i].proposed

\* Frames no longer awaited leave the pair as it was.
LEMMA FramesFade ==
  ASSUME NEW a, NEW W, NEW L, NEW p, NEW q, NEW up, NEW on, NEW p2, NEW q2,
         Agrees(a, W, L, p, q, up, on), Fades(p, p2), Fades(q, q2)
  PROVE  Agrees(a, W, L, p2, q2, up, on)
<1> DEFINE met == Met(a, up, on, p)
<1>1. Met(a, up, on, p2) = met
  BY DEF Met, Fades
<1>2. IF a = Senior THEN Hello(on, p2, q2) ELSE Hello(on, q2, p2)
  <2>1. CASE a = Senior
    BY <2>1 DEF Agrees, Hello, Fades
  <2>2. CASE a # Senior
    BY <2>2 DEF Agrees, Hello, Fades
  <2> QED
    BY <2>1, <2>2
<1>p. \A i \in DOMAIN p : (Proposes(p2[i]) <=> Proposes(p[i])) /\ (IsState(p2[i]) <=> IsState(p[i]))
  BY DEF Fades, Proposes, IsState, IsHello
<1>q. \A i \in DOMAIN q : (Proposes(q2[i]) <=> Proposes(q[i])) /\ (IsState(q2[i]) <=> IsState(q[i]))
                          /\ (IsHello(q2[i]) <=> IsHello(q[i])) /\ (IsHello(q[i]) => Tells(q[i]))
  BY DEF Fades, Proposes, IsState, IsHello, Tells
<1>3. Known(W, on, met, p2, q2)
  BY <1>q DEF Agrees, Known, Fades
<1>4. Ordered(p2, q2)
  BY <1>p DEF Agrees, Ordered, Fades
<1>l. Loose(W, on, p, q) => Loose(W, on, p2, q2)
  BY <1>p DEF Loose, Stuck, Fades
<1>5. Terms(W, L, on, met, p2, q2)
  <2>1. Terms(W, L, on, met, p, q)
    BY DEF Agrees
  <2>2. /\ W.peerTerm <= W.term /\ W.peerTerm <= L.term
        /\ \A i \in DOMAIN q2 : Tells(q2[i]) => q2[i].term <= L.term
        /\ \A i \in DOMAIN p2 : Tells(p2[i]) =>
             p2[i].term <= W.term \/ (Loose(W, on, p2, q2) /\ p2[i].term <= W.term + 1)
    BY <1>l, <2>1 DEF Terms, Fades
  <2>3. \A i, j \in DOMAIN p2 : i < j /\ Asks(p2[i]) /\ Tells(p2[j]) => p2[j].term <= W.term
    BY <2>1 DEF Terms, Fades
  <2>4. /\ met => L.term <= W.term + 1 \/ (Loose(W, on, p2, q2) /\ L.term <= W.term + 2)
        /\ \A i \in DOMAIN q2 : IsHello(q2[i]) => L.term <= q2[i].term + 1 \/ L.term <= W.term + 1
    BY <1>l, <1>q, <2>1 DEF Terms, Fades
  <2> QED
    BY <2>2, <2>3, <2>4 DEF Terms
<1>6. Rounds(W, L, met, p2, q2)
  <2>1. Rounds(W, L, met, p, q)
    BY DEF Agrees
  <2>2. ASSUME NEW i \in DOMAIN p2, met, Proposes(p2[i]), Heard(p2, i)
        PROVE  /\ L.term <= p2[i].term
               /\ Pending(p2[i]) => W.term <= p2[i].term + 1
               /\ \A j \in DOMAIN p2 : j < i /\ Tells(p2[j]) => p2[j].term < p2[i].term
               /\ \A j \in DOMAIN p2 : j < i /\ Proposes(p2[j]) => p2[j].term <= p2[i].term
    <3>1. i \in DOMAIN p /\ Proposes(p[i]) /\ Heard(p, i) /\ p2[i].term = p[i].term
      BY <1>p, <2>2 DEF Heard, Fades
    <3> QED
      BY <1>p, <2>1, <2>2, <3>1 DEF Rounds, Fades
  <2>3. \A i \in DOMAIN p2 : Proposes(p2[i]) => p2[i].term <= W.term + 1
    BY <1>p, <2>1 DEF Rounds, Fades
  <2>4. \A i \in DOMAIN q2 : Wins(q2[i]) /\ Decides(q2[i]) =>
       /\ W.term <= q2[i].proposed + 1
       /\ W.peerTerm <= q2[i].proposed
       /\ \A j \in DOMAIN q2 : j < i /\ Tells(q2[j]) => q2[j].term <= q2[i].proposed
    BY <2>1 DEF Rounds, Fades
  <2> QED
    BY <2>2, <2>3, <2>4 DEF Rounds
<1>7. Leases(W, L, p2, q2)
  <2>1. Leases(W, L, p, q)
    BY DEF Agrees
  <2>2. /\ \A i \in DOMAIN p2 : Asks(p2[i]) => Backs(W, p2[i])
        /\ \A i, j \in DOMAIN q2 : i < j /\ Asks(q2[i]) /\ Grants(q2[j]) => Backs(W, q2[i])
    BY <2>1 DEF Leases, Fades, Backs
  <2>3. /\ \A i \in DOMAIN q2 : Asks(q2[i]) => L.term >= q2[i].term
        /\ \A i, j \in DOMAIN p2 : i < j /\ Asks(p2[i]) /\ Grants(p2[j]) => L.term > p2[i].term
    BY <2>1 DEF Leases, Fades
  <2>4. /\ \A i \in DOMAIN p2, j \in DOMAIN q2 : ~(Grants(p2[i]) /\ Grants(q2[j]))
        /\ (\E i \in DOMAIN p2 : Grants(p2[i])) => W.phase # "leader-leased"
        /\ (\E i \in DOMAIN q2 : Grants(q2[i])) => L.phase # "leader-leased"
        /\ ~(W.phase = "leader-leased" /\ L.phase = "leader-leased")
    BY <2>1 DEF Leases, Fades
  <2> QED
    BY <2>2, <2>3, <2>4 DEF Leases
<1> QED
  BY <1>1, <1>2, <1>3, <1>4, <1>5, <1>6, <1>7 DEF Agrees

\* Nothing is in flight and the two have not met over this pipe.
LEMMA PairSilent ==
  ASSUME NEW a, NEW W, NEW L, NEW p, NEW q, NEW up, NEW on,
         DOMAIN p = {}, DOMAIN q = {}, ~Met(a, up, on, p),
         W.electedTerm # 0 => W.peerPriority = Priority[Junior] /\ (W.role = "leader" => W.leader = Senior),
         W.peerTerm <= W.term, W.peerTerm <= L.term,
         ~(W.phase = "leader-leased" /\ L.phase = "leader-leased")
  PROVE  Agrees(a, W, L, p, q, up, on)
  BY DEF Agrees, Hello, Known, Ordered, Terms, Rounds, Leases

----------------------------------------------------------------------------
(***************************************************************************)
(* Senior and Junior, and what the ends of a pipe send and take.           *)
(***************************************************************************)

USE DEF CP

\* The senior and the junior are the two control planes.
LEMMA PairIs ==
  /\ Senior \in CP /\ Junior \in CP /\ Senior # Junior
  /\ Peer(Senior) = Junior /\ Peer(Junior) = Senior
  /\ \A c \in CP : c = Senior \/ c = Junior
<1> DEFINE S == {[cpId |-> c, priority |-> Priority[c]] : c \in CP}
<1>1. PICK w \in S : \A y \in S : Outranks(w, y)
  <2> DEFINE x1 == [cpId |-> 1, priority |-> Priority[1]]
             x2 == [cpId |-> 2, priority |-> Priority[2]]
  <2>1. S = {x1, x2}
    OBVIOUS
  <2>2. Priority[1] \in Nat /\ Priority[2] \in Nat
    BY ConstantsAssumption
  <2>3. CASE Priority[1] <= Priority[2]
    <3>1. \A y \in S : Outranks(x1, y)
      BY <2>1, <2>2, <2>3 DEF Outranks
    <3> QED
      BY <2>1, <3>1
  <2>4. CASE ~(Priority[1] <= Priority[2])
    <3>1. \A y \in S : Outranks(x2, y)
      BY <2>1, <2>2, <2>4 DEF Outranks
    <3> QED
      BY <2>1, <3>1
  <2> QED
    BY <2>3, <2>4
<1> DEFINE z == CHOOSE x \in S : \A y \in S : Outranks(x, y)
<1>2. z \in S
  BY <1>1
<1>3. Senior = z.cpId
  BY DEF Senior, ElectLeader
<1> HIDE DEF z
<1>4. Senior \in CP
  <2>1. PICK c \in CP : z = [cpId |-> c, priority |-> Priority[c]]
    BY <1>2
  <2> QED
    BY <1>3, <2>1
<1> QED
  BY <1>4 DEF Junior, Peer

\* The senior wins when the two are compared.
LEMMA WinnerIs ==
  /\ \A c \in CP, s \in HaState : ~PeerConnected(s) => Desired(c, s) = c
  /\ \A s \in HaState : s.peerPriority = Priority[Junior] => Desired(Senior, s) = Senior
<1>1. ASSUME NEW c \in CP, NEW s \in HaState, ~PeerConnected(s) PROVE Desired(c, s) = c
  <2> DEFINE x == [cpId |-> c, priority |-> Priority[c]]
  <2>1. Candidates(c, s) = {x}
    BY <1>1 DEF Candidates
  <2>2. Outranks(x, x)
    BY ConstantsAssumption DEF Outranks
  <2>3. ElectLeader({x}) = x.cpId
    <3> HIDE DEF x
    <3> QED
      BY <2>2 DEF ElectLeader
  <2> QED
    BY <2>1, <2>3 DEF Desired
<1>2. ASSUME NEW s \in HaState, s.peerPriority = Priority[Junior] PROVE Desired(Senior, s) = Senior
  <2>1. CASE ~PeerConnected(s)
    BY <1>1, <2>1, PairIs
  <2>2. CASE PeerConnected(s)
    <3> DEFINE S == {[cpId |-> c, priority |-> Priority[c]] : c \in CP}
               T == {[cpId |-> Senior, priority |-> Priority[Senior]], [cpId |-> Junior, priority |-> Priority[Junior]]}
    <3>1. Candidates(Senior, s) = T
      BY <1>2, <2>2, PairIs DEF Candidates
    <3>2. S = T
      <4>1. \A c \in CP : c = Senior \/ c = Junior
        BY PairIs
      <4>2. Senior \in CP /\ Junior \in CP
        BY PairIs
      <4> HIDE DEF CP
      <4> QED
        BY <4>1, <4>2
    <3> QED
      BY <3>1, <3>2 DEF Desired, Senior
  <2> QED
    BY <2>1, <2>2
<1> QED
  BY <1>1, <1>2

\* A pipe's next queue against its last, in the terms of the lemmas above.
LEMMA QueueFacts ==
  ASSUME NEW q \in Seq(Message)
  PROVE  /\ Numbers(q)
         /\ \A i \in DOMAIN q : i \in Nat /\ i >= 1 /\ q[i] \in Message
         /\ q # << >> => Pops(q, Tail(q)) /\ Head(q) = q[1] /\ q[1] \in Message
         /\ \A x \in Message : Adds(q, Append(q, x), x) /\ Append(q, x) \in Seq(Message)
<1>1. Len(q) \in Nat /\ DOMAIN q = 1..Len(q) /\ \A i \in 1..Len(q) : q[i] \in Message
  OBVIOUS
<1>2. \A m \in Message : /\ Tells(m) \/ Proposes(m) \/ Asks(m) => m.term \in Nat
                         /\ Wins(m) => m.proposed \in Nat
  BY MessageTypes DEF Tells, IsState, IsHello, Proposes, Asks, Wins, PeerStateMsg, ElectMsg,
                      ElectReplyMsg, LeaseMsg
<1>3. Numbers(q)
  BY <1>1, <1>2 DEF Numbers
<1>4. ASSUME q # << >> PROVE Pops(q, Tail(q)) /\ Head(q) = q[1] /\ q[1] \in Message
  <2>1. Len(q) >= 1
    BY <1>1, <1>4
  <2>2. /\ Tail(q) \in Seq(Message) /\ Len(Tail(q)) = Len(q) - 1
        /\ \A i \in 1..Len(Tail(q)) : Tail(q)[i] = q[i + 1]
    BY <1>4, HeadTailProperties
  <2>3. DOMAIN Tail(q) = 1..(Len(q) - 1)
    BY <2>2
  <2> DEFINE t == Tail(q)
  <2> HIDE DEF t
  <2>4. DOMAIN t = 1..(Len(q) - 1) /\ \A i \in DOMAIN t : t[i] = q[i + 1]
    BY <2>2, <2>3 DEF t
  <2>5. Pops(q, t)
    BY <1>1, <2>1, <2>4 DEF Pops
  <2>6. Head(q) = q[1]
    BY <1>4
  <2> QED
    BY <1>1, <2>1, <2>5, <2>6 DEF t
<1>5. ASSUME NEW x \in Message PROVE Adds(q, Append(q, x), x) /\ Append(q, x) \in Seq(Message)
  BY <1>1, AppendProperties DEF Adds
<1> QED
  BY <1>1, <1>3, <1>4, <1>5

\* What the invariant says of the two when a pipe is wired.
LEMMA PairFacts ==
  ASSUME IInv, NEW a \in CP, Wired(a)
  PROVE  /\ chan \in Channels
         /\ \A c \in CP : ha[c] \in HaState /\ Counts(ha[c]) /\ Sound(c, ha[c])
         /\ \A d, s \in CP : /\ chan[d][s] \in Seq(Message) /\ Numbers(chan[d][s])
                             /\ \A i \in DOMAIN chan[d][s] : i \in Nat /\ i >= 1 /\ Promises(ha, s, chan[d][s][i])
         /\ Peer(a) \in CP /\ Peer(a) # a
         /\ Attached(ha[a]) <=> ha[a].peerOut = "live"
         /\ a = Senior <=> Peer(a) = Junior
         /\ a = Junior <=> Peer(a) = Senior
<1>1. chan \in Channels /\ \A c \in CP : ha[c] \in HaState
  BY DEF IInv, TypeOK, Channels
<1>2. \A c \in CP : Counts(ha[c]) /\ Sound(c, ha[c])
  BY <1>1 DEF HaState, Counts, IInv
<1>3. \A d, s \in CP : chan[d][s] \in Seq(Message)
  BY <1>1 DEF Channels
<1>4. \A d, s \in CP : /\ Numbers(chan[d][s])
                       /\ \A i \in DOMAIN chan[d][s] : i \in Nat /\ i >= 1
  BY <1>3, QueueFacts
<1>5. \A d, s \in CP : \A i \in DOMAIN chan[d][s] : Promises(ha, s, chan[d][s][i])
  BY DEF IInv, FramesSound
<1>6. Attached(ha[a]) <=> ha[a].peerOut = "live"
  BY DEF Wired, Attached
<1>7. (a = Senior <=> Peer(a) = Junior) /\ (a = Junior <=> Peer(a) = Senior)
  BY PairIs, PeerType
<1> QED
  BY <1>1, <1>2, <1>3, <1>4, <1>5, <1>6, <1>7, PeerType

\* A frame c takes comes over the pipe of a, which is up.
LEMMA Took ==
  ASSUME IInv, NEW a \in CP, Wired(a), NEW c \in CP, NEW d \in CP, chan[d][Peer(c)] # << >>
  PROVE  /\ d = a /\ link[a] = "up"
         /\ Frame(c, d) = chan[a][Peer(c)][1] /\ Frame(c, d) \in Message
         /\ Promises(ha, Peer(c), Frame(c, d))
         /\ Popped(c, d) \in Channels
         /\ Pops(chan[a][Peer(c)], Popped(c, d)[a][Peer(c)])
         /\ Popped(c, d)[a][c] = chan[a][c]
         /\ \A s \in CP : Popped(c, d)[Peer(a)][s] = << >>
<1>0. Peer(c) \in CP /\ Peer(c) # c /\ Peer(a) \in CP /\ Peer(a) # a /\ chan \in Channels
  BY PairFacts, PeerType
<1>1. d = a /\ link[a] = "up"
  <2>1. d # Peer(a)
    BY <1>0 DEF Wired
  <2>2. d = a
    BY <2>1 DEF Peer
  <2> QED
    BY <1>0, <2>2 DEF Wired
<1>2. chan[a][Peer(c)] \in Seq(Message) /\ chan[a][Peer(c)] # << >>
  BY <1>0, <1>1 DEF Channels
<1>3. /\ Pops(chan[a][Peer(c)], Tail(chan[a][Peer(c)])) /\ Head(chan[a][Peer(c)]) = chan[a][Peer(c)][1]
      /\ 1 \in DOMAIN chan[a][Peer(c)]
  BY <1>2, QueueFacts DEF Pops
<1>4. \A e, t \in CP : Popped(c, d)[e][t] = IF e = d /\ t = Peer(c) THEN Tail(chan[d][Peer(c)]) ELSE chan[e][t]
  BY <1>0, <1>1, <1>2, PoppedQueues
<1>5. Popped(c, d) \in Channels /\ Frame(c, d) \in Message
  BY <1>0, <1>1, <1>2, FrameType
<1>6. Frame(c, d) = chan[a][Peer(c)][1]
  BY <1>1, <1>3 DEF Frame
<1>7. Promises(ha, Peer(c), Frame(c, d))
  BY <1>0, <1>3, <1>6 DEF IInv, FramesSound
<1>8. \A s \in CP : chan[Peer(a)][s] = << >>
  BY DEF Wired
<1> HIDE DEF CP
<1> QED
  BY <1>0, <1>1, <1>3, <1>4, <1>5, <1>6, <1>7, <1>8

\* A frame c puts on the pipe of a.
LEMMA Put ==
  ASSUME NEW ch \in Channels, NEW a \in CP, NEW c \in CP, NEW m \in Message,
         \A s \in CP : ch[Peer(a)][s] = << >>
  PROVE  /\ Push(ch, a, c, m) \in Channels
         /\ link[a] = "up" => Adds(ch[a][c], Push(ch, a, c, m)[a][c], m)
         /\ link[a] # "up" => Push(ch, a, c, m) = ch
         /\ Push(ch, a, c, m)[a][Peer(c)] = ch[a][Peer(c)]
         /\ \A s \in CP : Push(ch, a, c, m)[Peer(a)][s] = << >>
<1>0. Peer(c) \in CP /\ Peer(c) # c /\ Peer(a) \in CP /\ Peer(a) # a
  BY PeerType
<1> HIDE DEF CP
<1>1. /\ link[a] # "up" => Push(ch, a, c, m) = ch
      /\ link[a] = "up" =>
           \A e, t \in CP : Push(ch, a, c, m)[e][t] = IF e = a /\ t = c THEN Append(ch[a][c], m) ELSE ch[e][t]
      /\ ch[a][c] \in Seq(Message)
  BY PushQueues
<1>2. Adds(ch[a][c], Append(ch[a][c], m), m)
  BY <1>1, QueueFacts
<1>3. Push(ch, a, c, m) \in Channels
  BY PushType
<1> QED
  BY <1>0, <1>1, <1>2, <1>3

\* A request of an attached CP goes on the pipe of a.
LEMMA Asked ==
  ASSUME NEW a \in CP, Wired(a), NEW c \in CP, NEW s, s.peerOut = ha[c].peerOut, s.peerIn = ha[c].peerIn,
         Attached(s), NEW ch, NEW m
  PROVE  SendRequest(ch, c, s, m) = Push(ch, a, c, m)
<1>1. CASE c = a
  BY <1>1 DEF Wired, Attached, SendRequest, RpcPipe
<1>2. CASE c # a
  <2>1. c = Peer(a) /\ Peer(c) = a
    BY <1>2 DEF Peer
  <2> QED
    BY <2>1 DEF Wired, SendRequest, RpcPipe
<1> QED
  BY <1>1, <1>2

\* The pair after a step is the invariant after it.
LEMMA NextPair ==
  ASSUME NEW a \in CP, Wired(a)',
         Agrees(a, ha'[Senior], ha'[Junior], chan'[a][Senior], chan'[a][Junior],
                link'[a] = "up", ha'[a].peerOut = "live")
  PROVE  OnePipeInv(a)'
  BY DEF OnePipeInv

\* A step that touches no pipe.
LEMMA SamePipe ==
  ASSUME NEW a \in CP, Wired(a), UNCHANGED <<link, orphan>>,
         \A s \in CP : chan'[Peer(a)][s] = << >> /\ (link[a] # "up" => chan'[a][s] = chan[a][s]),
         \A c \in CP : ha'[c].out = ha[c].out /\ ha'[c].peerIn = ha[c].peerIn /\ ha'[c].peerOut = ha[c].peerOut,
         Agrees(a, ha'[Senior], ha'[Junior], chan'[a][Senior], chan'[a][Junior],
                link[a] = "up", ha[a].peerOut = "live")
  PROVE  OnePipeInv(a)'
<1>1. Wired(a)'
  BY PeerType DEF Wired
<1>2. (link'[a] = "up") = (link[a] = "up") /\ (ha'[a].peerOut = "live") = (ha[a].peerOut = "live")
  OBVIOUS
<1> QED
  BY <1>1, <1>2, NextPair

\* r is s after its CP c took the declared state m.
Heeds(c, s, m, r) ==
  /\ r \in HaState
  /\ r.term >= s.term /\ r.term >= m.term
  /\ r.term = s.term \/ r.term <= m.term + 1
  /\ r.peerTerm = m.term /\ r.peerPriority = m.priority
  /\ r.electing = s.electing /\ r.out = s.out /\ r.peerIn = s.peerIn /\ r.peerOut = s.peerOut
  /\ r.electedTerm # 0 => s.electedTerm # 0 \/ r.electedTerm = m.term
  /\ (s.electedTerm # 0 /\ s.role = "leader" => s.leader = c) =>
       (r.electedTerm # 0 /\ r.role = "leader" => r.leader = c)
  /\ r.term = s.term =>
       /\ r.leader = s.leader /\ r.electedTerm = s.electedTerm
       /\ s.leader = c => r.role = s.role /\ r.phase = s.phase
  /\ r.phase = "leader-leased" => s.phase = "leader-leased"

\* What a state frame makes of the object that takes it.
LEMMA PeerStateHeeds ==
  ASSUME NEW c \in CP, NEW s \in HaState, NEW m \in PeerStateMsg
  PROVE  Heeds(c, s, m, OnPeerState(c, s, m))
<1> DEFINE r == OnPeerState(c, s, m)
<1> USE DEF Heeds
<1> DEFINE t == NotePeer(s, m)
<1>1. /\ t \in HaState /\ t.term = s.term /\ t.peerTerm = m.term /\ t.peerPriority = m.priority
      /\ t.electing = s.electing /\ t.out = s.out /\ t.peerIn = s.peerIn /\ t.peerOut = s.peerOut
      /\ t.electedTerm = s.electedTerm /\ t.role = s.role /\ t.leader = s.leader /\ t.phase = s.phase
  BY DEF NotePeer, HaState, PeerStateMsg
<1>2. m.term \in Nat /\ m.leader \in CP
  BY DEF PeerStateMsg
<1>3. t.term \in Nat /\ t.leader \in CP
  BY <1>1 DEF HaState
<1>r. r \in HaState
  BY OnPeerStateType
<1> HIDE DEF t
<1>4. CASE m.term > t.term
  <2>1. r = AcceptPeer(c, t, m)
    BY <1>4, <1>2, <1>3 DEF OnPeerState, JudgeTerm, t
  <2> DEFINE u == AcceptPeer(c, t, m)
  <2>2. /\ u.term = m.term /\ u.leader = m.leader /\ u.peerTerm = t.peerTerm /\ u.peerPriority = t.peerPriority
        /\ u.electing = t.electing /\ u.out = t.out /\ u.peerIn = t.peerIn /\ u.peerOut = t.peerOut
    BY <1>1 DEF AcceptPeer, PersistState, HaState
  <2>3. /\ u.electedTerm \in {m.term, t.electedTerm} /\ u.phase # "leader-leased"
        /\ u.role = "leader" => u.leader = c
    BY <1>1 DEF AcceptPeer, PersistState, HaState
  <2> HIDE DEF u
  <2> QED
    BY <1>1, <1>2, <1>3, <1>4, <1>r, <2>1, <2>2, <2>3 DEF u
<1>5. CASE m.term < t.term \/ (m.term = t.term /\ m.leader = t.leader)
  <2>1. r = FollowLeased(c, t, m)
    BY <1>5, <1>2, <1>3 DEF OnPeerState, JudgeTerm, t
  <2> DEFINE u == FollowLeased(c, t, m)
  <2>2. /\ u.term = t.term /\ u.leader = t.leader /\ u.peerTerm = t.peerTerm /\ u.peerPriority = t.peerPriority
        /\ u.electing = t.electing /\ u.out = t.out /\ u.peerIn = t.peerIn /\ u.peerOut = t.peerOut
        /\ u.electedTerm = t.electedTerm
    BY <1>1 DEF FollowLeased, HaState
  <2>3. /\ t.leader = c => u = t
        /\ u.phase = "leader-leased" => t.phase = "leader-leased"
        /\ u.role = "leader" => t.role = "leader"
    BY <1>1 DEF FollowLeased, HaState
  <2> HIDE DEF u
  <2> QED
    BY <1>1, <1>2, <1>3, <1>5, <1>r, <2>1, <2>2, <2>3 DEF u
<1>6. CASE m.term = t.term /\ m.leader # t.leader
  <2>1. r = SplitBrain(t)
    BY <1>6, <1>2, <1>3 DEF OnPeerState, JudgeTerm, t
  <2> DEFINE u == SplitBrain(t)
  <2>2. /\ u.term = t.term + 1 /\ u.leader = t.leader /\ u.peerTerm = t.peerTerm /\ u.peerPriority = t.peerPriority
        /\ u.electing = t.electing /\ u.out = t.out /\ u.peerIn = t.peerIn /\ u.peerOut = t.peerOut
        /\ u.electedTerm = t.electedTerm /\ u.role = t.role /\ u.phase = "read-only-no-quorum"
    BY <1>1 DEF SplitBrain, PersistState, HaState
  <2> HIDE DEF u
  <2> QED
    BY <1>1, <1>2, <1>3, <1>6, <1>r, <2>1, <2>2 DEF u
<1> QED
  BY <1>2, <1>3, <1>4, <1>5, <1>6

\* The invariant, as the pair of the two.
LEMMA PairNow ==
  ASSUME IInv, NEW a \in CP, OnePipeInv(a)
  PROVE  Pair(a, ha[Senior], ha[Junior], chan[a][Senior], chan[a][Junior], link[a] = "up", ha[a].peerOut = "live")
<1>1. Wired(a) /\ Agrees(a, ha[Senior], ha[Junior], chan[a][Senior], chan[a][Junior],
                         link[a] = "up", ha[a].peerOut = "live")
  BY DEF OnePipeInv
<1> HIDE DEF CP
<1>2. Senior \in CP /\ Junior \in CP
  BY PairIs
<1>3. /\ Counts(ha[Senior]) /\ Counts(ha[Junior])
      /\ Numbers(chan[a][Senior]) /\ Numbers(chan[a][Junior])
      /\ \A i \in DOMAIN chan[a][Senior] : i \in Nat /\ i >= 1
      /\ \A i \in DOMAIN chan[a][Junior] : i \in Nat /\ i >= 1
  BY <1>1, <1>2, PairFacts
<1> QED
  BY <1>1, <1>3 DEF Pair

----------------------------------------------------------------------------
(***************************************************************************)
(* A step of one object, seen from the pair.                               *)
(***************************************************************************)

HIDE DEF CP

\* A step of c, which is s after it, that touches no pipe.
LEMMA PairDid ==
  ASSUME IInv, NEW a \in CP, Wired(a), NEW c \in CP,
         \A e \in CP : e # c => ha'[e] = ha[e],
         ha'[c].out = ha[c].out, ha'[c].peerIn = ha[c].peerIn, ha'[c].peerOut = ha[c].peerOut,
         UNCHANGED <<link, orphan>>,
         \A s \in CP : chan'[Peer(a)][s] = << >>,
         link[a] # "up" => \A s \in CP : chan'[a][s] = chan[a][s],
         Agrees(a, ha'[Senior], ha'[Junior], chan'[a][Senior], chan'[a][Junior],
                link[a] = "up", ha[a].peerOut = "live")
  PROVE  OnePipeInv(a)'
<1>1. \A e \in CP : ha'[e].out = ha[e].out /\ ha'[e].peerIn = ha[e].peerIn /\ ha'[e].peerOut = ha[e].peerOut
  OBVIOUS
<1> QED
  BY <1>1, SamePipe

\* A state frame at the senior.
LEMMA SeniorReceivesState ==
  ASSUME IInv, NEW a \in CP, OnePipeInv(a), NEW d \in CP, ReceiveState(Senior, d)
  PROVE  OnePipeInv(a)'
<1> DEFINE W == ha[Senior]
           L == ha[Junior]
           p == chan[a][Senior]
           q == chan[a][Junior]
           up == link[a] = "up"
           on == ha[a].peerOut = "live"
           m == Frame(Senior, d)
           V == OnPeerState(Senior, W, m)
           popped == Popped(Senior, d)
           q2 == popped[a][Junior]
           x == CurrentState("syncReply", Senior, V)
<1>w. Wired(a) /\ Pair(a, W, L, p, q, up, on)
  BY PairNow DEF OnePipeInv
<1>1. /\ Senior \in CP /\ Junior \in CP /\ Peer(Senior) = Junior /\ Senior # Junior
      /\ W \in HaState /\ ha \in [CP -> HaState]
  BY PairIs DEF IInv, TypeOK
<1>3. /\ chan[d][Peer(Senior)] # << >> /\ m.type \in {"sync", "heartbeat"}
      /\ ha' = [ha EXCEPT ![Senior] = V] /\ UNCHANGED <<link, orphan>>
      /\ chan' = IF m.type = "sync" THEN Push(popped, d, Senior, x) ELSE popped
  BY DEF ReceiveState, HasFrame
<1>4. /\ d = a /\ up /\ m = q[1] /\ m \in Message /\ popped \in Channels /\ Pops(q, q2) /\ popped[a][Senior] = p
      /\ \A s \in CP : popped[Peer(a)][s] = << >>
  BY <1>w, <1>1, <1>3, Took
<1>5. m \in PeerStateMsg /\ Tells(m) /\ IsState(m)
  BY <1>3, <1>4, MessageTypes DEF Tells, IsState, IsHello
<1>h. ha'[Senior] = V /\ \A e \in CP : e # Senior => ha'[e] = ha[e]
  BY <1>1, <1>3
<1> HIDE DEF m, popped
<1>7. Heeds(Senior, W, m, V)
  BY <1>1, <1>5, PeerStateHeeds
<1> HIDE DEF V, W, L, p, q, q2, up, on
<1>6. SeniorTook(a, W, p, q, on, V, q2, on) /\ V.peerPriority = Priority[Junior]
  <2>1. Agrees(a, W, L, p, q, up, on) /\ on \in BOOLEAN
    BY <1>w DEF Pair
  <2>2. m.priority = Priority[Junior] /\ (W.electedTerm # 0 /\ W.role = "leader" => W.leader = Senior)
    BY <1>4, <1>5, <2>1 DEF Agrees, Known, Pops
  <2>3. Counts(V)
    BY <1>7 DEF Heeds, HaState, Counts
  <2>4. V.term = W.term /\ (~Attached(W) \/ Leads(W)) => ~Attached(V) \/ Leads(V)
    BY <1>7 DEF Heeds, Attached, Leads
  <2> QED
    BY <1>4, <1>5, <1>7, <2>1, <2>2, <2>3, <2>4 DEF Heeds, SeniorTook
<1>8. Pair(a, V, L, p, q2, up, on)
  BY <1>w, <1>6, SeniorTakes
<1>d. V.out = W.out /\ V.peerIn = W.peerIn /\ V.peerOut = W.peerOut
  BY <1>7 DEF Heeds
<1>13. CASE m.type = "heartbeat"
  <2>1. chan' = popped
    BY <1>3, <1>13
  <2> QED
    BY <1>w, <1>1, <1>3, <1>4, <1>8, <1>d, <1>h, <2>1, PairDid DEF Pair, W, L, p, q2, up, on
<1>14. CASE m.type = "sync"
  <2>0. Agrees(a, W, L, p, q, up, on) /\ Counts(W) /\ Counts(V)
    BY <1>w, <1>8 DEF Pair
  <2>1. a # Senior /\ Hello(on, q, p) /\ 1 \in DOMAIN q
    BY <1>4, <1>14, <2>0 DEF Agrees, Hello, Pops
  <2>2. /\ ~on
        /\ \A i \in DOMAIN q2 : q2[i].type # "sync"
        /\ \A i \in DOMAIN p : p[i].type # "syncReply"
    BY <1>4, <1>14, <2>1 DEF Hello, Pops
  <2>3. L.term <= V.term + 1
    <3>1. L.term <= m.term + 1 \/ L.term <= W.term + 1
      BY <1>4, <1>14, <2>0, <2>1 DEF Agrees, Terms, IsHello
    <3>2. m.term \in Nat
      BY <1>5 DEF PeerStateMsg
    <3>3. L.term \in Nat
      BY <1>w DEF Pair, Counts
    <3> QED
      BY <1>7, <2>0, <3>1, <3>2, <3>3 DEF Counts, Heeds
  <2>4. /\ x.type = "syncReply" /\ x.term = V.term /\ x \in Message
    BY <1>1, <1>7, StateMessageType DEF CurrentState, Heeds
  <2> DEFINE ch == Push(popped, a, Senior, x)
             p2 == ch[a][Senior]
  <2>9. chan' = ch
    BY <1>3, <1>4, <1>14
  <2> HIDE DEF x
  <2>5. /\ Adds(p, p2, x) /\ ch[a][Junior] = q2
        /\ \A s \in CP : ch[Peer(a)][s] = << >>
    BY <1>1, <1>4, <2>4, Put DEF q2, up
  <2> HIDE DEF ch, p2
  <2>7. SeniorSent(a, V, L, p, q2, on, x, p2)
    BY <1>6, <2>0, <2>1, <2>2, <2>3, <2>4, <2>5
       DEF SeniorSent, Tells, IsState, IsHello, Wins, Proposes, Asks, Grants, Counts
  <2>8. Pair(a, V, L, p2, q2, up, on)
    BY <1>8, <2>7, SeniorSends
  <2> QED
    BY <1>w, <1>1, <1>3, <1>4, <1>d, <1>h, <2>5, <2>8, <2>9, PairDid DEF Pair, W, L, p2, up, on
<1> QED
  BY <1>3, <1>13, <1>14

\* A state frame at the junior.
LEMMA JuniorReceivesState ==
  ASSUME IInv, NEW a \in CP, OnePipeInv(a), NEW d \in CP, ReceiveState(Junior, d)
  PROVE  OnePipeInv(a)'
<1> DEFINE W == ha[Senior]
           L == ha[Junior]
           p == chan[a][Senior]
           q == chan[a][Junior]
           up == link[a] = "up"
           on == ha[a].peerOut = "live"
           m == Frame(Junior, d)
           M == OnPeerState(Junior, L, m)
           popped == Popped(Junior, d)
           p2 == popped[a][Senior]
           x == CurrentState("syncReply", Junior, M)
<1>w. Wired(a) /\ Pair(a, W, L, p, q, up, on)
  BY PairNow DEF OnePipeInv
<1>1. /\ Senior \in CP /\ Junior \in CP /\ Peer(Junior) = Senior /\ Senior # Junior
      /\ L \in HaState /\ ha \in [CP -> HaState]
  BY PairIs DEF IInv, TypeOK
<1>3. /\ chan[d][Peer(Junior)] # << >> /\ m.type \in {"sync", "heartbeat"}
      /\ ha' = [ha EXCEPT ![Junior] = M] /\ UNCHANGED <<link, orphan>>
      /\ chan' = IF m.type = "sync" THEN Push(popped, d, Junior, x) ELSE popped
  BY DEF ReceiveState, HasFrame
<1>4. /\ d = a /\ up /\ m = p[1] /\ m \in Message /\ popped \in Channels /\ Pops(p, p2) /\ popped[a][Junior] = q
      /\ \A s \in CP : popped[Peer(a)][s] = << >>
  BY <1>w, <1>1, <1>3, Took
<1>5. m \in PeerStateMsg /\ Tells(m)
  BY <1>3, <1>4, MessageTypes DEF Tells, IsState, IsHello
<1>h. ha'[Junior] = M /\ \A e \in CP : e # Junior => ha'[e] = ha[e]
  BY <1>1, <1>3
<1> HIDE DEF m, popped
<1>7. Heeds(Junior, L, m, M)
  BY <1>1, <1>5, PeerStateHeeds
<1> HIDE DEF M, W, L, p, q, p2, up, on
<1>6. JuniorTook(a, L, p, up, on, M, p2, on)
  <2>1. Counts(M) /\ on \in BOOLEAN
    BY <1>w, <1>7 DEF Heeds, HaState, Counts, Pair
  <2> QED
    BY <1>4, <1>5, <1>7, <2>1 DEF Heeds, JuniorTook
<1>8. Pair(a, W, M, p2, q, up, on)
  BY <1>w, <1>6, JuniorTakes
<1>d. M.out = L.out /\ M.peerIn = L.peerIn /\ M.peerOut = L.peerOut
  BY <1>7 DEF Heeds
<1>13. CASE m.type = "heartbeat"
  <2>1. chan' = popped
    BY <1>3, <1>13
  <2> QED
    BY <1>w, <1>1, <1>3, <1>4, <1>8, <1>d, <1>h, <2>1, PairDid DEF Pair, W, L, p2, q, up, on
<1>14. CASE m.type = "sync"
  <2>0. Agrees(a, W, L, p, q, up, on) /\ Counts(M)
    BY <1>w, <1>8 DEF Pair
  <2>1. a = Senior /\ Hello(on, p, q) /\ 1 \in DOMAIN p
    BY <1>4, <1>14, <2>0 DEF Agrees, Hello, Pops
  <2>2. /\ ~on
        /\ \A i \in DOMAIN p2 : p2[i].type # "sync"
        /\ \A i \in DOMAIN q : q[i].type # "syncReply"
    BY <1>4, <1>14, <2>1 DEF Hello, Pops
  <2>4. /\ x.type = "syncReply" /\ x.term = M.term /\ x.priority = Priority[Junior] /\ x \in Message
    BY <1>1, <1>7, StateMessageType DEF CurrentState, Heeds
  <2> DEFINE ch == Push(popped, a, Junior, x)
             q2 == ch[a][Junior]
  <2>9. chan' = ch
    BY <1>3, <1>4, <1>14
  <2> HIDE DEF x
  <2>5. /\ Adds(q, q2, x) /\ ch[a][Senior] = p2
        /\ \A s \in CP : ch[Peer(a)][s] = << >>
    BY <1>1, <1>4, <2>4, Put DEF p2, up
  <2> HIDE DEF ch, q2
  <2>7. JuniorSent(a, W, M, p2, q, on, x, q2)
    BY <2>0, <2>1, <2>2, <2>4, <2>5
       DEF JuniorSent, Tells, IsState, IsHello, Wins, Proposes, Asks, Grants, Decides, Counts
  <2>8. Pair(a, W, M, p2, q2, up, on)
    BY <1>8, <2>7, JuniorSends
  <2> QED
    BY <1>w, <1>1, <1>3, <1>4, <1>d, <1>h, <2>5, <2>8, <2>9, PairDid DEF Pair, W, L, q2, up, on
<1> QED
  BY <1>3, <1>13, <1>14

\* The dialer takes the answer to its sync.
LEMMA SeniorReceivesSyncReply ==
  ASSUME IInv, NEW a \in CP, OnePipeInv(a), NEW d \in CP, ReceiveSyncReply(Senior, d)
  PROVE  OnePipeInv(a)'
<1> DEFINE W == ha[Senior]
           L == ha[Junior]
           p == chan[a][Senior]
           q == chan[a][Junior]
           up == link[a] = "up"
           on == ha[a].peerOut = "live"
           m == Frame(Senior, d)
           U == [W EXCEPT !.out = "identified", !.peerOut = "live"]
           V == OnPeerState(Senior, U, m)
           popped == Popped(Senior, d)
           q2 == popped[a][Junior]
<1>w. Wired(a) /\ Pair(a, W, L, p, q, up, on)
  BY PairNow DEF OnePipeInv
<1>1. /\ Senior \in CP /\ Junior \in CP /\ Peer(Senior) = Junior /\ Senior # Junior
      /\ W \in HaState /\ ha \in [CP -> HaState]
  BY PairIs DEF IInv, TypeOK
<1>3. /\ chan[d][Peer(Senior)] # << >> /\ m.type = "syncReply"
      /\ ha' = [ha EXCEPT ![Senior] = V] /\ UNCHANGED <<link, orphan>>
      /\ chan' = popped
  BY DEF ReceiveSyncReply, HasFrame
<1>4. /\ d = a /\ up /\ m = q[1] /\ m \in Message /\ popped \in Channels /\ Pops(q, q2) /\ popped[a][Senior] = p
      /\ \A s \in CP : popped[Peer(a)][s] = << >>
  BY <1>w, <1>1, <1>3, Took
<1>5. m \in PeerStateMsg /\ Tells(m) /\ IsState(m)
  BY <1>3, <1>4, MessageTypes DEF Tells, IsState, IsHello
<1>h. ha'[Senior] = V /\ \A e \in CP : e # Senior => ha'[e] = ha[e]
  BY <1>1, <1>3
<1>u. /\ U \in HaState /\ U.term = W.term /\ U.peerTerm = W.peerTerm /\ U.peerPriority = W.peerPriority
      /\ U.electedTerm = W.electedTerm /\ U.role = W.role /\ U.leader = W.leader /\ U.phase = W.phase
      /\ U.electing = W.electing /\ U.peerIn = W.peerIn /\ U.out = "identified" /\ U.peerOut = "live"
  BY <1>1 DEF HaState
<1> HIDE DEF m, popped, U
<1>7. Heeds(Senior, U, m, V)
  BY <1>1, <1>5, <1>u, PeerStateHeeds
<1> HIDE DEF V, W, L, p, q, q2, up, on
<1>s. a = Senior /\ ~on
  BY <1>w, <1>3, <1>4 DEF Pair, Agrees, Hello, Pops
<1>6. SeniorTook(a, W, p, q, on, V, q2, TRUE)
  <2>1. Agrees(a, W, L, p, q, up, on) /\ on \in BOOLEAN
    BY <1>w DEF Pair
  <2>2. m.priority = Priority[Junior] /\ (W.electedTerm # 0 /\ W.role = "leader" => W.leader = Senior)
    BY <1>4, <1>5, <2>1 DEF Agrees, Known, Pops
  <2>3. Counts(V)
    BY <1>7 DEF Heeds, HaState, Counts
  <2> QED
    BY <1>3, <1>4, <1>5, <1>7, <1>s, <1>u, <2>1, <2>2, <2>3 DEF Heeds, SeniorTook
<1>8. Pair(a, V, L, p, q2, up, TRUE)
  BY <1>w, <1>6, SeniorTakes
<1>d. V.out = "identified" /\ V.peerIn = W.peerIn /\ V.peerOut = "live"
  BY <1>7, <1>u DEF Heeds
<1>9. Wired(a)'
  <2>1. ha'[Peer(a)] = ha[Peer(a)] /\ ha'[a] = V /\ W.peerIn = ha[a].peerIn
    BY <1>h, <1>s, PeerType DEF W
  <2>2. up <=> link[a] = "up"
    BY DEF up
  <2> QED
    BY <1>w, <1>3, <1>4, <1>d, <2>1, <2>2 DEF Wired
<1>10. Agrees(a, ha'[Senior], ha'[Junior], chan'[a][Senior], chan'[a][Junior], link'[a] = "up", ha'[a].peerOut = "live")
  BY <1>1, <1>3, <1>4, <1>8, <1>d, <1>h, <1>s DEF Pair, L, p, q2, up
<1> QED
  BY <1>9, <1>10, NextPair

\* The answer to a state frame at the junior.
LEMMA JuniorReceivesSyncReply ==
  ASSUME IInv, NEW a \in CP, OnePipeInv(a), NEW d \in CP, ReceiveSyncReply(Junior, d)
  PROVE  OnePipeInv(a)'
<1> DEFINE W == ha[Senior]
           L == ha[Junior]
           p == chan[a][Senior]
           q == chan[a][Junior]
           up == link[a] = "up"
           on == ha[a].peerOut = "live"
           m == Frame(Junior, d)
           K == [L EXCEPT !.out = "identified", !.peerOut = "live"]
           M == OnPeerState(Junior, K, m)
           popped == Popped(Junior, d)
           p2 == popped[a][Senior]
<1>w. Wired(a) /\ Pair(a, W, L, p, q, up, on)
  BY PairNow DEF OnePipeInv
<1>1. /\ Senior \in CP /\ Junior \in CP /\ Peer(Junior) = Senior /\ Senior # Junior
      /\ L \in HaState /\ ha \in [CP -> HaState]
  BY PairIs DEF IInv, TypeOK
<1>3. /\ chan[d][Peer(Junior)] # << >> /\ m.type = "syncReply"
      /\ ha' = [ha EXCEPT ![Junior] = M] /\ UNCHANGED <<link, orphan>>
      /\ chan' = popped
  BY DEF ReceiveSyncReply, HasFrame
<1>4. /\ d = a /\ up /\ m = p[1] /\ m \in Message /\ popped \in Channels /\ Pops(p, p2) /\ popped[a][Junior] = q
      /\ \A s \in CP : popped[Peer(a)][s] = << >>
  BY <1>w, <1>1, <1>3, Took
<1>5. m \in PeerStateMsg /\ Tells(m)
  BY <1>3, <1>4, MessageTypes DEF Tells, IsState, IsHello
<1>h. ha'[Junior] = M /\ \A e \in CP : e # Junior => ha'[e] = ha[e]
  BY <1>1, <1>3
<1>u. /\ K \in HaState /\ K.term = L.term /\ K.phase = L.phase /\ K.peerIn = L.peerIn
      /\ K.out = "identified" /\ K.peerOut = "live"
  BY <1>1 DEF HaState
<1> HIDE DEF m, popped, K
<1>7. Heeds(Junior, K, m, M)
  BY <1>1, <1>5, <1>u, PeerStateHeeds
<1> HIDE DEF M, W, L, p, q, p2, up, on
<1>s. a = Junior /\ a # Senior
  <2>1. a # Senior
    BY <1>w, <1>3, <1>4 DEF Pair, Agrees, Hello, Pops
  <2> QED
    BY <2>1, PairIs
<1>6. JuniorTook(a, L, p, up, on, M, p2, TRUE)
  <2>1. Counts(M) /\ on \in BOOLEAN
    BY <1>w, <1>7 DEF Heeds, HaState, Counts, Pair
  <2> QED
    BY <1>3, <1>4, <1>5, <1>7, <1>s, <1>u, <2>1 DEF Heeds, JuniorTook
<1>8. Pair(a, W, M, p2, q, up, TRUE)
  BY <1>w, <1>6, JuniorTakes
<1>d. M.out = "identified" /\ M.peerIn = L.peerIn /\ M.peerOut = "live"
  BY <1>7, <1>u DEF Heeds
<1>9. Wired(a)'
  <2>1. ha'[Peer(a)] = ha[Peer(a)] /\ ha'[a] = M /\ L.peerIn = ha[a].peerIn
    BY <1>h, <1>s, PeerType DEF L
  <2>2. up <=> link[a] = "up"
    BY DEF up
  <2> QED
    BY <1>w, <1>3, <1>4, <1>d, <2>1, <2>2 DEF Wired
<1>10. Agrees(a, ha'[Senior], ha'[Junior], chan'[a][Senior], chan'[a][Junior], link'[a] = "up", ha'[a].peerOut = "live")
  BY <1>1, <1>3, <1>4, <1>8, <1>d, <1>h, <1>s DEF Pair, W, q, p2, up
<1> QED
  BY <1>9, <1>10, NextPair

----------------------------------------------------------------------------
(***************************************************************************)
(* Frames taken without effect, and elections asked.                       *)
(***************************************************************************)

\* A frame taken without effect.
LEMMA SeniorDrops ==
  ASSUME NEW a, NEW W, NEW L, NEW p, NEW q, NEW up, NEW on, NEW q2,
         Pair(a, W, L, p, q, up, on), Pops(q, q2)
  PROVE  Pair(a, W, L, p, q2, up, on)
<1>1. W.electedTerm # 0 /\ W.role = "leader" => W.leader = Senior
  BY DEF Pair, Agrees, Known
<1>2. SeniorTook(a, W, p, q, on, W, q2, on)
  BY <1>1 DEF SeniorTook, Pair, Counts
<1> QED
  BY <1>2, SeniorTakes

\* The same for the junior.
LEMMA JuniorDrops ==
  ASSUME NEW a, NEW W, NEW L, NEW p, NEW q, NEW up, NEW on, NEW p2,
         Pair(a, W, L, p, q, up, on), Pops(p, p2)
  PROVE  Pair(a, W, L, p2, q, up, on)
<1>1. JuniorTook(a, L, p, up, on, L, p2, on)
  BY DEF JuniorTook, Pair, Counts
<1> QED
  BY <1>1, JuniorTakes

\* x is the reply to the proposal m.
Replies(ok, term, m, x) ==
  /\ x \in Message /\ x.type = "electReply" /\ x.ok = ok /\ x.term = term
  /\ x.proposed = m.term /\ x.for = m.for /\ m.term \in Nat

\* The vote an election is answered with.
LEMMA ElectReplyIs ==
  ASSUME NEW term \in Nat, NEW leader \in CP, NEW phase \in Phase, NEW m \in Message, m.type = "elect"
  PROVE  /\ Replies(TRUE, term, m, ElectReply(TRUE, term, leader, phase, m))
         /\ Replies(FALSE, term, m, ElectReply(FALSE, term, leader, phase, m))
<1>1. m.term \in Nat /\ m.for \in Caller
  BY MessageTypes DEF ElectMsg
<1>2. /\ ElectReply(TRUE, term, leader, phase, m) \in Message
      /\ ElectReply(FALSE, term, leader, phase, m) \in Message
  BY <1>1 DEF ElectReply, ElectReplyMsg, Message
<1> QED
  BY <1>1, <1>2 DEF ElectReply, Replies

\* What accepting an election makes of the object.
LEMMA AcceptIs ==
  ASSUME NEW c \in CP, NEW s \in HaState, NEW term \in Nat
  PROVE  /\ AcceptElection(c, s, term).term = term
         /\ AcceptElection(c, s, term).phase = "follower"
         /\ AcceptElection(c, s, term).out = s.out
         /\ AcceptElection(c, s, term).peerIn = s.peerIn
         /\ AcceptElection(c, s, term).peerOut = s.peerOut
  BY DEF AcceptElection, PersistState, HaState

\* An election at the senior.
LEMMA SeniorReceivesElect ==
  ASSUME IInv, NEW a \in CP, OnePipeInv(a), NEW d \in CP, ReceiveElect(Senior, d)
  PROVE  OnePipeInv(a)'
<1> DEFINE W == ha[Senior]
           L == ha[Junior]
           p == chan[a][Senior]
           q == chan[a][Junior]
           up == link[a] = "up"
           on == ha[a].peerOut = "live"
           m == Frame(Senior, d)
           popped == Popped(Senior, d)
           q2 == popped[a][Junior]
           x == ElectReply(FALSE, W.term, Senior, W.phase, m)
           ch == Push(popped, a, Senior, x)
           p2 == ch[a][Senior]
<1>w. Wired(a) /\ Pair(a, W, L, p, q, up, on) /\ (Attached(ha[a]) => on)
  BY PairNow, PairFacts DEF OnePipeInv
<1>1. /\ Senior \in CP /\ Junior \in CP /\ Peer(Senior) = Junior /\ Senior # Junior
      /\ W \in HaState
  BY PairIs DEF IInv, TypeOK
<1>2. W.term \in Nat /\ W.phase \in Phase
  BY <1>1 DEF HaState
<1>3. chan[d][Peer(Senior)] # << >> /\ m.type = "elect" /\ UNCHANGED <<link, orphan>>
  BY DEF ReceiveElect, HasFrame
<1>4. /\ d = a /\ up /\ m = q[1] /\ m \in Message /\ popped \in Channels /\ Pops(q, q2) /\ popped[a][Senior] = p
      /\ \A s \in CP : popped[Peer(a)][s] = << >>
  BY <1>w, <1>1, <1>3, Took
<1>5. Desired(Senior, W) = Senior
  <2>1. CASE ~PeerConnected(W)
    BY <1>1, <2>1, WinnerIs
  <2>2. CASE PeerConnected(W)
    <3>1. Agrees(a, W, L, p, q, up, on) /\ 1 \in DOMAIN q
      BY <1>w, <1>4 DEF Pair, Pops
    <3>2. on
      <4>1. CASE a = Senior
        BY <1>w, <2>2, <4>1 DEF PeerConnected
      <4>2. CASE a # Senior
        BY <1>3, <1>4, <3>1, <4>2 DEF Agrees, Hello
      <4> QED
        BY <4>1, <4>2
    <3>3. W.peerPriority = Priority[Junior]
      BY <1>4, <3>1, <3>2 DEF Agrees, Known, Met
    <3> QED
      BY <1>1, <3>3, WinnerIs
  <2> QED
    BY <2>1, <2>2
<1>6. ha' = ha /\ chan' = ch
  BY <1>1, <1>4, <1>5 DEF ReceiveElect
<1> HIDE DEF m, popped, W
<1>k. m \in Message /\ m.type = "elect" /\ Senior \in CP
  BY <1>1, <1>3, <1>4
<1>x. Replies(FALSE, W.term, m, x)
  BY <1>2, <1>k, ElectReplyIs
<1>7. x \in Message /\ x.type = "electReply" /\ x.ok = FALSE /\ x.term = W.term
  BY <1>x DEF Replies
<1> HIDE DEF x
<1>8. /\ Adds(p, p2, x) /\ ch[a][Junior] = q2
      /\ \A s \in CP : ch[Peer(a)][s] = << >>
  BY <1>1, <1>4, <1>7, Put
<1> HIDE DEF L, p, q, q2, p2, ch, up, on
<1>9. Pair(a, W, L, p, q2, up, on)
  BY <1>w, <1>4, SeniorDrops
<1>10. SeniorSent(a, W, L, p, q2, on, x, p2)
  BY <1>7, <1>8, <1>9 DEF SeniorSent, Tells, IsState, IsHello, Wins, Proposes, Asks, Grants, Counts, Pair
<1>11. Pair(a, W, L, p2, q2, up, on)
  BY <1>9, <1>10, SeniorSends
<1> QED
  BY <1>w, <1>1, <1>3, <1>4, <1>6, <1>8, <1>11, PairDid DEF Pair, W, L, p2, up, on

\* An election at the junior.
LEMMA JuniorReceivesElect ==
  ASSUME IInv, NEW a \in CP, OnePipeInv(a), NEW d \in CP, ReceiveElect(Junior, d)
  PROVE  OnePipeInv(a)'
<1> DEFINE W == ha[Senior]
           L == ha[Junior]
           p == chan[a][Senior]
           q == chan[a][Junior]
           up == link[a] = "up"
           on == ha[a].peerOut = "live"
           m == Frame(Junior, d)
           popped == Popped(Junior, d)
           p2 == popped[a][Senior]
           yes == ElectReply(TRUE, m.term, Senior, "follower", m)
           no == ElectReply(FALSE, L.term, Junior, L.phase, m)
           M == AcceptElection(Junior, L, m.term)
<1>w. Wired(a) /\ Pair(a, W, L, p, q, up, on) /\ (Attached(ha[a]) => on)
  BY PairNow, PairFacts DEF OnePipeInv
<1>1. /\ Senior \in CP /\ Junior \in CP /\ Peer(Junior) = Senior /\ Senior # Junior
      /\ L \in HaState /\ ha \in [CP -> HaState]
  BY PairIs DEF IInv, TypeOK
<1>2. L.term \in Nat /\ L.phase \in Phase /\ "follower" \in Phase
  BY <1>1 DEF HaState, Phase
<1>3. chan[d][Peer(Junior)] # << >> /\ m.type = "elect" /\ UNCHANGED <<link, orphan>>
  BY DEF ReceiveElect, HasFrame
<1>4. /\ d = a /\ up /\ m = p[1] /\ m \in Message /\ popped \in Channels /\ Pops(p, p2) /\ popped[a][Junior] = q
      /\ \A s \in CP : popped[Peer(a)][s] = << >>
  BY <1>w, <1>1, <1>3, Took
<1>5. \/ /\ Desired(Junior, L) = Senior /\ ha' = [ha EXCEPT ![Junior] = M]
         /\ chan' = Push(popped, a, Junior, yes)
      \/ ha' = ha /\ chan' = Push(popped, a, Junior, no)
  BY <1>1, <1>4 DEF ReceiveElect
<1> HIDE DEF m, popped, L
<1>k. m \in Message /\ m.type = "elect" /\ Senior \in CP /\ Junior \in CP /\ L \in HaState
  BY <1>1, <1>3, <1>4
<1>r. m.term \in Nat
  BY <1>k, MessageTypes DEF ElectMsg
<1>y1. Replies(TRUE, m.term, m, yes)
  BY <1>2, <1>k, <1>r, ElectReplyIs
<1>n1. Replies(FALSE, L.term, m, no)
  BY <1>2, <1>k, ElectReplyIs
<1>6. /\ yes \in Message /\ yes.type = "electReply" /\ yes.ok = TRUE
      /\ yes.proposed = m.term /\ yes.for = m.for /\ m.term \in Nat
      /\ no \in Message /\ no.type = "electReply" /\ no.ok = FALSE /\ no.term = L.term /\ no.for = m.for
  BY <1>y1, <1>n1 DEF Replies
<1>7. M.term = m.term /\ M.phase = "follower" /\ M.out = L.out /\ M.peerIn = L.peerIn /\ M.peerOut = L.peerOut
      /\ M \in HaState
  BY <1>k, <1>r, AcceptElectionType, AcceptIs
<1> HIDE DEF yes, no, M
<1>y. /\ Adds(q, Push(popped, a, Junior, yes)[a][Junior], yes) /\ Push(popped, a, Junior, yes)[a][Senior] = p2
      /\ \A s \in CP : Push(popped, a, Junior, yes)[Peer(a)][s] = << >>
  BY <1>1, <1>4, <1>6, Put
<1>n. /\ Adds(q, Push(popped, a, Junior, no)[a][Junior], no) /\ Push(popped, a, Junior, no)[a][Senior] = p2
      /\ \A s \in CP : Push(popped, a, Junior, no)[Peer(a)][s] = << >>
  BY <1>1, <1>4, <1>6, Put
<1>a. Agrees(a, W, L, p, q, up, on) /\ 1 \in DOMAIN p
  BY <1>w, <1>4 DEF Pair, Pops
<1>o. m.for = "election" => \A i \in DOMAIN p2 : ~Proposes(p2[i]) /\ ~Asks(p2[i])
  <2> HIDE DEF p, p2, W, L, q, up, on
  <2> QED
    BY <1>3, <1>4, <1>a DEF Agrees, Ordered, Pending, Proposes, Pops
<1>8. CASE Desired(Junior, L) = Senior /\ ha' = [ha EXCEPT ![Junior] = M] /\ chan' = Push(popped, a, Junior, yes)
  <2> DEFINE ch == Push(popped, a, Junior, yes)
             q2 == ch[a][Junior]
  <2>1. on
    <3>1. CASE a = Senior
      BY <1>3, <1>4, <1>a, <3>1 DEF Agrees, Hello
    <3>2. CASE a # Senior
      <4>1. a = Junior /\ Attached(L)
        BY <1>1, <1>8, <3>2, PairIs, WinnerIs DEF PeerConnected
      <4> QED
        BY <1>w, <4>1 DEF L
    <3> QED
      BY <3>1, <3>2
  <2>h. ha'[Junior] = M /\ \A e \in CP : e # Junior => ha'[e] = ha[e]
    BY <1>1, <1>8
  <2>c. chan' = ch
    BY <1>8
  <2> HIDE DEF W, L, p, q, p2, ch, q2, up, on
  <2>2. /\ L.term <= m.term
        /\ m.for = "election" => W.term <= m.term + 1
    <3>1. Heard(p, 1)
      BY <1>a, <2>1 DEF Agrees, Hello, Heard
    <3> QED
      BY <1>3, <1>4, <1>a, <2>1, <3>1 DEF Agrees, Rounds, Proposes, Pending, Met
  <2>3. W.peerTerm <= m.term
    <3>1. W.peerTerm <= L.term
      BY <1>a DEF Agrees, Terms
    <3> QED
      BY <1>w, <1>6, <2>2, <3>1 DEF Pair, Counts
  <2>4. JuniorTook(a, L, p, up, on, M, p2, on)
    BY <1>w, <1>3, <1>4, <1>7, <2>1, <2>2 DEF JuniorTook, Pair, Counts, HaState, Proposes
  <2>5. Pair(a, W, M, p2, q, up, on)
    BY <1>w, <2>4, JuniorTakes
  <2>6. JuniorSent(a, W, M, p2, q, on, yes, q2)
    BY <1>6, <1>7, <1>o, <1>y, <2>1, <2>2, <2>3
       DEF JuniorSent, Tells, IsState, IsHello, Wins, Proposes, Asks, Grants, Decides, q2, ch
  <2>7. Pair(a, W, M, p2, q2, up, on)
    BY <2>5, <2>6, JuniorSends
  <2> QED
    BY <1>w, <1>1, <1>3, <1>4, <1>7, <1>y, <2>h, <2>c, <2>7, PairDid DEF Pair, W, L, q2, up, on, ch
<1>9. CASE ha' = ha /\ chan' = Push(popped, a, Junior, no)
  <2> DEFINE ch == Push(popped, a, Junior, no)
             q2 == ch[a][Junior]
  <2> HIDE DEF W, L, p, q, p2, ch, q2, up, on
  <2>1. Pair(a, W, L, p2, q, up, on)
    BY <1>w, <1>4, JuniorDrops
  <2>2. JuniorSent(a, W, L, p2, q, on, no, q2)
    BY <1>6, <1>o, <1>n, <2>1
       DEF JuniorSent, Tells, IsState, IsHello, Wins, Proposes, Asks, Grants, Decides, q2, ch, Pair, Counts
  <2>3. Pair(a, W, L, p2, q2, up, on)
    BY <2>1, <2>2, JuniorSends
  <2> QED
    BY <1>w, <1>1, <1>3, <1>4, <1>9, <1>n, <2>3, PairDid DEF Pair, W, L, q2, up, on, ch
<1> QED
  BY <1>5, <1>8, <1>9

----------------------------------------------------------------------------
(***************************************************************************)
(* The answers to an election.                                             *)
(***************************************************************************)

\* Nobody awaits a second election once the answer to one is taken.
LEMMA OnlyReply ==
  ASSUME IInv, Elections, NEW a \in CP, Wired(a), NEW d \in CP, chan[d][Junior] # << >>,
         Frame(Senior, d).type = "electReply", Frame(Senior, d).for = "election"
  PROVE  /\ ha[Senior].electing = "asked"
         /\ \A i \in DOMAIN Popped(Senior, d)[a][Junior] : ~Decides(Popped(Senior, d)[a][Junior][i])
         /\ \A i \in DOMAIN Popped(Senior, d)[a][Senior] : ~Pending(Popped(Senior, d)[a][Senior][i])
<1> DEFINE ch == Popped(Senior, d)
<1>1. /\ Senior \in CP /\ Junior \in CP /\ Peer(Senior) = Junior /\ Senior # Junior
      /\ chan \in Channels
  BY PairIs, PairFacts
<1>2. OneAwaited(chan, Senior, ha[Senior].electing)
  BY <1>1 DEF Elections
<1>3. OfElection(Senior, Junior, Frame(Senior, d))
  BY <1>1 DEF OfElection
<1>4. NoneAwaited(ch, Senior) /\ ha[Senior].electing = "asked"
  BY <1>1, <1>2, <1>3, PoppedAwaits
<1> HIDE DEF ch
<1>5. \A i \in DOMAIN ch[a][Junior] : ~Decides(ch[a][Junior][i])
  BY <1>1, <1>4 DEF NoneAwaited, AwaitedIn, OfElection, Decides
<1>6. \A i \in DOMAIN ch[a][Senior] : ~Pending(ch[a][Senior][i])
  BY <1>1, <1>4 DEF NoneAwaited, AwaitedIn, OfElection, Pending, Proposes
<1> QED
  BY <1>4, <1>5, <1>6 DEF ch

\* V is s after its CP c won the election of the term and went on to the stage.
Elected(c, s, term, stage, V) ==
  /\ Counts(V) /\ V.electing = stage
  /\ V.term = term /\ V.electedTerm = term /\ V.leader = c /\ V.role = "leader"
  /\ V.phase = "nominating" /\ V.peerTerm = s.peerTerm /\ V.peerPriority = s.peerPriority
  /\ V.out = s.out /\ V.peerIn = s.peerIn /\ V.peerOut = s.peerOut

\* What winning makes of the object.
LEMMA WonIs ==
  ASSUME NEW c \in CP, NEW s \in HaState, NEW term \in Nat
  PROVE  /\ WinElection(c, s, term).term = term
         /\ WinElection(c, s, term).peerOut = s.peerOut
         /\ WinElection(c, s, term).peerIn = s.peerIn
         /\ Elected(c, s, term, "idle", [WinElection(c, s, term) EXCEPT !.electing = "idle"])
         /\ Elected(c, s, term, "leasing", [WinElection(c, s, term) EXCEPT !.electing = "leasing"])
  BY DEF Elected, WinElection, PersistState, HaState, Counts

\* What a refused election makes of the object.
LEMMA RefusalIs ==
  ASSUME NEW s \in HaState, NEW m \in ElectReplyMsg
  PROVE  /\ Counts(FollowRefusal(s, m))
         /\ FollowRefusal(s, m).term >= s.term
         /\ FollowRefusal(s, m).term = s.term \/ FollowRefusal(s, m).term = m.term
         /\ FollowRefusal(s, m).leader = m.leader
         /\ FollowRefusal(s, m).role = "follower"
         /\ FollowRefusal(s, m).phase # "leader-leased"
         /\ FollowRefusal(s, m).electing = "idle"
         /\ FollowRefusal(s, m).electedTerm = s.electedTerm
         /\ FollowRefusal(s, m).peerTerm = s.peerTerm
         /\ FollowRefusal(s, m).peerPriority = s.peerPriority
         /\ FollowRefusal(s, m).out = s.out
         /\ FollowRefusal(s, m).peerIn = s.peerIn
         /\ FollowRefusal(s, m).peerOut = s.peerOut
  BY DEF FollowRefusal, PersistState, MaxOf, HaState, ElectReplyMsg, Counts

\* A vote at the senior.
LEMMA SeniorReceivesElectReply ==
  ASSUME IInv, Elections, NEW a \in CP, OnePipeInv(a), NEW d \in CP, ReceiveElectReply(Senior, d)
  PROVE  OnePipeInv(a)'
<1> DEFINE W == ha[Senior]
           L == ha[Junior]
           p == chan[a][Senior]
           q == chan[a][Junior]
           up == link[a] = "up"
           on == ha[a].peerOut = "live"
           m == Frame(Senior, d)
           won == WinElection(Senior, W, m.proposed)
           V1 == [won EXCEPT !.electing = "leasing"]
           V2 == [won EXCEPT !.electing = "idle"]
           V3 == FollowRefusal(W, m)
           popped == Popped(Senior, d)
           q2 == popped[a][Junior]
           x == [type |-> "lease", term |-> won.term, epoch |-> won.term, for |-> "election"]
<1>w. Wired(a) /\ Pair(a, W, L, p, q, up, on) /\ (Attached(ha[a]) => on)
  BY PairNow, PairFacts DEF OnePipeInv
<1>1. /\ Senior \in CP /\ Junior \in CP /\ Peer(Senior) = Junior /\ Senior # Junior
      /\ W \in HaState /\ ha \in [CP -> HaState]
  BY PairIs DEF IInv, TypeOK
<1>3. /\ chan[d][Peer(Senior)] # << >> /\ m.type = "electReply" /\ m.for = "election"
      /\ UNCHANGED <<link, orphan>>
      /\ \/ /\ m.ok /\ PeerConnected(won) /\ ha' = [ha EXCEPT ![Senior] = V1]
            /\ chan' = SendRequest(popped, Senior, won, x)
         \/ m.ok /\ ha' = [ha EXCEPT ![Senior] = V2] /\ chan' = popped
         \/ ~m.ok /\ ha' = [ha EXCEPT ![Senior] = V3] /\ chan' = popped
  BY DEF ReceiveElectReply, HasFrame
<1>4. /\ d = a /\ up /\ m = q[1] /\ m \in Message /\ popped \in Channels /\ Pops(q, q2) /\ popped[a][Senior] = p
      /\ \A s \in CP : popped[Peer(a)][s] = << >>
      /\ Promises(ha, Junior, m)
  BY <1>w, <1>1, <1>3, Took
<1>5. /\ W.electing = "asked"
      /\ \A i \in DOMAIN q2 : ~Decides(q2[i])
      /\ \A i \in DOMAIN p : ~Pending(p[i])
  BY <1>w, <1>1, <1>3, <1>4, OnlyReply
<1>6. m \in ElectReplyMsg /\ m.proposed \in Nat /\ m.ok \in BOOLEAN
  BY <1>3, <1>4, MessageTypes DEF ElectReplyMsg
<1>a. Agrees(a, W, L, p, q, up, on) /\ on \in BOOLEAN
  BY <1>w DEF Pair
<1> HIDE DEF m, popped, W, L
<1>e. /\ won.term = m.proposed /\ won.peerOut = W.peerOut /\ won.peerIn = W.peerIn
      /\ Elected(Senior, W, m.proposed, "leasing", V1) /\ Elected(Senior, W, m.proposed, "idle", V2)
  <2>1. Senior \in CP /\ W \in HaState /\ m.proposed \in Nat
    BY <1>1, <1>6
  <2>2. won.term = m.proposed /\ won.peerOut = W.peerOut /\ won.peerIn = W.peerIn
    BY <2>1, WonIs
  <2>3. Elected(Senior, W, m.proposed, "leasing", V1)
    BY <2>1, WonIs
  <2>4. Elected(Senior, W, m.proposed, "idle", V2)
    BY <2>1, WonIs
  <2> QED
    BY <2>2, <2>3, <2>4
<1> HIDE DEF V1, V2
<1>7. /\ won.term = m.proposed /\ won.peerOut = W.peerOut /\ won.peerIn = W.peerIn
      /\ V1.term = m.proposed /\ V1.leader = Senior
      /\ V1.out = W.out /\ V1.peerIn = W.peerIn /\ V1.peerOut = W.peerOut
      /\ V2.out = W.out /\ V2.peerIn = W.peerIn /\ V2.peerOut = W.peerOut
  BY <1>e DEF Elected
<1>8. m.ok => SeniorWon(W, q, V1, q2) /\ SeniorWon(W, q, V2, q2)
  <2> HIDE DEF q, q2, won
  <2> QED
    BY <1>3, <1>4, <1>5, <1>6, <1>e DEF Elected, SeniorWon, Wins, Decides
<1>u. (link[a] = "up") = TRUE
  BY <1>4
<1>9. CASE m.ok /\ PeerConnected(won) /\ ha' = [ha EXCEPT ![Senior] = V1]
           /\ chan' = SendRequest(popped, Senior, won, x)
  <2> DEFINE ch == Push(popped, a, Senior, x)
             p2 == ch[a][Senior]
  <2>1. x \in Message /\ x.type = "lease" /\ x.for = "election" /\ x.term = m.proposed
    BY <1>6, <1>7 DEF LeaseMsg, Message, Caller
  <2>2. Attached(won)
    BY <1>9 DEF PeerConnected
  <2>3. chan' = ch
    <3> HIDE DEF won, x
    <3> QED
      BY <1>w, <1>1, <1>7, <1>9, <2>2, Asked DEF W
  <2>h. ha'[Senior] = V1 /\ \A e \in CP : e # Senior => ha'[e] = ha[e]
    BY <1>1, <1>9
  <2>4. a = Senior => on
    BY <1>w, <1>7, <2>2 DEF Attached, W
  <2> HIDE DEF x, won
  <2>5. /\ Adds(p, p2, x) /\ ch[a][Junior] = q2
        /\ \A s \in CP : ch[Peer(a)][s] = << >>
    BY <1>1, <1>4, <2>1, Put
  <2> HIDE DEF p, q, q2, p2, ch, up, on
  <2>6. Pair(a, V1, L, p, q2, TRUE, on)
    BY <1>w, <1>4, <1>8, <1>9, SeniorWins
  <2>7. SeniorSent(a, V1, L, p, q2, on, x, p2)
    BY <1>5, <1>6, <1>7, <2>1, <2>4, <2>5
       DEF SeniorSent, Tells, IsState, IsHello, Wins, Proposes, Asks, Grants
  <2>8. Pair(a, V1, L, p2, q2, TRUE, on)
    BY <2>6, <2>7, SeniorSends
  <2>9. Agrees(a, V1, L, p2, q2, link[a] = "up", on)
    BY <1>u, <2>8 DEF Pair
  <2> QED
    BY <1>w, <1>1, <1>3, <1>4, <1>7, <2>3, <2>h, <2>5, <2>9, PairDid DEF W, L, p2, up, on
<1>10. CASE m.ok /\ ha' = [ha EXCEPT ![Senior] = V2] /\ chan' = popped
  <2>h. ha'[Senior] = V2 /\ \A e \in CP : e # Senior => ha'[e] = ha[e]
    BY <1>1, <1>10
  <2> HIDE DEF p, q, q2, up, on
  <2>6. Pair(a, V2, L, p, q2, TRUE, on)
    BY <1>w, <1>4, <1>8, <1>10, SeniorWins
  <2>7. Agrees(a, V2, L, p, q2, link[a] = "up", on)
    BY <1>u, <2>6 DEF Pair
  <2> QED
    BY <1>w, <1>1, <1>3, <1>4, <1>7, <1>10, <2>h, <2>7, PairDid DEF W, L, p, q2, up, on
<1>11. CASE ~m.ok /\ ha' = [ha EXCEPT ![Senior] = V3] /\ chan' = popped
  <2>h. ha'[Senior] = V3 /\ \A e \in CP : e # Senior => ha'[e] = ha[e]
    BY <1>1, <1>11
  <2>1. /\ Counts(V3) /\ V3.term >= W.term /\ (V3.term = W.term \/ V3.term = m.term)
        /\ V3.role = "follower" /\ V3.phase # "leader-leased" /\ V3.electing = "idle"
        /\ V3.electedTerm = W.electedTerm /\ V3.peerTerm = W.peerTerm /\ V3.peerPriority = W.peerPriority
        /\ V3.out = W.out /\ V3.peerIn = W.peerIn /\ V3.peerOut = W.peerOut
    BY <1>1, <1>6, RefusalIs
  <2>2. Tells(m) /\ Decides(m) /\ m.term \in Nat
    BY <1>3, <1>6, <1>11 DEF Tells, Decides, ElectReplyMsg
  <2> HIDE DEF p, q, q2, up, on, V3
  <2>3. (\A i \in DOMAIN p : ~Asks(p[i])) /\ (\A i \in DOMAIN q2 : ~Grants(q2[i]))
    BY <1>a, <1>4, <2>2 DEF Agrees, Ordered, Pops
  <2>4. SeniorTook(a, W, p, q, on, V3, q2, on)
    BY <1>4, <1>5, <1>a, <2>1, <2>2, <2>3 DEF SeniorTook
  <2>5. Pair(a, V3, L, p, q2, up, on)
    BY <1>w, <2>4, SeniorTakes
  <2> QED
    BY <1>w, <1>1, <1>3, <1>4, <1>11, <2>h, <2>1, <2>5, PairDid DEF Pair, W, L, p, q2, up, on
<1> QED
  BY <1>3, <1>9, <1>10, <1>11

\* A vote at the junior.
LEMMA JuniorReceivesElectReply ==
  ASSUME IInv, NEW a \in CP, OnePipeInv(a), NEW d \in CP, ReceiveElectReply(Junior, d)
  PROVE  OnePipeInv(a)'
<1> DEFINE W == ha[Senior]
           L == ha[Junior]
           p == chan[a][Senior]
           q == chan[a][Junior]
           up == link[a] = "up"
           on == ha[a].peerOut = "live"
           m == Frame(Junior, d)
           M == FollowRefusal(L, m)
           popped == Popped(Junior, d)
           p2 == popped[a][Senior]
<1>w. Wired(a) /\ Pair(a, W, L, p, q, up, on)
  BY PairNow DEF OnePipeInv
<1>1. /\ Senior \in CP /\ Junior \in CP /\ Peer(Junior) = Senior /\ Senior # Junior
      /\ L \in HaState /\ ha \in [CP -> HaState]
  BY PairIs DEF IInv, TypeOK
<1>3. /\ chan[d][Peer(Junior)] # << >> /\ m.type = "electReply"
      /\ UNCHANGED <<link, orphan>>
      /\ m.ok \/ (~m.ok /\ ha' = [ha EXCEPT ![Junior] = M] /\ chan' = popped)
  BY DEF ReceiveElectReply, HasFrame
<1>4. /\ d = a /\ up /\ m = p[1] /\ m \in Message /\ popped \in Channels /\ Pops(p, p2) /\ popped[a][Junior] = q
      /\ \A s \in CP : popped[Peer(a)][s] = << >>
  BY <1>w, <1>1, <1>3, Took
<1>6. m \in ElectReplyMsg /\ m.term \in Nat
  BY <1>3, <1>4, MessageTypes DEF ElectReplyMsg
<1> HIDE DEF m, popped, L
<1>7. ~m.ok
  BY <1>w, <1>3, <1>4 DEF Pair, Agrees, Known, Wins, Pops
<1>8. ha' = [ha EXCEPT ![Junior] = M] /\ chan' = popped /\ Tells(m)
  BY <1>3, <1>7 DEF Tells
<1>h. ha'[Junior] = M /\ \A e \in CP : e # Junior => ha'[e] = ha[e]
  BY <1>1, <1>8
<1>9. /\ Counts(M) /\ M.term >= L.term /\ (M.term = L.term \/ M.term = m.term)
      /\ M.phase # "leader-leased" /\ M.out = L.out /\ M.peerIn = L.peerIn /\ M.peerOut = L.peerOut
  BY <1>1, <1>6, RefusalIs
<1> HIDE DEF W, p, q, p2, up, on, M
<1>10. JuniorTook(a, L, p, up, on, M, p2, on)
  BY <1>w, <1>4, <1>6, <1>8, <1>9 DEF JuniorTook, Pair
<1>11. Pair(a, W, M, p2, q, up, on)
  BY <1>w, <1>10, JuniorTakes
<1> QED
  BY <1>w, <1>1, <1>3, <1>4, <1>8, <1>h, <1>9, <1>11, PairDid DEF Pair, W, L, p2, q, up, on

----------------------------------------------------------------------------
(***************************************************************************)
(* Leases and their answers, and every frame received.                     *)
(***************************************************************************)

\* s is the object, V what acknowledging the lease m makes of it.
Acked(s, V) ==
  /\ Counts(V) /\ V.phase = "follower"
  /\ V.term = s.term /\ V.peerTerm = s.peerTerm /\ V.electedTerm = s.electedTerm
  /\ V.peerPriority = s.peerPriority /\ V.role = s.role /\ V.leader = s.leader /\ V.electing = s.electing
  /\ V.out = s.out /\ V.peerIn = s.peerIn /\ V.peerOut = s.peerOut

\* What acknowledging a lease makes of the object.
LEMMA AckIs ==
  ASSUME NEW h \in [CP -> HaState], NEW c \in CP, NEW n,
         NEW g, g = [h EXCEPT ![c].phase = "follower", ![c].leaseEpoch = n]
  PROVE  Acked(h[c], g[c]) /\ (\A e \in CP : e # c => g[e] = h[e])
  BY DEF Acked, HaState, Counts

\* x answers the lease m.
Answers(x, ok, m) == x \in Message /\ x.type = "leaseReply" /\ x.ok = ok /\ x.for = m.for

\* The answer to a lease.
LEMMA AnswerIs ==
  ASSUME NEW m \in LeaseMsg, NEW ok \in BOOLEAN
  PROVE  Answers([type |-> "leaseReply", ok |-> ok, for |-> m.for], ok, m)
  BY DEF LeaseMsg, LeaseReplyMsg, Message, Answers

\* A lease at the senior.
LEMMA SeniorReceivesLease ==
  ASSUME IInv, NEW a \in CP, OnePipeInv(a), NEW d \in CP, ReceiveLease(Senior, d)
  PROVE  OnePipeInv(a)'
<1> DEFINE W == ha[Senior]
           L == ha[Junior]
           p == chan[a][Senior]
           q == chan[a][Junior]
           up == link[a] = "up"
           on == ha[a].peerOut = "live"
           m == Frame(Senior, d)
           ack == AcksLease(Senior, W, m)
           V == ha'[Senior]
           popped == Popped(Senior, d)
           q2 == popped[a][Junior]
           x == [type |-> "leaseReply", ok |-> ack, for |-> m.for]
           ch == Push(popped, a, Senior, x)
           p2 == ch[a][Senior]
<1>w. Wired(a) /\ Pair(a, W, L, p, q, up, on)
  BY PairNow DEF OnePipeInv
<1>1. /\ Senior \in CP /\ Junior \in CP /\ Peer(Senior) = Junior /\ Senior # Junior
      /\ W \in HaState /\ ha \in [CP -> HaState]
  BY PairIs DEF IInv, TypeOK
<1>3. /\ chan[d][Peer(Senior)] # << >> /\ m.type = "lease" /\ UNCHANGED <<link, orphan>>
      /\ ha' = IF ack THEN [ha EXCEPT ![Senior].phase = "follower", ![Senior].leaseEpoch = m.epoch] ELSE ha
      /\ chan' = Push(popped, d, Senior, x)
  BY DEF ReceiveLease, HasFrame
<1>4. /\ d = a /\ up /\ m = q[1] /\ m \in Message /\ popped \in Channels /\ Pops(q, q2) /\ popped[a][Senior] = p
      /\ \A s \in CP : popped[Peer(a)][s] = << >>
  BY <1>w, <1>1, <1>3, Took
<1>5. m \in LeaseMsg /\ m.term \in Nat
  BY <1>3, <1>4, MessageTypes DEF LeaseMsg
<1>6. chan' = ch /\ ack \in BOOLEAN
  BY <1>3, <1>4 DEF AcksLease
<1>7. ack => m.term = W.term /\ W.leader # Senior
  BY DEF AcksLease
<1>a. Agrees(a, W, L, p, q, up, on) /\ on \in BOOLEAN /\ Counts(W) /\ Counts(L)
  BY <1>w DEF Pair
<1> HIDE DEF m, popped, ack
<1>8. Answers(x, ack, m)
  BY <1>5, <1>6, AnswerIs
<1> HIDE DEF x
<1>x. x \in Message /\ x.type = "leaseReply" /\ x.ok = ack /\ x.for = m.for
  BY <1>8 DEF Answers
<1>9. /\ Adds(p, p2, x) /\ ch[a][Junior] = q2
      /\ \A s \in CP : ch[Peer(a)][s] = << >>
  BY <1>1, <1>4, <1>x, Put
<1>10. CASE ack
  <2>1. ha' = [ha EXCEPT ![Senior].phase = "follower", ![Senior].leaseEpoch = m.epoch]
    BY <1>3, <1>10
  <2>2. Acked(W, V) /\ \A e \in CP : e # Senior => ha'[e] = ha[e]
    BY <1>1, <2>1, AckIs
  <2> HIDE DEF W, L, p, q, q2, p2, up, on, ch, V
  <2>3. W.electedTerm # 0 /\ W.role = "leader" => W.leader = Senior
    BY <1>a DEF Agrees, Known
  <2>4. SeniorTook(a, W, p, q, on, V, q2, on)
    BY <1>4, <1>7, <1>10, <1>a, <2>2, <2>3 DEF SeniorTook, Acked, Attached, Leads, Counts
  <2>5. Pair(a, V, L, p, q2, up, on)
    BY <1>w, <2>4, SeniorTakes
  <2>6. ASSUME Asks(m)
        PROVE  /\ \A i \in DOMAIN p : Asks(p[i]) => L.term > p[i].term
               /\ \A i \in DOMAIN q2 : ~Grants(q2[i])
    <3>1. L.term >= m.term
      BY <1>4, <1>a, <2>6 DEF Agrees, Leases, Pops
    <3>2. \A i \in DOMAIN p : Asks(p[i]) => W.term > p[i].term
      BY <1>7, <1>10, <1>a, <1>w DEF Agrees, Leases, Backs, Counts, Pair, Numbers
    <3>3. \A i \in DOMAIN p : Asks(p[i]) => L.term > p[i].term
      BY <1>7, <1>10, <1>a, <1>w, <3>1, <3>2 DEF Counts, Pair, Numbers
    <3>4. ~Backs(W, m)
      BY <1>7, <1>10 DEF Backs
    <3>5. \A i \in DOMAIN q2 : ~Grants(q2[i])
      BY <1>4, <1>a, <2>6, <3>4 DEF Agrees, Leases, Pops
    <3> QED
      BY <3>3, <3>5
  <2>7. SeniorSent(a, V, L, p, q2, on, x, p2)
    BY <1>3, <1>9, <1>x, <2>2, <2>6
       DEF SeniorSent, Acked, Tells, IsState, IsHello, Wins, Proposes, Asks, Grants
  <2>8. Pair(a, V, L, p2, q2, up, on)
    BY <2>5, <2>7, SeniorSends
  <2>d. V.out = W.out /\ V.peerIn = W.peerIn /\ V.peerOut = W.peerOut
    BY <2>2 DEF Acked
  <2> QED
    BY <1>w, <1>1, <1>3, <1>4, <1>6, <1>9, <2>2, <2>8, <2>d, PairDid DEF Pair, W, V, L, p2, up, on
<1>11. CASE ~ack
  <2>1. ha' = ha
    BY <1>3, <1>11
  <2> HIDE DEF W, L, p, q, q2, p2, up, on, ch, V
  <2>2. Pair(a, W, L, p, q2, up, on)
    BY <1>w, <1>4, SeniorDrops
  <2>3. SeniorSent(a, W, L, p, q2, on, x, p2)
    BY <1>9, <1>11, <1>x
       DEF SeniorSent, Tells, IsState, IsHello, Wins, Proposes, Asks, Grants
  <2>4. Pair(a, W, L, p2, q2, up, on)
    BY <2>2, <2>3, SeniorSends
  <2> QED
    BY <1>w, <1>1, <1>3, <1>4, <1>6, <1>9, <2>1, <2>4, PairDid DEF Pair, W, L, p2, up, on
<1> QED
  BY <1>10, <1>11

\* A lease at the junior.
LEMMA JuniorReceivesLease ==
  ASSUME IInv, NEW a \in CP, OnePipeInv(a), NEW d \in CP, ReceiveLease(Junior, d)
  PROVE  OnePipeInv(a)'
<1> DEFINE W == ha[Senior]
           L == ha[Junior]
           p == chan[a][Senior]
           q == chan[a][Junior]
           up == link[a] = "up"
           on == ha[a].peerOut = "live"
           m == Frame(Junior, d)
           ack == AcksLease(Junior, L, m)
           M == ha'[Junior]
           popped == Popped(Junior, d)
           p2 == popped[a][Senior]
           x == [type |-> "leaseReply", ok |-> ack, for |-> m.for]
           ch == Push(popped, a, Junior, x)
           q2 == ch[a][Junior]
<1>w. Wired(a) /\ Pair(a, W, L, p, q, up, on)
  BY PairNow DEF OnePipeInv
<1>1. /\ Senior \in CP /\ Junior \in CP /\ Peer(Junior) = Senior /\ Senior # Junior
      /\ L \in HaState /\ ha \in [CP -> HaState]
  BY PairIs DEF IInv, TypeOK
<1>3. /\ chan[d][Peer(Junior)] # << >> /\ m.type = "lease" /\ UNCHANGED <<link, orphan>>
      /\ ha' = IF ack THEN [ha EXCEPT ![Junior].phase = "follower", ![Junior].leaseEpoch = m.epoch] ELSE ha
      /\ chan' = Push(popped, d, Junior, x)
  BY DEF ReceiveLease, HasFrame
<1>4. /\ d = a /\ up /\ m = p[1] /\ m \in Message /\ popped \in Channels /\ Pops(p, p2) /\ popped[a][Junior] = q
      /\ \A s \in CP : popped[Peer(a)][s] = << >>
  BY <1>w, <1>1, <1>3, Took
<1>5. m \in LeaseMsg /\ m.term \in Nat
  BY <1>3, <1>4, MessageTypes DEF LeaseMsg
<1>6. chan' = ch /\ ack \in BOOLEAN
  BY <1>3, <1>4 DEF AcksLease
<1>7. ack => m.term = L.term
  BY DEF AcksLease
<1>a. Agrees(a, W, L, p, q, up, on) /\ on \in BOOLEAN /\ Counts(W) /\ Counts(L)
  BY <1>w DEF Pair
<1> HIDE DEF m, popped, ack
<1>8. Answers(x, ack, m)
  BY <1>5, <1>6, AnswerIs
<1> HIDE DEF x
<1>x. x \in Message /\ x.type = "leaseReply" /\ x.ok = ack /\ x.for = m.for
  BY <1>8 DEF Answers
<1>9. /\ Adds(q, q2, x) /\ ch[a][Senior] = p2
      /\ \A s \in CP : ch[Peer(a)][s] = << >>
  BY <1>1, <1>4, <1>x, Put
<1>10. CASE ack
  <2>1. ha' = [ha EXCEPT ![Junior].phase = "follower", ![Junior].leaseEpoch = m.epoch]
    BY <1>3, <1>10
  <2>2. Acked(L, M) /\ \A e \in CP : e # Junior => ha'[e] = ha[e]
    BY <1>1, <2>1, AckIs
  <2> HIDE DEF W, L, p, q, q2, p2, up, on, ch, M
  <2>4. JuniorTook(a, L, p, up, on, M, p2, on)
    BY <1>4, <1>a, <2>2 DEF JuniorTook, Acked, Counts
  <2>5. Pair(a, W, M, p2, q, up, on)
    BY <1>w, <2>4, JuniorTakes
  <2>6. ASSUME Asks(m)
        PROVE  /\ M.term <= W.term
               /\ \A i \in DOMAIN p2 : ~Grants(p2[i]) /\ (Tells(p2[i]) => p2[i].term <= W.term)
               /\ \A i \in DOMAIN q : ~Decides(q[i]) /\ (Asks(q[i]) => Backs(W, q[i]))
    <3>0. 1 \in DOMAIN p /\ m = p[1] /\ M.term = m.term /\ L.term = m.term
      BY <1>4, <1>7, <1>10, <2>2 DEF Pops, Acked
    <3>1. Backs(W, m)
      BY <1>a, <2>6, <3>0 DEF Agrees, Leases
    <3>2. \A i \in DOMAIN p2 : ~Grants(p2[i])
      <4>1. ASSUME NEW j \in DOMAIN p, 1 < j, Grants(p[j]) PROVE FALSE
        <5>1. L.term > p[1].term
          BY <1>a, <2>6, <3>0, <4>1 DEF Agrees, Leases
        <5> QED
          BY <1>5, <3>0, <5>1
      <4> QED
        BY <1>4, <4>1 DEF Pops
    <3>3. \A i \in DOMAIN p2 : Tells(p2[i]) => p2[i].term <= W.term
      BY <1>4, <1>a, <2>6, <3>0 DEF Agrees, Terms, Pops
    <3>4. \A i \in DOMAIN q : ~Decides(q[i])
      BY <1>a, <2>6, <3>0 DEF Agrees, Ordered
    <3>5. ASSUME NEW i \in DOMAIN q, Asks(q[i]) PROVE Backs(W, q[i])
      <4>1. L.term >= q[i].term /\ q[i].term \in Nat
        BY <1>a, <1>w, <3>5 DEF Agrees, Leases, Pair, Numbers
      <4> QED
        BY <1>5, <1>a, <3>0, <3>1, <4>1 DEF Backs, Counts
    <3> QED
      BY <3>0, <3>1, <3>2, <3>3, <3>4, <3>5 DEF Backs
  <2>7. JuniorSent(a, W, M, p2, q, on, x, q2)
    BY <1>3, <1>9, <1>x, <2>2, <2>6
       DEF JuniorSent, Acked, Tells, IsState, IsHello, Wins, Proposes, Asks, Grants, Decides
  <2>8. Pair(a, W, M, p2, q2, up, on)
    BY <2>5, <2>7, JuniorSends
  <2>d. M.out = L.out /\ M.peerIn = L.peerIn /\ M.peerOut = L.peerOut
    BY <2>2 DEF Acked
  <2> QED
    BY <1>w, <1>1, <1>3, <1>4, <1>6, <1>9, <2>2, <2>8, <2>d, PairDid DEF Pair, W, M, L, q2, up, on
<1>11. CASE ~ack
  <2>1. ha' = ha
    BY <1>3, <1>11
  <2> HIDE DEF W, L, p, q, q2, p2, up, on, ch, M
  <2>2. Pair(a, W, L, p2, q, up, on)
    BY <1>w, <1>4, JuniorDrops
  <2>3. JuniorSent(a, W, L, p2, q, on, x, q2)
    BY <1>9, <1>11, <1>x
       DEF JuniorSent, Tells, IsState, IsHello, Wins, Proposes, Asks, Grants, Decides
  <2>4. Pair(a, W, L, p2, q2, up, on)
    BY <2>2, <2>3, JuniorSends
  <2> QED
    BY <1>w, <1>1, <1>3, <1>4, <1>6, <1>9, <2>1, <2>4, PairDid DEF Pair, W, L, q2, up, on
<1> QED
  BY <1>10, <1>11

\* r is s after a lease reply m of its CP.
Settles(s, m, r) ==
  /\ Counts(r) /\ r.term = s.term /\ r.peerTerm = s.peerTerm /\ r.electedTerm = s.electedTerm
  /\ r.peerPriority = s.peerPriority /\ r.role = s.role /\ r.leader = s.leader
  /\ r.electing = "asked" => s.electing = "asked"
  /\ r.phase = s.phase \/ (r.phase = "leader-leased" /\ Grants(m))
  /\ r.out = s.out /\ r.peerIn = s.peerIn /\ r.peerOut = s.peerOut

\* An acknowledgement settles the lease it answers.
LEMMA SettlesReply ==
  ASSUME NEW s \in HaState, NEW m \in LeaseReplyMsg, m.for # "none"
  PROVE  LET t == IF m.ok /\ m.for # "renew" THEN TakeLease(s) ELSE s
         IN  Settles(s, m, t) /\ Settles(s, m, EndElection(t))
  BY DEF TakeLease, EndElection, HaState, LeaseReplyMsg, Caller, Grants, Settles, Counts

\* What settling makes of the object.
LEMMA SettledReply ==
  ASSUME IInv, NEW c \in CP, NEW d \in CP, chan[d][Peer(c)] # << >>, ReceiveLeaseReply(c, d)
  PROVE  /\ Settles(ha[c], Frame(c, d), ha'[c])
         /\ \A e \in CP : e # c => ha'[e] = ha[e]
<1> DEFINE m == Frame(c, d)
           t == IF m.ok /\ m.for # "renew" THEN TakeLease(ha[c]) ELSE ha[c]
           r == IF m.for = "election" THEN EndElection(t) ELSE t
<1>1. ha \in [CP -> HaState] /\ chan \in Channels
  BY DEF IInv, TypeOK, Channels
<1>2. m \in LeaseReplyMsg /\ m.for # "none" /\ ha' = [ha EXCEPT ![c] = r]
  BY <1>1, FrameType, MessageTypes DEF ReceiveLeaseReply
<1>3. Settles(ha[c], m, r)
  <2>1. ha[c] \in HaState
    BY <1>1
  <2> HIDE DEF m
  <2> QED
    BY <1>2, <2>1, SettlesReply
<1> HIDE DEF r, m
<1> QED
  BY <1>1, <1>2, <1>3 DEF m

\* The answer to a lease at the senior.
LEMMA SeniorReceivesLeaseReply ==
  ASSUME IInv, NEW a \in CP, OnePipeInv(a), NEW d \in CP, ReceiveLeaseReply(Senior, d)
  PROVE  OnePipeInv(a)'
<1> DEFINE W == ha[Senior]
           L == ha[Junior]
           p == chan[a][Senior]
           q == chan[a][Junior]
           up == link[a] = "up"
           on == ha[a].peerOut = "live"
           m == Frame(Senior, d)
           V == ha'[Senior]
           popped == Popped(Senior, d)
           q2 == popped[a][Junior]
<1>w. Wired(a) /\ Pair(a, W, L, p, q, up, on)
  BY PairNow DEF OnePipeInv
<1>1. Senior \in CP /\ Junior \in CP /\ Peer(Senior) = Junior /\ Senior # Junior
  BY PairIs
<1>3. chan[d][Peer(Senior)] # << >> /\ UNCHANGED <<link, orphan>> /\ chan' = popped
  BY DEF ReceiveLeaseReply, HasFrame
<1>4. /\ d = a /\ up /\ m = q[1] /\ Pops(q, q2) /\ popped[a][Senior] = p
      /\ \A s \in CP : popped[Peer(a)][s] = << >>
  BY <1>w, <1>1, <1>3, Took
<1>5. Settles(W, m, V) /\ \A e \in CP : e # Senior => ha'[e] = ha[e]
  BY <1>1, <1>3, SettledReply
<1>d. V.out = W.out /\ V.peerIn = W.peerIn /\ V.peerOut = W.peerOut
  BY <1>5 DEF Settles
<1> HIDE DEF m, popped, W, L, p, q, q2, up, on, V
<1>6. on \in BOOLEAN /\ Counts(W) /\ (W.electedTerm # 0 /\ W.role = "leader" => W.leader = Senior)
  BY <1>w DEF Pair, Agrees, Known
<1>7. SeniorTook(a, W, p, q, on, V, q2, on)
  BY <1>4, <1>5, <1>6 DEF SeniorTook, Settles, Counts, Attached, Leads
<1>8. Pair(a, V, L, p, q2, up, on)
  BY <1>w, <1>7, SeniorTakes
<1> QED
  BY <1>w, <1>1, <1>3, <1>4, <1>5, <1>8, <1>d, PairDid DEF Pair, W, V, L, p, q2, up, on

\* The answer to a lease at the junior.
LEMMA JuniorReceivesLeaseReply ==
  ASSUME IInv, NEW a \in CP, OnePipeInv(a), NEW d \in CP, ReceiveLeaseReply(Junior, d)
  PROVE  OnePipeInv(a)'
<1> DEFINE W == ha[Senior]
           L == ha[Junior]
           p == chan[a][Senior]
           q == chan[a][Junior]
           up == link[a] = "up"
           on == ha[a].peerOut = "live"
           m == Frame(Junior, d)
           M == ha'[Junior]
           popped == Popped(Junior, d)
           p2 == popped[a][Senior]
<1>w. Wired(a) /\ Pair(a, W, L, p, q, up, on)
  BY PairNow DEF OnePipeInv
<1>1. Senior \in CP /\ Junior \in CP /\ Peer(Junior) = Senior /\ Senior # Junior
  BY PairIs
<1>3. chan[d][Peer(Junior)] # << >> /\ UNCHANGED <<link, orphan>> /\ chan' = popped
  BY DEF ReceiveLeaseReply, HasFrame
<1>4. /\ d = a /\ up /\ m = p[1] /\ Pops(p, p2) /\ popped[a][Junior] = q
      /\ \A s \in CP : popped[Peer(a)][s] = << >>
  BY <1>w, <1>1, <1>3, Took
<1>5. Settles(L, m, M) /\ \A e \in CP : e # Junior => ha'[e] = ha[e]
  BY <1>1, <1>3, SettledReply
<1>d. M.out = L.out /\ M.peerIn = L.peerIn /\ M.peerOut = L.peerOut
  BY <1>5 DEF Settles
<1> HIDE DEF m, popped, W, L, p, q, p2, up, on, M
<1>6. on \in BOOLEAN /\ Counts(L)
  BY <1>w DEF Pair
<1>7. JuniorTook(a, L, p, up, on, M, p2, on)
  BY <1>4, <1>5, <1>6 DEF JuniorTook, Settles, Counts
<1>8. Pair(a, W, M, p2, q, up, on)
  BY <1>w, <1>7, JuniorTakes
<1> QED
  BY <1>w, <1>1, <1>3, <1>4, <1>5, <1>8, <1>d, PairDid DEF Pair, W, M, L, q, p2, up, on

\* A frame that changes nobody.
LEMMA PairDrops ==
  ASSUME IInv, NEW a \in CP, OnePipeInv(a), NEW c \in CP, NEW d \in CP,
         chan[d][Peer(c)] # << >>, chan' = Popped(c, d), UNCHANGED <<ha, link, orphan>>
  PROVE  OnePipeInv(a)'
<1> DEFINE W == ha[Senior]
           L == ha[Junior]
           p == chan[a][Senior]
           q == chan[a][Junior]
           up == link[a] = "up"
           on == ha[a].peerOut = "live"
           popped == Popped(c, d)
<1>w. Wired(a) /\ Pair(a, W, L, p, q, up, on)
  BY PairNow DEF OnePipeInv
<1>1. Senior \in CP /\ Junior \in CP /\ (c = Senior \/ c = Junior) /\ Peer(Senior) = Junior /\ Peer(Junior) = Senior
  BY PairIs
<1>4. /\ up
      /\ Pops(chan[a][Peer(c)], popped[a][Peer(c)]) /\ popped[a][c] = chan[a][c]
      /\ \A s \in CP : popped[Peer(a)][s] = << >>
  BY <1>w, Took
<1> HIDE DEF popped
<1>5. Pair(a, W, L, popped[a][Senior], popped[a][Junior], up, on)
  <2>1. CASE c = Senior
    BY <1>w, <1>1, <1>4, <2>1, SeniorDrops
  <2>2. CASE c = Junior
    BY <1>w, <1>1, <1>4, <2>2, JuniorDrops
  <2> QED
    BY <1>1, <2>1, <2>2
<1>6. chan' = popped
  BY DEF popped
<1> QED
  BY <1>w, <1>1, <1>4, <1>5, <1>6, PairDid DEF Pair

\* Every frame, at either end.
LEMMA ReceiveKeepsPair ==
  ASSUME IInv, Elections, NEW a \in CP, OnePipeInv(a), NEW c \in CP, NEW d \in CP,
         Receive(c, d) \/ LateReply(c, d)
  PROVE  OnePipeInv(a)'
<1>1. c = Senior \/ c = Junior
  BY PairIs
<1>2. CASE ReceiveState(c, d)
  BY <1>1, <1>2, SeniorReceivesState, JuniorReceivesState
<1>3. CASE ReceiveSyncReply(c, d)
  BY <1>1, <1>3, SeniorReceivesSyncReply, JuniorReceivesSyncReply
<1>4. CASE ReceiveElect(c, d)
  BY <1>1, <1>4, SeniorReceivesElect, JuniorReceivesElect
<1>5. CASE ReceiveElectReply(c, d)
  BY <1>1, <1>5, SeniorReceivesElectReply, JuniorReceivesElectReply
<1>6. CASE ReceiveLease(c, d)
  BY <1>1, <1>6, SeniorReceivesLease, JuniorReceivesLease
<1>7. CASE ReceiveLeaseReply(c, d)
  BY <1>1, <1>7, SeniorReceivesLeaseReply, JuniorReceivesLeaseReply
<1>8. CASE DropFrame(c, d)
  <2>1. chan[d][Peer(c)] # << >> /\ chan' = Popped(c, d) /\ UNCHANGED <<ha, link, orphan>>
    BY <1>8 DEF DropFrame
  <2> QED
    BY <2>1, PairDrops
<1>9. CASE LateReply(c, d)
  <2>1. chan[d][Peer(c)] # << >> /\ chan' = Popped(c, d) /\ UNCHANGED <<ha, link, orphan>>
    BY <1>9 DEF LateReply, HasFrame
  <2> QED
    BY <2>1, PairDrops
<1> QED
  BY <1>2, <1>3, <1>4, <1>5, <1>6, <1>7, <1>8, <1>9 DEF Receive

----------------------------------------------------------------------------
(***************************************************************************)
(* Ticks that leave the pipes alone, and the heartbeat.                    *)
(***************************************************************************)

\* One of the two changes, and no frame.
LEMMA PairRests ==
  ASSUME IInv, NEW a \in CP, OnePipeInv(a), NEW c \in CP,
         \A e \in CP : e # c => ha'[e] = ha[e],
         c = Senior => SeniorRested(ha[Senior], chan[a][Senior], chan[a][Junior], ha'[Senior]),
         c = Junior => JuniorRested(ha[Junior], ha'[Junior])
  PROVE  Pair(a, ha'[Senior], ha'[Junior], chan[a][Senior], chan[a][Junior],
              link[a] = "up", ha[a].peerOut = "live")
<1>1. Senior \in CP /\ Junior \in CP /\ Senior # Junior /\ (c = Senior \/ c = Junior)
  BY PairIs
<1>2. Pair(a, ha[Senior], ha[Junior], chan[a][Senior], chan[a][Junior], link[a] = "up", ha[a].peerOut = "live")
  BY PairNow
<1>3. CASE c = Senior
  <2>1. ha'[Junior] = ha[Junior]
    BY <1>1, <1>3
  <2>2. SeniorRested(ha[Senior], chan[a][Senior], chan[a][Junior], ha'[Senior])
    BY <1>3
  <2> QED
    BY <1>2, <2>1, <2>2, SeniorRests
<1>4. CASE c = Junior
  <2>1. ha'[Senior] = ha[Senior]
    BY <1>1, <1>4
  <2>2. JuniorRested(ha[Junior], ha'[Junior])
    BY <1>4
  <2> QED
    BY <1>2, <2>1, <2>2, JuniorRests
<1> QED
  BY <1>1, <1>3, <1>4

\* Then it may send x.
LEMMA PairAsks ==
  ASSUME IInv, NEW a \in CP, Wired(a), NEW c \in CP, NEW x \in Message,
         \A e \in CP : e # c => ha'[e] = ha[e],
         ha'[c].out = ha[c].out, ha'[c].peerIn = ha[c].peerIn, ha'[c].peerOut = ha[c].peerOut,
         UNCHANGED <<link, orphan>>, chan' = Push(chan, a, c, x),
         NEW on, on = (ha[a].peerOut = "live"),
         Pair(a, ha'[Senior], ha'[Junior], chan[a][Senior], chan[a][Junior], link[a] = "up", on),
         c = Senior => \A p2 : Adds(chan[a][Senior], p2, x) =>
           SeniorSent(a, ha'[Senior], ha'[Junior], chan[a][Senior], chan[a][Junior], on, x, p2),
         c = Junior => \A q2 : Adds(chan[a][Junior], q2, x) =>
           JuniorSent(a, ha'[Senior], ha'[Junior], chan[a][Senior], chan[a][Junior], on, x, q2)
  PROVE  OnePipeInv(a)'
<1> DEFINE W == ha'[Senior]
           L == ha'[Junior]
           p == chan[a][Senior]
           q == chan[a][Junior]
           up == link[a] = "up"
           ch == Push(chan, a, c, x)
<1>1. /\ Senior \in CP /\ Junior \in CP /\ Senior # Junior /\ (c = Senior \/ c = Junior)
      /\ Peer(Senior) = Junior /\ Peer(Junior) = Senior
  BY PairIs
<1>2. chan \in Channels /\ (\A s \in CP : chan[Peer(a)][s] = << >>)
  BY PairFacts DEF Wired
<1>3. /\ link[a] = "up" => Adds(chan[a][c], ch[a][c], x)
      /\ link[a] # "up" => ch = chan
      /\ ch[a][Peer(c)] = chan[a][Peer(c)]
      /\ \A s \in CP : ch[Peer(a)][s] = << >>
  BY <1>2, Put
<1> HIDE DEF ch
<1>4. Pair(a, W, L, ch[a][Senior], ch[a][Junior], up, on)
  <2>1. CASE link[a] # "up"
    BY <1>3, <2>1
  <2>2. CASE link[a] = "up" /\ c = Senior
    <3>1. Adds(p, ch[a][Senior], x) /\ ch[a][Junior] = q
      BY <1>1, <1>3, <2>2
    <3>2. SeniorSent(a, W, L, p, q, on, x, ch[a][Senior])
      BY <2>2, <3>1
    <3>3. Pair(a, W, L, p, q, up, on)
      OBVIOUS
    <3> HIDE DEF W, L, p, q, up
    <3> QED
      BY <3>1, <3>2, <3>3, SeniorSends
  <2>3. CASE link[a] = "up" /\ c = Junior
    <3>1. Adds(q, ch[a][Junior], x) /\ ch[a][Senior] = p
      BY <1>1, <1>3, <2>3
    <3>2. JuniorSent(a, W, L, p, q, on, x, ch[a][Junior])
      BY <2>3, <3>1
    <3>3. Pair(a, W, L, p, q, up, on)
      OBVIOUS
    <3> HIDE DEF W, L, p, q, up
    <3> QED
      BY <3>1, <3>2, <3>3, JuniorSends
  <2> QED
    BY <1>1, <2>1, <2>2, <2>3
<1>5. Agrees(a, W, L, ch[a][Senior], ch[a][Junior], up, on) /\ chan' = ch
  BY <1>4 DEF Pair, ch
<1>6. link[a] # "up" => \A s \in CP : chan'[a][s] = chan[a][s]
  BY <1>3, <1>5
<1> QED
  BY <1>3, <1>5, <1>6, PairDid

\* A heartbeat of either.
LEMMA HeartbeatKeepsPair ==
  ASSUME IInv, NEW a \in CP, OnePipeInv(a), NEW c \in CP, Heartbeat(c)
  PROVE  OnePipeInv(a)'
<1> DEFINE x == CurrentState("heartbeat", c, ha[c])
           on == ha[a].peerOut = "live"
<1>w. Wired(a) /\ Pair(a, ha[Senior], ha[Junior], chan[a][Senior], chan[a][Junior], link[a] = "up", on)
  BY PairNow DEF OnePipeInv
<1>1. ha[c] \in HaState /\ Peer(a) \in CP /\ Peer(c) \in CP
  BY PairFacts, PeerType, <1>w
<1>2. PICK d \in HeartbeatPipes(c) : chan' = Push(chan, d, c, x) /\ UNCHANGED <<ha, link, orphan>>
  BY DEF Heartbeat
<1>3. d \in CP
  BY <1>1, <1>2 DEF HeartbeatPipes
<1>4. /\ x \in Message /\ x.type = "heartbeat" /\ x.term = ha[c].term /\ x.priority = Priority[c]
      /\ x.term \in Nat
  <2>1. x \in Message /\ x.type = "heartbeat" /\ x.term = ha[c].term /\ x.priority = Priority[c]
    BY <1>1, StateMessageType DEF CurrentState
  <2> QED
    BY <1>1, <2>1 DEF HaState
<1> HIDE DEF x
<1>5. CASE d # a
  <2>1. d = Peer(a)
    BY <1>3, <1>5 DEF Peer, CP
  <2>2. link[d] # "up"
    BY <1>w, <2>1 DEF Wired
  <2>3. chan' = chan
    BY <1>2, <2>2 DEF Push
  <2> QED
    BY <1>w, <1>2, <2>3, PairDid DEF Pair, Wired
<1>6. CASE d = a
  <2>1. c = Senior => \A p2 : Adds(chan[a][Senior], p2, x) =>
          SeniorSent(a, ha[Senior], ha[Junior], chan[a][Senior], chan[a][Junior], on, x, p2)
    BY <1>4 DEF SeniorSent, Tells, IsState, IsHello, Wins, Proposes, Asks, Grants
  <2>2. c = Junior => \A q2 : Adds(chan[a][Junior], q2, x) =>
          JuniorSent(a, ha[Senior], ha[Junior], chan[a][Senior], chan[a][Junior], on, x, q2)
    BY <1>4 DEF JuniorSent, Tells, IsState, IsHello, Wins, Proposes, Asks, Grants, Decides
  <2>3. ha' = ha /\ chan' = Push(chan, a, c, x) /\ UNCHANGED <<link, orphan>>
    BY <1>2, <1>6
  <2> QED
    BY <1>w, <1>4, <2>1, <2>2, <2>3, PairAsks
<1> QED
  BY <1>5, <1>6

----------------------------------------------------------------------------
(***************************************************************************)
(* The tick: silence, alignment, leases and elections asked.               *)
(***************************************************************************)

\* An object that asks no election has none pending on the pipe.
LEMMA Idle ==
  ASSUME Elections, NEW a \in CP, ha[Senior].electing = "idle"
  PROVE  /\ \A i \in DOMAIN chan[a][Senior] : ~Pending(chan[a][Senior][i])
         /\ \A i \in DOMAIN chan[a][Junior] : ~Decides(chan[a][Junior][i])
<1>1. Senior \in CP /\ Junior \in CP /\ Senior # Junior
  BY PairIs
<1>2. NoneAwaited(chan, Senior)
  BY <1>1, NoneIsOne DEF Elections
<1> QED
  BY <1>1, <1>2 DEF NoneAwaited, AwaitedIn, OfElection, Pending, Decides, Proposes

\* A timer that sends nothing.
LEMMA SilenceKeepsPair ==
  ASSUME IInv, NEW a \in CP, OnePipeInv(a), NEW c \in CP, PeerSilent(c) \/ LeaseExpired(c) \/ LeaderSilent(c)
  PROVE  OnePipeInv(a)'
<1> DEFINE s == ha[c]
           r == ha'[c]
<1>1. ha \in [CP -> HaState] /\ s \in HaState /\ Wired(a) /\ Senior # Junior
  BY PairIs DEF IInv, TypeOK, OnePipeInv
<1>2. UNCHANGED <<link, orphan, chan>> /\ \A e \in CP : e # c => ha'[e] = ha[e]
  BY <1>1 DEF PeerSilent, LeaseExpired, LeaderSilent
<1>3. /\ r.term = s.term /\ r.peerTerm = s.peerTerm /\ r.electedTerm = s.electedTerm
      /\ r.peerPriority = s.peerPriority /\ r.role = s.role /\ r.leader = s.leader /\ r.electing = s.electing
      /\ r.out = s.out /\ r.peerIn = s.peerIn /\ r.peerOut = s.peerOut
      /\ r.phase = s.phase \/ (s.phase # "nominating" /\ r.phase = "read-only-no-quorum")
  <2>1. CASE PeerSilent(c)
    <3>1. r = [s EXCEPT !.fresh = FALSE]
      BY <1>1, <2>1 DEF PeerSilent
    <3> HIDE DEF s, r
    <3> QED
      BY <1>1, <3>1 DEF HaState
  <2>2. CASE LeaseExpired(c) \/ LeaderSilent(c)
    <3>1. r = LoseQuorum(s) /\ s.phase \in {"leader-leased", "follower"}
      BY <1>1, <2>2 DEF LeaseExpired, LeaderSilent
    <3> HIDE DEF s, r
    <3> QED
      BY <1>1, <3>1 DEF LoseQuorum, HaState
  <2> QED
    BY <2>1, <2>2
<1> HIDE DEF s, r
<1>4. SeniorRested(s, chan[a][Senior], chan[a][Junior], r)
  BY <1>3 DEF SeniorRested, Stuck, Attached, Leads
<1>5. JuniorRested(s, r)
  BY <1>1, <1>3 DEF JuniorRested, Counts, HaState
<1>6. Pair(a, ha'[Senior], ha'[Junior], chan[a][Senior], chan[a][Junior], link[a] = "up", ha[a].peerOut = "live")
  BY <1>2, <1>4, <1>5, PairRests DEF s, r
<1> QED
  BY <1>1, <1>2, <1>3, <1>6, PairDid DEF Pair, Wired, s, r

\* An alignment with the peer's state.
LEMMA AlignKeepsPair ==
  ASSUME IInv, NEW a \in CP, OnePipeInv(a), NEW c \in CP, AlignToPeer(c)
  PROVE  OnePipeInv(a)'
<1> DEFINE s == ha[c]
           r == ha'[c]
           p == chan[a][Senior]
           q == chan[a][Junior]
<1>1. /\ ha \in [CP -> HaState] /\ s \in HaState /\ Wired(a) /\ Sound(c, s)
      /\ Senior \in CP /\ Junior \in CP /\ Senior # Junior /\ Peer(Senior) = Junior /\ Peer(Junior) = Senior
  BY PairIs DEF IInv, TypeOK, OnePipeInv
<1>2. UNCHANGED <<link, orphan, chan>> /\ \A e \in CP : e # c => ha'[e] = ha[e]
  BY <1>1 DEF AlignToPeer
<1>3. /\ r.term = s.term /\ r.peerTerm = s.peerTerm /\ r.electedTerm = s.electedTerm
      /\ r.peerPriority = s.peerPriority /\ r.role = s.role /\ r.electing = s.electing
      /\ r.out = s.out /\ r.peerIn = s.peerIn /\ r.peerOut = s.peerOut
      /\ r.phase = "nominating" /\ s.electing = "idle" /\ PeerConnected(s) /\ Desired(c, s) = Peer(c)
  BY <1>1 DEF AlignToPeer, ExpectPeer, HaState
<1>4. ASSUME c = Senior
      PROVE  SeniorRested(s, p, q, r)
  <2>1. s.electedTerm = 0
    <3>1. s.peerPriority # Priority[Junior]
      BY <1>1, <1>3, <1>4, WinnerIs
    <3>2. Known(ha[Senior], ha[a].peerOut = "live",
                Met(a, link[a] = "up", ha[a].peerOut = "live", p), p, q)
      BY DEF OnePipeInv, Agrees
    <3> QED
      BY <1>4, <3>1, <3>2 DEF Known
  <2>2. \A i \in DOMAIN p : ~Asks(p[i])
    BY <1>1, <1>4, <2>1, PairFacts DEF Asks, Promises
  <2>3. \A i \in DOMAIN q : ~Grants(q[i])
    BY <1>1, <1>4, <2>1, PairFacts DEF Grants, Promises
  <2>4. s.term # 0 /\ Attached(s)
    BY <1>1, <1>3 DEF Sound, PeerConnected
  <2>5. ~Stuck(s, p, q)
    BY <2>1, <2>4 DEF Stuck, Leads
  <2> HIDE DEF s, r, p, q
  <2> QED
    BY <1>3, <2>1, <2>2, <2>3, <2>5 DEF SeniorRested
<1> HIDE DEF s, r
<1>5. JuniorRested(s, r)
  BY <1>1, <1>3 DEF JuniorRested, Counts, HaState
<1>6. Pair(a, ha'[Senior], ha'[Junior], chan[a][Senior], chan[a][Junior], link[a] = "up", ha[a].peerOut = "live")
  BY <1>2, <1>4, <1>5, PairRests DEF s, r
<1> QED
  BY <1>1, <1>2, <1>3, <1>6, PairDid DEF Pair, Wired, s, r

\* A lease request of c.
LEMMA LeaseAsked ==
  ASSUME IInv, Elections, NEW a \in CP, OnePipeInv(a), NEW c \in CP, RetryLease(c) \/ RenewLease(c)
  PROVE  OnePipeInv(a)'
<1> DEFINE on == ha[a].peerOut = "live"
           p == chan[a][Senior]
           q == chan[a][Junior]
<1>w. Wired(a) /\ Pair(a, ha[Senior], ha[Junior], p, q, link[a] = "up", on)
  BY PairNow DEF OnePipeInv
<1>1. /\ ha \in [CP -> HaState] /\ ha[c] \in HaState /\ Sound(c, ha[c])
      /\ Senior \in CP /\ Junior \in CP /\ Senior # Junior /\ c \in {Senior, Junior}
      /\ Attached(ha[c]) /\ (Attached(ha[a]) => on)
  BY <1>w, PairIs, PairFacts DEF IInv, TypeOK, RetryLease, RenewLease, PeerConnected
<1>2. PICK for \in {"tick", "renew"}, n \in Nat :
        /\ chan' = SendRequest(chan, c, ha[c], [type |-> "lease", term |-> ha[c].term, epoch |-> n, for |-> for])
        /\ for = "tick" => ha[c].role = "leader" /\ ha[c].electedTerm = ha[c].term /\ ha[c].electing = "idle"
        /\ UNCHANGED <<ha, link, orphan>>
  BY <1>1 DEF RetryLease, RenewLease, HaState
<1> DEFINE x == [type |-> "lease", term |-> ha[c].term, epoch |-> n, for |-> for]
<1>3. x \in Message /\ x.type = "lease" /\ x.term = ha[c].term /\ x.for = for /\ x.term \in Nat
  BY <1>1, <1>2 DEF Message, LeaseMsg, Caller, HaState
<1>4. chan' = SendRequest(chan, c, ha[c], x)
  BY <1>2
<1> HIDE DEF x
<1>5. chan' = Push(chan, a, c, x)
  BY <1>w, <1>1, <1>4, Asked
<1>6. ASSUME c = Senior, NEW p2, Adds(p, p2, x)
      PROVE  SeniorSent(a, ha[Senior], ha[Junior], p, q, on, x, p2)
  <2>1. a = Senior => on
    BY <1>1, <1>6
  <2>2. ASSUME Asks(x)
        PROVE  ha[Senior].leader = Senior /\ (\A i \in DOMAIN p : ~Pending(p[i])) /\ (\A i \in DOMAIN q : ~Decides(q[i]))
    <3>1. /\ ha[Senior].role = "leader" /\ ha[Senior].electedTerm = ha[Senior].term
          /\ ha[Senior].electing = "idle"
      BY <1>2, <1>3, <1>6, <2>2 DEF Asks
    <3>2. ha[Senior].electedTerm # 0
      BY <1>1, <1>6, <3>1 DEF Sound
    <3>3. ha[Senior].leader = Senior
      BY <1>w, <3>1, <3>2 DEF Pair, Agrees, Known
    <3> QED
      BY <3>1, <3>3, Idle
  <2> HIDE DEF p, q, on
  <2> QED
    BY <1>3, <1>6, <2>1, <2>2 DEF SeniorSent, Tells, IsState, IsHello, Wins, Proposes, Asks, Grants
<1>7. ASSUME c = Junior, NEW q2, Adds(q, q2, x)
      PROVE  JuniorSent(a, ha[Senior], ha[Junior], p, q, on, x, q2)
  <2>1. a # Senior => on
    BY <1>1, <1>7, PairIs
  <2> HIDE DEF p, q, on
  <2> QED
    BY <1>3, <1>7, <2>1 DEF JuniorSent, Tells, IsState, IsHello, Wins, Proposes, Asks, Grants, Decides
<1>8. ha' = ha /\ UNCHANGED <<link, orphan>>
  BY <1>2
<1> QED
  BY <1>w, <1>3, <1>5, <1>6, <1>7, <1>8, PairAsks

\* An election asked by either.
LEMMA ElectionAsked ==
  ASSUME IInv, Elections, NEW a \in CP, OnePipeInv(a), NEW c \in CP, StartElection(c)
  PROVE  OnePipeInv(a)'
<1> DEFINE on == ha[a].peerOut = "live"
           p == chan[a][Senior]
           q == chan[a][Junior]
           s == ha[c]
           r == ha'[c]
           x == [type |-> "elect", term |-> MaxOf(s.term, s.peerTerm) + 1, for |-> "election"]
<1>w. Wired(a) /\ Pair(a, ha[Senior], ha[Junior], p, q, link[a] = "up", on)
  BY PairNow DEF OnePipeInv
<1>1. /\ ha \in [CP -> HaState] /\ s \in HaState
      /\ Senior \in CP /\ Junior \in CP /\ Senior # Junior
      /\ Attached(s) /\ (Attached(ha[a]) => on)
  BY <1>w, PairIs, PairFacts DEF IInv, TypeOK, StartElection, PeerConnected
<1>2. UNCHANGED <<link, orphan>> /\ \A e \in CP : e # c => ha'[e] = ha[e]
  BY <1>1 DEF StartElection
<1>3. /\ r.term = s.term /\ r.peerTerm = s.peerTerm /\ r.electedTerm = s.electedTerm
      /\ r.peerPriority = s.peerPriority /\ r.role = s.role /\ r.leader = s.leader
      /\ r.out = s.out /\ r.peerIn = s.peerIn /\ r.peerOut = s.peerOut
      /\ r.phase = "nominating" /\ r.electing = "asked" /\ s.electing = "idle"
  BY <1>1 DEF StartElection, HaState
<1>4. ~Leads(s)
  BY DEF StartElection, MayPropose, Leads
<1>5. /\ x \in Message /\ x.type = "elect" /\ x.term \in Nat /\ x.for = "election"
      /\ s.peerTerm <= s.term => x.term = s.term + 1
  BY <1>1 DEF Message, ElectMsg, Caller, MaxOf, HaState
<1>6. chan' = SendRequest(chan, c, s, x)
  BY DEF StartElection
<1> HIDE DEF x
<1>7. chan' = Push(chan, a, c, x)
  BY <1>w, <1>1, <1>6, Asked
<1>8. SeniorRested(s, p, q, r) /\ JuniorRested(s, r)
  <2> HIDE DEF s, r, p, q
  <2> QED
    BY <1>1, <1>3, <1>4 DEF SeniorRested, Stuck, JuniorRested, Counts, HaState
<1>9. Pair(a, ha'[Senior], ha'[Junior], p, q, link[a] = "up", on)
  BY <1>2, <1>8, PairRests
<1>10. ASSUME c = Senior, NEW p2, Adds(p, p2, x)
       PROVE  SeniorSent(a, ha'[Senior], ha'[Junior], p, q, on, x, p2)
  <2>1. a = Senior => on
    BY <1>1, <1>10
  <2>2. (\A i \in DOMAIN p : ~Pending(p[i])) /\ (\A i \in DOMAIN q : ~Decides(q[i]))
    BY <1>3, <1>10, Idle
  <2>3. x.term = ha'[Senior].term + 1 /\ ha'[Senior].electing = "asked"
    BY <1>3, <1>5, <1>9, <1>10 DEF Pair, Agrees, Terms
  <2> HIDE DEF p, q, on
  <2> QED
    BY <1>5, <1>10, <2>1, <2>2, <2>3 DEF SeniorSent, Tells, IsState, IsHello, Wins, Proposes, Asks, Grants
<1>11. ASSUME c = Junior, NEW q2, Adds(q, q2, x)
      PROVE  JuniorSent(a, ha'[Senior], ha'[Junior], p, q, on, x, q2)
  <2>1. a # Senior => on
    BY <1>1, <1>11, PairIs
  <2> HIDE DEF p, q, on
  <2> QED
    BY <1>5, <1>11, <2>1 DEF JuniorSent, Tells, IsState, IsHello, Wins, Proposes, Asks, Grants, Decides
<1> QED
  BY <1>w, <1>2, <1>3, <1>5, <1>7, <1>9, <1>10, <1>11, PairAsks

\* What forgetting an election makes of the pipes.
LEMMA ForgetFades ==
  ASSUME NEW p \in Seq(Message), NEW c, NEW s
  PROVE  Fades(p, [i \in DOMAIN p |-> Forget(c, s, p[i])])
<1>1. ASSUME NEW m \in Message
      PROVE  LET n == Forget(c, s, m) IN
             /\ n.type = m.type
             /\ n = m \/ (n.for = "none" /\ m.type \in {"elect", "lease", "electReply", "leaseReply"})
             /\ m.type \in {"elect", "lease", "electReply"} => n.term = m.term
             /\ m.type \in {"electReply", "leaseReply"} => n.ok = m.ok
             /\ m.type = "electReply" => n.proposed = m.proposed
  BY DEF Forget, OfElection, Message, PeerStateMsg, ElectMsg, ElectReplyMsg, LeaseMsg, LeaseReplyMsg
<1>2. \A i \in DOMAIN p : p[i] \in Message
  OBVIOUS
<1>3. ASSUME NEW i \in DOMAIN p
      PROVE  LET n == Forget(c, s, p[i]) IN
             /\ n.type = p[i].type
             /\ n = p[i] \/ (n.for = "none" /\ p[i].type \in {"elect", "lease", "electReply", "leaseReply"})
             /\ p[i].type \in {"elect", "lease", "electReply"} => n.term = p[i].term
             /\ p[i].type \in {"electReply", "leaseReply"} => n.ok = p[i].ok
             /\ p[i].type = "electReply" => n.proposed = p[i].proposed
  BY <1>1, <1>2
<1> DEFINE p2 == [i \in DOMAIN p |-> Forget(c, s, p[i])]
<1>4. DOMAIN p2 = DOMAIN p /\ \A i \in DOMAIN p : p2[i] = Forget(c, s, p[i])
  OBVIOUS
<1> HIDE DEF p2
<1>5. Fades(p, p2)
  BY <1>3, <1>4 DEF Fades, Tells, IsState, IsHello, Wins, Proposes, Asks, Grants, Pending, Decides
<1> QED
  BY <1>5 DEF p2

\* An election that times out.
LEMMA ElectionTimeoutKeepsPair ==
  ASSUME IInv, NEW a \in CP, OnePipeInv(a), NEW c \in CP, ElectionTimeout(c)
  PROVE  OnePipeInv(a)'
<1> DEFINE s == ha[c]
           r == ha'[c]
           p == chan[a][Senior]
           q == chan[a][Junior]
<1>1. /\ ha \in [CP -> HaState] /\ s \in HaState /\ Wired(a)
      /\ Senior \in CP /\ Junior \in CP /\ Senior # Junior /\ Peer(a) \in CP
      /\ \A d, t \in CP : chan[d][t] \in Seq(Message)
  BY PairIs, PairFacts DEF IInv, TypeOK, OnePipeInv
<1>2. /\ UNCHANGED <<link, orphan>> /\ \A e \in CP : e # c => ha'[e] = ha[e]
      /\ \A d, t \in CP : chan'[d][t] = [i \in DOMAIN chan[d][t] |-> Forget(c, t, chan[d][t][i])]
  BY <1>1 DEF ElectionTimeout
<1>3. /\ r.term = s.term /\ r.peerTerm = s.peerTerm /\ r.electedTerm = s.electedTerm
      /\ r.peerPriority = s.peerPriority /\ r.role = s.role /\ r.leader = s.leader
      /\ r.out = s.out /\ r.peerIn = s.peerIn /\ r.peerOut = s.peerOut
      /\ r.electing = "idle"
      /\ r.phase = s.phase \/ (s.electing = "asked" /\ r.phase = "read-only-no-quorum")
  BY <1>1 DEF ElectionTimeout, FailElection, EndElection, HaState
<1>4. SeniorRested(s, p, q, r) /\ JuniorRested(s, r)
  <2> HIDE DEF s, r, p, q
  <2> QED
    BY <1>1, <1>3 DEF SeniorRested, Stuck, Attached, Leads, JuniorRested, Counts, HaState
<1>5. Pair(a, ha'[Senior], ha'[Junior], p, q, link[a] = "up", ha[a].peerOut = "live")
  BY <1>2, <1>4, PairRests
<1>6. Fades(p, chan'[a][Senior]) /\ Fades(q, chan'[a][Junior])
  <2>1. p \in Seq(Message) /\ q \in Seq(Message)
    BY <1>1
  <2>2. /\ chan'[a][Senior] = [i \in DOMAIN p |-> Forget(c, Senior, p[i])]
        /\ chan'[a][Junior] = [i \in DOMAIN q |-> Forget(c, Junior, q[i])]
    BY <1>1, <1>2
  <2>3. Fades(p, [i \in DOMAIN p |-> Forget(c, Senior, p[i])])
    BY <2>1, ForgetFades
  <2>4. Fades(q, [i \in DOMAIN q |-> Forget(c, Junior, q[i])])
    BY <2>1, ForgetFades
  <2> HIDE DEF p, q
  <2> QED
    BY <2>2, <2>3, <2>4
<1>7. Agrees(a, ha'[Senior], ha'[Junior], chan'[a][Senior], chan'[a][Junior], link[a] = "up", ha[a].peerOut = "live")
  BY <1>5, <1>6, FramesFade DEF Pair
<1>8. ASSUME NEW d \in CP, NEW t \in CP, chan[d][t] = << >>
      PROVE  chan'[d][t] = << >>
  <2>1. chan'[d][t] = [i \in DOMAIN chan[d][t] |-> Forget(c, t, chan[d][t][i])]
    BY <1>2
  <2> QED
    BY <1>8, <2>1
<1>9. (\A t \in CP : chan'[Peer(a)][t] = << >>) /\ (link[a] # "up" => \A t \in CP : chan'[a][t] = chan[a][t])
  BY <1>1, <1>8 DEF Wired
<1> QED
  BY <1>1, <1>2, <1>3, <1>7, <1>9, PairDid

\* Every branch of the tick.
LEMMA TimerKeepsPair ==
  ASSUME IInv, Elections, NEW a \in CP, OnePipeInv(a), NEW c \in CP,
         \/ Heartbeat(c) \/ PeerSilent(c) \/ Tick(c) \/ RenewLease(c) \/ ElectionTimeout(c)
  PROVE  OnePipeInv(a)'
  BY HeartbeatKeepsPair, SilenceKeepsPair, AlignKeepsPair, LeaseAsked, ElectionAsked,
     ElectionTimeoutKeepsPair DEF Tick

----------------------------------------------------------------------------
(***************************************************************************)
(* Pipes closed and dialed.                                                *)
(***************************************************************************)

\* What PairSilent asks of the two, as the invariant gives it.
LEMMA Apart ==
  ASSUME IInv, NEW a \in CP, OnePipeInv(a)
  PROVE  /\ Wired(a)
         /\ ha[Senior].electedTerm # 0 =>
              /\ ha[Senior].peerPriority = Priority[Junior]
              /\ ha[Senior].role = "leader" => ha[Senior].leader = Senior
         /\ ha[Senior].peerTerm <= ha[Senior].term /\ ha[Senior].peerTerm <= ha[Junior].term
         /\ ~(ha[Senior].phase = "leader-leased" /\ ha[Junior].phase = "leader-leased")
<1> DEFINE met == Met(a, link[a] = "up", ha[a].peerOut = "live", chan[a][Senior])
<1>1. /\ Wired(a)
      /\ Known(ha[Senior], ha[a].peerOut = "live", met, chan[a][Senior], chan[a][Junior])
      /\ Terms(ha[Senior], ha[Junior], ha[a].peerOut = "live", met, chan[a][Senior], chan[a][Junior])
      /\ Leases(ha[Senior], ha[Junior], chan[a][Senior], chan[a][Junior])
  BY DEF OnePipeInv, Agrees
<1> HIDE DEF met
<1> QED
  BY <1>1 DEF Known, Terms, Leases

\* Nothing is left of what W and L were but this.
Keeps(s, r) ==
  /\ r.electedTerm = s.electedTerm /\ r.peerPriority = s.peerPriority /\ r.role = s.role
  /\ r.leader = s.leader /\ r.term = s.term /\ r.peerTerm = s.peerTerm
  /\ r.phase = "leader-leased" => s.phase = "leader-leased"

\* A pipe that is down carries nothing.
LEMMA PairEnds ==
  ASSUME IInv, NEW a \in CP, OnePipeInv(a), NEW V, NEW M, NEW p, NEW q, NEW up, NEW on,
         Keeps(ha[Senior], V), Keeps(ha[Junior], M), DOMAIN p = {}, DOMAIN q = {}, ~Met(a, up, on, p)
  PROVE  Agrees(a, V, M, p, q, up, on)
<1>1. /\ V.electedTerm # 0 => V.peerPriority = Priority[Junior] /\ (V.role = "leader" => V.leader = Senior)
      /\ V.peerTerm <= V.term /\ V.peerTerm <= M.term
      /\ ~(V.phase = "leader-leased" /\ M.phase = "leader-leased")
  BY Apart DEF Keeps
<1> QED
  BY <1>1, PairSilent

\* What the end of the outbound pipe leaves of an object.
LEMMA DisconnectKeeps ==
  ASSUME NEW s \in HaState
  PROVE  /\ Keeps(s, OnPeerDisconnected(s, "inbound")) /\ Keeps(s, OnPeerDisconnected(s, "outbound"))
         /\ OnPeerDisconnected(s, "inbound").peerIn = FALSE
         /\ OnPeerDisconnected(s, "inbound").peerOut = s.peerOut
         /\ OnPeerDisconnected(s, "inbound").electing = s.electing
         /\ s.out = "none" => OnPeerDisconnected(s, "inbound").out = "none"
         /\ s.out = "none" => OnPeerDisconnected(s, "outbound").out = "none"
         /\ OnPeerDisconnected(s, "outbound").peerIn = s.peerIn
         /\ OnPeerDisconnected(s, "outbound").peerOut = "none"
  BY DEF Keeps, OnPeerDisconnected, OnPeerLost, LoseQuorum, Attached, HaState, Phase

\* The same for an outbound end that closes.
LEMMA OutboundCloseKeeps ==
  ASSUME NEW s \in HaState, s.peerOut = IF s.out = "identified" THEN "live" ELSE "none"
  PROVE  /\ Keeps(s, OnOutboundClose(s)) /\ OnOutboundClose(s).peerIn = s.peerIn
         /\ OnOutboundClose(s).out = "none" /\ OnOutboundClose(s).peerOut = "none"
<1> DEFINE t == [s EXCEPT !.out = "none"]
<1>1. /\ t \in HaState /\ Keeps(s, t) /\ t.out = "none" /\ t.peerIn = s.peerIn /\ t.peerOut = s.peerOut
  BY DEF HaState, Keeps
<1>2. s.out \in {"none", "unidentified", "identified"}
  BY DEF HaState
<1>3. CASE s.out = "identified"
  <2>1. OnOutboundClose(s) = OnPeerDisconnected(t, "outbound")
    BY <1>3 DEF OnOutboundClose
  <2> HIDE DEF t
  <2>2. /\ Keeps(t, OnPeerDisconnected(t, "outbound")) /\ OnPeerDisconnected(t, "outbound").peerIn = t.peerIn
        /\ OnPeerDisconnected(t, "outbound").peerOut = "none" /\ OnPeerDisconnected(t, "outbound").out = "none"
    BY <1>1, DisconnectKeeps
  <2> QED
    BY <1>1, <2>1, <2>2 DEF Keeps
<1>4. CASE s.out = "unidentified"
  <2>1. OnOutboundClose(s) = t
    BY <1>4 DEF OnOutboundClose
  <2> HIDE DEF t
  <2> QED
    BY <1>1, <1>4, <2>1
<1>5. CASE s.out = "none"
  <2>1. OnOutboundClose(s) = [s EXCEPT !.peerOut = IF @ = "live" THEN "stale" ELSE @]
    BY <1>5 DEF OnOutboundClose
  <2>2. OnOutboundClose(s) = s
    BY <1>5, <2>1 DEF HaState
  <2> QED
    BY <1>5, <2>2 DEF Keeps
<1> QED
  BY <1>2, <1>3, <1>4, <1>5

\* A cut pipe.
LEMMA CutKeepsPair ==
  ASSUME IInv, NEW a \in CP, OnePipeInv(a), NEW d \in CP, Cut(d)
  PROVE  OnePipeInv(a)'
<1>1. Wired(a) /\ link \in [CP -> LinkState] /\ orphan \in [CP -> BOOLEAN]
      /\ Peer(a) \in CP /\ Peer(a) # a /\ chan \in Channels
      /\ Senior \in CP /\ Junior \in CP
  BY PeerType, PairIs DEF OnePipeInv, IInv, TypeOK, Channels
<1>2. d = a
  <2>1. d # Peer(a)
    BY <1>1 DEF Wired, Cut
  <2> QED
    BY <2>1 DEF Peer, CP
<1>3. /\ ha' = ha /\ link' = [link EXCEPT ![a] = "cut"] /\ orphan' = [orphan EXCEPT ![Peer(a)] = TRUE]
      /\ chan' = [chan EXCEPT ![a] = [s \in CP |-> << >>]]
  BY <1>2 DEF Cut
<1>4. /\ link'[a] = "cut" /\ link'[Peer(a)] = link[Peer(a)] /\ ~orphan'[a]
      /\ \A s \in CP : chan'[a][s] = << >> /\ chan'[Peer(a)][s] = << >>
  BY <1>1, <1>3 DEF Wired, Channels
<1>5. Wired(a)'
  BY <1>1, <1>3, <1>4 DEF Wired
<1>6. Agrees(a, ha'[Senior], ha'[Junior], chan'[a][Senior], chan'[a][Junior],
             link'[a] = "up", ha'[a].peerOut = "live")
  <2>1. Keeps(ha[Senior], ha'[Senior]) /\ Keeps(ha[Junior], ha'[Junior])
    BY <1>3 DEF Keeps
  <2>2. DOMAIN chan'[a][Senior] = {} /\ DOMAIN chan'[a][Junior] = {}
    BY <1>1, <1>4
  <2>3. ~Met(a, link'[a] = "up", ha'[a].peerOut = "live", chan'[a][Senior])
    BY <1>4 DEF Met
  <2> QED
    BY <2>1, <2>2, <2>3, PairEnds
<1> QED
  BY <1>5, <1>6, NextPair

\* The close event at the dialer.
LEMMA OutboundClosedKeepsPair ==
  ASSUME IInv, NEW a \in CP, OnePipeInv(a), NEW d \in CP, OutboundClosed(d)
  PROVE  OnePipeInv(a)'
<1>1. /\ Wired(a) /\ link \in [CP -> LinkState] /\ ha \in [CP -> HaState]
      /\ Peer(a) \in CP /\ Peer(a) # a
      /\ Senior \in CP /\ Junior \in CP /\ Senior # Junior
  BY PeerType, PairIs DEF OnePipeInv, IInv, TypeOK
<1>2. d = a /\ link[a] = "cut"
  <2>1. d # Peer(a)
    BY <1>1 DEF Wired, OutboundClosed
  <2> QED
    BY <2>1 DEF Peer, CP, OutboundClosed
<1> DEFINE r == OnOutboundClose(ha[a])
<1>3. /\ link' = [link EXCEPT ![a] = "closed"] /\ ha' = [ha EXCEPT ![a] = r] /\ UNCHANGED <<chan, orphan>>
  BY <1>2 DEF OutboundClosed
<1>4. Keeps(ha[a], r) /\ r.peerIn = ha[a].peerIn /\ r.out = "none" /\ r.peerOut = "none"
  BY <1>1, OutboundCloseKeeps DEF Wired
<1> HIDE DEF r
<1>5. /\ link'[a] = "closed" /\ link'[Peer(a)] = link[Peer(a)]
      /\ ha'[a] = r /\ ha'[Peer(a)] = ha[Peer(a)]
      /\ \A s \in CP : chan'[a][s] = << >> /\ chan'[Peer(a)][s] = << >>
  BY <1>1, <1>2, <1>3 DEF Wired
<1>6. Wired(a)'
  BY <1>1, <1>3, <1>4, <1>5 DEF Wired
<1>7. \A c \in CP : Keeps(ha[c], ha'[c])
  BY <1>1, <1>3, <1>4 DEF Keeps
<1>8. Agrees(a, ha'[Senior], ha'[Junior], chan'[a][Senior], chan'[a][Junior],
             link'[a] = "up", ha'[a].peerOut = "live")
  <2>1. Keeps(ha[Senior], ha'[Senior]) /\ Keeps(ha[Junior], ha'[Junior])
    BY <1>1, <1>7
  <2>2. DOMAIN chan'[a][Senior] = {} /\ DOMAIN chan'[a][Junior] = {}
    BY <1>1, <1>5
  <2>3. ~Met(a, link'[a] = "up", ha'[a].peerOut = "live", chan'[a][Senior])
    BY <1>5 DEF Met
  <2> QED
    BY <2>1, <2>2, <2>3, PairEnds
<1> QED
  BY <1>6, <1>8, NextPair

\* The close event at the other end.
LEMMA InboundClosedKeepsPair ==
  ASSUME IInv, NEW a \in CP, OnePipeInv(a), NEW c \in CP, InboundClosed(c)
  PROVE  OnePipeInv(a)'
<1>1. /\ Wired(a) /\ orphan \in [CP -> BOOLEAN] /\ ha \in [CP -> HaState]
      /\ Peer(a) \in CP /\ Peer(a) # a
      /\ Senior \in CP /\ Junior \in CP /\ Senior # Junior
  BY PeerType, PairIs DEF OnePipeInv, IInv, TypeOK
<1>2. c = Peer(a)
  <2>1. c # a
    BY DEF InboundClosed, OnePipeInv, Wired
  <2> QED
    BY <2>1 DEF Peer, CP
<1> DEFINE s == ha[c]
           r == OnPeerDisconnected(s, "inbound")
<1>3. orphan' = [orphan EXCEPT ![c] = FALSE] /\ ha' = [ha EXCEPT ![c] = r] /\ UNCHANGED <<link, chan>>
  BY DEF InboundClosed
<1>4. /\ Keeps(s, r) /\ r.peerIn = FALSE /\ r.peerOut = s.peerOut /\ r.electing = s.electing
      /\ s.out = "none" => r.out = "none"
      /\ r \in HaState
  BY <1>1, DisconnectKeeps, DisconnectType
<1>5. s.peerOut = "none" /\ s.out = "none"
  BY <1>1, <1>2 DEF Wired
<1> HIDE DEF r
<1>6. ha'[c] = r /\ \A e \in CP : e # c => ha'[e] = ha[e]
  BY <1>1, <1>3
<1> DEFINE p == chan[a][Senior]
           q == chan[a][Junior]
<1>7. SeniorRested(s, p, q, r) /\ JuniorRested(s, r)
  <2> HIDE DEF s, p, q
  <2> QED
    BY <1>4, <1>5 DEF SeniorRested, JuniorRested, Keeps, Stuck, Attached, Counts, HaState
<1>8. Pair(a, ha'[Senior], ha'[Junior], p, q, link[a] = "up", ha[a].peerOut = "live")
  BY <1>6, <1>7, PairRests
<1>9. ha'[a] = ha[a] /\ ~orphan'[a]
  BY <1>1, <1>2, <1>3, <1>6 DEF Wired
<1>10. Wired(a)'
  BY <1>1, <1>2, <1>3, <1>4, <1>5, <1>6, <1>9 DEF Wired
<1>11. Agrees(a, ha'[Senior], ha'[Junior], chan'[a][Senior], chan'[a][Junior],
             link'[a] = "up", ha'[a].peerOut = "live")
  BY <1>3, <1>8, <1>9 DEF Pair
<1> QED
  BY <1>10, <1>11, NextPair

\* A dialed pipe.
LEMMA DialKeepsPair ==
  ASSUME IInv, NEW a \in CP, Dialers = {a}, OnePipeInv(a), NEW d \in CP, Dial(d)
  PROVE  OnePipeInv(a)'
<1>1. /\ Wired(a) /\ link \in [CP -> LinkState] /\ ha \in [CP -> HaState]
      /\ Peer(a) \in CP /\ Peer(a) # a /\ chan \in Channels
      /\ Senior \in CP /\ Junior \in CP /\ Senior # Junior
      /\ Peer(Senior) = Junior /\ Peer(Junior) = Senior /\ (a = Senior \/ a = Junior)
  BY PeerType, PairIs DEF OnePipeInv, IInv, TypeOK, Channels
<1> DEFINE x == CurrentState("sync", a, ha[a])
<1>2. /\ d = a /\ link[a] = "closed" /\ link' = [link EXCEPT ![a] = "up"] /\ UNCHANGED orphan
      /\ ha' = [ha EXCEPT ![a].out = "unidentified", ![Peer(a)].peerIn = TRUE, ![Peer(a)].fresh = TRUE]
      /\ chan' = [chan EXCEPT ![a] = [s \in CP |-> IF s = a THEN <<x>> ELSE << >>]]
  BY DEF Dial
<1>3. ha[a].out = "none" /\ ha[a].peerOut = "none" /\ ~ha[a].peerIn
  BY <1>1, <1>2 DEF Wired
<1>4. /\ x \in Message /\ x.type = "sync" /\ x.term = ha[a].term /\ x.priority = Priority[a] /\ x.term \in Nat
  <2>1. ha[a] \in HaState
    BY <1>1
  <2>2. x \in Message /\ x.type = "sync" /\ x.term = ha[a].term /\ x.priority = Priority[a]
    BY <2>1, StateMessageType DEF CurrentState
  <2> QED
    BY <2>1, <2>2 DEF HaState
<1> HIDE DEF x
<1>5. /\ ha'[a].out = "unidentified" /\ ha'[a].peerOut = "none" /\ ~ha'[a].peerIn
      /\ ha'[Peer(a)].out = ha[Peer(a)].out /\ ha'[Peer(a)].peerOut = ha[Peer(a)].peerOut
      /\ Keeps(ha[a], ha'[a]) /\ Keeps(ha[Peer(a)], ha'[Peer(a)])
      /\ Counts(ha'[a]) /\ Counts(ha'[Peer(a)])
  <2> DEFINE s == ha[a]
             t == ha[Peer(a)]
             s2 == [s EXCEPT !.out = "unidentified"]
             t2 == [t EXCEPT !.peerIn = TRUE, !.fresh = TRUE]
  <2>1. ha'[a] = s2 /\ ha'[Peer(a)] = t2 /\ s \in HaState /\ t \in HaState
    BY <1>1, <1>2
  <2> HIDE DEF s, t
  <2>2. s2.out = "unidentified" /\ s2.peerOut = s.peerOut /\ s2.peerIn = s.peerIn /\ Keeps(s, s2) /\ Counts(s2)
    BY <2>1 DEF HaState, Keeps, Counts
  <2>3. t2.out = t.out /\ t2.peerOut = t.peerOut /\ Keeps(t, t2) /\ Counts(t2)
    BY <2>1 DEF HaState, Keeps, Counts
  <2> HIDE DEF s2, t2
  <2> QED
    BY <1>3, <2>1, <2>2, <2>3 DEF s, t
<1>6. /\ link'[a] = "up" /\ link'[Peer(a)] = link[Peer(a)]
      /\ \A s \in CP : chan'[Peer(a)][s] = << >>
      /\ chan'[a][a] = <<x>> /\ chan'[a][Peer(a)] = << >>
  BY <1>1, <1>2 DEF Wired, Channels
<1>7. Wired(a)'
  BY <1>1, <1>2, <1>5, <1>6 DEF Wired
<1> DEFINE W == ha'[Senior]
           L == ha'[Junior]
           none == << >>
<1>8. Keeps(ha[Senior], W) /\ Keeps(ha[Junior], L) /\ Counts(W) /\ Counts(L)
  BY <1>1, <1>5
<1>9. DOMAIN none = {} /\ none \in Seq(Message) /\ Adds(none, <<x>>, x)
  <2>1. none \in Seq(Message) /\ DOMAIN none = {} /\ Append(none, x) = <<x>>
    BY <1>4
  <2> HIDE DEF none
  <2> QED
    BY <1>4, <2>1, QueueFacts
<1> HIDE DEF none, W, L
<1>10. Pair(a, W, L, none, none, TRUE, FALSE)
  <2>1. Agrees(a, W, L, none, none, TRUE, FALSE)
    BY <1>8, <1>9, PairEnds DEF Met
  <2> QED
    BY <1>8, <1>9, <2>1 DEF Pair, Numbers
<1>11. CASE a = Senior
  <2>0. x.term = W.term
    BY <1>4, <1>8, <1>11 DEF Keeps
  <2>1. SeniorSent(a, W, L, none, none, FALSE, x, <<x>>)
    BY <1>4, <1>9, <1>11, <2>0 DEF SeniorSent, Tells, IsState, IsHello, Wins, Proposes, Asks, Grants
  <2>2. Pair(a, W, L, <<x>>, none, TRUE, FALSE)
    BY <1>10, <2>1, SeniorSends
  <2>3. Agrees(a, W, L, chan'[a][Senior], chan'[a][Junior], TRUE, FALSE)
    BY <1>1, <1>6, <1>11, <2>2 DEF Pair, none
  <2>4. (link'[a] = "up") = TRUE /\ (ha'[a].peerOut = "live") = FALSE
    BY <1>5, <1>6
  <2>5. Agrees(a, W, L, chan'[a][Senior], chan'[a][Junior], link'[a] = "up", ha'[a].peerOut = "live")
    BY <2>3, <2>4
  <2> QED
    BY <1>7, <2>5, NextPair DEF W, L
<1>12. CASE a = Junior
  <2>0. x.term = L.term
    BY <1>4, <1>8, <1>12 DEF Keeps
  <2>1. JuniorSent(a, W, L, none, none, FALSE, x, <<x>>)
    BY <1>1, <1>4, <1>9, <1>12, <2>0
       DEF JuniorSent, Tells, IsState, IsHello, Wins, Proposes, Asks, Grants, Decides
  <2>2. Pair(a, W, L, none, <<x>>, TRUE, FALSE)
    BY <1>10, <2>1, JuniorSends
  <2>3. Agrees(a, W, L, chan'[a][Senior], chan'[a][Junior], TRUE, FALSE)
    BY <1>1, <1>6, <1>12, <2>2 DEF Pair, none
  <2>4. (link'[a] = "up") = TRUE /\ (ha'[a].peerOut = "live") = FALSE
    BY <1>5, <1>6
  <2>5. Agrees(a, W, L, chan'[a][Senior], chan'[a][Junior], link'[a] = "up", ha'[a].peerOut = "live")
    BY <2>3, <2>4
  <2> QED
    BY <1>7, <2>5, NextPair DEF W, L
<1> QED
  BY <1>1, <1>11, <1>12

----------------------------------------------------------------------------
(***************************************************************************)
(* Restarts, the whole next-state relation, and the theorem.               *)
(***************************************************************************)

\* Whatever frame the junior CP takes, its term does not go back.
LEMMA JuniorNeverBack ==
  ASSUME IInv, NEW a \in CP, OnePipeInv(a), NEW d \in CP, HasFrame(Junior, d)
  PROVE  Handled(Junior, ha[Junior], Frame(Junior, d)).term >= ha[Junior].term
<1> DEFINE W == ha[Senior]
           L == ha[Junior]
           p == chan[a][Senior]
           q == chan[a][Junior]
           up == link[a] = "up"
           on == ha[a].peerOut = "live"
           m == Frame(Junior, d)
<1>w. Wired(a) /\ Pair(a, W, L, p, q, up, on) /\ (Attached(ha[a]) => on)
  BY PairNow, PairFacts DEF OnePipeInv
<1>1. /\ Senior \in CP /\ Junior \in CP /\ Peer(Junior) = Senior /\ Senior # Junior
      /\ L \in HaState /\ chan[d][Peer(Junior)] # << >>
  BY PairIs DEF IInv, TypeOK, HasFrame
<1>2. /\ d = a /\ up /\ m = p[1] /\ m \in Message /\ 1 \in DOMAIN p
  BY <1>w, <1>1, Took DEF Pops
<1>a. Agrees(a, W, L, p, q, up, on) /\ Counts(L)
  BY <1>w DEF Pair
<1> HIDE DEF m
<1>3. CASE m.type \in {"sync", "syncReply", "heartbeat"}
  <2>1. m \in PeerStateMsg
    BY <1>2, <1>3, MessageTypes
  <2>2. Handled(Junior, L, m) = OnPeerState(Junior, L, m)
    BY <1>3 DEF Handled
  <2> HIDE DEF L
  <2> QED
    BY <1>1, <2>1, <2>2, PeerStateHeeds DEF Heeds, L, m
<1>4. CASE m.type = "elect" /\ Desired(Junior, L) = Senior
  <2>1. m.term \in Nat
    BY <1>2, <1>4, MessageTypes DEF ElectMsg
  <2>2. Handled(Junior, L, m) = AcceptElection(Junior, L, m.term)
    BY <1>1, <1>4 DEF Handled
  <2>3. AcceptElection(Junior, L, m.term).term = m.term
    BY <1>1, <2>1, AcceptIs
  <2>4. on
    <3>1. CASE a = Senior
      BY <1>2, <1>4, <1>a, <3>1 DEF Agrees, Hello
    <3>2. CASE a # Senior
      <4>1. a = Junior /\ Attached(L)
        BY <1>1, <1>4, <3>2, PairIs, WinnerIs DEF PeerConnected
      <4> QED
        BY <1>w, <4>1
    <3> QED
      BY <3>1, <3>2
  <2>5. Heard(p, 1)
    BY <1>a, <2>4 DEF Agrees, Hello, Heard
  <2>6. L.term <= m.term
    BY <1>2, <1>4, <1>a, <2>4, <2>5 DEF Agrees, Rounds, Proposes, Met
  <2>7. L.term \in Nat
    BY <1>a DEF Counts
  <2> QED
    BY <2>1, <2>2, <2>3, <2>6, <2>7 DEF m
<1>5. CASE m.type = "electReply" /\ m.for = "election"
  <2>1. m \in ElectReplyMsg
    BY <1>2, <1>5, MessageTypes
  <2>2. ~m.ok
    BY <1>2, <1>5, <1>a DEF Agrees, Known, Wins
  <2>3. Handled(Junior, L, m) = FollowRefusal(L, m)
    BY <1>5, <2>2 DEF Handled
  <2>4. FollowRefusal(L, m).term >= L.term
    BY <1>1, <2>1, RefusalIs
  <2> QED
    BY <2>3, <2>4 DEF m
<1>6. CASE /\ m.type \notin {"sync", "syncReply", "heartbeat"}
           /\ ~(m.type = "elect" /\ Desired(Junior, L) = Senior)
           /\ ~(m.type = "electReply" /\ m.for = "election")
  <2>1. Handled(Junior, L, m) = L
    BY <1>1, <1>6 DEF Handled
  <2>2. L.term >= L.term
    BY <1>a DEF Counts
  <2> QED
    BY <2>1, <2>2 DEF m
<1> QED
  BY <1>3, <1>4, <1>5, <1>6

\* The process of c comes back at a term that is not behind.
LEMMA RebornKeepsPair ==
  ASSUME IInv, NEW a \in CP, OnePipeInv(a), NEW c \in CP, NEW rows \in Saved, Reborn(c, rows),
         c = Junior => rows.term >= ha[Junior].term
  PROVE  OnePipeInv(a)'
<1> DEFINE r == Boot(c, rows)
           W == ha'[Senior]
           L == ha'[Junior]
<1>1. /\ Wired(a) /\ link \in [CP -> LinkState] /\ ha \in [CP -> HaState] /\ orphan \in [CP -> BOOLEAN]
      /\ Peer(a) \in CP /\ Peer(a) # a /\ (c = a \/ c = Peer(a))
      /\ Senior \in CP /\ Junior \in CP /\ Senior # Junior /\ (c = Senior \/ c = Junior)
  <2>1. c = a \/ c = Peer(a)
    BY DEF CP, Peer
  <2> QED
    BY <2>1, PeerType, PairIs DEF OnePipeInv, IInv, TypeOK
<1>2. /\ r.term = rows.term /\ r.electedTerm = 0 /\ r.peerTerm = 0 /\ r.phase = "nominating"
      /\ r.peerIn = FALSE /\ r.peerOut = "none" /\ r.out = "none" /\ rows.term \in Nat
  BY DEF Boot, Saved
<1>3. /\ ha' = [ha EXCEPT ![c] = r] /\ chan' = NoFrames
      /\ link' = [d \in CP |-> IF d = c THEN "closed" ELSE IF link[d] = "up" THEN "cut" ELSE link[d]]
      /\ orphan' = [orphan EXCEPT ![c] = FALSE, ![Peer(c)] = @ \/ link[c] = "up"]
  BY DEF Reborn
<1> HIDE DEF r
<1>4. ha'[c] = r /\ \A e \in CP : e # c => ha'[e] = ha[e]
  BY <1>1, <1>3
<1>5. \A e, s \in CP : chan'[e][s] = << >>
  BY <1>3 DEF NoFrames
<1>6. /\ link'[a] # "up" /\ link'[Peer(a)] = "closed"
      /\ link'[a] = "closed" => c = a \/ link[a] = "closed"
  BY <1>1, <1>3 DEF Wired
<1>7. ~orphan'[a]
  <2>1. CASE c = a
    BY <1>1, <1>3, <2>1
  <2>2. CASE c = Peer(a)
    <3>1. Peer(c) = a /\ link[c] = "closed" /\ ~orphan[a]
      BY <1>1, <2>2, PeerType DEF Wired
    <3> QED
      BY <1>1, <1>3, <2>2, <3>1
  <2> QED
    BY <1>1, <2>1, <2>2
<1>8. Wired(a)'
  <2>1. CASE c = a
    BY <1>1, <1>2, <1>4, <1>5, <1>6, <1>7, <2>1 DEF Wired
  <2>2. CASE c = Peer(a)
    BY <1>1, <1>2, <1>4, <1>5, <1>6, <1>7, <2>2 DEF Wired
  <2> QED
    BY <1>1, <2>1, <2>2
<1>t. ha[Senior].term \in Nat /\ ha[Senior].peerTerm \in Nat /\ ha[Junior].term \in Nat
  BY <1>1 DEF HaState
<1>9. /\ W.electedTerm # 0 => W.peerPriority = Priority[Junior] /\ (W.role = "leader" => W.leader = Senior)
      /\ W.peerTerm <= W.term /\ W.peerTerm <= L.term
      /\ ~(W.phase = "leader-leased" /\ L.phase = "leader-leased")
  <2>1. CASE c = Senior
    BY <1>1, <1>2, <1>4, <1>t, <2>1
  <2>2. CASE c = Junior
    BY <1>1, <1>2, <1>4, <1>t, <2>2, Apart
  <2> QED
    BY <1>1, <2>1, <2>2
<1>10. DOMAIN chan'[a][Senior] = {} /\ DOMAIN chan'[a][Junior] = {}
  BY <1>1, <1>5
<1>11. ~Met(a, link'[a] = "up", ha'[a].peerOut = "live", chan'[a][Senior])
  BY <1>6 DEF Met
<1>12. Agrees(a, W, L, chan'[a][Senior], chan'[a][Junior], link'[a] = "up", ha'[a].peerOut = "live")
  BY <1>9, <1>10, <1>11, PairSilent
<1> QED
  BY <1>8, <1>12, NextPair

\* A restart of either.
LEMMA RestartKeepsPair ==
  ASSUME IInv, NEW a \in CP, OnePipeInv(a), NEW c \in CP, Restart(c) \/ RestartTorn(c)
  PROVE  OnePipeInv(a)'
<1>1. /\ ha[c] \in HaState /\ ha[c].saved \in Saved /\ ha[c].saved.term = ha[c].term /\ ha[c].term \in Nat
      /\ Sound(c, ha[c]) /\ chan \in Channels /\ FramesSound(ha, chan) /\ Peer(c) \in CP
  BY PeerType DEF IInv, TypeOK, HaState, Sound, Channels
<1>2. CASE Restart(c)
  <2>1. Reborn(c, ha[c].saved)
    BY <1>2 DEF Restart
  <2>2. ha[c].saved.term >= ha[c].term
    BY <1>1
  <2> QED
    BY <1>1, <2>1, <2>2, RebornKeepsPair
<1>3. CASE RestartTorn(c)
  <2> DEFINE new(d) == Handled(c, ha[c], Frame(c, d))
  <2>1. PICK d \in CP : HasFrame(c, d) /\ \E rows \in Torn(ha[c].saved, new(d).saved) : Reborn(c, rows)
    BY <1>3 DEF RestartTorn
  <2>2. PICK rows \in Torn(ha[c].saved, new(d).saved) : Reborn(c, rows)
    BY <2>1
  <2>3. Frame(c, d) \in Message /\ Promises(ha, Peer(c), Frame(c, d))
    BY <1>1, <2>1, FrameType, PoppedSound DEF HasFrame
  <2>4. new(d) \in HaState /\ Sound(c, new(d))
    BY <1>1, <2>3, HandledType, HandledSound
  <2>5. c = Junior => new(d).term >= ha[c].term
    BY <2>1, JuniorNeverBack
  <2> HIDE DEF new
  <2>6. new(d).saved \in Saved /\ new(d).saved.term = new(d).term
    BY <2>4 DEF HaState, Sound
  <2>7. rows \in Saved
    BY <1>1, <2>2, <2>6, TornType
  <2>8. rows.term = new(d).saved.term
    BY <1>1, <2>2, <2>6 DEF Torn, Saved
  <2> QED
    BY <2>2, <2>5, <2>6, <2>7, <2>8, RebornKeepsPair
<1> QED
  BY <1>2, <1>3

\* Every step of a connection.
LEMMA ConnectionKeepsPair ==
  ASSUME IInv, NEW a \in CP, Dialers = {a}, OnePipeInv(a), NEW c \in CP,
         Dial(c) \/ Cut(c) \/ OutboundClosed(c) \/ InboundClosed(c) \/ Restart(c) \/ RestartTorn(c)
  PROVE  OnePipeInv(a)'
  BY DialKeepsPair, CutKeepsPair, OutboundClosedKeepsPair, InboundClosedKeepsPair, RestartKeepsPair

\* The initial states.
LEMMA PairBegins ==
  ASSUME Init, NEW a \in CP
  PROVE  OnePipeInv(a)
<1>1. Peer(a) \in CP /\ Senior \in CP /\ Junior \in CP
  BY PairIs, PeerType
<1>2. ASSUME NEW c \in CP
      PROVE  /\ ha[c].electedTerm = 0 /\ ha[c].peerTerm = 0 /\ ha[c].phase = "nominating"
             /\ ha[c].peerIn = FALSE /\ ha[c].peerOut = "none" /\ ha[c].out = "none"
             /\ ha[c].term \in Nat
  <2> DEFINE rows == InitSaved[c]
  <2>1. ha[c] = Boot(c, rows) /\ rows \in Saved
    BY ConstantsAssumption DEF Init
  <2> HIDE DEF rows
  <2> QED
    BY <2>1 DEF Boot, Saved
<1>3. \A c, s \in CP : chan[c][s] = << >> /\ link[c] = "closed" /\ ~orphan[c]
  BY DEF Init, NoFrames
<1>4. Wired(a)
  BY <1>1, <1>2, <1>3 DEF Wired
<1>5. DOMAIN chan[a][Senior] = {} /\ DOMAIN chan[a][Junior] = {}
  BY <1>1, <1>3
<1>6. ~Met(a, link[a] = "up", ha[a].peerOut = "live", chan[a][Senior])
  BY <1>3 DEF Met
<1>7. /\ ha[Senior].electedTerm = 0 /\ ha[Senior].phase = "nominating"
      /\ ha[Senior].peerTerm <= ha[Senior].term /\ ha[Senior].peerTerm <= ha[Junior].term
  <2>1. ha[Senior].electedTerm = 0 /\ ha[Senior].phase = "nominating" /\ ha[Senior].peerTerm = 0
    BY <1>1, <1>2
  <2>2. ha[Senior].term \in Nat
    BY <1>1, <1>2
  <2>3. ha[Junior].term \in Nat
    BY <1>1, <1>2
  <2> QED
    BY <2>1, <2>2, <2>3
<1>8. Agrees(a, ha[Senior], ha[Junior], chan[a][Senior], chan[a][Junior], link[a] = "up", ha[a].peerOut = "live")
  BY <1>5, <1>6, <1>7, PairSilent
<1> QED
  BY <1>4, <1>8 DEF OnePipeInv

\* Every step.
LEMMA PairNext ==
  ASSUME IInv, Elections, NEW a \in CP, Dialers = {a}, OnePipeInv(a), [Next]_vars
  PROVE  OnePipeInv(a)'
<1>1. ASSUME NEW c \in CP,
             Dial(c) \/ Cut(c) \/ OutboundClosed(c) \/ InboundClosed(c) \/ Restart(c) \/ RestartTorn(c)
      PROVE  OnePipeInv(a)'
  BY <1>1, ConnectionKeepsPair
<1>2. ASSUME NEW c \in CP,
             Heartbeat(c) \/ PeerSilent(c) \/ Tick(c) \/ RenewLease(c) \/ ElectionTimeout(c)
      PROVE  OnePipeInv(a)'
  BY <1>2, TimerKeepsPair
<1>3. ASSUME NEW c \in CP, NEW d \in CP, Receive(c, d) \/ LateReply(c, d)
      PROVE  OnePipeInv(a)'
  BY <1>3, ReceiveKeepsPair
<1>4. CASE UNCHANGED vars
  BY <1>4 DEF vars, OnePipeInv, Wired
<1> QED
  BY <1>1, <1>2, <1>3, <1>4 DEF Next

\* Where only one CP dials, no two CPs ever hold the write lease at once,
\* whatever is lost, cut, restarted, torn or early.
THEOREM OneWriter ==
  ASSUME NEW a \in CP, Dialers = {a}
  PROVE  Spec => []SingleWriter
<1>1. Init => OnePipeInv(a)
  BY PairBegins
<1>2. IInv /\ OneElection /\ OnePipeInv(a) /\ [Next]_vars => OnePipeInv(a)'
  BY PairNext, OneElectionIs DEF Elections
<1>3. OnePipeInv(a) => SingleWriter
  <2>1. ASSUME OnePipeInv(a) PROVE ~(ha[Senior].phase = "leader-leased" /\ ha[Junior].phase = "leader-leased")
    BY <2>1 DEF OnePipeInv, Agrees, Leases
  <2>2. \A c \in CP : c = Senior \/ c = Junior
    BY PairIs
  <2> QED
    BY <2>1, <2>2 DEF SingleWriter, Leased
<1> QED
  BY <1>1, <1>2, <1>3, Invariance, OneElectionSafe, PTL DEF Spec

============================================================================
