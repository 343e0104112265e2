----------------------------- MODULE NodeAgent -----------------------------
(***************************************************************************)
(* HelmNodeAgent (packages/node-agent/src/agent.ts): the socket to one of  *)
(* several control planes, the reconnect timer with its backoff, the       *)
(* heartbeat, the return to the primary, and the registration and          *)
(* reconcile work that every connection starts and none cancels.           *)
(*                                                                         *)
(* The object is the record agent; the operators on it are its methods.    *)
(* Control planes are numbered in dial order, 0 is the primary.            *)
(***************************************************************************)
EXTENDS Naturals

CONSTANTS
  N,             \* control-plane endpoints
  MaxBackoff,    \* doublings of the backoff before it stays
  LongFrom,      \* from here on the delay is longer than a heartbeat interval
  FaultKinds,    \* which faults happen, see Fault below
  MaxFaults,
  MayStop,       \* the process may be told to stop
  Prompt         \* a control plane that runs opens and welcomes a socket before
                 \* the next reconnect timer fires

AgentAssumption ==
  /\ N \in Nat \ {0} /\ MaxBackoff \in Nat /\ LongFrom \in Nat /\ MaxFaults \in Nat
  /\ FaultKinds \subseteq {"down", "silent", "register", "reject"}
  /\ MayStop \in BOOLEAN /\ Prompt \in BOOLEAN

Endpoints == 0 .. N - 1

VARIABLES
  agent,    \* the object's fields
  beat,     \* the heartbeat under way
  probe,    \* primaryProbeInFlight
  regs,     \* where calls of registerAndReconcile stand
  chains,   \* where periodic reconciles stand
  synced,   \* the control plane of this connection has the catalog
  up,       \* control planes that run
  faults

workVars == <<beat, probe, regs, chains, synced>>
vars == <<agent, workVars, up, faults>>

NoSocket == [ep |-> 0, phase |-> "none", end |-> "gone"]
Dialing(e) == [ep |-> e, phase |-> "opening", end |-> "ok"]

Init ==
  /\ agent = [st |-> "idle", sock |-> NoSocket, peer |-> FALSE, timer |-> "none", backoff |-> 0, index |-> 0]
  /\ beat = "none" /\ probe = FALSE /\ regs = {} /\ chains = {} /\ synced = FALSE
  /\ up = Endpoints /\ faults = 0

-----------------------------------------------------------------------------
(* Methods *)

\* Mutant of Advanced: no wrap around.
AdvancedPast(a) == a.index + 1

Advanced(a) == (a.index + 1) % N

Delay(a) == IF a.backoff >= LongFrom THEN "long" ELSE "short"
Longer(a) == IF a.backoff < MaxBackoff THEN a.backoff + 1 ELSE a.backoff

\* Mutants of ScheduleReconnect: the state changes and no timer is set after
\* the first one; a stopped agent schedules as well.
ScheduleOnce(a, advance) ==
  IF a.st = "stopped" THEN a
  ELSE [a EXCEPT !.timer = IF a.backoff = 0 THEN "short" ELSE a.timer, !.backoff = Longer(a), !.st = "reconnecting"]

ScheduleStopped(a, advance) ==
  IF a.timer # "none" THEN a
  ELSE [a EXCEPT !.index = IF advance THEN Advanced(a) ELSE a.index,
                 !.timer = Delay(a), !.backoff = Longer(a), !.st = "reconnecting"]

\* scheduleReconnect: nothing while a timer is pending.
ScheduleReconnect(a, advance) ==
  IF a.st = "stopped" \/ a.timer # "none" THEN a
  ELSE [a EXCEPT !.index = IF advance THEN Advanced(a) ELSE a.index,
                 !.timer = Delay(a), !.backoff = Longer(a), !.st = "reconnecting"]

\* connect: the previous socket is closed without its close event; closing a
\* socket that is still opening fires its error event (failed), which finds the
\* state connecting.
Connect(a, failed) ==
  LET b == [a EXCEPT !.st = "connecting"]
      c == IF failed THEN ScheduleReconnect(b, TRUE) ELSE b
  IN IF a.st = "stopped" THEN a ELSE [c EXCEPT !.sock = Dialing(c.index)]

StillOpening(a) == a.sock.phase = "opening" /\ a.sock.end = "ok"

\* The socket is lost: onclose and onerror.
Lost(a) == IF a.st \in {"connecting", "connected"} THEN ScheduleReconnect(a, TRUE) ELSE a

\* onConnected: a welcome counts in any state, even with a timer pending.
OnConnected(a) ==
  [a EXCEPT !.st = "connected", !.sock.phase = "live", !.peer = TRUE, !.backoff = 0]

\* this.peer.close(): pending requests are rejected.  A rejected registration
\* ends, a rejected reconcile goes on to the periodic one.
RegsOnClose == regs \ {"register", "reconcile"}
ChainsOnClose ==
  (chains \ {"reconcile"}) \cup (IF "reconcile" \in chains \cup regs THEN {"wait"} ELSE {})

-----------------------------------------------------------------------------
(* The socket *)

Start ==
  /\ agent.st = "idle"
  /\ agent' = Connect(agent, FALSE)
  /\ UNCHANGED <<workVars, up, faults>>

Reachable == agent.sock.end = "ok" /\ agent.sock.ep \in up

SocketOpens ==
  /\ agent.sock.phase = "opening" /\ Reachable
  /\ agent' = [agent EXCEPT !.sock.phase = "handshake"]
  /\ UNCHANGED <<workVars, up, faults>>

\* Refused, reset or timed out before it opened: an error event.
SocketFails ==
  /\ StillOpening(agent) /\ agent.sock.ep \notin up
  /\ agent' = Lost([agent EXCEPT !.sock.end = "gone"])
  /\ UNCHANGED <<workVars, up, faults>>

SocketCloses ==
  /\ agent.sock.end = "closed"
  /\ agent' = Lost([agent EXCEPT !.sock.end = "gone"])
  /\ UNCHANGED <<workVars, up, faults>>

\* Mutant of Welcome: nothing registers.
WelcomeQuietly ==
  /\ agent.sock.phase = "handshake" /\ Reachable
  /\ agent' = OnConnected(agent)
  /\ synced' = FALSE
  /\ UNCHANGED <<beat, probe, regs, chains, up, faults>>

\* The handshake succeeds: onConnected starts a registration.
Welcome ==
  /\ agent.sock.phase = "handshake" /\ Reachable
  /\ agent' = OnConnected(agent)
  /\ regs' = regs \cup {"backend"} /\ synced' = FALSE
  /\ UNCHANGED <<beat, probe, chains, up, faults>>

\* The timer: the peer is closed and connect() runs; a heartbeat whose request the close
\* rejected then calls scheduleReconnect as well.
ReconnectTimer ==
  /\ agent.timer # "none"
  /\ ~(Prompt /\ agent.sock.phase \in {"opening", "handshake"} /\ Reachable)
  /\ \E failed \in IF StillOpening(agent) THEN BOOLEAN ELSE {FALSE} :
       LET a == Connect([agent EXCEPT !.timer = "none", !.peer = FALSE], failed)
       IN agent' = IF beat = "sent" THEN ScheduleReconnect(a, TRUE) ELSE a
  /\ beat' = IF beat = "sent" THEN "none" ELSE beat
  /\ regs' = RegsOnClose /\ chains' = ChainsOnClose
  /\ UNCHANGED <<probe, synced, up, faults>>

\* stop: reconcile chains and the primary probe go on.
Stop ==
  /\ MayStop /\ agent.st # "stopped"
  /\ agent' = [agent EXCEPT !.st = "stopped", !.sock = NoSocket, !.peer = FALSE, !.timer = "none"]
  /\ beat' = IF beat = "sent" THEN "none" ELSE beat
  /\ regs' = RegsOnClose /\ chains' = ChainsOnClose
  /\ UNCHANGED <<probe, synced, up, faults>>

-----------------------------------------------------------------------------
(* Heartbeat and return to the primary *)

ReturnWanted(a) == a.st = "connected" /\ N >= 2 /\ a.index # 0

\* The interval starts again with each connection, so a short timer that was
\* pending at the welcome fires first.
HeartbeatTick ==
  /\ agent.peer /\ beat = "none"
  /\ ~(agent.st = "connected" /\ agent.timer = "short")
  /\ beat' = "probe"
  /\ probe' = (probe \/ ReturnWanted(agent))
  /\ UNCHANGED <<agent, regs, chains, synced, up, faults>>

\* After the local probe: this.peer is read again, and may be gone.
HeartbeatSent ==
  /\ beat = "probe"
  /\ beat' = IF agent.peer THEN "sent" ELSE "none"
  /\ UNCHANGED <<agent, probe, regs, chains, synced, up, faults>>

Alive == agent.sock.phase = "live" /\ Reachable

HeartbeatAnswered ==
  /\ beat = "sent" /\ Alive /\ beat' = "none"
  /\ UNCHANGED <<agent, probe, regs, chains, synced, up, faults>>

\* Mutant of HeartbeatFails: the failure is only logged.
HeartbeatFailsQuietly ==
  /\ beat = "sent" /\ ~Alive
  /\ beat' = "none"
  /\ UNCHANGED <<agent, probe, regs, chains, synced, up, faults>>

\* The request times out.
HeartbeatFails ==
  /\ beat = "sent" /\ ~Alive
  /\ beat' = "none"
  /\ agent' = ScheduleReconnect(agent, TRUE)
  /\ UNCHANGED <<probe, regs, chains, synced, up, faults>>

CloseSocket(a) == IF a.sock.end \in {"ok", "silent"} THEN [a EXCEPT !.sock.end = "closed"] ELSE a

\* Mutant of SwitchBack: the live socket is left open.
SwitchBackLater(a) == [a EXCEPT !.index = 0]

SwitchBack(a) == CloseSocket(ScheduleReconnect([a EXCEPT !.index = 0], FALSE))

\* The probe of the primary ends; nothing is checked again after the await.
PrimaryProbed ==
  /\ probe /\ probe' = FALSE
  /\ agent' = IF 0 \in up THEN SwitchBack(agent) ELSE agent
  /\ UNCHANGED <<beat, regs, chains, synced, up, faults>>

-----------------------------------------------------------------------------
(* Registration and reconcile *)

Move(S, from, to) == (S \ {from}) \cup to

\* A registration goes on once the local daemon answers: this.peer is read
\* again; without one the request is skipped and counts as done.
BackendReady ==
  /\ "backend" \in regs
  /\ regs' = Move(regs, "backend", IF agent.peer THEN {"register"} ELSE {"collect"})
  /\ UNCHANGED <<agent, beat, probe, chains, synced, up, faults>>

Registered ==
  /\ "register" \in regs /\ Alive
  /\ regs' = Move(regs, "register", {"collect"})
  /\ UNCHANGED <<agent, beat, probe, chains, synced, up, faults>>

\* A registration that fails or times out starts no periodic reconcile.
RegisterFails ==
  /\ "register" \in regs
  /\ \/ ~Alive /\ UNCHANGED faults
     \/ "register" \in FaultKinds /\ faults < MaxFaults /\ faults' = faults + 1
  /\ regs' = regs \ {"register"}
  /\ UNCHANGED <<agent, beat, probe, chains, synced, up>>

Collected ==
  /\ "collect" \in regs
  /\ IF agent.peer
     THEN regs' = Move(regs, "collect", {"reconcile"}) /\ UNCHANGED chains
     ELSE regs' = regs \ {"collect"} /\ chains' = chains \cup {"wait"}
  /\ UNCHANGED <<agent, beat, probe, synced, up, faults>>

\* The reconcile is answered or fails; the periodic one starts either way.
Reconciled ==
  /\ "reconcile" \in regs
  /\ regs' = regs \ {"reconcile"} /\ chains' = chains \cup {"wait"}
  /\ synced' = (synced \/ Alive)
  /\ UNCHANGED <<agent, beat, probe, up, faults>>

ChainTick ==
  /\ "wait" \in chains
  /\ chains' = Move(chains, "wait", IF agent.peer THEN {"reconcile"} ELSE {"wait"})
  /\ UNCHANGED <<agent, beat, probe, regs, synced, up, faults>>

\* Mutant of Again: a chain whose request fails ends.
AgainIfAlive == IF Alive THEN {"wait"} ELSE {}

\* scheduleReconcile calls itself, whatever the outcome was.
Again == {"wait"}

ChainDone ==
  /\ "reconcile" \in chains
  /\ chains' = Move(chains, "reconcile", Again)
  /\ synced' = (synced \/ Alive)
  /\ UNCHANGED <<agent, beat, probe, regs, up, faults>>

-----------------------------------------------------------------------------
(* The world *)

Fault(kind) == kind \in FaultKinds /\ faults < MaxFaults /\ faults' = faults + 1

\* A control plane dies; its sockets close.
HubDown(e) ==
  /\ Fault("down") /\ e \in up /\ up' = up \ {e}
  /\ agent' = IF agent.sock.ep = e /\ agent.sock.phase \in {"handshake", "live"} /\ agent.sock.end = "ok"
              THEN [agent EXCEPT !.sock.end = "closed"] ELSE agent
  /\ UNCHANGED workVars

HubUp(e) == e \in Endpoints \ up /\ up' = up \cup {e} /\ UNCHANGED <<agent, workVars, faults>>

\* A live socket goes half open: nothing arrives any more, not even its close.
GoSilent ==
  /\ Fault("silent") /\ agent.sock.phase = "live" /\ agent.sock.end = "ok"
  /\ agent' = [agent EXCEPT !.sock.end = "silent"]
  /\ UNCHANGED <<workVars, up>>

\* The same before the welcome.
GoSilentEarly ==
  /\ Fault("silent") /\ agent.sock.phase = "handshake" /\ agent.sock.end = "ok"
  /\ agent' = [agent EXCEPT !.sock.end = "silent"]
  /\ UNCHANGED <<workVars, up>>

\* The control plane refuses the handshake.
HandshakeRefused ==
  /\ Fault("reject") /\ agent.sock.phase = "handshake" /\ Reachable
  /\ agent' = ScheduleReconnect([agent EXCEPT !.sock.end = "gone"], TRUE)
  /\ UNCHANGED <<workVars, up>>

Work ==
  \/ BackendReady \/ Registered \/ RegisterFails \/ Collected \/ Reconciled \/ ChainTick \/ ChainDone

Step ==
  \/ Start \/ SocketOpens \/ SocketFails \/ SocketCloses \/ Welcome \/ ReconnectTimer \/ Stop
  \/ HeartbeatTick \/ HeartbeatSent \/ HeartbeatAnswered \/ HeartbeatFails \/ PrimaryProbed
  \/ Work

World == (\E e \in Endpoints : HubDown(e) \/ HubUp(e)) \/ GoSilent \/ HandshakeRefused

Next == Step \/ World

Spec == Init /\ [][Next]_vars

\* Timers fire, requests are answered or time out, sockets report what became
\* of them, and a control plane that died is started again.
Fairness ==
  /\ WF_vars(Start) /\ WF_vars(SocketOpens) /\ WF_vars(SocketFails) /\ WF_vars(SocketCloses)
  /\ WF_vars(Welcome) /\ WF_vars(ReconnectTimer)
  /\ WF_vars(HeartbeatTick) /\ WF_vars(HeartbeatSent) /\ WF_vars(HeartbeatAnswered)
  /\ WF_vars(HeartbeatFails) /\ WF_vars(PrimaryProbed)
  /\ WF_vars(BackendReady) /\ WF_vars(Registered) /\ WF_vars(RegisterFails) /\ WF_vars(Collected)
  /\ WF_vars(Reconciled) /\ WF_vars(ChainTick) /\ WF_vars(ChainDone)
  /\ \A e \in Endpoints : WF_vars(HubUp(e))

FairSpec == Spec /\ Fairness

\* Sockets that may also fall silent before the welcome.
EarlySpec == Init /\ [][Next \/ GoSilentEarly]_vars /\ Fairness

-----------------------------------------------------------------------------
(* Properties *)

TypeOK ==
  /\ agent \in [st : {"idle", "connecting", "connected", "reconnecting", "stopped"},
                sock : [ep : Endpoints, phase : {"none", "opening", "handshake", "live"},
                        end : {"ok", "closed", "silent", "gone"}],
                peer : BOOLEAN, timer : {"none", "short", "long"},
                backoff : 0 .. MaxBackoff, index : Endpoints]
  /\ beat \in {"none", "probe", "sent"} /\ probe \in BOOLEAN
  /\ regs \in SUBSET {"backend", "register", "collect", "reconcile"}
  /\ chains \in SUBSET {"wait", "reconcile"}
  /\ synced \in BOOLEAN /\ up \in SUBSET Endpoints /\ faults \in Nat

\* A reconnecting agent has a timer, whoever asked for the reconnect last:
\* otherwise it would wait for ever (agent.ts scheduleReconnect).
ReconnectIsPending == agent.st = "reconnecting" => agent.timer # "none"

\* An agent that is connected and not about to reconnect stays at the endpoint
\* of its socket ("a successful connect pins the index", scheduleReconnect).
PinnedToSocket ==
  agent.st = "connected" /\ agent.timer = "none" /\ agent.sock.end = "ok" => agent.index = agent.sock.ep

\* A stopped agent stays stopped, holds no socket and dials nowhere, although
\* probes, heartbeats and registrations of its past are still under way.
StopIsFinal ==
  [][agent.st = "stopped" =>
       agent'.st = "stopped" /\ agent'.timer = "none" /\ ~agent'.peer /\ agent'.sock = NoSocket]_agent

\* The periodic reconcile, once begun, outlives failures, reconnects and even a
\* stop (scheduleReconcile is never cancelled).
ReconcileGoesOn == [][chains # {} => chains' # {}]_chains

\* An agent never gives up: whatever fails, it is connected again.
AlwaysBack == []<>(agent.st = "connected" /\ agent.sock.end = "ok")

\* Once faults end, the agent is connected for good, and to the primary ("a
\* live primary triggers a clean switch back", tryReturnToPrimary).
SettlesAtPrimary == <>[](agent.st = "connected" /\ agent.sock.end = "ok" /\ agent.sock.ep = 0)

\* A connected control plane gets the catalog of the node ("re-register +
\* metadata reconcile", docs/architecture.md 7.3) unless the connection ends.
CatalogArrives == agent.st = "connected" ~> synced \/ agent.st # "connected"

-----------------------------------------------------------------------------
(* Claims that fail *)

\* The comment in heartbeat(): "Reconnect is idempotent (scheduleReconnect
\* no-ops while a timer is already pending)", so that a connection is never
\* made while another reconnect is still due.
OneReconnect == agent.st = "connected" => agent.timer = "none"

\* The comments in onerror and heartbeat(): without them "the agent would hang
\* forever" and "would sit on a dead connection forever".
NeverHangs == []<>(agent.st = "connected" \/ agent.timer # "none")
=============================================================================
