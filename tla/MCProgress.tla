----------------------------- MODULE MCProgress -----------------------------
(***************************************************************************)
(* The progress of the two clients that dial and retry on a device: the     *)
(* agent (NodeAgent) and the bridge to the local daemon (Bridge).  They     *)
(* share no state, so each is checked by itself: Init picks the part that   *)
(* moves, under the settings of its instance, and the other stays as it     *)
(* began.                                                                   *)
(***************************************************************************)
EXTENDS Naturals, FiniteSets

CONSTANTS c1, c2, None   \* model values

VARIABLES
  part,
  agent, beat, probe, regs, chains, synced, hubs, faults,            \* NodeAgent
  daemon, valid, issued, sid, shake, call, dials, restarts           \* Bridge

agentVars == <<agent, beat, probe, regs, chains, synced, hubs, faults>>
bridgeVars == <<daemon, valid, issued, sid, shake, call, dials, restarts>>

\* Control planes that welcome in time and register whoever asks.
Live == INSTANCE NodeAgent WITH
  up <- hubs, N <- 2, MaxBackoff <- 2, LongFrom <- 2, MaxFaults <- 2,
  FaultKinds <- {"down", "silent", "reject"}, MayStop <- FALSE, Prompt <- TRUE

\* The same with one control plane.
Single == INSTANCE NodeAgent WITH
  up <- hubs, N <- 1, MaxBackoff <- 2, LongFrom <- 2, MaxFaults <- 3,
  FaultKinds <- {"down", "silent", "reject"}, MayStop <- FALSE, Prompt <- TRUE

\* A daemon that runs a call without a session, or answers it with a 404.
Lax == INSTANCE Bridge WITH
  up <- daemon, Calls <- {c1, c2}, Sessionless <- {"ran", "unknown"}, MaxDials <- 1, MaxRestarts <- 2

\* A daemon that refuses a call without a session.
Strict == INSTANCE Bridge WITH
  up <- daemon, Calls <- {c1, c2}, Sessionless <- {"refused"}, MaxDials <- 1, MaxRestarts <- 2

ASSUME
  /\ Live!AgentAssumption /\ Single!AgentAssumption
  /\ Lax!BridgeAssumption /\ Strict!BridgeAssumption

Init ==
  /\ part \in {"live", "single", "lax", "strict"}
  /\ IF part = "single" THEN Single!Init ELSE Live!Init
  /\ Lax!Init

AgentMoves ==
  /\ \/ part = "live" /\ Live!Next
     \/ part = "single" /\ Single!Next
  /\ UNCHANGED <<part, bridgeVars>>

BridgeMoves ==
  /\ \/ part = "lax" /\ Lax!Next
     \/ part = "strict" /\ Strict!Next
  /\ UNCHANGED <<part, agentVars>>

Next == AgentMoves \/ BridgeMoves

\* The fairness of NodeAgent and of Bridge, for the part that moves.
OnAgent(live, single) == (part = "live" /\ live) \/ (part = "single" /\ single)
OnBridge(lax, strict) == (part = "lax" /\ lax) \/ (part = "strict" /\ strict)

Fairness ==
  /\ WF_agentVars(OnAgent(Live!Start, Single!Start))
  /\ WF_agentVars(OnAgent(Live!SocketOpens, Single!SocketOpens))
  /\ WF_agentVars(OnAgent(Live!SocketFails, Single!SocketFails))
  /\ WF_agentVars(OnAgent(Live!SocketCloses, Single!SocketCloses))
  /\ WF_agentVars(OnAgent(Live!Welcome, Single!Welcome))
  /\ WF_agentVars(OnAgent(Live!ReconnectTimer, Single!ReconnectTimer))
  /\ WF_agentVars(OnAgent(Live!HeartbeatTick, Single!HeartbeatTick))
  /\ WF_agentVars(OnAgent(Live!HeartbeatSent, Single!HeartbeatSent))
  /\ WF_agentVars(OnAgent(Live!HeartbeatAnswered, Single!HeartbeatAnswered))
  /\ WF_agentVars(OnAgent(Live!HeartbeatFails, Single!HeartbeatFails))
  /\ WF_agentVars(OnAgent(Live!PrimaryProbed, Single!PrimaryProbed))
  /\ WF_agentVars(OnAgent(Live!BackendReady, Single!BackendReady))
  /\ WF_agentVars(OnAgent(Live!Registered, Single!Registered))
  /\ WF_agentVars(OnAgent(Live!RegisterFails, Single!RegisterFails))
  /\ WF_agentVars(OnAgent(Live!Collected, Single!Collected))
  /\ WF_agentVars(OnAgent(Live!Reconciled, Single!Reconciled))
  /\ WF_agentVars(OnAgent(Live!ChainTick, Single!ChainTick))
  /\ WF_agentVars(OnAgent(Live!ChainDone, Single!ChainDone))
  /\ \A e \in Live!Endpoints : WF_agentVars(OnAgent(Live!HubUp(e), Single!HubUp(e)))
  /\ \A c \in {c1, c2} : WF_bridgeVars(OnBridge(Lax!CallStep(c), Strict!CallStep(c)))
  /\ \A d \in Lax!Shakers : WF_bridgeVars(OnBridge(Lax!ShakeStep(d), Strict!ShakeStep(d)))
  /\ WF_bridgeVars(OnBridge(Lax!DaemonStarts, Strict!DaemonStarts))

Spec == Init /\ [][Next]_<<part, agentVars, bridgeVars>> /\ Fairness

-----------------------------------------------------------------------------
(* Properties *)

\* With a standby an agent is always connected again; with a control plane of
\* its own it settles there once faults end (agent.ts onclose, heartbeat).
ComesBack == (part = "live" => Live!AlwaysBack) /\ (part = "single" => Single!SettlesAtPrimary)

\* A control plane that stays connected gets the catalog of the node
\* (agent.ts registerAndReconcile).
CatalogArrives == part = "live" => Live!CatalogArrives

\* Every call ends, those that wait on the handshake of another one included,
\* whatever the daemon says of calls without a session (bridge.ts reestablish).
CallsEnd == (part = "lax" => Lax!CallsEnd) /\ (part = "strict" => Strict!CallsEnd)

-----------------------------------------------------------------------------
(* Claims that fail: listed as a property of progress.cfg, TLC refutes each. *)

\* NodeAgent's SettlesAtPrimary with a standby (agent.ts tryReturnToPrimary).
ReturnsToPrimary == part = "live" => Live!SettlesAtPrimary

\* Bridge's NoDuplicateHandshake (bridge.ts reestablish).
NoDuplicateHandshake == Lax!NoDuplicateHandshake
=============================================================================
