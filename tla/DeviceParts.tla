---------------------------- MODULE DeviceParts ----------------------------
(***************************************************************************)
(* What runs on a device beside each other and shares no state: the agent, *)
(* its bridge to the local daemon, its summaries (NodeAgent, Bridge,        *)
(* SummaryCache), and the join command with the pairing service it asks     *)
(* (Join, which this module extends).                                       *)
(***************************************************************************)
EXTENDS Join

CONSTANTS
  N, MaxBackoff, LongFrom, AgentFaults, MaxAgentFaults, MayStop, Prompt,   \* NodeAgent
  DaemonCalls, Sessionless, MaxDials, MaxRestarts,                         \* Bridge
  Readers, Writers, Passed, Steers, CacheTtl, MaxCall, MaxTurns, MaxClock  \* SummaryCache

VARIABLES
  agent, beat, probe, regs, chains, synced, hubs, faults,                 \* NodeAgent
  daemon, valid, issued, sid, shake, post, dials, restarts,               \* Bridge
  session, running, cache, req, clock, turns, until, landed, quiet        \* SummaryCache

agentVars == <<agent, beat, probe, regs, chains, synced, hubs, faults>>
bridgeVars == <<daemon, valid, issued, sid, shake, post, dials, restarts>>
summaryVars == <<session, running, cache, req, clock, turns, until, landed, quiet>>

Agent == INSTANCE NodeAgent WITH
  up <- hubs, FaultKinds <- AgentFaults, MaxFaults <- MaxAgentFaults

Bridge == INSTANCE Bridge WITH up <- daemon, call <- post, Calls <- DaemonCalls

Summary == INSTANCE SummaryCache WITH file <- cache, now <- clock, Ttl <- CacheTtl, MaxTime <- MaxClock

ASSUME DeviceAssumption ==
  Agent!AgentAssumption /\ Bridge!BridgeAssumption /\ Summary!SummaryAssumption /\ JoinAssumption

-----------------------------------------------------------------------------
(* Properties *)

\* Whatever fails and however slow the answers are, a reconnecting agent has a
\* timer that will fire, and an agent that is not about to reconnect stays at
\* the endpoint of its socket (agent.ts scheduleReconnect).
AgentSafe == Agent!TypeOK /\ Agent!ReconnectIsPending /\ Agent!PinnedToSocket

\* A stopped agent stays stopped and dials nowhere, whatever was under way when
\* it stopped (agent.ts stop).
StopIsFinal == Agent!StopIsFinal

\* A call to the daemon runs at most once, and a restart of the daemon before
\* it costs it nothing (bridge.ts post, reestablish).
BridgeSafe == Bridge!TypeOK /\ Bridge!AtMostOnce /\ Bridge!CallSurvivesRestart

\* A summary is never older than one lifetime and one fetch, and a change made
\* while nothing was being read is seen (summary.ts, agent.ts).
SummariesFresh ==
  Summary!TypeOK /\ Summary!StalenessBounded /\ Summary!QuietChangeSeen /\ Summary!HistoryIsFresh

\* A node.json belongs to a node the hub knows, and to one device only,
\* whatever attempts give up or race (pair.ts enrollClient).
JoinSafe == JoinTypeOK /\ FileIsKnownToHub /\ OneDevicePerCode
=============================================================================
