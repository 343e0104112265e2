------------------------------ MODULE MCParts ------------------------------
(***************************************************************************)
(* The safety of the parts that run beside each other and share no state,  *)
(* on a device (DeviceParts) and on a hub (HubParts).                       *)
(*                                                                         *)
(* Each is checked by itself: Init picks what moves, and the others stay as *)
(* they began.  The summaries and the router move under several settings,   *)
(* which leave out a part of their requests.                                *)
(***************************************************************************)
EXTENDS DeviceParts, HubParts

CONSTANTS w1, p1, s1, m1, m2, s, w, k1, k2   \* model values

VARIABLE part

deviceVars == <<agentVars, bridgeVars, summaryVars, allVars>>
hubVars == <<presenceVars, routingVars, guardVars>>

-----------------------------------------------------------------------------
(* Constants *)

Asks(target, sess, work, danger) ==
  [target |-> target, session |-> sess, workspace |-> work, danger |-> danger]

\* A prompt by bare and by global id, one of an unknown node, a read by path
\* and one by workspace id with a session, and a write that names nothing.
MCRequests ==
  { Asks(NoNode, s, NoNode, "destructive"), Asks(NoNode, <<m2, s>>, "path", "destructive"),
    Asks("unknown", s, NoNode, "destructive"), Asks(NoNode, s, w, "read"),
    Asks(NoNode, NoNode, "path", "write") }

MCPathOf == [x \in {w} |-> "path"]

-----------------------------------------------------------------------------
\* A plain text that waits to be marked.
GuardIdle ==
  /\ stage = "mark" /\ doc = [width |-> 1, bytes |-> 1200] /\ returned = MaxBytes
  /\ pass = 0 /\ sent = 0 /\ broken = FALSE

PartsInit ==
  /\ part \in {"agent", "bridge", "summary", "through", "steer", "join",
                "presence", "owner", "reads", "audit", "guard"}
  /\ Agent!Init /\ Bridge!Init /\ Summary!Init /\ JoinInit
  /\ Presence!Init /\ Router!Init
  /\ IF part = "guard" THEN Guard!Init ELSE GuardIdle

AgentMoves ==
  part = "agent" /\ Agent!Next /\ UNCHANGED <<part, bridgeVars, summaryVars, allVars, hubVars>>

BridgeMoves ==
  part = "bridge" /\ Bridge!Next /\ UNCHANGED <<part, agentVars, summaryVars, allVars, hubVars>>

\* Requests other than those of R stay idle, turns of the session up to t.
Asking(R, t) == (\A r \in Summary!Requests \ R : req'[r] = req[r]) /\ turns' <= t

\* Two reads beside a request that invalidates, one passed through while the
\* session turns by itself, and a steer.
SummaryMoves ==
  /\ part \in {"summary", "through", "steer"} /\ Summary!Next
  /\ \/ part = "summary" /\ Asking(Readers \cup Writers, 0) /\ running' = running
     \/ part = "through" /\ Asking(Readers \cup Passed, 1) /\ running' = running /\ clock' <= 2
     \/ part = "steer" /\ Asking(Readers \cup Steers, 0) /\ clock' <= 2
  /\ UNCHANGED <<part, agentVars, bridgeVars, allVars, hubVars>>

JoinMoves ==
  part = "join" /\ JoinNext /\ UNCHANGED <<part, agentVars, bridgeVars, summaryVars, hubVars>>

PresenceMoves ==
  part = "presence" /\ Presence!Next /\ UNCHANGED <<part, deviceVars, routingVars, guardVars>>

\* A call while items, snapshots and connections come and go, an aggregated
\* read while connections and leases do (it reads no tables), and two calls
\* that an audit log follows.
RouterMoves ==
  /\ part \in {"owner", "reads", "audit"} /\ Router!Next
  /\ \/ part = "owner" /\ agg' = agg /\ call'[k2] = call[k2]
     \/ part = "reads" /\ call' = call /\ changes' = 0 /\ taken' = taken
     \/ part = "audit" /\ agg' = agg /\ changes' = 0 /\ taken' = taken
  /\ UNCHANGED <<part, deviceVars, presenceVars, guardVars>>

GuardMoves == part = "guard" /\ Guard!Next /\ UNCHANGED <<part, deviceVars, presenceVars, routingVars>>

PartsNext ==
  \/ AgentMoves \/ BridgeMoves \/ SummaryMoves \/ JoinMoves
  \/ PresenceMoves \/ RouterMoves \/ GuardMoves

PartsSpec == PartsInit /\ [][PartsNext]_<<part, deviceVars, hubVars>>

-----------------------------------------------------------------------------
(* Claims that fail: listed as a property of parts.cfg, TLC refutes each. *)

\* NodeAgent's OneReconnect (agent.ts heartbeat).
OneReconnect == Agent!OneReconnect

\* SummaryCache's ChangeSeen of prompts passed through (agent.ts MCP_CALL), and
\* of those the agent invalidates for (summary.ts getSession).
PassedChangeSeen == part = "through" => Summary!ChangeSeen
ChangeSeen == part = "summary" => Summary!ChangeSeen

\* Presence's PinHolds (presence.ts claim).
PinHolds == Presence!PinHolds

\* Routing's OwnerKept (bridge.ts), FailClosed and EveryDecisionAudited
\* (router.ts, server.ts), EveryRowSettles (control-plane.ts), and
\* ForwardsAudited of a hub without an audit log (hub-cli.ts).
OwnerKept == Router!OwnerKept
EveryRowSettles == Router!EveryRowSettles
FailClosed == Router!FailClosed
EveryDecisionAudited == Router!EveryDecisionAudited
ForwardsAudited == Router!ForwardsAudited

\* Guard's NarrowedIsSent, AlwaysStatesItsSize and NoBrokenCharacter (guard.ts).
NarrowedIsSent == Guard!NarrowedIsSent
AlwaysStatesItsSize == Guard!AlwaysStatesItsSize
NoBrokenCharacter == Guard!NoBrokenCharacter
=============================================================================
