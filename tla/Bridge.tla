------------------------------- MODULE Bridge -------------------------------
(***************************************************************************)
(* The bridge of a node to its local daemon: McpLocalHelmBackend            *)
(* (node-agent/src/bridge.ts), with the connects of the agent (agent.ts     *)
(* connect, registerAndReconcile).  The daemon forgets its MCP sessions     *)
(* when it restarts and answers 404 to a session it does not know; what it  *)
(* answers to a call without a session is left open (constant Sessionless). *)
(*                                                                         *)
(* A call ends "ok" when the tool ran, whatever the tool said.              *)
(***************************************************************************)
EXTENDS Naturals, FiniteSets

CONSTANTS
  Calls,
  Sessionless,   \* answers to a call without a session: "ran", "unknown", "refused"
  MaxDials,      \* connects of the agent
  MaxRestarts,
  None

BridgeAssumption ==
  /\ IsFiniteSet(Calls) /\ None \notin Nat
  /\ Sessionless \subseteq {"ran", "unknown", "refused"} /\ MaxDials \in Nat /\ MaxRestarts \in Nat

Shakers == {"agent", "re"}   \* who runs an initialize: connect() of the agent, reestablish()

VARIABLES
  up, valid, issued,   \* the daemon: running, its sessions, ids handed out
  sid,                 \* sessionId
  shake,               \* initialize handshakes under way
  call,
  dials, restarts

daemonVars == <<up, valid, issued>>
vars == <<daemonVars, sid, shake, call, dials, restarts>>

NoShake == [stage |-> "none", id |-> None]
Fresh == [stage |-> "idle", hdr |-> None, retry |-> FALSE, clean |-> TRUE, runs |-> 0]

Init ==
  /\ up = TRUE /\ valid = {} /\ issued = 0 /\ sid = None
  /\ shake = [d \in Shakers |-> NoShake] /\ call = [c \in Calls |-> Fresh]
  /\ dials = 0 /\ restarts = 0

InFlight == {"posted", "ran", "unknown", "refused"}
Waiting == {c \in Calls : call[c].stage = "waiting"}

-----------------------------------------------------------------------------
(* post() and callTool() *)

\* Mutant of Posted: the retry reuses the headers it has built.
PostedStale(c, id) == [call[c] EXCEPT !.stage = "posted"]

Posted(c, id) == [call[c] EXCEPT !.stage = "posted", !.hdr = id]

\* callTool: the header is the session of this moment.
Post(c) ==
  /\ call[c].stage = "idle"
  /\ call' = [call EXCEPT ![c] = [Posted(c, sid) EXCEPT !.clean = up]]
  /\ UNCHANGED <<daemonVars, sid, shake, dials, restarts>>

\* The daemon: a call of a session it knows runs.
Handle(c) ==
  /\ call[c].stage = "posted" /\ up
  /\ \E answer \in IF call[c].hdr = None THEN Sessionless
                   ELSE IF call[c].hdr \in valid THEN {"ran"} ELSE {"unknown"} :
       call' = [call EXCEPT ![c].stage = answer, ![c].runs = IF answer = "ran" THEN @ + 1 ELSE @]
  /\ UNCHANGED <<daemonVars, sid, shake, dials, restarts>>

AnswerArrives(c) ==
  /\ call[c].stage \in {"ran", "refused"}
  /\ call' = [call EXCEPT ![c].stage = IF @ = "ran" THEN "ok" ELSE "failed"]
  /\ UNCHANGED <<daemonVars, sid, shake, dials, restarts>>

\* reestablish(): an attempt under way is shared.
Join == shake["re"].stage # "none"

\* A 404 for the session: one handshake, once per call.
UnknownArrives(c) ==
  /\ call[c].stage = "unknown"
  /\ UNCHANGED <<daemonVars, dials, restarts>>
  /\ \/ call[c].retry /\ call' = [call EXCEPT ![c].stage = "failed"] /\ UNCHANGED <<sid, shake>>
     \/ /\ ~call[c].retry
        /\ call' = [call EXCEPT ![c].stage = "waiting"]
        /\ IF Join THEN UNCHANGED <<sid, shake>>
           ELSE sid' = None /\ shake' = [shake EXCEPT !["re"].stage = "posted"]

\* Mutant of AfterLoss: one more try.
AfterLossRetry(c) ==
  IF call[c].retry THEN [call[c] EXCEPT !.stage = "failed", !.clean = FALSE]
  ELSE [Posted(c, sid) EXCEPT !.retry = TRUE, !.clean = FALSE]

\* A fetch that fails is an error of the call.
AfterLoss(c) == [call[c] EXCEPT !.stage = "failed", !.clean = FALSE]

\* The connection of a call ends, with the daemon or without it.
Lost(c) ==
  /\ call[c].stage \in InFlight
  /\ call' = [call EXCEPT ![c] = AfterLoss(c)]
  /\ UNCHANGED <<daemonVars, sid, shake, dials, restarts>>

-----------------------------------------------------------------------------
(* connect() and reestablish() *)

\* connect(), called by the agent while there is no session.
AgentConnects ==
  /\ sid = None /\ shake["agent"].stage = "none"
  /\ dials < MaxDials /\ dials' = dials + 1
  /\ shake' = [shake EXCEPT !["agent"].stage = "posted"]
  /\ UNCHANGED <<daemonVars, sid, call, restarts>>

InitHandled(d) ==
  /\ shake[d].stage = "posted" /\ up
  /\ issued' = issued + 1 /\ valid' = valid \cup {issued'}
  /\ shake' = [shake EXCEPT ![d] = [stage |-> "answered", id |-> issued']]
  /\ UNCHANGED <<up, sid, call, dials, restarts>>

\* The header of the answer is taken whatever session there is by now.
InitAnswered(d) ==
  /\ shake[d].stage = "answered"
  /\ sid' = shake[d].id
  /\ shake' = [shake EXCEPT ![d].stage = "notify"]
  /\ UNCHANGED <<daemonVars, call, dials, restarts>>

\* The notification ends one way or the other; reestablish() settles, and the
\* calls that wait on it are posted again before anything else happens.
Notified(d) ==
  /\ shake[d].stage = "notify"
  /\ shake' = [shake EXCEPT ![d] = NoShake]
  /\ call' = [c \in Calls |-> IF d = "re" /\ c \in Waiting
                              THEN [Posted(c, sid) EXCEPT !.retry = TRUE] ELSE call[c]]
  /\ UNCHANGED <<daemonVars, sid, dials, restarts>>

\* Mutant of Rejected: nobody hears of it.
RejectedNone(d) == call

\* The promise of reestablish() rejects, and with it the calls that wait.
Rejected(d) ==
  [c \in Calls |-> IF d = "re" /\ c \in Waiting THEN [call[c] EXCEPT !.stage = "failed"] ELSE call[c]]

\* Mutant of Cleared: the rejected attempt stays in place.
ClearedNever(d) == [shake EXCEPT ![d].stage = "dead"]

\* finally: the attempt is forgotten.
Cleared(d) == [shake EXCEPT ![d] = NoShake]

InitFails(d) ==
  /\ \/ shake[d].stage = "posted" /\ ~up
     \/ shake[d].stage = "answered" /\ shake[d].id \notin valid
  /\ shake' = Cleared(d) /\ call' = Rejected(d)
  /\ UNCHANGED <<daemonVars, sid, dials, restarts>>

-----------------------------------------------------------------------------
(* The daemon *)

DaemonStops ==
  /\ up /\ restarts < MaxRestarts /\ restarts' = restarts + 1
  /\ up' = FALSE /\ valid' = {}
  /\ call' = [c \in Calls |-> [call[c] EXCEPT !.clean = FALSE]]
  /\ UNCHANGED <<issued, sid, shake, dials>>

\* Connections are local: those of the old daemon have ended before the new one
\* listens, and those made meanwhile were refused.
DaemonStarts ==
  /\ ~up /\ up' = TRUE
  /\ \A c \in Calls : call[c].stage \notin InFlight
  /\ \A d \in Shakers : shake[d].stage = "none"
  /\ UNCHANGED <<valid, issued, sid, shake, call, dials, restarts>>

CallStep(c) == Handle(c) \/ AnswerArrives(c) \/ UnknownArrives(c) \/ Lost(c)
ShakeStep(d) == InitHandled(d) \/ InitAnswered(d) \/ Notified(d) \/ InitFails(d)

Next ==
  \/ \E c \in Calls : Post(c) \/ CallStep(c)
  \/ AgentConnects \/ \E d \in Shakers : ShakeStep(d)
  \/ DaemonStops \/ DaemonStarts

Spec == Init /\ [][Next]_vars

\* A fetch ends, with an answer or with the connection.
Fairness ==
  /\ \A c \in Calls : WF_vars(CallStep(c))
  /\ \A d \in Shakers : WF_vars(ShakeStep(d))
  /\ WF_vars(DaemonStarts)

FairSpec == Spec /\ Fairness

-----------------------------------------------------------------------------
(* Properties *)

TypeOK ==
  /\ up \in BOOLEAN /\ valid \subseteq 1 .. issued
  /\ sid \in (1 .. issued) \cup {None}
  /\ \A c \in Calls : /\ call[c].stage \in InFlight \cup {"idle", "waiting", "ok", "failed"}
                      /\ call[c].hdr \in (1 .. issued) \cup {None}
  /\ \A d \in Shakers : shake[d].stage \in {"none", "posted", "answered", "notify"}
  /\ issued <= MaxDials + Cardinality(Calls)

\* A prompt is not given twice: however sessions go stale and daemons restart,
\* a call runs at most once (the retry of post() follows a 404 only).
AtMostOnce == \A c \in Calls : call[c].runs <= 1

\* A restart of the daemon before a call costs the call nothing: only one whose
\* connection was lost or that the daemon was not up for all along fails,
\* however late the 404s of others arrive and however many handshakes overlap.
CallSurvivesRestart == \A c \in Calls : call[c].stage = "failed" => ~call[c].clean

\* Every call ends, those that wait on a handshake of another call included.
CallsEnd == \A c \in Calls : call[c].stage = "posted" ~> call[c].stage \in {"ok", "failed"}

\* What bridge.ts says of reestablish: no handshake is made for a session that
\* is not stale.
NoDuplicateHandshake == [][shake["re"].stage = "none" /\ shake'["re"].stage = "posted" => sid \notin valid]_vars
=============================================================================
