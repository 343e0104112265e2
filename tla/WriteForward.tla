---------------------------- MODULE WriteForward ----------------------------
(***************************************************************************)
(* A tool call on its way through the front proxy (cli/src/ha-proxy.ts), a  *)
(* hub (hub/src/mcp/server.ts callTool), the leader the hub forwards it to  *)
(* (hub/src/ha.ts handleWrite, forwardWrite, mcpCallLeader) and the node    *)
(* that runs it, with the timeout each of them has.                         *)
(*                                                                         *)
(* The phases of the hubs move as HubHa allows while there is one pipe per  *)
(* direction: at most one is leader-leased.  A timer may end while what it  *)
(* limits is under way; a call is not told apart from its repetition, which *)
(* the caller makes.                                                        *)
(***************************************************************************)
EXTENDS Naturals, ToolTable

CONSTANTS
  Hubs,      \* two control planes
  Calls,
  Offered,   \* tools the callers use
  MaxHops,   \* hubs a call passes through
  MaxMoves,  \* changes of phase, connection and process
  None

ASSUME WriteForwardAssumption ==
  /\ (\E a, b \in Hubs : a # b /\ Hubs = {a, b}) /\ Offered \subseteq Tools
  /\ None \notin Hubs \cup {"proxy", "tunnel", "ok", "error", "gate", "quorum_lost", "no_node"}
  /\ MaxHops \in Nat \ {0} /\ MaxMoves \in Nat

Hops == 1 .. MaxHops
Phases == {"nominating", "leader-leased", "read-only-no-quorum", "follower"}
Other(h) == CHOOSE k \in Hubs : k # h

VARIABLES
  alive, phase, pipe,   \* per hub: process, phase, a live peer with an MCP address
  home,                 \* the hub the node is connected to
  req, reply,           \* per call: what was asked, what the caller was told
  job,                  \* per call and hop: the callTool under way
  frame,                \* per call and hop: its mcp.call on the way to the node
  runs,                 \* executions of the call
  moves

envVars == <<alive, phase, pipe, home, moves>>
vars == <<envVars, req, reply, job, frame, runs>>

NoReq == [tool |-> None, decl |-> None, via |-> None]
NoJob == [hub |-> None, stage |-> "none", res |-> None]
At(h) == [hub |-> h, stage |-> "arriving", res |-> None]

Init ==
  /\ alive = [h \in Hubs |-> TRUE] /\ phase = [h \in Hubs |-> "nominating"]
  /\ pipe = [h \in Hubs |-> FALSE] /\ home = None /\ moves = 0
  /\ req = [c \in Calls |-> NoReq] /\ reply = [c \in Calls |-> None]
  /\ job = [c \in Calls |-> [i \in Hops |-> NoJob]]
  /\ frame = [c \in Calls |-> [i \in Hops |-> "none"]]
  /\ runs = [c \in Calls |-> 0]

WriteMode(h) == IF phase[h] = "leader-leased" THEN "readwrite" ELSE "readonly"

SetJob(c, i, j) == job' = [job EXCEPT ![c] = [job[c] EXCEPT ![i] = j]]
SetFrame(c, i, f) == frame' = [frame EXCEPT ![c] = [frame[c] EXCEPT ![i] = f]]

To(c, i, stage) == SetJob(c, i, [job[c][i] EXCEPT !.stage = stage])

End(c, i, res) == SetJob(c, i, [hub |-> job[c][i].hub, stage |-> "done", res |-> res])

-----------------------------------------------------------------------------
(* The hubs *)

\* What a hub answers at once, in callTool and what it calls before any await.
Refused(c, i) ==
  LET h == job[c][i].hub
      readonly == req[c].tool \in WriteTools /\ WriteMode(h) = "readonly"
  IN  IF GateRefuses(req[c].tool, req[c].decl) THEN "gate"
      ELSE IF readonly /\ ~(phase[h] = "follower" /\ pipe[h]) THEN "quorum_lost"
      ELSE IF ~readonly /\ req[c].tool \notin Discovery \cup Presence /\ home # h THEN "no_node"
      ELSE None

Arrived(c, i) == job[c][i].stage = "arriving" /\ alive[job[c][i].hub]
Forwards(c, i) == req[c].tool \in WriteTools /\ WriteMode(job[c][i].hub) = "readonly"

Refuse(c, i) ==
  /\ Arrived(c, i) /\ Refused(c, i) # None
  /\ End(c, i, Refused(c, i))
  /\ UNCHANGED <<envVars, req, reply, frame, runs>>

\* Discovery, and the two presence tools, which write the store of the hub.
Local(c, i) ==
  /\ Arrived(c, i) /\ Refused(c, i) = None /\ ~Forwards(c, i)
  /\ req[c].tool \in Discovery \cup Presence
  /\ runs' = [runs EXCEPT ![c] = @ + 1]
  /\ End(c, i, "ok")
  /\ UNCHANGED <<envVars, req, reply, frame>>

\* handleRouted, forward: the request leaves for the node in the same turn.
ToNode(c, i) ==
  /\ Arrived(c, i) /\ Refused(c, i) = None /\ ~Forwards(c, i)
  /\ req[c].tool \notin Discovery \cup Presence
  /\ To(c, i, "node") /\ SetFrame(c, i, "sent")
  /\ UNCHANGED <<envVars, req, reply, runs>>

\* handleWrite of a follower, forwardWrite: the initialize is posted.
Forward(c, i) ==
  /\ Arrived(c, i) /\ Refused(c, i) = None /\ Forwards(c, i)
  /\ To(c, i, "init")
  /\ UNCHANGED <<envVars, req, reply, frame, runs>>

\* mcpCallLeader: the leader has answered the initialize, the call is posted.
Initialized(c, i) ==
  /\ job[c][i].stage = "init" /\ i < MaxHops
  /\ LET k == Other(job[c][i].hub) IN
     /\ alive[k]
     /\ job' = [job EXCEPT ![c] = [n \in Hops |->
                  IF n = i THEN [job[c][i] EXCEPT !.stage = "wait"]
                  ELSE IF n = i + 1 THEN At(k) ELSE job[c][n]]]
  /\ UNCHANGED <<envVars, req, reply, frame, runs>>

\* The leader's result is the result, an error of the tool included.
LeaderAnswered(c, i) ==
  /\ job[c][i].stage = "wait" /\ i < MaxHops /\ job[c][i + 1].stage = "done"
  /\ End(c, i, job[c][i + 1].res)
  /\ UNCHANGED <<envVars, req, reply, frame, runs>>

\* Mutant of AfterFailure: what could not be forwarded is run here.
AfterFailureLocal(c, i) ==
  IF home = job[c][i].hub
  THEN To(c, i, "node") /\ SetFrame(c, i, "sent")
  ELSE End(c, i, "quorum_lost") /\ UNCHANGED frame

\* catch of forwardWrite: a timeout (15 s, 30 s), a dead leader, an error of HTTP.
AfterFailure(c, i) == End(c, i, "quorum_lost") /\ UNCHANGED frame

ForwardFails(c, i) ==
  /\ job[c][i].stage \in {"init", "wait"}
  /\ AfterFailure(c, i)
  /\ UNCHANGED <<envVars, req, reply, runs>>

\* Mutant of NodeResult: an answer and an error are read alike.
NodeResultAny(c, i) == {"ok"}

\* Mutant of NodeResult: the request has no timeout.
NodeResultPatient(c, i) ==
  IF frame[c][i] = "ran" THEN {"ok"} ELSE IF home # job[c][i].hub THEN {"error"} ELSE {}

\* forward: the node's answer, or the error of the request.
NodeResult(c, i) == IF frame[c][i] = "ran" THEN {"ok", "error"} ELSE {"error"}

\* The answer of the node, the timeout of 60 s, the end of its connection.
NodeEnds(c, i) ==
  /\ job[c][i].stage = "node"
  /\ \E res \in NodeResult(c, i) : End(c, i, res)
  /\ UNCHANGED <<envVars, req, reply, frame, runs>>

-----------------------------------------------------------------------------
(* The node *)

NodeRuns(c, i) ==
  /\ frame[c][i] = "sent"
  /\ SetFrame(c, i, "ran") /\ runs' = [runs EXCEPT ![c] = @ + 1]
  /\ UNCHANGED <<envVars, req, reply, job>>

\* A frame on a connection that ended may not have been read.
FrameLost(c, i) ==
  /\ frame[c][i] = "sent" /\ home # job[c][i].hub
  /\ SetFrame(c, i, "lost")
  /\ UNCHANGED <<envVars, req, reply, job, runs>>

-----------------------------------------------------------------------------
(* The callers and the front proxy *)

Submit(c) ==
  /\ req[c] = NoReq
  /\ \E t \in Offered, d \in Declarations, v \in {"proxy", "tunnel"}, h \in Hubs :
       /\ alive[h] /\ (t \in Messages \/ d = "blank")
       /\ req' = [req EXCEPT ![c] = [tool |-> t, decl |-> d, via |-> v]]
       /\ SetJob(c, 1, At(h))
  /\ UNCHANGED <<envVars, reply, frame, runs>>

Asked(c) == req[c] # NoReq /\ reply[c] = None

Replied(c) ==
  /\ Asked(c) /\ job[c][1].stage = "done"
  /\ reply' = [reply EXCEPT ![c] = job[c][1].res]
  /\ UNCHANGED <<envVars, req, job, frame, runs>>

\* handle of the proxy: a fetch that fails or takes 3 s is a 502.
Unreachable(c) ==
  /\ Asked(c)
  /\ req[c].via = "proxy" \/ job[c][1].stage = "dead"
  /\ reply' = [reply EXCEPT ![c] = IF req[c].via = "proxy" THEN "unreachable" ELSE "reset"]
  /\ UNCHANGED <<envVars, req, job, frame, runs>>

-----------------------------------------------------------------------------
(* What happens to the hubs *)

Moves == moves < MaxMoves /\ moves' = moves + 1 /\ UNCHANGED <<req, reply, frame, runs>>

PhaseMoves(h) ==
  /\ Moves /\ alive[h]
  /\ \E p \in Phases \ {phase[h]} :
       /\ p = "leader-leased" => phase[Other(h)] # "leader-leased"
       /\ phase' = [phase EXCEPT ![h] = p]
  /\ \E up \in BOOLEAN : pipe' = [pipe EXCEPT ![h] = up]
  /\ UNCHANGED <<alive, home, job>>

Crash(h) ==
  /\ Moves /\ alive[h]
  /\ alive' = [alive EXCEPT ![h] = FALSE]
  /\ phase' = [phase EXCEPT ![h] = "nominating"] /\ pipe' = [pipe EXCEPT ![h] = FALSE]
  /\ home' = IF home = h THEN None ELSE home
  /\ job' = [c \in Calls |-> [i \in Hops |->
               IF job[c][i].hub = h /\ job[c][i].stage # "done" THEN [job[c][i] EXCEPT !.stage = "dead"]
               ELSE job[c][i]]]

Restart(h) ==
  /\ Moves /\ ~alive[h] /\ alive' = [alive EXCEPT ![h] = TRUE]
  /\ UNCHANGED <<phase, pipe, home, job>>

NodeMoves(h) ==
  /\ Moves /\ alive[h] /\ home # h /\ home' = h
  /\ UNCHANGED <<alive, phase, pipe, job>>

HubStep(c, i) ==
  Refuse(c, i) \/ Local(c, i) \/ ToNode(c, i) \/ Forward(c, i)
  \/ Initialized(c, i) \/ LeaderAnswered(c, i) \/ ForwardFails(c, i) \/ NodeEnds(c, i)

CallerStep(c) == Submit(c) \/ Replied(c) \/ Unreachable(c)
HubMoves(h) == PhaseMoves(h) \/ Crash(h) \/ Restart(h) \/ NodeMoves(h)

Next ==
  \/ \E c \in Calls : CallerStep(c)
  \/ \E c \in Calls, i \in Hops : HubStep(c, i) \/ NodeRuns(c, i) \/ FrameLost(c, i)
  \/ \E h \in Hubs : HubMoves(h)

Spec == Init /\ [][Next]_vars

\* Timers end and HTTP requests reach a live hub; a caller hears of its answer.
\* Nothing is assumed of the node, the callers and the phases.
FairSpec ==
  /\ Spec
  /\ \A c \in Calls, i \in Hops : WF_vars(HubStep(c, i))
  /\ \A c \in Calls : WF_vars(Replied(c)) /\ WF_vars(Unreachable(c) /\ job[c][1].stage = "dead")

-----------------------------------------------------------------------------
(* Properties *)

TypeOK ==
  /\ \A h \in Hubs : alive[h] \in BOOLEAN /\ phase[h] \in Phases /\ pipe[h] \in BOOLEAN
  /\ home \in Hubs \cup {None} /\ moves \in 0 .. MaxMoves
  /\ \A c \in Calls, i \in Hops :
       /\ job[c][i].hub \in Hubs \cup {None} /\ frame[c][i] \in {"none", "sent", "ran", "lost"}
       /\ job[c][i].stage \in {"none", "arriving", "init", "wait", "node", "done", "dead"}
       /\ job[c][i].stage = "none" => job[c][i] = NoJob
       /\ job[c][i].stage = "done" <=> job[c][i].res # None

\* Nothing between the caller and the node repeats a call: whichever timeouts,
\* crashes and changes of leader it meets, it is executed once at most.
AtMostOnce == \A c \in Calls : runs[c] <= 1

\* A caller that is told of a result is told of one that happened.
OkMeansRun == \A c \in Calls : reply[c] = "ok" => runs[c] = 1

\* A write is begun by a hub that holds the lease at that moment, however many
\* hubs handed it on; a hub that lost it meanwhile refuses it or hands it back.
WritesBeginUnderLease ==
  [][\A c \in Calls, i \in Hops :
       (/\ req[c].tool \in WriteDanger
        /\ \/ frame[c][i] = "none" /\ frame'[c][i] = "sent"
           \/ job[c][i].stage = "arriving" /\ job'[c][i].res = "ok")
         => phase[job[c][i].hub] = "leader-leased"]_vars

\* A message without the declaration of an allowed model reaches no session, by
\* no path: directly, forwarded, or handed back and forth.
UndeclaredNeverRuns ==
  \A c \in Calls : req[c].tool \in Messages /\ req[c].decl \in {"rejected", "none"}
                     => runs[c] = 0

\* Every call is answered, whatever becomes of the
\* node, of the leader and of the lease.
CallsAnswered == \A c \in Calls : Asked(c) ~> reply[c] # None

\* What server.ts and constants.ts say of QUORUM_LOST: the write was refused.
RefusedNotRun == \A c \in Calls : reply[c] = "quorum_lost" => runs[c] = 0

\* What server.ts says of the lease: it fences the writer.  A write that a hub
\* began is not executed once the hub has lost the lease.
LeaseFences ==
  [][\A c \in Calls, i \in Hops :
       req[c].tool \in WriteDanger /\ frame[c][i] = "sent" /\ frame'[c][i] = "ran"
         => phase[job[c][i].hub] = "leader-leased"]_vars

\* What ha.ts says of reads: either control plane serves them, so only a node
\* that is connected to neither cannot be read.
ReadsServed ==
  [][\A c \in Calls, i \in Hops :
       req[c].tool \in CodeReads /\ job[c][i].stage = "arriving" /\ job'[c][i].res = "no_node" => home = None]_vars
==============================================================================
