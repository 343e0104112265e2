-------------------------- MODULE WriteForwardProofs --------------------------
(***************************************************************************)
(* Why a call runs once at most, by whatever hubs it goes: of the callTools *)
(* it is in, one at most is open, that is may still have it run, and none   *)
(* is once it ran.                                                          *)
(***************************************************************************)
EXTENDS WriteForward, TLAPS

Stages == {"none", "arriving", "init", "wait", "node", "done", "dead"}
Results == {"ok", "error", "gate", "quorum_lost", "no_node"}
Job == [hub : Hubs \cup {None}, stage : Stages, res : Results \cup {None}]
FrameStates == {"none", "sent", "ran", "lost"}
Requests == [tool : Tools \cup {None}, decl : Declarations \cup {None}, via : {"proxy", "tunnel", None}]

EnvTyped ==
  /\ alive \in [Hubs -> BOOLEAN] /\ phase \in [Hubs -> Phases] /\ pipe \in [Hubs -> BOOLEAN]
  /\ home \in Hubs \cup {None} /\ moves \in 0 .. MaxMoves

CallsTyped ==
  /\ job \in [Calls -> [Hops -> Job]] /\ frame \in [Calls -> [Hops -> FrameStates]]
  /\ runs \in [Calls -> Nat] /\ req \in [Calls -> Requests]
  /\ reply \in [Calls -> Results \cup {"unreachable", "reset", None}]

JobOk(j) ==
  /\ j.stage = "none" => j = NoJob
  /\ j.stage # "none" => j.hub \in Hubs
  /\ j.stage = "done" <=> j.res # None
JobsOk(c) == \A i \in Hops : JobOk(job[c][i])

\* The callTool may still have the call run.
Open(c, i) == job[c][i].stage \in {"arriving", "init"} \/ frame[c][i] = "sent"

OpenOnce(c) ==
  /\ runs[c] <= 1
  /\ \A i \in Hops : Open(c, i) => runs[c] = 0 /\ \A j \in Hops : Open(c, j) => j = i

\* A hop that has not got beyond its hub sent nothing, and the next hop is not
\* reached before it waits.
Unsent(c) ==
  \A i \in Hops : job[c][i].stage \in {"none", "arriving", "init", "wait"} => frame[c][i] = "none"
Chain(c) ==
  \A i \in Hops : i + 1 \in Hops /\ job[c][i].stage \in {"none", "arriving", "init"}
                  => job[c][i + 1].stage = "none"

\* Before it is submitted a call is nowhere.
Unborn(c) ==
  req[c] = NoReq =>
    runs[c] = 0 /\ \A i \in Hops : job[c][i].stage = "none" /\ frame[c][i] = "none"

\* What says that the call ran is right.
Honest(c) ==
  /\ \A i \in Hops : frame[c][i] = "ran" \/ job[c][i].res = "ok" => runs[c] = 1
  /\ reply[c] = "ok" => runs[c] = 1

Undeclared(c) == req[c].tool \in Messages /\ req[c].decl \in {"rejected", "none"}
Gatekept(c) == Undeclared(c) => runs[c] = 0 /\ \A i \in Hops : frame[c][i] = "none"

CallInv(c) ==
  /\ JobsOk(c) /\ OpenOnce(c) /\ Unsent(c) /\ Chain(c)
  /\ Unborn(c) /\ Honest(c) /\ Gatekept(c)

WInv == EnvTyped /\ CallsTyped /\ \A c \in Calls : CallInv(c)

-----------------------------------------------------------------------------
(* Effects *)

\* None is no result, and no path of a request.
LEMMA NoneIsNone == None \notin Results \cup {"proxy", "tunnel"} \cup Hubs
  BY WriteForwardAssumption DEF Results

\* One callTool of a call changes.
LEMMA SetJobEffect ==
  ASSUME CallsTyped, NEW c \in Calls, NEW i \in Hops, NEW j \in Job, SetJob(c, i, j)
  PROVE  /\ job' \in [Calls -> [Hops -> Job]] /\ job'[c][i] = j
         /\ \A k \in Hops : k # i => job'[c][k] = job[c][k]
         /\ \A d \in Calls : d # c => job'[d] = job[d]
<1> DEFINE new == [job[c] EXCEPT ![i] = j]
<1>1. job \in [Calls -> [Hops -> Job]]
  BY DEF CallsTyped
<1>2. new \in [Hops -> Job] /\ new[i] = j /\ \A k \in Hops : k # i => new[k] = job[c][k]
  BY <1>1
<1> HIDE DEF new
<1>3. job' = [job EXCEPT ![c] = new]
  BY DEF SetJob, new
<1> QED
  BY <1>1, <1>2, <1>3

\* One frame of a call changes.
LEMMA SetFrameEffect ==
  ASSUME CallsTyped, NEW c \in Calls, NEW i \in Hops, NEW f \in FrameStates, SetFrame(c, i, f)
  PROVE  /\ frame' \in [Calls -> [Hops -> FrameStates]] /\ frame'[c][i] = f
         /\ \A k \in Hops : k # i => frame'[c][k] = frame[c][k]
         /\ \A d \in Calls : d # c => frame'[d] = frame[d]
<1> DEFINE new == [frame[c] EXCEPT ![i] = f]
<1>1. frame \in [Calls -> [Hops -> FrameStates]]
  BY DEF CallsTyped
<1>2. new \in [Hops -> FrameStates] /\ new[i] = f /\ \A k \in Hops : k # i => new[k] = frame[c][k]
  BY <1>1
<1> HIDE DEF new
<1>3. frame' = [frame EXCEPT ![c] = new]
  BY DEF SetFrame, new
<1> QED
  BY <1>1, <1>2, <1>3

\* What a step does not touch keeps its invariant.
LEMMA Untouched ==
  ASSUME NEW d \in Calls, CallInv(d), req'[d] = req[d], reply'[d] = reply[d],
         job'[d] = job[d], frame'[d] = frame[d], runs'[d] = runs[d]
  PROVE  CallInv(d)'
<1>1. JobsOk(d)' /\ Unsent(d)' /\ Chain(d)'
  BY DEF CallInv, JobsOk, Unsent, Chain
<1>2. OpenOnce(d)'
  BY DEF CallInv, OpenOnce, Open
<1>3. Unborn(d)' /\ Honest(d)' /\ Gatekept(d)'
  BY DEF CallInv, Unborn, Honest, Gatekept, Undeclared
<1> QED
  BY <1>1, <1>2, <1>3 DEF CallInv

\* A chain stays one while no hop comes to or returns to an earlier stage.
NotBackward(c) ==
  \A k \in Hops :
    /\ job'[c][k].stage \in {"none", "arriving", "init"} => job[c][k].stage \in {"none", "arriving", "init"}
    /\ job[c][k].stage = "none" => job'[c][k].stage = "none"

LEMMA ChainKept ==
  ASSUME NEW c \in Calls, Chain(c), NotBackward(c)
  PROVE  Chain(c)'
<1> SUFFICES ASSUME NEW k \in Hops, k + 1 \in Hops, job'[c][k].stage \in {"none", "arriving", "init"}
             PROVE  job'[c][k + 1].stage = "none"
  BY DEF Chain
<1>1. job[c][k].stage \in {"none", "arriving", "init"}
  BY DEF NotBackward
<1>2. job[c][k + 1].stage = "none"
  BY <1>1 DEF Chain
<1> QED
  BY <1>2 DEF NotBackward

\* A callTool that is somewhere belongs to a call that was submitted.
LEMMA Submitted ==
  ASSUME WInv, NEW c \in Calls, NEW i \in Hops,
         job[c][i].stage # "none" \/ frame[c][i] # "none"
  PROVE  req[c] # NoReq
  BY DEF WInv, CallInv, Unborn

\* A callTool moves on without opening anything and without a run.
LEMMA MovesOn ==
  ASSUME WInv, NEW c \in Calls, NEW i \in Hops, NEW j \in Job, SetJob(c, i, j),
         UNCHANGED <<alive, phase, pipe, home, moves, req, reply, frame, runs>>,
         JobOk(j), j.res = "ok" => runs[c] = 1, job[c][i].stage # "none",
         j.stage = "done" \/ (j.stage = "init" /\ job[c][i].stage = "arriving")
  PROVE  WInv'
<1>1. EnvTyped /\ CallsTyped /\ CallInv(c)
  BY DEF WInv
<1>2. /\ job' \in [Calls -> [Hops -> Job]] /\ job'[c][i] = j
      /\ \A k \in Hops : k # i => job'[c][k] = job[c][k]
      /\ \A d \in Calls : d # c => job'[d] = job[d]
  BY <1>1, SetJobEffect
<1>3. EnvTyped' /\ CallsTyped'
  BY <1>1, <1>2 DEF EnvTyped, CallsTyped
<1>4. \A k \in Hops : Open(c, k)' => Open(c, k)
  BY <1>2 DEF Open
<1>5. JobsOk(c)'
  BY <1>1, <1>2 DEF CallInv, JobsOk, JobOk
<1>6. OpenOnce(c)'
  BY <1>1, <1>4 DEF CallInv, OpenOnce
<1>7. Honest(c)'
  BY <1>1, <1>2 DEF CallInv, Honest
<1>8. Unborn(c)' /\ Gatekept(c)'
  BY <1>1, Submitted DEF CallInv, Unborn, Gatekept, Undeclared
<1>11. Unsent(c)'
  BY <1>1, <1>2 DEF CallInv, Unsent
<1>12. Chain(c)'
  <2>1. NotBackward(c)
    BY <1>2 DEF NotBackward
  <2> QED
    BY <1>1, <2>1, ChainKept DEF CallInv
<1>9. CallInv(c)'
  BY <1>5, <1>6, <1>7, <1>8, <1>11, <1>12 DEF CallInv
<1>10. \A d \in Calls : d # c => CallInv(d)'
  BY <1>2, Untouched DEF WInv
<1> QED
  BY <1>3, <1>9, <1>10 DEF WInv

\* callTool ends with a result.
LEMMA EndStep ==
  ASSUME WInv, NEW c \in Calls, NEW i \in Hops, NEW res \in Results, End(c, i, res),
         UNCHANGED <<alive, phase, pipe, home, moves, req, reply, frame, runs>>,
         job[c][i].stage # "none", res = "ok" => runs[c] = 1
  PROVE  WInv'
<1> DEFINE j == [hub |-> job[c][i].hub, stage |-> "done", res |-> res]
<1>1. job[c][i] \in Job /\ job[c][i].hub \in Hubs
  BY DEF WInv, CallsTyped, CallInv, JobsOk, JobOk
<1>2. j \in Job /\ j.stage = "done" /\ j.res = res /\ j.hub \in Hubs
  BY <1>1 DEF Job, Stages
<1>3. JobOk(j)
  BY <1>2, NoneIsNone DEF JobOk
<1>4. SetJob(c, i, j)
  BY DEF End
<1> HIDE DEF j
<1> QED
  BY <1>2, <1>3, <1>4, MovesOn

-----------------------------------------------------------------------------
(* The steps of a hub *)

\* The gate refuses an undeclared message wherever it arrives.
LEMMA GateHolds ==
  ASSUME NEW c \in Calls, NEW i \in Hops, Refused(c, i) = None
  PROVE  ~Undeclared(c)
  BY NoneIsNone, WriteForwardAssumption DEF Refused, Undeclared, GateRefuses, Gated, Messages

LEMMA RefuseStep ==
  ASSUME WInv, NEW c \in Calls, NEW i \in Hops, Refuse(c, i)
  PROVE  WInv'
<1>1. Refused(c, i) \in Results \ {"ok"}
  BY DEF Refuse, Refused, Results
<1> QED
  BY <1>1, EndStep DEF Refuse, Arrived, envVars

LEMMA ForwardStep ==
  ASSUME WInv, NEW c \in Calls, NEW i \in Hops, Forward(c, i)
  PROVE  WInv'
<1> DEFINE j == [job[c][i] EXCEPT !.stage = "init"]
<1>1. job[c][i] \in Job /\ JobOk(job[c][i]) /\ job[c][i].stage = "arriving"
  BY DEF WInv, CallsTyped, CallInv, JobsOk, Forward, Arrived
<1>2. j \in Job /\ j.stage = "init" /\ j.res = job[c][i].res /\ j.hub = job[c][i].hub
  BY <1>1 DEF Job, Stages
<1>3. j.res = None /\ j.hub \in Hubs
  BY <1>1, <1>2 DEF JobOk
<1>4. SetJob(c, i, j) /\ UNCHANGED <<alive, phase, pipe, home, moves, req, reply, frame, runs>>
  BY DEF Forward, To, envVars
<1> HIDE DEF j
<1>6. JobOk(j) /\ j.res # "ok"
  BY <1>2, <1>3, NoneIsNone DEF JobOk, Results
<1> QED
  BY <1>1, <1>2, <1>4, <1>6, MovesOn

LEMMA LeaderAnsweredStep ==
  ASSUME WInv, NEW c \in Calls, NEW i \in Hops, LeaderAnswered(c, i)
  PROVE  WInv'
<1>1. i + 1 \in Hops
  BY WriteForwardAssumption DEF LeaderAnswered, Hops
<1>2. job[c][i + 1].res \in Results /\ (job[c][i + 1].res = "ok" => runs[c] = 1)
  <2>1. job[c][i + 1] \in Job /\ JobOk(job[c][i + 1])
    BY <1>1 DEF WInv, CallsTyped, CallInv, JobsOk
  <2>2. job[c][i + 1].stage = "done"
    BY DEF LeaderAnswered
  <2> QED
    BY <1>1, <2>1, <2>2 DEF Job, JobOk, WInv, CallInv, Honest
<1> QED
  BY <1>2, EndStep DEF LeaderAnswered, envVars

LEMMA ForwardFailsStep ==
  ASSUME WInv, NEW c \in Calls, NEW i \in Hops, ForwardFails(c, i)
  PROVE  WInv'
<1>1. "quorum_lost" \in Results
  BY DEF Results
<1> QED
  BY <1>1, EndStep DEF ForwardFails, AfterFailure, envVars

LEMMA NodeEndsStep ==
  ASSUME WInv, NEW c \in Calls, NEW i \in Hops, NodeEnds(c, i)
  PROVE  WInv'
<1>1. PICK res \in NodeResult(c, i) : End(c, i, res)
  BY DEF NodeEnds
<1>2. res \in Results /\ (res = "ok" => frame[c][i] = "ran")
  BY <1>1 DEF NodeResult, Results
<1>3. res = "ok" => runs[c] = 1
  BY <1>2 DEF WInv, CallInv, Honest
<1> QED
  BY <1>1, <1>2, <1>3, EndStep DEF NodeEnds, envVars

\* The open callTool hands its openness on to the frame it sends.
LEMMA ToNodeStep ==
  ASSUME WInv, NEW c \in Calls, NEW i \in Hops, ToNode(c, i)
  PROVE  WInv'
<1> DEFINE j == [job[c][i] EXCEPT !.stage = "node"]
<1>1. EnvTyped /\ CallsTyped /\ CallInv(c)
  BY DEF WInv
<1>2. job[c][i] \in Job /\ JobOk(job[c][i]) /\ job[c][i].stage = "arriving"
  BY <1>1 DEF CallsTyped, CallInv, JobsOk, ToNode, Arrived
<1>3. j \in Job /\ j.stage = "node" /\ j.hub \in Hubs /\ j.res = job[c][i].res /\ j.res = None
  BY <1>2 DEF Job, Stages, JobOk
<1>4. /\ SetJob(c, i, j) /\ SetFrame(c, i, "sent")
      /\ UNCHANGED <<alive, phase, pipe, home, moves, req, reply, runs>>
  BY DEF ToNode, To, envVars
<1> HIDE DEF j
<1>5. /\ job' \in [Calls -> [Hops -> Job]] /\ job'[c][i] = j
      /\ \A k \in Hops : k # i => job'[c][k] = job[c][k]
      /\ \A d \in Calls : d # c => job'[d] = job[d]
  BY <1>1, <1>3, <1>4, SetJobEffect
<1>6. /\ frame' \in [Calls -> [Hops -> FrameStates]] /\ frame'[c][i] = "sent"
      /\ \A k \in Hops : k # i => frame'[c][k] = frame[c][k]
      /\ \A d \in Calls : d # c => frame'[d] = frame[d]
  BY <1>1, <1>4, SetFrameEffect DEF FrameStates
<1>7. EnvTyped' /\ CallsTyped'
  BY <1>1, <1>4, <1>5, <1>6 DEF EnvTyped, CallsTyped
<1>8. Open(c, i) /\ \A k \in Hops : Open(c, k)' => Open(c, k)
  BY <1>2, <1>5, <1>6 DEF Open
<1>9. JobsOk(c)'
  BY <1>1, <1>3, <1>5 DEF CallInv, JobsOk, JobOk
<1>10. OpenOnce(c)'
  BY <1>1, <1>4, <1>8 DEF CallInv, OpenOnce
<1>11. Honest(c)'
  BY <1>1, <1>3, <1>4, <1>5, <1>6, NoneIsNone DEF CallInv, Honest, Results
<1>12. Unborn(c)'
  BY <1>2, <1>4, Submitted DEF Unborn
<1>13. Gatekept(c)'
  <2>1. ~Undeclared(c)
    BY GateHolds DEF ToNode
  <2> QED
    BY <1>4, <2>1 DEF Gatekept, Undeclared
<1>16. Unsent(c)'
  BY <1>1, <1>3, <1>5, <1>6 DEF CallInv, Unsent
<1>17. Chain(c)'
  <2>1. NotBackward(c)
    BY <1>2, <1>3, <1>5 DEF NotBackward
  <2> QED
    BY <1>1, <2>1, ChainKept DEF CallInv
<1>14. CallInv(c)'
  BY <1>9, <1>10, <1>11, <1>12, <1>13, <1>16, <1>17 DEF CallInv
<1>15. \A d \in Calls : d # c => CallInv(d)'
  BY <1>4, <1>5, <1>6, Untouched DEF WInv
<1> QED
  BY <1>7, <1>14, <1>15 DEF WInv

\* What the hub does itself runs in the turn that answers it.
LEMMA LocalStep ==
  ASSUME WInv, NEW c \in Calls, NEW i \in Hops, Local(c, i)
  PROVE  WInv'
<1> DEFINE j == [hub |-> job[c][i].hub, stage |-> "done", res |-> "ok"]
<1>1. EnvTyped /\ CallsTyped /\ CallInv(c)
  BY DEF WInv
<1>2. job[c][i] \in Job /\ job[c][i].stage = "arriving" /\ job[c][i].hub \in Hubs
  BY <1>1 DEF CallsTyped, CallInv, JobsOk, JobOk, Local, Arrived
<1>3. j \in Job /\ j.stage = "done" /\ j.hub \in Hubs /\ j.res = "ok"
  BY <1>2 DEF Job, Stages, Results
<1>4. /\ SetJob(c, i, j) /\ runs' = [runs EXCEPT ![c] = @ + 1]
      /\ UNCHANGED <<alive, phase, pipe, home, moves, req, reply, frame>>
  BY DEF Local, End, envVars
<1> HIDE DEF j
<1>5. /\ job' \in [Calls -> [Hops -> Job]] /\ job'[c][i] = j
      /\ \A k \in Hops : k # i => job'[c][k] = job[c][k]
      /\ \A d \in Calls : d # c => job'[d] = job[d]
  BY <1>1, <1>3, <1>4, SetJobEffect
<1>6. Open(c, i)
  BY <1>2 DEF Open
<1>7. runs[c] = 0 /\ \A k \in Hops : Open(c, k) => k = i
  BY <1>1, <1>6 DEF CallInv, OpenOnce
<1>8. runs' \in [Calls -> Nat] /\ runs'[c] = 1 /\ \A d \in Calls : d # c => runs'[d] = runs[d]
  BY <1>1, <1>4, <1>7 DEF CallsTyped
<1>9. EnvTyped' /\ CallsTyped'
  BY <1>1, <1>4, <1>5, <1>8 DEF EnvTyped, CallsTyped
<1>10. \A k \in Hops : ~Open(c, k)'
  <2>1. frame[c][i] = "none"
    BY <1>1, <1>2 DEF CallInv, Unsent
  <2> QED
    BY <1>3, <1>4, <1>5, <1>7, <2>1 DEF Open
<1>11. JobsOk(c)'
  BY <1>1, <1>3, <1>5, NoneIsNone DEF CallInv, JobsOk, JobOk, Results
<1>12. OpenOnce(c)'
  BY <1>8, <1>10 DEF OpenOnce
<1>13. Honest(c)'
  BY <1>8 DEF Honest
<1>14. Unborn(c)'
  BY <1>2, <1>4, Submitted DEF Unborn
<1>15. Gatekept(c)'
  <2>1. ~Undeclared(c)
    BY GateHolds DEF Local
  <2> QED
    BY <1>4, <2>1 DEF Gatekept, Undeclared
<1>16. Unsent(c)'
  BY <1>1, <1>3, <1>4, <1>5 DEF CallInv, Unsent
<1>17. Chain(c)'
  <2>1. NotBackward(c)
    BY <1>2, <1>3, <1>5 DEF NotBackward
  <2> QED
    BY <1>1, <2>1, ChainKept DEF CallInv
<1>18. CallInv(c)'
  BY <1>11, <1>12, <1>13, <1>14, <1>15, <1>16, <1>17 DEF CallInv
<1>19. \A d \in Calls : d # c => CallInv(d)'
  BY <1>4, <1>5, <1>8, Untouched DEF WInv
<1> QED
  BY <1>9, <1>18, <1>19 DEF WInv

\* There is another hub.
LEMMA OtherHub == \A h \in Hubs : Other(h) \in Hubs
<1>1. PICK a \in Hubs, b \in Hubs : a # b /\ Hubs = {a, b}
  BY WriteForwardAssumption
<1>2. \A h \in Hubs : \E k \in Hubs : k # h
  BY <1>1
<1> QED
  BY <1>2 DEF Other

\* The call opens at the leader as it closes at the follower.
LEMMA InitializedStep ==
  ASSUME WInv, NEW c \in Calls, NEW i \in Hops, Initialized(c, i)
  PROVE  WInv'
<1> DEFINE j == [job[c][i] EXCEPT !.stage = "wait"]
           n == At(Other(job[c][i].hub))
           new == [k \in Hops |-> IF k = i THEN j ELSE IF k = i + 1 THEN n ELSE job[c][k]]
<1>1. EnvTyped /\ CallsTyped /\ CallInv(c)
  BY DEF WInv
<1>2. i + 1 \in Hops /\ i + 1 # i /\ i \in Nat
  BY WriteForwardAssumption DEF Initialized, Hops
<1>3. job[c][i] \in Job /\ JobOk(job[c][i]) /\ job[c][i].stage = "init"
  BY <1>1 DEF CallsTyped, CallInv, JobsOk, Initialized
<1>4. j \in Job /\ j.stage = "wait" /\ j.hub \in Hubs /\ j.res = None
  BY <1>3 DEF Job, Stages, JobOk
<1>5. job[c][i].hub \in Hubs
  BY <1>3 DEF JobOk
<1>6. n \in Job /\ n.stage = "arriving" /\ n.hub \in Hubs /\ n.res = None
  BY <1>5, OtherHub DEF Job, Stages, At
<1> HIDE DEF j, n
<1>7. job' = [job EXCEPT ![c] = new] /\ UNCHANGED <<alive, phase, pipe, home, moves, req, reply, frame, runs>>
  BY DEF Initialized, envVars, j, n
<1>8. /\ new \in [Hops -> Job] /\ new[i] = j /\ new[i + 1] = n
      /\ \A k \in Hops : k # i /\ k # i + 1 => new[k] = job[c][k]
  BY <1>1, <1>2, <1>4, <1>6 DEF CallsTyped
<1> HIDE DEF new
<1>9. /\ job' \in [Calls -> [Hops -> Job]] /\ job'[c] = new
      /\ \A d \in Calls : d # c => job'[d] = job[d]
  BY <1>1, <1>7, <1>8 DEF CallsTyped
<1>10. EnvTyped' /\ CallsTyped'
  BY <1>1, <1>7, <1>9 DEF EnvTyped, CallsTyped
<1>11. job[c][i + 1].stage = "none" /\ frame[c][i + 1] = "none" /\ frame[c][i] = "none"
  BY <1>1, <1>2, <1>3 DEF CallInv, Chain, Unsent
<1>12. JobsOk(c)'
  <2>1. JobOk(j) /\ JobOk(n)
    BY <1>4, <1>6 DEF JobOk
  <2>2. \A k \in Hops : JobOk(new[k])
    BY <1>1, <1>8, <2>1 DEF CallInv, JobsOk
  <2> QED
    BY <1>9, <2>2 DEF JobsOk
<1>13. runs[c] = 0 /\ \A k \in Hops : Open(c, k) => k = i
  BY <1>1, <1>3 DEF CallInv, OpenOnce, Open
<1>14. OpenOnce(c)'
  <2>1. \A k \in Hops : Open(c, k)' => k = i + 1
    BY <1>4, <1>7, <1>8, <1>9, <1>11, <1>13 DEF Open
  <2> QED
    BY <1>7, <1>13, <2>1 DEF OpenOnce
<1>15. Unsent(c)'
  BY <1>1, <1>7, <1>8, <1>9, <1>11 DEF CallInv, Unsent
<1>16. Chain(c)'
  <2> SUFFICES ASSUME NEW k \in Hops, k + 1 \in Hops, new[k].stage \in {"none", "arriving", "init"}
               PROVE  new[k + 1].stage = "none"
    BY <1>9 DEF Chain
  <2>1. k \in Nat /\ k # i
    BY <1>4, <1>8 DEF Hops
  <2>2. CASE k = i + 1
    <3>1. job[c][k + 1].stage = "none"
      BY <1>1, <1>11, <2>2 DEF CallInv, Chain
    <3>2. k + 1 # i /\ k + 1 # i + 1
      BY <1>2, <2>2
    <3> QED
      BY <1>8, <3>1, <3>2
  <2>3. CASE k # i + 1
    <3>1. new[k] = job[c][k]
      BY <1>8, <2>1, <2>3
    <3>2. job[c][k + 1].stage = "none"
      BY <1>1, <3>1 DEF CallInv, Chain
    <3>3. k + 1 # i /\ k + 1 # i + 1
      BY <1>2, <1>3, <2>1, <3>2
    <3> QED
      BY <1>8, <3>2, <3>3
  <2> QED
    BY <2>2, <2>3
<1>17. Honest(c)'
  BY <1>1, <1>4, <1>6, <1>7, <1>8, <1>9, NoneIsNone DEF CallInv, Honest, Results
<1>18. Unborn(c)' /\ Gatekept(c)'
  BY <1>1, <1>3, <1>7, Submitted DEF CallInv, Unborn, Gatekept, Undeclared
<1>19. CallInv(c)'
  BY <1>12, <1>14, <1>15, <1>16, <1>17, <1>18 DEF CallInv
<1>20. \A d \in Calls : d # c => CallInv(d)'
  BY <1>7, <1>9, Untouched DEF WInv
<1> QED
  BY <1>10, <1>19, <1>20 DEF WInv

-----------------------------------------------------------------------------
(* The steps of the node, the callers and the environment *)

\* The frame was what was open.
LEMMA NodeRunsStep ==
  ASSUME WInv, NEW c \in Calls, NEW i \in Hops, NodeRuns(c, i)
  PROVE  WInv'
<1>1. EnvTyped /\ CallsTyped /\ CallInv(c)
  BY DEF WInv
<1>2. /\ frame[c][i] = "sent" /\ SetFrame(c, i, "ran") /\ runs' = [runs EXCEPT ![c] = @ + 1]
      /\ UNCHANGED <<alive, phase, pipe, home, moves, req, reply, job>>
  BY DEF NodeRuns, envVars
<1>3. /\ frame' \in [Calls -> [Hops -> FrameStates]] /\ frame'[c][i] = "ran"
      /\ \A k \in Hops : k # i => frame'[c][k] = frame[c][k]
      /\ \A d \in Calls : d # c => frame'[d] = frame[d]
  BY <1>1, <1>2, SetFrameEffect DEF FrameStates
<1>4. runs[c] = 0 /\ \A k \in Hops : Open(c, k) => k = i
  BY <1>1, <1>2 DEF CallInv, OpenOnce, Open
<1>5. runs' \in [Calls -> Nat] /\ runs'[c] = 1 /\ \A d \in Calls : d # c => runs'[d] = runs[d]
  BY <1>1, <1>2, <1>4 DEF CallsTyped
<1>6. EnvTyped' /\ CallsTyped'
  BY <1>1, <1>2, <1>3, <1>5 DEF EnvTyped, CallsTyped
<1>7. job[c][i].stage \notin {"none", "arriving", "init", "wait"}
  BY <1>1, <1>2 DEF CallInv, Unsent
<1>8. \A k \in Hops : ~Open(c, k)'
  BY <1>2, <1>3, <1>4, <1>7 DEF Open
<1>9. JobsOk(c)' /\ Chain(c)'
  BY <1>1, <1>2 DEF CallInv, JobsOk, Chain
<1>10. OpenOnce(c)' /\ Honest(c)'
  BY <1>5, <1>8 DEF OpenOnce, Honest
<1>11. Unsent(c)'
  BY <1>1, <1>2, <1>3, <1>7 DEF CallInv, Unsent
<1>12. Unborn(c)'
  BY <1>2, <1>7, Submitted DEF Unborn
<1>13. Gatekept(c)'
  BY <1>1, <1>2 DEF CallInv, Gatekept, Undeclared
<1>14. CallInv(c)'
  BY <1>9, <1>10, <1>11, <1>12, <1>13 DEF CallInv
<1>15. \A d \in Calls : d # c => CallInv(d)'
  BY <1>2, <1>3, <1>5, Untouched DEF WInv
<1> QED
  BY <1>6, <1>14, <1>15 DEF WInv

LEMMA FrameLostStep ==
  ASSUME WInv, NEW c \in Calls, NEW i \in Hops, FrameLost(c, i)
  PROVE  WInv'
<1>1. EnvTyped /\ CallsTyped /\ CallInv(c)
  BY DEF WInv
<1>2. /\ frame[c][i] = "sent" /\ SetFrame(c, i, "lost")
      /\ UNCHANGED <<alive, phase, pipe, home, moves, req, reply, job, runs>>
  BY DEF FrameLost, envVars
<1>3. /\ frame' \in [Calls -> [Hops -> FrameStates]] /\ frame'[c][i] = "lost"
      /\ \A k \in Hops : k # i => frame'[c][k] = frame[c][k]
      /\ \A d \in Calls : d # c => frame'[d] = frame[d]
  BY <1>1, <1>2, SetFrameEffect DEF FrameStates
<1>4. EnvTyped' /\ CallsTyped'
  BY <1>1, <1>2, <1>3 DEF EnvTyped, CallsTyped
<1>5. \A k \in Hops : Open(c, k)' => Open(c, k)
  BY <1>2, <1>3 DEF Open
<1>6. JobsOk(c)' /\ Chain(c)'
  BY <1>1, <1>2 DEF CallInv, JobsOk, Chain
<1>7. OpenOnce(c)'
  BY <1>1, <1>2, <1>5 DEF CallInv, OpenOnce
<1>8. Honest(c)'
  BY <1>1, <1>2, <1>3 DEF CallInv, Honest
<1>9. Unsent(c)'
  BY <1>1, <1>2, <1>3 DEF CallInv, Unsent
<1>10. Unborn(c)'
  BY <1>2, Submitted DEF Unborn
<1>11. Gatekept(c)'
  BY <1>1, <1>2 DEF CallInv, Gatekept, Undeclared
<1>12. CallInv(c)'
  BY <1>6, <1>7, <1>8, <1>9, <1>10, <1>11 DEF CallInv
<1>13. \A d \in Calls : d # c => CallInv(d)'
  BY <1>2, <1>3, Untouched DEF WInv
<1> QED
  BY <1>4, <1>12, <1>13 DEF WInv

\* A new call arrives at one hub.
LEMMA SubmitStep ==
  ASSUME WInv, NEW c \in Calls, Submit(c)
  PROVE  WInv'
<1>1. EnvTyped /\ CallsTyped /\ CallInv(c)
  BY DEF WInv
<1>2. PICK t \in Offered, d \in Declarations, v \in {"proxy", "tunnel"}, h \in Hubs :
        /\ req' = [req EXCEPT ![c] = [tool |-> t, decl |-> d, via |-> v]]
        /\ SetJob(c, 1, At(h))
  BY DEF Submit
<1>3. req[c] = NoReq /\ UNCHANGED <<alive, phase, pipe, home, moves, reply, frame, runs>>
  BY DEF Submit, envVars
<1> DEFINE r == [tool |-> t, decl |-> d, via |-> v]
<1>4. r \in Requests /\ r # NoReq
  BY NoneIsNone, WriteForwardAssumption DEF Requests, NoReq
<1> HIDE DEF r
<1>5. req' \in [Calls -> Requests] /\ req'[c] = r /\ \A e \in Calls : e # c => req'[e] = req[e]
  BY <1>1, <1>2, <1>4 DEF CallsTyped, r
<1>6. At(h) \in Job /\ At(h).stage = "arriving" /\ At(h).res = None /\ At(h).hub \in Hubs
  BY DEF At, Job, Stages
<1>7. 1 \in Hops
  BY WriteForwardAssumption DEF Hops
<1>8. /\ job' \in [Calls -> [Hops -> Job]] /\ job'[c][1] = At(h)
      /\ \A k \in Hops : k # 1 => job'[c][k] = job[c][k]
      /\ \A e \in Calls : e # c => job'[e] = job[e]
  BY <1>1, <1>2, <1>6, <1>7, SetJobEffect
<1>9. EnvTyped' /\ CallsTyped'
  BY <1>1, <1>3, <1>5, <1>8 DEF EnvTyped, CallsTyped
<1>10. runs[c] = 0 /\ \A k \in Hops : job[c][k].stage = "none" /\ frame[c][k] = "none"
  BY <1>1, <1>3 DEF CallInv, Unborn
<1>11. JobsOk(c)'
  BY <1>1, <1>6, <1>8 DEF CallInv, JobsOk, JobOk
<1>12. \A k \in Hops : Open(c, k)' => k = 1
  BY <1>3, <1>8, <1>10 DEF Open
<1>13. OpenOnce(c)'
  BY <1>3, <1>10, <1>12 DEF OpenOnce
<1>14. Unsent(c)' /\ Gatekept(c)'
  BY <1>3, <1>10 DEF Unsent, Gatekept
<1>15. Chain(c)'
  <2> SUFFICES ASSUME NEW k \in Hops, k + 1 \in Hops PROVE job'[c][k + 1].stage = "none"
    BY DEF Chain
  <2>1. k + 1 # 1
    BY DEF Hops
  <2> QED
    BY <1>8, <1>10, <2>1
<1>16. Honest(c)'
  BY <1>1, <1>3, <1>6, <1>8, NoneIsNone DEF CallInv, Honest, Results
<1>17. Unborn(c)'
  BY <1>4, <1>5 DEF Unborn, NoReq
<1>18. CallInv(c)'
  BY <1>11, <1>13, <1>14, <1>15, <1>16, <1>17 DEF CallInv
<1>19. \A e \in Calls : e # c => CallInv(e)'
  BY <1>3, <1>5, <1>8, Untouched DEF WInv
<1> QED
  BY <1>9, <1>18, <1>19 DEF WInv

\* The caller hears what the first hub says, or gives up.
LEMMA HearsStep ==
  ASSUME WInv, NEW c \in Calls, Replied(c) \/ Unreachable(c)
  PROVE  WInv'
<1>1. EnvTyped /\ CallsTyped /\ CallInv(c)
  BY DEF WInv
<1>2. UNCHANGED <<alive, phase, pipe, home, moves, req, job, frame, runs>>
  BY DEF Replied, Unreachable, envVars
<1>3. PICK a \in Results \cup {"unreachable", "reset"} :
        reply' = [reply EXCEPT ![c] = a] /\ (a = "ok" => runs[c] = 1)
  <2>1. CASE Replied(c)
    <3>1. 1 \in Hops
      BY WriteForwardAssumption DEF Hops
    <3>2. job[c][1] \in Job /\ JobOk(job[c][1]) /\ job[c][1].stage = "done"
      BY <1>1, <2>1, <3>1 DEF CallsTyped, CallInv, JobsOk, Replied
    <3>3. job[c][1].res \in Results /\ (job[c][1].res = "ok" => runs[c] = 1)
      BY <1>1, <3>1, <3>2 DEF Job, JobOk, CallInv, Honest
    <3> QED
      BY <2>1, <3>3 DEF Replied
  <2>2. CASE Unreachable(c)
    <3>1. CASE reply' = [reply EXCEPT ![c] = "unreachable"]
      <4>1. "unreachable" # "ok"
        OBVIOUS
      <4> WITNESS "unreachable" \in Results \cup {"unreachable", "reset"}
      <4> QED
        BY <3>1, <4>1
    <3>2. CASE reply' = [reply EXCEPT ![c] = "reset"]
      <4>1. "reset" # "ok"
        OBVIOUS
      <4> WITNESS "reset" \in Results \cup {"unreachable", "reset"}
      <4> QED
        BY <3>2, <4>1
    <3> QED
      BY <2>2, <3>1, <3>2 DEF Unreachable
  <2> QED
    BY <2>1, <2>2
<1>4. /\ reply' \in [Calls -> Results \cup {"unreachable", "reset", None}] /\ reply'[c] = a
      /\ \A d \in Calls : d # c => reply'[d] = reply[d]
  BY <1>1, <1>3 DEF CallsTyped
<1>5. EnvTyped' /\ CallsTyped'
  BY <1>1, <1>2, <1>4 DEF EnvTyped, CallsTyped
<1>6. JobsOk(c)' /\ Chain(c)' /\ Unsent(c)'
  BY <1>1, <1>2 DEF CallInv, JobsOk, Chain, Unsent
<1>7. OpenOnce(c)'
  BY <1>1, <1>2 DEF CallInv, OpenOnce, Open
<1>8. Unborn(c)' /\ Gatekept(c)'
  BY <1>1, <1>2 DEF CallInv, Unborn, Gatekept, Undeclared
<1>9. Honest(c)'
  BY <1>1, <1>2, <1>3, <1>4 DEF CallInv, Honest
<1>10. CallInv(c)'
  BY <1>6, <1>7, <1>8, <1>9 DEF CallInv
<1>11. \A d \in Calls : d # c => CallInv(d)'
  BY <1>2, <1>4, Untouched DEF WInv
<1> QED
  BY <1>5, <1>10, <1>11 DEF WInv

\* The environment has no more moves than it may.
LEMMA MovesBounded ==
  ASSUME EnvTyped, Moves
  PROVE  moves' \in 0 .. MaxMoves
BY WriteForwardAssumption DEF EnvTyped, Moves

\* A hub that dies takes its callTools with it, and what they sent stays sent.
LEMMA CrashStep ==
  ASSUME WInv, NEW h \in Hubs, Crash(h)
  PROVE  WInv'
<1>1. EnvTyped /\ CallsTyped
  BY DEF WInv
<1>2. UNCHANGED <<req, reply, frame, runs>>
  BY DEF Crash, Moves
<1> DEFINE hit(c, i) == job[c][i].hub = h /\ job[c][i].stage # "done"
           j(c, i) == IF hit(c, i) THEN [job[c][i] EXCEPT !.stage = "dead"] ELSE job[c][i]
<1>3. job' = [c \in Calls |-> [i \in Hops |-> j(c, i)]]
  BY DEF Crash
<1>4. ASSUME NEW c \in Calls, NEW i \in Hops
      PROVE  /\ j(c, i) \in Job /\ JobOk(j(c, i)) /\ j(c, i).res = job[c][i].res
             /\ j(c, i).stage = job[c][i].stage \/ (j(c, i).stage = "dead" /\ job[c][i].stage # "none")
  <2>1. job[c][i] \in Job /\ JobOk(job[c][i])
    BY <1>1 DEF CallsTyped, WInv, CallInv, JobsOk
  <2>2. CASE ~hit(c, i)
    BY <2>1, <2>2
  <2>3. CASE hit(c, i)
    <3>1. j(c, i) \in Job /\ j(c, i).stage = "dead" /\ j(c, i).res = job[c][i].res /\ j(c, i).hub = h
      BY <2>1, <2>3 DEF Job, Stages
    <3>2. job[c][i].stage # "none"
      BY <2>1, <2>3, NoneIsNone DEF JobOk, NoJob
    <3> QED
      BY <2>1, <2>3, <3>1, <3>2 DEF JobOk
  <2> QED
    BY <2>2, <2>3
<1> HIDE DEF j
<1>5. job' \in [Calls -> [Hops -> Job]] /\ \A c \in Calls, i \in Hops : job'[c][i] = j(c, i)
  BY <1>3, <1>4
<1>6. EnvTyped' /\ CallsTyped'
  <2>1. moves' \in 0 .. MaxMoves
    BY <1>1, MovesBounded DEF Crash
  <2>2. alive' \in [Hubs -> BOOLEAN] /\ phase' \in [Hubs -> Phases] /\ pipe' \in [Hubs -> BOOLEAN]
    BY <1>1 DEF EnvTyped, Crash, Phases
  <2>3. home' \in Hubs \cup {None}
    BY <1>1 DEF EnvTyped, Crash
  <2>4. CallsTyped'
    BY <1>1, <1>2, <1>5 DEF CallsTyped
  <2> QED
    BY <2>1, <2>2, <2>3, <2>4 DEF EnvTyped
<1>7. ASSUME NEW c \in Calls PROVE CallInv(c)'
  <2>0. CallInv(c)
    BY DEF WInv
  <2>1. JobsOk(c)'
    BY <1>4, <1>5 DEF JobsOk
  <2>2. \A i \in Hops : Open(c, i)' => Open(c, i)
    BY <1>2, <1>4, <1>5 DEF Open
  <2>3. OpenOnce(c)'
    BY <1>2, <2>0, <2>2 DEF CallInv, OpenOnce
  <2>4. Unsent(c)' /\ Honest(c)'
    BY <1>2, <1>4, <1>5, <2>0 DEF CallInv, Unsent, Honest
  <2>5. NotBackward(c)
    BY <1>4, <1>5 DEF NotBackward
  <2>6. Chain(c)'
    BY <2>0, <2>5, ChainKept DEF CallInv
  <2>7. Unborn(c)' /\ Gatekept(c)'
    BY <1>2, <1>4, <1>5, <2>0 DEF CallInv, Unborn, Gatekept, Undeclared
  <2> QED
    BY <2>1, <2>3, <2>4, <2>6, <2>7 DEF CallInv
<1> QED
  BY <1>6, <1>7 DEF WInv

\* Phases, pipes, processes and the node's connection touch no call.
LEMMA EnvStep ==
  ASSUME WInv, NEW h \in Hubs, PhaseMoves(h) \/ Restart(h) \/ NodeMoves(h)
  PROVE  WInv'
<1>1. UNCHANGED <<req, reply, job, frame, runs>>
  BY DEF PhaseMoves, Restart, NodeMoves, Moves
<1>2. EnvTyped'
  <2>1. EnvTyped /\ moves' \in 0 .. MaxMoves
    BY MovesBounded DEF WInv, PhaseMoves, Restart, NodeMoves
  <2>2. CASE PhaseMoves(h)
    BY <2>1, <2>2 DEF EnvTyped, PhaseMoves
  <2>3. CASE Restart(h)
    BY <2>1, <2>3 DEF EnvTyped, Restart
  <2>4. CASE NodeMoves(h)
    BY <2>1, <2>4 DEF EnvTyped, NodeMoves
  <2> QED
    BY <2>2, <2>3, <2>4
<1>3. CallsTyped'
  BY <1>1 DEF WInv, CallsTyped
<1>4. \A c \in Calls : CallInv(c)'
  BY <1>1, Untouched DEF WInv
<1> QED
  BY <1>2, <1>3, <1>4 DEF WInv

-----------------------------------------------------------------------------
(* The invariant, and what it shows *)

LEMMA Start == Init => WInv
<1> SUFFICES ASSUME Init PROVE WInv
  OBVIOUS
<1>1. EnvTyped
  BY WriteForwardAssumption DEF Init, EnvTyped, Phases
<1>2. CallsTyped
  BY DEF Init, CallsTyped, Job, Stages, FrameStates, Requests, NoJob, NoReq
<1>3. ASSUME NEW c \in Calls PROVE CallInv(c)
  <2>1. /\ req[c] = NoReq /\ reply[c] = None /\ runs[c] = 0
        /\ \A i \in Hops : job[c][i] = NoJob /\ frame[c][i] = "none"
    BY <1>3 DEF Init
  <2>2. \A i \in Hops : job[c][i].stage = "none" /\ job[c][i].res = None
    BY <2>1 DEF NoJob
  <2>3. JobsOk(c)
    BY <2>1, <2>2 DEF JobsOk, JobOk
  <2>4. OpenOnce(c) /\ Unsent(c) /\ Unborn(c) /\ Gatekept(c)
    BY <2>1, <2>2 DEF OpenOnce, Open, Unsent, Unborn, Gatekept
  <2>5. Chain(c)
    BY <2>2 DEF Chain
  <2>6. Honest(c)
    BY <2>1, <2>2, NoneIsNone DEF Honest, Results
  <2> QED
    BY <2>3, <2>4, <2>5, <2>6 DEF CallInv
<1> QED
  BY <1>1, <1>2, <1>3 DEF WInv

LEMMA Steps == WInv /\ [Next]_vars => WInv'
<1> SUFFICES ASSUME WInv, [Next]_vars PROVE WInv'
  OBVIOUS
<1>1. CASE UNCHANGED vars
  <2>1. EnvTyped' /\ CallsTyped'
    BY <1>1 DEF vars, envVars, WInv, EnvTyped, CallsTyped
  <2>2. \A c \in Calls : CallInv(c)'
    BY <1>1, Untouched DEF vars, WInv
  <2> QED
    BY <2>1, <2>2 DEF WInv
<1>2. ASSUME NEW c \in Calls, CallerStep(c) PROVE WInv'
  BY <1>2, SubmitStep, HearsStep DEF CallerStep
<1>3. ASSUME NEW c \in Calls, NEW i \in Hops, HubStep(c, i) PROVE WInv'
  <2>1. CASE Refuse(c, i)
    BY <2>1, RefuseStep
  <2>2. CASE Local(c, i)
    BY <2>2, LocalStep
  <2>3. CASE ToNode(c, i)
    BY <2>3, ToNodeStep
  <2>4. CASE Forward(c, i)
    BY <2>4, ForwardStep
  <2>5. CASE Initialized(c, i)
    BY <2>5, InitializedStep
  <2>6. CASE LeaderAnswered(c, i)
    BY <2>6, LeaderAnsweredStep
  <2>7. CASE ForwardFails(c, i)
    BY <2>7, ForwardFailsStep
  <2>8. CASE NodeEnds(c, i)
    BY <2>8, NodeEndsStep
  <2> QED
    BY <1>3, <2>1, <2>2, <2>3, <2>4, <2>5, <2>6, <2>7, <2>8 DEF HubStep
<1>4. ASSUME NEW c \in Calls, NEW i \in Hops, NodeRuns(c, i) PROVE WInv'
  BY <1>4, NodeRunsStep
<1>5. ASSUME NEW c \in Calls, NEW i \in Hops, FrameLost(c, i) PROVE WInv'
  BY <1>5, FrameLostStep
<1>6. ASSUME NEW h \in Hubs, HubMoves(h) PROVE WInv'
  BY <1>6, CrashStep, EnvStep DEF HubMoves
<1> QED
  BY <1>1, <1>2, <1>3, <1>4, <1>5, <1>6 DEF Next

\* The invariant holds: the callTools of a call are a chain in which one at
\* most is open, so that what runs the call also closes it.
THEOREM ForwardInvariance == Spec => []WInv
BY Start, Steps, PTL DEF Spec

\* No call is executed twice, whatever timeouts, crashes and changes of leader
\* it meets (AtMostOnce).
THEOREM RunsOnce == Spec => []AtMostOnce
<1>1. WInv => AtMostOnce
  BY DEF WInv, CallInv, OpenOnce, AtMostOnce
<1> QED
  BY <1>1, ForwardInvariance, PTL

\* A result the caller is told of is one the call had (OkMeansRun).
THEOREM ResultsAreReal == Spec => []OkMeansRun
<1>1. WInv => OkMeansRun
  BY DEF WInv, CallInv, Honest, OkMeansRun
<1> QED
  BY <1>1, ForwardInvariance, PTL

\* A message that the model gate refuses reaches no session, however it is
\* handed from hub to hub (UndeclaredNeverRuns).
THEOREM GateHoldsEverywhere == Spec => []UndeclaredNeverRuns
<1>1. WInv => UndeclaredNeverRuns
  BY DEF WInv, CallInv, Gatekept, Undeclared, UndeclaredNeverRuns
<1> QED
  BY <1>1, ForwardInvariance, PTL

\* The variables keep their types (TypeOK).
THEOREM ForwardTypes == Spec => []TypeOK
<1>1. ASSUME WInv PROVE TypeOK
  <2>1. ASSUME NEW c \in Calls, NEW i \in Hops PROVE job[c][i] \in Job /\ frame[c][i] \in FrameStates /\ JobOk(job[c][i])
    BY <1>1 DEF WInv, CallsTyped, CallInv, JobsOk
  <2> QED
    BY <1>1, <2>1 DEF WInv, EnvTyped, Job, FrameStates, Stages, JobOk, TypeOK
<1> QED
  BY <1>1, ForwardInvariance, PTL

-----------------------------------------------------------------------------
(* Who begins a write *)

\* A step sends the call to the node, or answers it, where it had just arrived.
Begins(c, i) ==
  \/ frame[c][i] = "none" /\ frame'[c][i] = "sent"
  \/ job[c][i].stage = "arriving" /\ job'[c][i].res = "ok"

\* Nothing of the other callTools changes.
LEMMA SetJobElsewhere ==
  ASSUME CallsTyped, NEW d \in Calls, NEW k \in Hops, NEW j, SetJob(d, k, j),
         NEW c \in Calls, NEW i \in Hops
  PROVE  job'[c][i] = IF c = d /\ i = k THEN j ELSE job[c][i]
<1> DEFINE new == [job[d] EXCEPT ![k] = j]
<1>1. new[i] = IF i = k THEN j ELSE job[d][i]
  BY DEF CallsTyped
<1> HIDE DEF new
<1>2. job' = [job EXCEPT ![d] = new]
  BY DEF SetJob, new
<1>3. job'[c] = IF c = d THEN new ELSE job[c]
  BY <1>2 DEF CallsTyped
<1> QED
  BY <1>1, <1>3

\* A callTool that moves on has no result yet.
LEMMA ToKeepsResults ==
  ASSUME CallsTyped, NEW d \in Calls, NEW k \in Hops, NEW stage, To(d, k, stage),
         NEW c \in Calls, NEW i \in Hops
  PROVE  job'[c][i].res = job[c][i].res
<1> DEFINE j == [job[d][k] EXCEPT !.stage = stage]
<1>1. job[d][k] \in Job
  BY DEF CallsTyped
<1>2. j.res = job[d][k].res
  BY <1>1 DEF Job
<1>3. SetJob(d, k, j)
  BY DEF To
<1> HIDE DEF j
<1>4. job'[c][i] = IF c = d /\ i = k THEN j ELSE job[c][i]
  BY <1>3, SetJobElsewhere
<1> QED
  BY <1>2, <1>4

\* Only the callTool that ends has a new result.
LEMMA EndSetsResult ==
  ASSUME CallsTyped, NEW d \in Calls, NEW k \in Hops, NEW res, End(d, k, res),
         NEW c \in Calls, NEW i \in Hops
  PROVE  job'[c][i].res = IF c = d /\ i = k THEN res ELSE job[c][i].res
BY SetJobElsewhere DEF End

\* A write begins in the hub's own turn, with its guards.
LEMMA Begun ==
  ASSUME WInv, [Next]_vars, NEW c \in Calls, NEW i \in Hops, Begins(c, i)
  PROVE  Local(c, i) \/ ToNode(c, i)
<1>1. CallsTyped
  BY DEF WInv
<1>2. job[c][i].stage = "arriving" => job[c][i].res # "ok"
  BY NoneIsNone DEF WInv, CallInv, JobsOk, JobOk, Results
<1> SUFFICES ASSUME ~(Local(c, i) \/ ToNode(c, i)) PROVE FALSE
  OBVIOUS
<1>3. CASE UNCHANGED vars
  BY <1>2, <1>3 DEF Begins, vars
<1>4. ASSUME NEW d \in Calls, CallerStep(d) PROVE FALSE
  <2>1. UNCHANGED frame
    BY <1>4 DEF CallerStep, Submit, Replied, Unreachable
  <2>2. CASE UNCHANGED job
    BY <1>2, <2>1, <2>2 DEF Begins
  <2>3. CASE Submit(d)
    <3>1. PICK h \in Hubs : SetJob(d, 1, At(h))
      BY <2>3 DEF Submit
    <3>2. 1 \in Hops
      BY WriteForwardAssumption DEF Hops
    <3>3. job'[c][i].res \in {None, job[c][i].res}
      BY <1>1, <3>1, <3>2, SetJobElsewhere DEF At
    <3> QED
      BY <1>2, <2>1, <3>3, NoneIsNone DEF Begins, Results
  <2> QED
    BY <1>4, <2>2, <2>3 DEF CallerStep, Replied, Unreachable
<1>5. ASSUME NEW d \in Calls, NEW k \in Hops, HubStep(d, k) PROVE FALSE
  <2>1. CASE Refuse(d, k)
    <3>1. End(d, k, Refused(d, k)) /\ Refused(d, k) # "ok" /\ UNCHANGED frame
      BY <2>1, NoneIsNone DEF Refuse, Refused, Results
    <3> QED
      BY <1>1, <1>2, <3>1, EndSetsResult DEF Begins
  <2>2. CASE Local(d, k)
    <3>1. End(d, k, "ok") /\ UNCHANGED frame /\ (c # d \/ i # k)
      BY <2>2 DEF Local
    <3> QED
      BY <1>1, <1>2, <3>1, EndSetsResult DEF Begins
  <2>3. CASE ToNode(d, k)
    <3>1. To(d, k, "node") /\ SetFrame(d, k, "sent") /\ (c # d \/ i # k)
      BY <2>3 DEF ToNode
    <3>2. frame'[c][i] = frame[c][i]
      BY <1>1, <3>1, SetFrameEffect DEF FrameStates
    <3> QED
      BY <1>1, <1>2, <3>1, <3>2, ToKeepsResults DEF Begins
  <2>4. CASE Forward(d, k)
    <3>1. To(d, k, "init") /\ UNCHANGED frame
      BY <2>4 DEF Forward
    <3> QED
      BY <1>1, <1>2, <3>1, ToKeepsResults DEF Begins
  <2>5. CASE Initialized(d, k)
    <3> DEFINE h == Other(job[d][k].hub)
               new == [n \in Hops |-> IF n = k THEN [job[d][k] EXCEPT !.stage = "wait"]
                                      ELSE IF n = k + 1 THEN At(h) ELSE job[d][n]]
    <3>1. job' = [job EXCEPT ![d] = new] /\ UNCHANGED frame
      BY <2>5 DEF Initialized
    <3>2. [job[d][k] EXCEPT !.stage = "wait"].res = job[d][k].res
      BY <1>1 DEF CallsTyped, Job
    <3>3. new[i].res \in {None, job[d][i].res}
      BY <3>2 DEF At
    <3> HIDE DEF new
    <3>4. job'[c][i].res \in {None, job[c][i].res}
      BY <1>1, <3>1, <3>3 DEF CallsTyped
    <3> QED
      BY <1>2, <3>1, <3>4, NoneIsNone DEF Begins, Results
  <2>6. CASE LeaderAnswered(d, k)
    <3>1. PICK res : End(d, k, res) /\ job[d][k].stage = "wait" /\ UNCHANGED frame
      BY <2>6 DEF LeaderAnswered
    <3> QED
      BY <1>1, <1>2, <3>1, EndSetsResult DEF Begins
  <2>7. CASE ForwardFails(d, k)
    <3>1. End(d, k, "quorum_lost") /\ UNCHANGED frame
      BY <2>7 DEF ForwardFails, AfterFailure
    <3> QED
      BY <1>1, <1>2, <3>1, EndSetsResult DEF Begins
  <2>8. CASE NodeEnds(d, k)
    <3>1. PICK res : End(d, k, res) /\ job[d][k].stage = "node" /\ UNCHANGED frame
      BY <2>8 DEF NodeEnds
    <3> QED
      BY <1>1, <1>2, <3>1, EndSetsResult DEF Begins
  <2> QED
    BY <1>5, <2>1, <2>2, <2>3, <2>4, <2>5, <2>6, <2>7, <2>8 DEF HubStep
<1>6. ASSUME NEW d \in Calls, NEW k \in Hops, NodeRuns(d, k) \/ FrameLost(d, k) PROVE FALSE
  <2>1. PICK f \in {"ran", "lost"} : SetFrame(d, k, f) /\ UNCHANGED job
    BY <1>6 DEF NodeRuns, FrameLost
  <2>2. frame'[c][i] \in {"ran", "lost", frame[c][i]}
    BY <1>1, <2>1, SetFrameEffect DEF FrameStates
  <2> QED
    BY <1>2, <2>1, <2>2 DEF Begins
<1>7. ASSUME NEW h \in Hubs, HubMoves(h) PROVE FALSE
  <2>1. UNCHANGED frame
    BY <1>7 DEF HubMoves, PhaseMoves, Crash, Restart, NodeMoves, Moves
  <2>2. CASE UNCHANGED job
    BY <1>2, <2>1, <2>2 DEF Begins
  <2>3. CASE Crash(h)
    <3>1. job'[c][i] \in {[job[c][i] EXCEPT !.stage = "dead"], job[c][i]}
      BY <2>3 DEF Crash
    <3>2. [job[c][i] EXCEPT !.stage = "dead"].res = job[c][i].res
      BY <1>1 DEF CallsTyped, Job
    <3> QED
      BY <1>2, <2>1, <3>1, <3>2 DEF Begins
  <2> QED
    BY <1>7, <2>2, <2>3 DEF HubMoves, PhaseMoves, Restart, NodeMoves
<1> QED
  BY <1>3, <1>4, <1>5, <1>6, <1>7 DEF Next

\* A write is begun by the hub that holds the lease at that moment, through
\* however many hubs it came (WritesBeginUnderLease).
THEOREM LeaseHolderBegins == Spec => WritesBeginUnderLease
<1>1. ASSUME WInv, [Next]_vars, NEW c \in Calls, NEW i \in Hops,
             req[c].tool \in WriteDanger, Begins(c, i)
      PROVE  phase[job[c][i].hub] = "leader-leased"
  <2>1. ~Forwards(c, i)
    BY <1>1, Begun DEF Local, ToNode
  <2>2. req[c].tool \in WriteTools
    BY <1>1 DEF WriteDanger, WriteTools
  <2> QED
    BY <2>1, <2>2 DEF Forwards, WriteMode
<1>2. WInv /\ [Next]_vars
        => [\A c \in Calls, i \in Hops :
              (/\ req[c].tool \in WriteDanger
               /\ \/ frame[c][i] = "none" /\ frame'[c][i] = "sent"
                  \/ job[c][i].stage = "arriving" /\ job'[c][i].res = "ok")
                => phase[job[c][i].hub] = "leader-leased"]_vars
  BY <1>1 DEF Begins
<1> QED
  BY <1>2, ForwardInvariance, PTL DEF Spec, WritesBeginUnderLease
==============================================================================
