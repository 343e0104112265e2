---------------------------- MODULE RpcPeerProofs ----------------------------
(***************************************************************************)
(* For every number of connections and calls: the answers match, no promise*)
(* is forgotten, and the hub's peers implement RpcCalls.                   *)
(***************************************************************************)
EXTENDS RpcPeer, TLAPS

\* Every place a request or its answer can be in.
InFlight == requests \cup running \cup responses

\* Only the socket of the current peer is open.
OneSocket == \A c \in agentOpen : c = cur

\* A peer numbers its own requests upwards from 1.
IdsBelow == \A f \in pending \cup InFlight : f.id < nextId[f.conn]

\* On one connection an id means one call.
IdsMeanCalls ==
  /\ \A p, q \in pending : p.conn = q.conn /\ p.id = q.id => p = q
  /\ \A p \in pending, f \in InFlight : p.conn = f.conn /\ p.id = f.id => p.call = f.call

\* A waiting call has one pending entry, a call nobody made leaves no trace.
OneEntry ==
  /\ \A p, q \in pending : p.call = q.call => p = q
  /\ \A k \in Calls : status[k] = "waiting" <=> \E p \in pending : p.call = k
  /\ \A f \in InFlight : status[f.call] # "idle"
  /\ \A k \in Calls : status[k] = "idle" => ~started[k]

\* A request frame is heard at most once, an answer comes from a handler.
OneExecution ==
  /\ \A f \in requests : ~started[f.call]
  /\ \A f, g \in requests : f.call = g.call => f = g
  /\ \A f \in running \cup responses : started[f.call]

RpcInv == TypeOK /\ OneSocket /\ IdsBelow /\ IdsMeanCalls /\ OneEntry /\ OneExecution /\ AnswersMatch

\* The constructors satisfy the invariant.
LEMMA InitInv == Init => RpcInv
BY ConnAssumption DEF Init, RpcInv, TypeOK, OneSocket, IdsBelow, IdsMeanCalls, OneEntry, OneExecution,
   AnswersMatch, InFlight, Frame, Response

USE DEF TypeOK, InFlight, Frame, Response

\* The agent's own steps touch no promise.
LEMMA ConnectedInv == ASSUME RpcInv, NEW c \in Conns, Connected(c) PROVE RpcInv'
BY ConnAssumption DEF RpcInv, OneSocket, IdsBelow, IdsMeanCalls, OneEntry, OneExecution,
   AnswersMatch, Connected, OpenOnly, netVars, callVars

LEMMA AgentSocketInv == ASSUME RpcInv, NEW c \in Conns, AgentSocketClosed(c) PROVE RpcInv'
BY DEF RpcInv, OneSocket, IdsBelow, IdsMeanCalls, OneEntry, OneExecution,
   AnswersMatch, AgentSocketClosed, netVars, callVars, hubVars

LEMMA ReconnectInv == ASSUME RpcInv, ReconnectTimer PROVE RpcInv'
BY DEF RpcInv, OneSocket, IdsBelow, IdsMeanCalls, OneEntry, OneExecution,
   AnswersMatch, ReconnectTimer, netVars, callVars, hubVars

\* A request heard over the one open socket is answered over the same one.
LEMMA AgentHearsInv == ASSUME RpcInv, NEW f \in requests, AgentHears(f) PROVE RpcInv'
<1>1. cur = f.conn /\ cur # NoConn
  BY ConnAssumption DEF RpcInv, OneSocket, AgentHears
<1>2. Dispatched(f) = f
  BY <1>1 DEF Dispatched, RpcInv
<1>3. running' = running \cup {f} /\ started' = [started EXCEPT ![f.call] = TRUE]
  BY <1>1, <1>2 DEF AgentHears
<1>4. TypeOK' /\ OneSocket' /\ IdsBelow'
  BY <1>3 DEF RpcInv, OneSocket, IdsBelow, AgentHears, agentVars, hubVars
<1>5. IdsMeanCalls' /\ OneEntry'
  BY <1>3 DEF RpcInv, IdsMeanCalls, OneEntry, AgentHears, agentVars, hubVars
<1>6. OneExecution' /\ AnswersMatch'
  BY <1>3 DEF RpcInv, OneExecution, AnswersMatch, AgentHears, agentVars, hubVars
<1> QED BY <1>4, <1>5, <1>6 DEF RpcInv

LEMMA AgentAnswersInv ==
  ASSUME RpcInv, NEW f \in running, NEW ok \in BOOLEAN, AgentAnswers(f, ok) PROVE RpcInv'
<1> DEFINE r == [conn |-> f.conn, id |-> f.id, call |-> f.call, ok |-> ok]
<1>1. responses' \subseteq responses \cup {r} /\ running' \subseteq running
  BY DEF AgentAnswers
<1>2. TypeOK' /\ OneSocket' /\ IdsBelow'
  BY <1>1 DEF RpcInv, OneSocket, IdsBelow, AgentAnswers, agentVars, hubVars, callVars
<1>3. IdsMeanCalls' /\ OneEntry'
  BY <1>1 DEF RpcInv, IdsMeanCalls, OneEntry, AgentAnswers, agentVars, hubVars, callVars
<1>4. OneExecution' /\ AnswersMatch'
  BY <1>1 DEF RpcInv, OneExecution, AnswersMatch, AgentAnswers, agentVars, hubVars, callVars
<1> QED BY <1>2, <1>3, <1>4 DEF RpcInv

\* A new call takes an id no frame carries.
LEMMA ForwardInv == ASSUME RpcInv, NEW k \in Calls, Forward(k) PROVE RpcInv'
<1> DEFINE f == [conn |-> route, id |-> nextId[route], call |-> k]
<1>1. /\ route \in Conns /\ status[k] = "idle" /\ f \in Frame
      /\ nextId' = [nextId EXCEPT ![route] = nextId[route] + 1]
      /\ pending' = pending \cup {f}
      /\ requests' \subseteq requests \cup {f}
      /\ status' = [status EXCEPT ![k] = "waiting"]
  BY DEF Forward, SendRequest, RpcInv
<1>2. TypeOK' /\ OneSocket' /\ IdsBelow'
  BY <1>1 DEF RpcInv, OneSocket, IdsBelow, Forward, agentVars, hubVars
<1>3. IdsMeanCalls'
  BY <1>1 DEF RpcInv, IdsMeanCalls, IdsBelow, Forward
<1>4. OneEntry'
  <2>1. \A j \in Calls : (\E p \in pending' : p.call = j)
                         <=> (\E p \in pending : p.call = j) \/ j = k
    <3>1. f.call = k
      OBVIOUS
    <3>2. \A p : p \in pending' <=> p \in pending \/ p = f
      BY <1>1
    <3> HIDE DEF f
    <3> QED BY <3>1, <3>2
  <2>2. \A j \in Calls : status'[j] = "waiting" <=> status[j] = "waiting" \/ j = k
    BY <1>1 DEF RpcInv
  <2>3. \A j \in Calls : status'[j] = "idle" => status[j] = "idle" /\ j # k
    BY <1>1 DEF RpcInv
  <2>4. \A g \in InFlight' : g \in InFlight \/ g = f
    BY <1>1 DEF Forward
  <2>5. \A g \in InFlight : g.call \in Calls
    BY DEF RpcInv
  <2>6. \A p, q \in pending' : p.call = q.call => p = q
    BY <1>1 DEF RpcInv, OneEntry
  <2>7. \A g \in InFlight' : status'[g.call] # "idle"
    BY <1>1, <2>3, <2>4, <2>5 DEF RpcInv, OneEntry
  <2>8. started' = started
    BY DEF Forward
  <2> QED BY <2>1, <2>2, <2>3, <2>6, <2>7, <2>8 DEF RpcInv, OneEntry
<1>5. OneExecution' /\ AnswersMatch'
  BY <1>1 DEF RpcInv, OneExecution, OneEntry, AnswersMatch, Forward
<1> QED BY <1>2, <1>3, <1>4, <1>5 DEF RpcInv

LEMMA HubHearsInv == ASSUME RpcInv, NEW r \in responses, HubHears(r) PROVE RpcInv'
<1> DEFINE mine == {p \in pending : p.conn = r.conn /\ p.id = r.id}
<1>1. /\ responses' = responses \ {r} /\ pending' = pending \ mine
      /\ status' = [k \in Calls |-> IF \E p \in mine : p.call = k
                                    THEN IF r.ok THEN "ok" ELSE "failed" ELSE status[k]]
      /\ answer' = [k \in Calls |-> IF \E p \in mine : p.call = k THEN r.call ELSE answer[k]]
  BY DEF HubHears, Unregister
<1>2. \A p \in mine : p.call = r.call
  BY DEF RpcInv, IdsMeanCalls
<1>3. TypeOK' /\ OneSocket' /\ IdsBelow'
  BY <1>1 DEF RpcInv, OneSocket, IdsBelow, HubHears, agentVars, hubVars
<1>4. IdsMeanCalls'
  BY <1>1 DEF RpcInv, IdsMeanCalls, HubHears
<1>5. OneEntry'
  <2>1. \A k \in Calls : status'[k] = "waiting" <=> status[k] = "waiting" /\ ~\E p \in mine : p.call = k
    BY <1>1 DEF RpcInv
  <2>2. \A k \in Calls : (\E p \in pending' : p.call = k)
                         <=> (\E p \in pending : p.call = k) /\ ~\E p \in mine : p.call = k
    BY <1>1 DEF RpcInv, OneEntry
  <2>3. \A k \in Calls : status'[k] = "waiting" <=> \E p \in pending' : p.call = k
    BY <2>1, <2>2 DEF RpcInv, OneEntry
  <2>4. \A k \in Calls : status'[k] = "idle" => status[k] = "idle"
    BY <1>1 DEF RpcInv
  <2>5. \A f \in InFlight' : f \in InFlight /\ f.call \in Calls
    BY <1>1 DEF HubHears, RpcInv
  <2>6. started' = started
    BY DEF HubHears
  <2> QED BY <1>1, <2>3, <2>4, <2>5, <2>6 DEF RpcInv, OneEntry
<1>6. OneExecution'
  BY <1>1 DEF RpcInv, OneExecution, HubHears
<1>7. AnswersMatch'
  BY <1>1, <1>2 DEF RpcInv, AnswersMatch
<1> QED BY <1>3, <1>4, <1>5, <1>6, <1>7 DEF RpcInv

LEMMA TimeoutInv == ASSUME RpcInv, NEW p \in pending, Timeout(p) PROVE RpcInv'
<1>1. pending' = pending \ {p} /\ status' = [status EXCEPT ![p.call] = "failed"] /\ p.call \in Calls
  BY DEF Timeout, Unregister, RpcInv
<1>2. TypeOK' /\ OneSocket' /\ IdsBelow' /\ IdsMeanCalls'
  BY <1>1 DEF RpcInv, OneSocket, IdsBelow, IdsMeanCalls, Timeout, agentVars, hubVars, netVars
<1>3. OneEntry'
  <2>1. \A k \in Calls : (\E q \in pending' : q.call = k)
                         <=> (\E q \in pending : q.call = k) /\ k # p.call
    BY <1>1 DEF RpcInv, OneEntry
  <2>2. \A k \in Calls : status'[k] = "waiting" <=> status[k] = "waiting" /\ k # p.call
    BY <1>1 DEF RpcInv
  <2>3. \A k \in Calls : status'[k] = "idle" => status[k] = "idle"
    BY <1>1 DEF RpcInv
  <2>4. \A f \in InFlight : f.call \in Calls /\ status'[f.call] # "idle"
    BY <1>1 DEF RpcInv, OneEntry
  <2>5. UNCHANGED <<netVars, started>>
    BY DEF Timeout
  <2> QED BY <1>1, <2>1, <2>2, <2>3, <2>4, <2>5 DEF RpcInv, OneEntry, netVars
<1>4. OneExecution' /\ AnswersMatch'
  BY <1>1 DEF RpcInv, OneExecution, AnswersMatch, Timeout, netVars
<1> QED BY <1>2, <1>3, <1>4 DEF RpcInv

LEMMA HubClosesInv == ASSUME RpcInv, NEW c \in Conns, HubCloses(c) PROVE RpcInv'
<1> DEFINE lost == {p \in pending : p.conn = c}
<1>1. /\ pending' = pending \ lost
      /\ status' = [k \in Calls |-> IF \E p \in lost : p.call = k THEN "failed" ELSE status[k]]
  BY DEF HubCloses, ClosePeer, Unregister
<1>2. TypeOK' /\ OneSocket' /\ IdsBelow' /\ IdsMeanCalls'
  BY <1>1 DEF RpcInv, OneSocket, IdsBelow, IdsMeanCalls, HubCloses, agentVars, hubVars, netVars
<1>3. OneEntry'
  <2>1. \A k \in Calls : status'[k] = "waiting" <=> status[k] = "waiting" /\ ~\E p \in lost : p.call = k
    BY <1>1 DEF RpcInv
  <2>2. \A k \in Calls : (\E p \in pending' : p.call = k)
                         <=> (\E p \in pending : p.call = k) /\ ~\E p \in lost : p.call = k
    BY <1>1 DEF RpcInv, OneEntry
  <2>3. \A k \in Calls : status'[k] = "waiting" <=> \E p \in pending' : p.call = k
    BY <2>1, <2>2 DEF RpcInv, OneEntry
  <2>4. \A k \in Calls : status'[k] = "idle" => status[k] = "idle"
    BY <1>1 DEF RpcInv
  <2>5. UNCHANGED <<netVars, started>>
    BY DEF HubCloses
  <2> QED BY <1>1, <2>3, <2>4, <2>5 DEF RpcInv, OneEntry, netVars
<1>4. OneExecution' /\ AnswersMatch'
  BY <1>1 DEF RpcInv, OneExecution, AnswersMatch, HubCloses, netVars
<1> QED BY <1>2, <1>3, <1>4 DEF RpcInv

\* Nothing changes in a stuttering step.
LEMMA StutterInv == ASSUME RpcInv, UNCHANGED vars PROVE RpcInv'
BY DEF RpcInv, OneSocket, IdsBelow, IdsMeanCalls, OneEntry, OneExecution, AnswersMatch,
   vars, agentVars, hubVars, netVars, callVars

\* The invariant holds in every reachable state.
THEOREM RpcInvariance == Spec => []RpcInv
<1>1. RpcInv /\ [Next]_vars => RpcInv'
  BY ConnectedInv, AgentSocketInv, ReconnectInv, AgentHearsInv, AgentAnswersInv, ForwardInv,
     HubHearsInv, TimeoutInv, HubClosesInv, StutterInv DEF Next
<1> QED BY InitInv, <1>1, PTL DEF Spec

\* Every variable keeps its type.
THEOREM RpcTypes == Spec => []TypeOK
<1>1. RpcInv => TypeOK
  BY DEF RpcInv
<1> QED BY RpcInvariance, <1>1, PTL

\* An answer reaches the call it was computed for (onWire, dispatch).
THEOREM AnswersSafe == Spec => []AnswersMatch
<1>1. RpcInv => AnswersMatch
  BY DEF RpcInv
<1> QED BY RpcInvariance, <1>1, PTL

\* No promise is lost, none waits twice (request, close, dispatch).
THEOREM NoneForgotten == Spec => []NothingForgotten
<1>1. RpcInv => NothingForgotten
  BY DEF RpcInv, OneEntry, NothingForgotten
<1> QED BY RpcInvariance, <1>1, PTL

-----------------------------------------------------------------------------
(* Refinement: every step of the hub and the agent is a step of RpcCalls *)

USE DEF Promise!callVars, Promise!CallsNext, Promise!Ask, Promise!Execute, Promise!Resolve,
        Promise!Reject

LEMMA InitRefines == Init => Promise!CallsInit
BY DEF Init, Promise!CallsInit

LEMMA StepRefines == ASSUME RpcInv, [Next]_vars PROVE [Promise!CallsNext]_(Promise!callVars)
<1>1. ASSUME NEW c \in Conns, Connected(c) \/ AgentSocketClosed(c) PROVE UNCHANGED Promise!callVars
  BY <1>1 DEF Connected, AgentSocketClosed, callVars
<1>2. ASSUME ReconnectTimer PROVE UNCHANGED Promise!callVars
  BY <1>2 DEF ReconnectTimer, callVars
<1>3. ASSUME NEW f \in running, NEW ok \in BOOLEAN, AgentAnswers(f, ok) PROVE UNCHANGED Promise!callVars
  BY <1>3 DEF AgentAnswers, callVars
<1>4. ASSUME NEW f \in requests, AgentHears(f)
      PROVE UNCHANGED Promise!callVars \/ (Promise!Execute(f.call) /\ f.call \in Calls)
  BY <1>4 DEF AgentHears, RpcInv, OneExecution, OneEntry
<1>5. ASSUME NEW k \in Calls, Forward(k) PROVE Promise!Ask(k)
  BY <1>5 DEF Forward, SendRequest
<1>6. ASSUME NEW r \in responses, HubHears(r)
      PROVE [Promise!CallsNext]_(Promise!callVars)
  <2> DEFINE mine == {p \in pending : p.conn = r.conn /\ p.id = r.id}
  <2>1. /\ status' = [k \in Calls |-> IF \E p \in mine : p.call = k
                                      THEN IF r.ok THEN "ok" ELSE "failed" ELSE status[k]]
        /\ started' = started /\ r.call \in Calls
    BY <1>6 DEF HubHears, RpcInv
  <2>2. CASE mine = {}
    <3>1. status' = status
      BY <2>1, <2>2 DEF RpcInv
    <3> QED BY <3>1, <2>1
  <2>3. CASE mine # {}
    <3>1. \A k \in Calls : (\E p \in mine : p.call = k) <=> k = r.call
      BY <2>3 DEF RpcInv, IdsMeanCalls
    <3>2. status[r.call] = "waiting" /\ started[r.call]
      BY <2>3, <2>1, <3>1 DEF RpcInv, OneEntry, OneExecution
    <3>3. CASE r.ok
      <4>1. status' = [status EXCEPT ![r.call] = "ok"]
        BY <2>1, <3>1, <3>3 DEF RpcInv
      <4> QED BY <4>1, <3>2, <2>1
    <3>4. CASE ~r.ok
      <4>1. status' = [k \in Calls |-> IF k \in {r.call} THEN "failed" ELSE status[k]]
        BY <2>1, <3>1, <3>4 DEF RpcInv
      <4>2. Promise!Reject({r.call})
        BY <4>1, <3>2, <2>1
      <4>3. {r.call} \in SUBSET Calls
        BY <2>1
      <4>4. Promise!CallsNext
        <5> HIDE DEF Promise!Reject
        <5> QED BY <4>2, <4>3
      <4> QED BY <4>4
    <3> QED BY <3>3, <3>4
  <2> QED BY <2>2, <2>3
<1>7. ASSUME NEW p \in pending, Timeout(p) PROVE Promise!CallsNext
  <2>1. p.call \in Calls /\ status[p.call] = "waiting"
    BY DEF RpcInv, OneEntry
  <2>2. status' = [k \in Calls |-> IF k \in {p.call} THEN "failed" ELSE status[k]] /\ started' = started
    BY <1>7 DEF Timeout, RpcInv
  <2>3. Promise!Reject({p.call})
    BY <2>1, <2>2
  <2> QED BY <2>1, <2>3
<1>8. ASSUME NEW c \in Conns, HubCloses(c) PROVE Promise!CallsNext
  <2> DEFINE K == {k \in Calls : \E p \in pending : p.conn = c /\ p.call = k}
  <2>1. \A k \in K : status[k] = "waiting"
    BY DEF RpcInv, OneEntry
  <2>2. status' = [k \in Calls |-> IF k \in K THEN "failed" ELSE status[k]] /\ started' = started
    BY <1>8 DEF HubCloses, ClosePeer
  <2>3. Promise!Reject(K) /\ K \in SUBSET Calls
    BY <2>1, <2>2
  <2> QED BY <2>3
<1>9. ASSUME UNCHANGED vars PROVE UNCHANGED Promise!callVars
  BY <1>9 DEF vars, callVars
<1>10. ASSUME Next PROVE [Promise!CallsNext]_(Promise!callVars)
  BY <1>10, <1>1, <1>2, <1>3, <1>4, <1>5, <1>6, <1>7, <1>8 DEF Next
<1> QED BY <1>9, <1>10

\* The hub's peers keep the promises of RpcCalls over any number of reconnects.
THEOREM RpcImplementsCalls == Spec => ImplementsCalls
<1>1. RpcInv /\ [Next]_vars => [Promise!CallsNext]_(Promise!callVars)
  BY StepRefines
<1> QED BY InitRefines, RpcInvariance, <1>1, PTL DEF Spec, ImplementsCalls, Promise!CallsSpec

=============================================================================
