--------------------------- MODULE NodeLinkProofs ---------------------------
(***************************************************************************)
(* The table of NodeLink for any nodes, connections and clocks: its types, *)
(* the connections it holds, and that it implements Directory.             *)
(*                                                                         *)
(* RouteLive needs that only known nodes get past the challenge, and       *)
(* NewestRouted that the history is about connections of the right node:   *)
(* both are in LinkInv.                                                    *)
(***************************************************************************)
EXTENDS NodeLink, TLAPS

\* Every connection past the hello belongs to a node that does not enroll,
\* every live one to a known node.
LiveKnown == \A c \in Conns :
  /\ server[c] \in {"challenged", "live"} => Owner[c] \notin Enrolling
  /\ server[c] = "live" => Owner[c] \in Known

LatestOwned == \A n \in Nodes : latest[n] # NoConn => Owner[latest[n]] = n

LinkInv == TypeOK /\ RouteLive /\ NewestRouted /\ LiveKnown /\ LatestOwned

USE LinkAssumption

LEMMA TailInSeq == ASSUME NEW S, NEW s \in Seq(S), s # <<>> PROVE Tail(s) \in Seq(S) /\ Head(s) \in S
  OBVIOUS

LEMMA AppendInSeq == ASSUME NEW S, NEW s \in Seq(S), NEW x \in S PROVE Append(s, x) \in Seq(S)
  OBVIOUS

LEMMA PlainTyped ==
  ASSUME NEW k \in {"hello", "auth", "register", "release"} PROVE Plain(k) \in UpFrame
  BY DEF Plain, UpFrame, Layers

LEMMA InitInv == Init => LinkInv
<1> SUFFICES ASSUME Init PROVE LinkInv
  OBVIOUS
<1>1. TypeOK
  BY DEF Init, TypeOK, Row, UpFrame, DownFrame
<1>2. RouteLive /\ NewestRouted /\ LiveKnown /\ LatestOwned
  BY DEF Init, RouteLive, NewestRouted, LiveKnown, LatestOwned
<1> QED BY <1>1, <1>2 DEF LinkInv

\* What keeps the table, the history and the hub's ends keeps their invariant.
LEMMA TableKept ==
  ASSUME LinkInv, TypeOK', UNCHANGED <<server, route, latest>> PROVE LinkInv'
  BY DEF LinkInv, RouteLive, NewestRouted, LiveKnown, LatestOwned

\* A connection that neither was live nor becomes live.
LEMMA ServerMoves ==
  ASSUME LinkInv, TypeOK', NEW c \in Conns, NEW s, server[c] # "live", s # "live",
         s = "challenged" => Owner[c] \notin Enrolling,
         server' = [server EXCEPT ![c] = s], UNCHANGED <<route, latest>>
  PROVE  LinkInv'
<1>1. RouteLive'
  BY DEF LinkInv, TypeOK, RouteLive
<1>2. NewestRouted' /\ LiveKnown' /\ LatestOwned'
  BY DEF LinkInv, TypeOK, NewestRouted, LiveKnown, LatestOwned
<1> QED BY <1>1, <1>2 DEF LinkInv

\* Closing a connection takes only its own binding away.
LEMMA CloseKeeps ==
  ASSUME LinkInv, TypeOK', NEW c \in Conns, CloseConnection(c), UNCHANGED latest PROVE LinkInv'
<1>1. RouteLive'
  BY DEF LinkInv, TypeOK, RouteLive, CloseConnection, Unbind
<1>2. NewestRouted'
  BY DEF LinkInv, TypeOK, RouteLive, NewestRouted, LatestOwned, CloseConnection, Unbind
<1>3. LiveKnown' /\ LatestOwned'
  BY DEF LinkInv, TypeOK, LiveKnown, LatestOwned, CloseConnection
<1> QED BY <1>1, <1>2, <1>3 DEF LinkInv

-----------------------------------------------------------------------------
(* The steps *)

LEMMA TakeTyped ==
  ASSUME TypeOK, NEW c \in Conns, NEW kinds, Take(c, kinds)
  PROVE  up' \in [Conns -> Seq(UpFrame)] /\ Head(up[c]) \in UpFrame
  BY TailInSeq DEF TypeOK, Take

LEMMA SendTyped ==
  ASSUME TypeOK, NEW c \in Conns, NEW m \in DownFrame, Send(c, m)
  PROVE  down' \in [Conns -> Seq(DownFrame)]
  BY AppendInSeq DEF TypeOK, Send

LEMMA CloseTyped ==
  ASSUME TypeOK, NEW c \in Conns, CloseConnection(c)
  PROVE  /\ server' \in [Conns -> {"none", "greeting", "challenged", "live", "enroll", "refused", "ended"}]
         /\ route' \in [Nodes -> Conns \cup {NoConn}]
  BY DEF TypeOK, CloseConnection, Unbind

LEMMA DialInv == ASSUME LinkInv, NEW c \in Conns, Dial(c) PROVE LinkInv'
<1>1. TypeOK'
  BY PlainTyped DEF LinkInv, TypeOK, Dial, CloseSockets
<1> QED BY <1>1, ServerMoves, "greeting" # "live" DEF Dial

LEMMA ClientInv == ASSUME LinkInv, NEW c \in Conns, ClientHears(c) PROVE LinkInv'
<1>1. client' \in [Conns -> {"off", "hello", "ready", "failed", "gone"}]
  BY DEF LinkInv, TypeOK, ClientHears
<1>2. down' \in [Conns -> Seq(DownFrame)]
  BY TailInSeq DEF LinkInv, TypeOK, ClientHears
<1>3. up' \in [Conns -> Seq(UpFrame)]
  BY AppendInSeq, PlainTyped DEF LinkInv, TypeOK, ClientHears
<1>4. TypeOK'
  BY <1>1, <1>2, <1>3 DEF LinkInv, TypeOK, ClientHears
<1> QED BY <1>4, TableKept DEF ClientHears

LEMMA SaidInv == ASSUME LinkInv, NEW c \in Conns, Said(c) PROVE LinkInv'
<1>1. ASSUME NEW f \in UpFrame, NodeSays(c, f) PROVE LinkInv'
  <2>1. TypeOK'
    BY <1>1, AppendInSeq DEF LinkInv, TypeOK, NodeSays
  <2> QED BY <1>1, <2>1, TableKept DEF NodeSays
<1>2. \A layer \in Layers : Beat(now + Skew[Owner[c]], layer) \in UpFrame
  BY DEF LinkInv, TypeOK, Beat, UpFrame
<1> QED BY <1>1, <1>2, PlainTyped DEF Said

LEMMA DiesInv == ASSUME LinkInv, NEW c \in Conns, SocketDies(c) PROVE LinkInv'
<1>1. TypeOK'
  BY DEF LinkInv, TypeOK, SocketDies
<1> QED BY <1>1, TableKept DEF SocketDies

LEMMA FailInv ==
  ASSUME LinkInv, NEW c \in Conns, NEW kinds, Take(c, kinds), Fail(c) PROVE LinkInv'
<1>1. TypeOK'
  BY TakeTyped, SendTyped, CloseTyped DEF LinkInv, TypeOK, Fail, DownFrame
<1> QED BY <1>1, CloseKeeps DEF Fail

LEMMA HelloInv == ASSUME LinkInv, NEW c \in Conns, HearHello(c) PROVE LinkInv'
<1>1. CASE Fail(c)
  BY <1>1, FailInv DEF HearHello
<1>2. ASSUME NEW s \in {"enroll", "challenged"}, NEW m \in DownFrame,
             server' = [server EXCEPT ![c] = s], Send(c, m), s = "challenged" => Owner[c] \notin Enrolling,
             UNCHANGED <<client, route, row, now, latest, beat>>
      PROVE  LinkInv'
  <2>1. TypeOK'
    BY <1>2, TakeTyped, SendTyped DEF LinkInv, TypeOK, HearHello
  <2> QED BY <1>2, <2>1, ServerMoves DEF HearHello
<1> QED BY <1>1, <1>2 DEF HearHello, DownFrame

LEMMA AuthInv == ASSUME LinkInv, NEW c \in Conns, HearAuth(c) PROVE LinkInv'
<1>1. CASE Fail(c)
  BY <1>1, FailInv DEF HearAuth
<1>2. CASE ~Fail(c)
  <2>1. /\ Owner[c] \in Known /\ Owner[c] \notin Enrolling /\ server[c] = "challenged"
        /\ server' = [server EXCEPT ![c] = "live"] /\ Send(c, "welcome")
        /\ route' = [route EXCEPT ![Owner[c]] = c] /\ latest' = [latest EXCEPT ![Owner[c]] = c]
        /\ UNCHANGED <<client, row, now, beat>>
    BY <1>2 DEF HearAuth, Bind, Accepts, LinkInv, LiveKnown
  <2>2. TypeOK'
    BY <2>1, TakeTyped, SendTyped DEF LinkInv, TypeOK, HearAuth, DownFrame
  <2>3. RouteLive'
    BY <2>1 DEF LinkInv, TypeOK, RouteLive
  <2>4. NewestRouted'
    BY <2>1 DEF LinkInv, TypeOK, NewestRouted, LatestOwned
  <2>5. LiveKnown' /\ LatestOwned'
    BY <2>1 DEF LinkInv, TypeOK, LiveKnown, LatestOwned
  <2> QED BY <2>2, <2>3, <2>4, <2>5 DEF LinkInv
<1> QED BY <1>1, <1>2

LEMMA RowTyped == ASSUME TypeOK, NEW r \in Row, NEW f \in UpFrame
  PROVE Registered(r) \in Row /\ HeartbeatRow(r, f) \in Row /\ Offline(r) \in Row
  BY DEF TypeOK, Row, UpFrame, Layers, Registered, HeartbeatRow, Offline

LEMMA ReportInv ==
  ASSUME LinkInv, NEW c \in Conns, HearRegister(c) \/ HearHeartbeat(c) PROVE LinkInv'
<1>1. up' \in [Conns -> Seq(UpFrame)] /\ Head(up[c]) \in UpFrame
  BY TakeTyped DEF HearRegister, HearHeartbeat, LinkInv
<1>2. Owner[c] \in Nodes /\ row[Owner[c]] \in Row
  BY DEF LinkInv, TypeOK
<1>3. row' \in [Nodes -> Row]
  <2>1. CASE HearRegister(c)
    <3>1. Registered(row[Owner[c]]) \in Row
      BY <1>1, <1>2, RowTyped DEF LinkInv
    <3> QED BY <2>1, <3>1, <1>2 DEF LinkInv, TypeOK, HearRegister
  <2>2. CASE HearHeartbeat(c)
    <3>1. HeartbeatRow(row[Owner[c]], Head(up[c])) \in Row
      BY <1>1, <1>2, RowTyped DEF LinkInv
    <3> QED BY <2>2, <3>1, <1>2 DEF LinkInv, TypeOK, HearHeartbeat
  <2> QED BY <2>1, <2>2
<1>4. TypeOK'
  BY <1>1, <1>3 DEF LinkInv, TypeOK, HearRegister, HearHeartbeat
<1> QED BY <1>4, TableKept DEF HearRegister, HearHeartbeat

LEMMA ReleaseInv == ASSUME LinkInv, NEW c \in Conns, HearRelease(c) PROVE LinkInv'
<1> DEFINE n == Owner[c]
<1>1. n \in Nodes /\ row[n] \in Row
  BY DEF LinkInv, TypeOK
<1>2. up' \in [Conns -> Seq(UpFrame)] /\ Head(up[c]) \in UpFrame
  BY TakeTyped DEF HearRelease, LinkInv
<1>3. row' \in [Nodes -> Row]
  <2>1. Offline(row[n]) \in Row
    BY <1>1, <1>2, RowTyped DEF LinkInv
  <2> QED BY <1>1, <2>1 DEF LinkInv, TypeOK, HearRelease
<1>4. TypeOK'
  BY <1>1, <1>2, <1>3 DEF LinkInv, TypeOK, HearRelease
<1>5. RouteLive' /\ NewestRouted' /\ LiveKnown' /\ LatestOwned'
  BY <1>1 DEF LinkInv, TypeOK, RouteLive, NewestRouted, LiveKnown, LatestOwned, HearRelease
<1> QED BY <1>4, <1>5 DEF LinkInv

LEMMA IgnoreInv == ASSUME LinkInv, NEW c \in Conns, Ignore(c) PROVE LinkInv'
<1>1. TypeOK'
  BY TailInSeq DEF LinkInv, TypeOK, Ignore
<1> QED BY <1>1, TableKept DEF Ignore

LEMMA ClosedInv == ASSUME LinkInv, NEW c \in Conns, SocketClosed(c) PROVE LinkInv'
<1>1. TypeOK'
  BY CloseTyped DEF LinkInv, TypeOK, SocketClosed
<1> QED BY <1>1, CloseKeeps DEF SocketClosed

LEMMA TickInv == ASSUME LinkInv, Tick PROVE LinkInv'
<1>1. TypeOK'
  BY DEF LinkInv, TypeOK, Tick, socketVars
<1> QED BY <1>1, TableKept DEF Tick, socketVars

LEMMA StepInv == LinkInv /\ [Next]_vars => LinkInv'
<1> SUFFICES ASSUME LinkInv, [Next]_vars PROVE LinkInv'
  OBVIOUS
<1>1. CASE UNCHANGED vars
  <2>1. TypeOK'
    BY <1>1 DEF LinkInv, TypeOK, vars, socketVars
  <2> QED BY <1>1, <2>1, TableKept DEF vars, socketVars
<1>2. ASSUME NEW c \in Conns, Dial(c) \/ ClientHears(c) \/ Said(c) \/ SocketDies(c) \/ SocketClosed(c)
      PROVE  LinkInv'
  BY <1>2, DialInv, ClientInv, SaidInv, DiesInv, ClosedInv
<1>3. ASSUME NEW c \in Conns, HubHears(c) PROVE LinkInv'
  BY <1>3, HelloInv, AuthInv, ReportInv, ReleaseInv, IgnoreInv DEF HubHears
<1> QED BY <1>1, <1>2, <1>3, TickInv DEF Next

\* The table and its history, in every reachable state (connection.ts,
\* control-plane.ts).
THEOREM LinkInvariance == Spec => []LinkInv
<1>1. Init => LinkInv
  BY InitInv
<1>2. LinkInv /\ [Next]_vars => LinkInv'
  BY StepInv
<1> QED BY <1>1, <1>2, PTL DEF Spec

\* Types of sockets, frames, rows and the table.
THEOREM LinkTypes == Spec => []TypeOK
<1>1. LinkInv => TypeOK
  BY DEF LinkInv
<1> QED BY <1>1, LinkInvariance, PTL

\* forward() finds only open connections of the right, known node.
THEOREM RoutesLive == Spec => []RouteLive
<1>1. LinkInv => RouteLive
  BY DEF LinkInv
<1> QED BY <1>1, LinkInvariance, PTL

\* The late close of an old socket never takes the newest connection away.
THEOREM NewestStays == Spec => []NewestRouted
<1>1. LinkInv => NewestRouted
  BY DEF LinkInv
<1> QED BY <1>1, LinkInvariance, PTL

-----------------------------------------------------------------------------
(* Refinement *)

spentNow == {d \in Conns : server[d] \in {"live", "ended"}}

LEMMA ClosePromise ==
  ASSUME TypeOK, NEW c \in Conns, CloseConnection(c), server[c] \notin {"refused", "ended"}
  PROVE  [Table!Next]_<<route, spentNow>>
<1>1. spentNow' = spentNow
  BY DEF TypeOK, CloseConnection, spentNow
<1>2. route' = route \/ route' = [route EXCEPT ![Owner[c]] = NoConn]
  BY DEF CloseConnection, Unbind
<1>3. Owner[c] \in Nodes
  OBVIOUS
<1> QED BY <1>1, <1>2, <1>3 DEF Table!Next, Table!Unbind, spentNow

LEMMA QuietPromise ==
  ASSUME TypeOK, route' = route,
         \A d \in Conns : server'[d] = server[d] \/ {server[d], server'[d]} \cap {"live", "ended"} = {}
  PROVE  [Table!Next]_<<route, spentNow>>
<1>1. spentNow' = spentNow
  BY DEF spentNow
<1> QED BY <1>1

LEMMA AuthPromise ==
  ASSUME TypeOK, NEW c \in Conns, HearAuth(c) PROVE [Table!Next]_<<route, spentNow>>
<1>1. CASE Fail(c)
  BY <1>1, ClosePromise DEF HearAuth, Fail
<1>2. CASE ~Fail(c)
  <2>1. /\ server[c] = "challenged" /\ server' = [server EXCEPT ![c] = "live"]
        /\ route' = [route EXCEPT ![Owner[c]] = c]
    BY <1>2 DEF HearAuth, Bind
  <2>2. spentNow' = spentNow \cup {c} /\ c \notin spentNow
    BY <2>1 DEF TypeOK, spentNow
  <2>3. Owner[c] \in Nodes
    OBVIOUS
  <2> QED BY <2>1, <2>2, <2>3 DEF Table!Next, Table!Bind, spentNow
<1> QED BY <1>1, <1>2

LEMMA StepPromise == LinkInv /\ [Next]_vars => [Table!Next]_<<route, spentNow>>
<1> SUFFICES ASSUME LinkInv, [Next]_vars PROVE [Table!Next]_<<route, spentNow>>
  OBVIOUS
<1> USE DEF LinkInv
<1>1. CASE UNCHANGED vars
  BY <1>1, QuietPromise DEF vars, socketVars
<1>2. ASSUME NEW c \in Conns, Dial(c) PROVE [Table!Next]_<<route, spentNow>>
  BY <1>2, QuietPromise DEF Dial, TypeOK
<1>3. ASSUME NEW c \in Conns, ClientHears(c) \/ Said(c) \/ SocketDies(c)
      PROVE  [Table!Next]_<<route, spentNow>>
  BY <1>3, QuietPromise DEF ClientHears, Said, NodeSays, SocketDies
<1>4. ASSUME NEW c \in Conns, SocketClosed(c) PROVE [Table!Next]_<<route, spentNow>>
  BY <1>4, ClosePromise DEF SocketClosed
<1>5. ASSUME NEW c \in Conns, HearHello(c) PROVE [Table!Next]_<<route, spentNow>>
  <2>1. CASE Fail(c)
    BY <1>5, <2>1, ClosePromise DEF HearHello, Fail
  <2>2. CASE ~Fail(c)
    BY <1>5, <2>2, QuietPromise DEF HearHello, TypeOK
  <2> QED BY <2>1, <2>2
<1>6. ASSUME NEW c \in Conns, HearRegister(c) \/ HearHeartbeat(c) \/ Ignore(c)
      PROVE  [Table!Next]_<<route, spentNow>>
  BY <1>6, QuietPromise DEF HearRegister, HearHeartbeat, Ignore
<1>7. ASSUME NEW c \in Conns, HearRelease(c) PROVE [Table!Next]_<<route, spentNow>>
  <2>1. route' = [route EXCEPT ![Owner[c]] = NoConn] /\ server' = server
    BY <1>7 DEF HearRelease
  <2>2. Owner[c] \in Nodes
    OBVIOUS
  <2> QED BY <2>1, <2>2 DEF Table!Next, Table!Unbind, spentNow
<1>8. CASE Tick
  BY <1>8, QuietPromise DEF Tick, socketVars
<1> QED BY <1>1, <1>2, <1>3, <1>4, <1>5, <1>6, <1>7, <1>8, AuthPromise DEF Next, HubHears

\* The connections table implements Directory (control-plane.ts connections):
\* each step of the hub binds a fresh connection, unbinds, or changes nothing.
THEOREM LinkImplementsDirectory == Spec => ImplementsDirectory
<1>1. Init => Table!Init
  BY DEF Init, Table!Init
<1>2. LinkInv /\ [Next]_vars
      => [Table!Next]_<<route, {c \in Conns : server[c] \in {"live", "ended"}}>>
  BY StepPromise DEF spentNow
<1> QED BY <1>1, <1>2, LinkInvariance, PTL DEF Spec, ImplementsDirectory, Table!DirectorySpec

-----------------------------------------------------------------------------
(* The outcome of the handshake *)

Welcomed(c) == server[c] \in {"live", "enroll", "ended"} \/ (server[c] = "refused" /\ Owner[c] \in Enrolling)

\* What a frame on its way to the node says is true of the hub's end.
FramesTrue == \A c \in Conns : \A i \in 1..Len(down[c]) :
  /\ down[c][i] = "welcome" => Welcomed(c)
  /\ down[c][i] = "error" => server[c] = "refused"

EnrollOnly == \A c \in Conns : server[c] = "enroll" => Owner[c] \in Enrolling

OutcomeInv == LinkInv /\ FramesTrue /\ EnrollOnly /\ OutcomesAgree

\* Steps in which the hub's ends only move on, and no end of the node changes.
LEMMA HubMoves ==
  ASSUME OutcomeInv, LinkInv', EnrollOnly', client' = client, NEW c \in Conns, NEW m,
         \A d \in Conns : (Welcomed(d) => Welcomed(d)') /\ (server[d] = "refused" => server'[d] = "refused"),
         down' = down \/ Send(c, m), m = "welcome" => Welcomed(c)',
         m = "error" => server'[c] = "refused"
  PROVE  OutcomeInv'
<1>1. OutcomesAgree'
  BY DEF OutcomeInv, OutcomesAgree, Welcomed
<1>2. FramesTrue'
  <2>1. CASE down' = down
    BY <2>1 DEF OutcomeInv, FramesTrue
  <2>2. CASE down' # down
    <3> SUFFICES ASSUME NEW d \in Conns, NEW i \in 1..Len(down'[d])
                 PROVE  /\ down'[d][i] = "welcome" => Welcomed(d)'
                        /\ down'[d][i] = "error" => server'[d] = "refused"
      BY DEF FramesTrue
    <3>0. down \in [Conns -> Seq(DownFrame)] /\ down' = [down EXCEPT ![c] = Append(down[c], m)]
      BY <2>2 DEF Send, OutcomeInv, LinkInv, TypeOK
    <3>1. CASE d # c
      <4>1. down'[d] = down[d]
        BY <3>0, <3>1
      <4> QED BY <4>1 DEF OutcomeInv, FramesTrue
    <3>2. CASE d = c
      <4>1. down'[c] = Append(down[c], m) /\ down[c] \in Seq(DownFrame)
        BY <3>0
      <4>2. (i \in 1..Len(down[c]) /\ down'[c][i] = down[c][i]) \/ down'[c][i] = m
        BY <3>2, <4>1
      <4> QED BY <3>2, <4>2 DEF OutcomeInv, FramesTrue
    <3> QED BY <3>1, <3>2
  <2> QED BY <2>1, <2>2
<1> QED BY <1>1, <1>2 DEF OutcomeInv

LEMMA CloseMoves ==
  ASSUME OutcomeInv, NEW c \in Conns, CloseConnection(c), server[c] \notin {"refused", "ended"}
  PROVE  /\ \A d \in Conns : Welcomed(d) => Welcomed(d)'
         /\ \A d \in Conns : server[d] = "refused" => server'[d] = "refused"
         /\ EnrollOnly'
         /\ server[c] # "live" => server'[c] = "refused"
  BY DEF OutcomeInv, LinkInv, TypeOK, CloseConnection, Welcomed, EnrollOnly

LEMMA FailOutcome ==
  ASSUME OutcomeInv, LinkInv', NEW c \in Conns, Fail(c), server[c] \in {"greeting", "challenged"}
  PROVE  OutcomeInv'
  BY HubMoves, CloseMoves, "error" # "welcome" DEF Fail

LEMMA ClientOutcome ==
  ASSUME OutcomeInv, LinkInv', NEW c \in Conns, ClientHears(c) PROVE OutcomeInv'
<1>1. server' = server /\ EnrollOnly'
  BY DEF ClientHears, OutcomeInv, EnrollOnly
<1>2. Head(down[c]) = down[c][1] /\ 1 \in 1..Len(down[c])
  BY DEF ClientHears, OutcomeInv, LinkInv, TypeOK
<1>3. OutcomesAgree'
  <2>1. /\ Head(down[c]) = "welcome" => Welcomed(c)
        /\ Head(down[c]) = "error" => server[c] = "refused"
    BY <1>2 DEF OutcomeInv, FramesTrue
  <2>2. \A d \in Conns : client'[d] = client[d] \/ (d = c /\ client'[d] = "ready" /\ Head(down[c]) = "welcome")
                         \/ (d = c /\ client'[d] = "failed" /\ Head(down[c]) = "error") \/ client'[d] = "hello"
    BY DEF ClientHears, OutcomeInv, LinkInv, TypeOK
  <2> QED BY <1>1, <2>1, <2>2 DEF OutcomeInv, OutcomesAgree, Welcomed
<1>4. FramesTrue'
  <2> SUFFICES ASSUME NEW d \in Conns, NEW i \in 1..Len(down'[d])
               PROVE  /\ down'[d][i] = "welcome" => Welcomed(d)
                      /\ down'[d][i] = "error" => server[d] = "refused"
    BY <1>1 DEF FramesTrue, Welcomed
  <2>1. \E j \in 1..Len(down[d]) : down'[d][i] = down[d][j]
    <3>1. CASE d = c
      <4>1. down'[d] = Tail(down[d]) /\ down[d] \in Seq(DownFrame) /\ down[d] # <<>>
        BY <3>1 DEF ClientHears, OutcomeInv, LinkInv, TypeOK
      <4>2. i + 1 \in 1..Len(down[d]) /\ Tail(down[d])[i] = down[d][i + 1]
        BY <4>1
      <4> QED BY <4>1, <4>2
    <3>2. CASE d # c
      BY <3>2 DEF ClientHears, OutcomeInv, LinkInv, TypeOK
    <3> QED BY <3>1, <3>2
  <2> QED BY <2>1 DEF OutcomeInv, FramesTrue
<1> QED BY <1>1, <1>3, <1>4 DEF OutcomeInv

LEMMA DiesOutcome ==
  ASSUME OutcomeInv, LinkInv', NEW c \in Conns, SocketDies(c) PROVE OutcomeInv'
<1>1. server' = server /\ EnrollOnly'
  BY DEF SocketDies, OutcomeInv, EnrollOnly
<1>2. OutcomesAgree'
  BY <1>1 DEF SocketDies, OutcomeInv, OutcomesAgree, LinkInv, TypeOK
<1>3. \A d \in Conns : down'[d] = down[d] \/ down'[d] = <<>>
  BY DEF SocketDies, OutcomeInv, LinkInv, TypeOK
<1>4. FramesTrue'
  BY <1>1, <1>3 DEF OutcomeInv, FramesTrue, Welcomed
<1> QED BY <1>1, <1>2, <1>4 DEF OutcomeInv

LEMMA DialOutcome ==
  ASSUME OutcomeInv, LinkInv', NEW c \in Conns, Dial(c) PROVE OutcomeInv'
<1>1. server[c] = "none" /\ server' = [server EXCEPT ![c] = "greeting"] /\ down' = down
  BY DEF Dial
<1>2. EnrollOnly' /\ \A d \in Conns : (Welcomed(d) <=> Welcomed(d)') /\ (server[d] = "refused" <=> server'[d] = "refused")
  BY <1>1 DEF OutcomeInv, LinkInv, TypeOK, EnrollOnly, Welcomed
<1>3. FramesTrue'
  BY <1>1, <1>2 DEF OutcomeInv, FramesTrue
<1>4. \A d \in Conns : client'[d] = client[d] \/ client'[d] \in {"gone", "hello"}
  BY DEF Dial, CloseSockets, OutcomeInv, LinkInv, TypeOK
<1>5. OutcomesAgree'
  BY <1>1, <1>2, <1>4 DEF OutcomeInv, OutcomesAgree, LinkInv, TypeOK
<1> QED BY <1>2, <1>3, <1>5 DEF OutcomeInv

LEMMA QuietOutcome ==
  ASSUME OutcomeInv, LinkInv', UNCHANGED <<client, server, down>> PROVE OutcomeInv'
  BY DEF OutcomeInv, OutcomesAgree, FramesTrue, EnrollOnly, Welcomed

LEMMA HelloOutcome ==
  ASSUME OutcomeInv, LinkInv', NEW c \in Conns, HearHello(c) PROVE OutcomeInv'
<1>1. CASE Fail(c)
  BY <1>1, FailOutcome DEF HearHello
<1>2. CASE ~Fail(c)
  <2>1. server[c] = "greeting" /\ client' = client
    BY <1>2 DEF HearHello
  <2>2. \/ Owner[c] \in Enrolling /\ server' = [server EXCEPT ![c] = "enroll"] /\ Send(c, "welcome")
        \/ server' = [server EXCEPT ![c] = "challenged"] /\ Send(c, "challenge")
    BY <1>2 DEF HearHello
  <2>3. EnrollOnly' /\ \A d \in Conns : (Welcomed(d) => Welcomed(d)')
                                        /\ (server[d] = "refused" => server'[d] = "refused")
    BY <2>1, <2>2 DEF OutcomeInv, LinkInv, TypeOK, EnrollOnly, Welcomed
  <2>4. CASE Owner[c] \in Enrolling /\ server' = [server EXCEPT ![c] = "enroll"] /\ Send(c, "welcome")
    <3>1. Welcomed(c)'
      BY <2>4 DEF OutcomeInv, LinkInv, TypeOK, Welcomed
    <3> QED BY <2>1, <2>3, <2>4, <3>1, HubMoves, "error" # "welcome"
  <2>5. CASE Send(c, "challenge")
    BY <2>1, <2>3, <2>5, HubMoves, "challenge" # "welcome", "challenge" # "error"
  <2> QED BY <2>2, <2>4, <2>5
<1> QED BY <1>1, <1>2

LEMMA AuthOutcome ==
  ASSUME OutcomeInv, LinkInv', NEW c \in Conns, HearAuth(c) PROVE OutcomeInv'
<1>1. CASE Fail(c)
  BY <1>1, FailOutcome DEF HearAuth
<1>2. CASE ~Fail(c)
  <2>1. server[c] = "challenged" /\ server' = [server EXCEPT ![c] = "live"] /\ Send(c, "welcome") /\ client' = client
    BY <1>2 DEF HearAuth
  <2>2. EnrollOnly' /\ Welcomed(c)' /\ \A d \in Conns : (Welcomed(d) => Welcomed(d)')
                                        /\ (server[d] = "refused" => server'[d] = "refused")
    BY <2>1 DEF OutcomeInv, LinkInv, TypeOK, EnrollOnly, Welcomed
  <2> QED BY <2>1, <2>2, HubMoves, "error" # "welcome"
<1> QED BY <1>1, <1>2

LEMMA ClosedOutcome ==
  ASSUME OutcomeInv, LinkInv', NEW c \in Conns, SocketClosed(c) PROVE OutcomeInv'
<1>1. server[c] \notin {"refused", "ended"} /\ CloseConnection(c) /\ client' = client /\ down' = down
  BY DEF SocketClosed
<1> QED BY <1>1, CloseMoves, HubMoves

\* Node and hub never disagree on whether the handshake succeeded
\* (handshake.ts).
THEOREM OutcomesSafe == Spec => []OutcomesAgree
<1>1. Init => OutcomeInv
  BY InitInv DEF Init, OutcomeInv, OutcomesAgree, FramesTrue, EnrollOnly
<1>2. OutcomeInv /\ [Next]_vars => OutcomeInv'
  <2> SUFFICES ASSUME OutcomeInv, [Next]_vars PROVE OutcomeInv'
    OBVIOUS
  <2>1. LinkInv'
    BY StepInv DEF OutcomeInv
  <2>2. CASE UNCHANGED vars
    BY <2>1, <2>2, QuietOutcome DEF vars, socketVars
  <2>3. ASSUME NEW c \in Conns, Said(c) \/ HearRegister(c) \/ HearHeartbeat(c) \/ HearRelease(c) \/ Ignore(c)
        PROVE  OutcomeInv'
    BY <2>1, <2>3, QuietOutcome DEF Said, NodeSays, HearRegister, HearHeartbeat, HearRelease, Ignore
  <2>4. ASSUME NEW c \in Conns, Dial(c) \/ ClientHears(c) \/ SocketDies(c) \/ SocketClosed(c)
        PROVE  OutcomeInv'
    BY <2>1, <2>4, DialOutcome, ClientOutcome, DiesOutcome, ClosedOutcome
  <2>5. ASSUME NEW c \in Conns, HearHello(c) \/ HearAuth(c) PROVE OutcomeInv'
    BY <2>1, <2>5, HelloOutcome, AuthOutcome
  <2>6. CASE Tick
    BY <2>1, <2>6, QuietOutcome DEF Tick, socketVars
  <2> QED BY <2>2, <2>3, <2>4, <2>5, <2>6 DEF Next, HubHears
<1>3. OutcomeInv => OutcomesAgree
  BY DEF OutcomeInv
<1> QED BY <1>1, <1>2, <1>3, PTL DEF Spec
=============================================================================
