-------------------------- MODULE RegistrySyncProofs --------------------------
(***************************************************************************)
(* Why a lost diff is made up for: at any time, what a control plane sent   *)
(* last is known to its peer, or under way on a pipe the peer hears, or a   *)
(* pipe is to be dialed or a sync to be answered.                           *)
(***************************************************************************)
EXTENDS RegistrySync, TLAPS

Row == [seen : Nat \ {0}, connected : BOOLEAN]
Frames == [kind : {"sync", "state", "beat"}, reg : Row \cup {None}]
Wires == [Hubs -> [Hubs -> Seq(Frames)]]

Typed ==
  /\ row \in [Hubs -> Nat] /\ (\A h \in Hubs : row[h] <= now) /\ conn \in [Hubs -> BOOLEAN] /\ now \in Nat
  /\ overlay \in [Hubs -> Row \cup {None}] /\ lastSent \in [Hubs -> Row \cup {None}]
  /\ out \in [Hubs -> {"down", "fresh", "up", "left"}]
  /\ wire \in Wires

\* Nothing said of a row is newer than the row.
NotAfter(e, n) == e = None \/ e.seen <= n
Covers(e, n) == e # None /\ e.seen >= n

Behind(s, n) == \A i \in 1 .. Len(s) : NotAfter(s[i].reg, n)

NotAhead ==
  \A h \in Hubs :
    /\ NotAfter(lastSent[h], row[h]) /\ NotAfter(overlay[Peer(h)], row[h])
    /\ \A p \in Hubs : Behind(wire[p][Peer(h)], row[h])

\* A sync is the first frame of its pipe, and its answer follows it.
Asks(s) == \E i \in 1 .. Len(s) : s[i].kind = "sync"
Answers(s) == \E i \in 1 .. Len(s) : s[i].kind = "state"
SyncFirst(s) == \A i \in 2 .. Len(s) : s[i].kind # "sync"

Pipes ==
  \A p \in Hubs :
    /\ out[p] = "down" => \A k \in Hubs : wire[p][k] = <<>>
    /\ ~(out[p] = "left" /\ out[Peer(p)] = "left")
    /\ ~Asks(wire[p][p]) /\ SyncFirst(wire[p][Peer(p)])
    /\ Asks(wire[p][Peer(p)]) => out[p] = "fresh" /\ ~Answers(wire[p][p])

Under(s, n) == \E i \in 1 .. Len(s) : Covers(s[i].reg, n)

\* What h sent last reaches its peer.
Pending(h) == out[h] = "down" \/ out[Peer(h)] = "down" \/ Asks(wire[Peer(h)][h])
Carried(h, n) ==
  \/ Covers(overlay[Peer(h)], n)
  \/ Under(wire[h][Peer(h)], n)
  \/ out[Peer(h)] # "left" /\ Under(wire[Peer(h)][Peer(h)], n)
MadeUp == \A h \in Hubs : lastSent[h] # None => Pending(h) \/ Carried(h, lastSent[h].seen)

IInv == Typed /\ NotAhead /\ Pipes /\ MadeUp

-----------------------------------------------------------------------------
(* Hubs, sequences, entries *)

\* There are two hubs, each the peer of the other.
LEMMA Two ==
  \A h \in Hubs : /\ Peer(h) \in Hubs /\ Peer(h) # h /\ Peer(Peer(h)) = h
                  /\ \A k \in Hubs : k = h \/ k = Peer(h)
<1>1. PICK a \in Hubs, b \in Hubs : a # b /\ Hubs = {a, b}
  BY RegistrySyncAssumption
<1>2. Peer(a) = b /\ Peer(b) = a
  BY <1>1 DEF Peer
<1> QED
  BY <1>1, <1>2

\* An entry is not None.
LEMMA NoneApart == None \notin Row
<1>1. ASSUME None \in Row PROVE None \in [seen : Nat, connected : BOOLEAN]
  BY <1>1 DEF Row
<1> QED
  BY <1>1, RegistrySyncAssumption

\* A frame more at the end of a pipe.
LEMMA Appended ==
  ASSUME NEW s \in Seq(Frames), NEW f \in Frames
  PROVE  /\ Append(s, f) \in Seq(Frames)
         /\ \A n : Under(s, n) \/ Covers(f.reg, n) => Under(Append(s, f), n)
         /\ \A n : Behind(s, n) /\ NotAfter(f.reg, n) => Behind(Append(s, f), n)
         /\ Asks(s) \/ f.kind = "sync" => Asks(Append(s, f))
         /\ Asks(Append(s, f)) => Asks(s) \/ f.kind = "sync"
         /\ Answers(Append(s, f)) => Answers(s) \/ f.kind = "state"
         /\ SyncFirst(s) /\ (s = <<>> \/ f.kind # "sync") => SyncFirst(Append(s, f))
<1> DEFINE t == Append(s, f)
<1>1. t \in Seq(Frames) /\ Len(t) = Len(s) + 1 /\ Len(s) \in Nat
  OBVIOUS
<1>2. \A i \in 1 .. Len(s) : t[i] = s[i]
  OBVIOUS
<1>3. t[Len(s) + 1] = f
  OBVIOUS
<1>4. s = <<>> => Len(s) = 0
  OBVIOUS
<1> HIDE DEF t
<1>5. \A i \in 1 .. Len(t) : i \in 1 .. Len(s) \/ i = Len(s) + 1
  BY <1>1
<1>6. 1 .. Len(s) \subseteq 1 .. Len(t) /\ Len(s) + 1 \in 1 .. Len(t)
  BY <1>1
<1>7. \A n : Under(s, n) \/ Covers(f.reg, n) => Under(t, n)
  BY <1>2, <1>3, <1>6 DEF Under
<1>8. \A n : Behind(s, n) /\ NotAfter(f.reg, n) => Behind(t, n)
  BY <1>2, <1>3, <1>5 DEF Behind
<1>9. Asks(s) \/ f.kind = "sync" => Asks(t)
  BY <1>2, <1>3, <1>6 DEF Asks
<1>10. Asks(t) => Asks(s) \/ f.kind = "sync"
  BY <1>2, <1>3, <1>5 DEF Asks
<1>11. Answers(t) => Answers(s) \/ f.kind = "state"
  BY <1>2, <1>3, <1>5 DEF Answers
<1>12. SyncFirst(s) /\ (s = <<>> \/ f.kind # "sync") => SyncFirst(t)
  BY <1>1, <1>2, <1>3, <1>4 DEF SyncFirst
<1> QED
  BY <1>1, <1>7, <1>8, <1>9, <1>10, <1>11, <1>12 DEF t

\* A frame less at its front.
LEMMA Popped ==
  ASSUME NEW s \in Seq(Frames), s # <<>>
  PROVE  /\ Head(s) \in Frames /\ Tail(s) \in Seq(Frames)
         /\ \A n : Under(s, n) => Covers(Head(s).reg, n) \/ Under(Tail(s), n)
         /\ \A n : Behind(s, n) => NotAfter(Head(s).reg, n) /\ Behind(Tail(s), n)
         /\ Asks(s) => Head(s).kind = "sync" \/ Asks(Tail(s))
         /\ Asks(Tail(s)) => Asks(s)
         /\ Answers(Tail(s)) => Answers(s)
         /\ SyncFirst(s) => ~Asks(Tail(s)) /\ SyncFirst(Tail(s))
         /\ Head(s).kind = "sync" => Asks(s)
         /\ Head(s).kind = "state" => Answers(s)
<1> DEFINE t == Tail(s)
<1>1. Head(s) = s[1] /\ Head(s) \in Frames /\ t \in Seq(Frames)
  OBVIOUS
<1>2. Len(s) \in Nat /\ Len(s) > 0 /\ Len(t) = Len(s) - 1
  OBVIOUS
<1>3. \A i \in 1 .. Len(t) : t[i] = s[i + 1]
  OBVIOUS
<1> HIDE DEF t
<1>4. \A i \in 1 .. Len(t) : i + 1 \in 2 .. Len(s) /\ i + 1 \in 1 .. Len(s)
  BY <1>2
<1>5. \A i \in 1 .. Len(s) : i = 1 \/ (i - 1 \in 1 .. Len(t) /\ s[i] = t[i - 1])
  BY <1>2, <1>3
<1>6. 1 \in 1 .. Len(s)
  BY <1>2
<1>7. \A n : Under(s, n) => Covers(Head(s).reg, n) \/ Under(t, n)
  BY <1>1, <1>5 DEF Under
<1>8. \A n : Behind(s, n) => NotAfter(Head(s).reg, n) /\ Behind(t, n)
  BY <1>1, <1>3, <1>4, <1>6 DEF Behind
<1>9. Asks(s) => Head(s).kind = "sync" \/ Asks(t)
  BY <1>1, <1>5 DEF Asks
<1>10. (Asks(t) => Asks(s)) /\ (Answers(t) => Answers(s))
  BY <1>3, <1>4 DEF Asks, Answers
<1>11. SyncFirst(s) => ~Asks(t)
  BY <1>3, <1>4 DEF SyncFirst, Asks
<1>12. ~Asks(t) => SyncFirst(t)
  BY <1>2 DEF SyncFirst, Asks
<1>13. (Head(s).kind = "sync" => Asks(s)) /\ (Head(s).kind = "state" => Answers(s))
  BY <1>1, <1>6 DEF Asks, Answers
<1> QED
  BY <1>1, <1>7, <1>8, <1>9, <1>10, <1>11, <1>12, <1>13 DEF t

\* An empty pipe carries nothing.
LEMMA NothingUnder ==
  /\ <<>> \in Seq(Frames) /\ ~Asks(<<>>) /\ ~Answers(<<>>) /\ SyncFirst(<<>>)
  /\ \A n : Behind(<<>>, n) /\ ~Under(<<>>, n)
  BY DEF Asks, Answers, SyncFirst, Behind, Under

\* What a hub says of its row is the row.
LEMMA LocalIsRow ==
  ASSUME Typed, NEW h \in Hubs
  PROVE  /\ Local(h) \in Row \cup {None} /\ NotAfter(Local(h), row[h])
         /\ row[h] > 0 => Local(h) # None /\ Local(h).seen = row[h]
         /\ \A e \in Row : NotAfter(e, row[h]) => Covers(Local(h), e.seen)
<1>1. row[h] \in Nat /\ conn[h] \in BOOLEAN
  BY DEF Typed
<1>2. CASE row[h] = 0
  <2>1. \A e \in Row : e # None /\ e.seen > 0
    BY NoneApart DEF Row
  <2> QED
    BY <1>2, <2>1 DEF Local, NotAfter, Row
<1>3. CASE row[h] > 0
  <2>1. Local(h) = [seen |-> row[h], connected |-> conn[h]]
    BY <1>3 DEF Local
  <2>2. Local(h) \in Row /\ Local(h).seen = row[h]
    BY <1>1, <1>3, <2>1 DEF Row
  <2>3. Local(h) # None
    BY <2>2, NoneApart
  <2>4. \A e \in Row : e # None
    BY NoneApart
  <2> QED
    BY <1>1, <2>2, <2>3, <2>4 DEF NotAfter, Covers, Row
<1> QED
  BY <1>1, <1>2, <1>3

\* Merging keeps the newer of what is known and what is said.
LEMMA MergeKeepsNewer ==
  ASSUME Typed, NEW h \in Hubs, NEW e \in Row \cup {None}
  PROVE  /\ Merge(h, e) \in Row \cup {None}
         /\ \A n \in Nat : Covers(overlay[h], n) \/ Covers(e, n) => Covers(Merge(h, e), n)
         /\ \A n \in Nat : NotAfter(overlay[h], n) /\ NotAfter(e, n) => NotAfter(Merge(h, e), n)
         /\ overlay[h] # None => Merge(h, e).seen >= overlay[h].seen
<1> DEFINE old == overlay[h] shown == conn[h] \/ e.connected
<1>1. old \in Row \cup {None}
  BY DEF Typed
<1>2. CASE e = None
  BY <1>1, <1>2 DEF Merge, Covers, Row
<1>3. CASE e # None /\ (old = None \/ Newer(e, old))
  <2>0. e \in Row /\ shown \in BOOLEAN
    BY <1>3 DEF Typed, Row
  <2>1. Merge(h, e) = [seen |-> e.seen, connected |-> shown]
    BY <1>3 DEF Merge
  <2>2. Merge(h, e) \in Row /\ Merge(h, e).seen = e.seen
    BY <2>0, <2>1 DEF Row
  <2>3. Merge(h, e) # None
    BY <2>2, NoneApart
  <2> QED
    BY <1>1, <1>3, <2>0, <2>2, <2>3 DEF Covers, NotAfter, Newer, Row
<1>4. CASE e # None /\ old # None /\ ~Newer(e, old)
  <2>0. e \in Row /\ old \in Row /\ shown \in BOOLEAN
    BY <1>1, <1>4 DEF Typed, Row
  <2>1. Merge(h, e) = [old EXCEPT !.connected = @ \/ shown]
    BY <1>4 DEF Merge
  <2>2. Merge(h, e) \in Row /\ Merge(h, e).seen = old.seen
    BY <2>0, <2>1 DEF Row
  <2>3. Merge(h, e) # None
    BY <2>2, NoneApart
  <2> QED
    BY <1>4, <2>0, <2>2, <2>3 DEF Covers, NotAfter, Newer, Row
<1> QED
  BY <1>2, <1>3, <1>4

-----------------------------------------------------------------------------
(* The steps *)

\* A frame is sent on one pipe in one direction.
LEMMA SendEffect ==
  ASSUME Typed, NEW p \in Hubs, NEW k \in Hubs, NEW f \in Frames, Send(p, k, f)
  PROVE  /\ wire' \in Wires /\ wire'[p][k] = Append(wire[p][k], f)
         /\ \A a, b \in Hubs : a # p \/ b # k => wire'[a][b] = wire[a][b]
<1>1. wire \in Wires /\ wire[p] \in [Hubs -> Seq(Frames)] /\ wire[p][k] \in Seq(Frames)
  BY DEF Typed, Wires
<1> DEFINE new == [wire[p] EXCEPT ![k] = Append(wire[p][k], f)]
<1>2. new \in [Hubs -> Seq(Frames)] /\ new[k] = Append(wire[p][k], f)
      /\ \A b \in Hubs : b # k => new[b] = wire[p][b]
  BY <1>1, Appended
<1>3. wire' = [wire EXCEPT ![p] = new]
  BY DEF Send
<1> HIDE DEF new
<1> QED
  BY <1>1, <1>2, <1>3 DEF Wires

\* The full sync of a new pipe carries what lastSent is set to, and asks for
\* the state of the peer.
LEMMA DialStep ==
  ASSUME IInv, NEW h \in Hubs, Dial(h)
  PROVE  IInv'
<1> DEFINE q == Peer(h) f == Frame("sync", Local(h))
<1>1. q \in Hubs /\ q # h /\ Peer(q) = h /\ \A k \in Hubs : k = h \/ k = q
  BY Two
<1>2. Typed /\ NotAhead /\ Pipes /\ MadeUp
  BY DEF IInv
<1>3. Local(h) \in Row \cup {None} /\ NotAfter(Local(h), row[h])
  BY <1>2, LocalIsRow
<1>4. f \in Frames /\ f.kind = "sync" /\ f.reg = Local(h)
  BY <1>3 DEF Frame, Frames
<1> HIDE DEF f
<1>5. Send(h, q, f) /\ out[h] = "down" /\ out' = [out EXCEPT ![h] = "fresh"]
      /\ lastSent' = [lastSent EXCEPT ![h] = Local(h)]
      /\ UNCHANGED <<row, conn, now, moves, overlay, breaks>>
  BY DEF Dial, SyncPayload, nodeVars, f
<1>6. /\ wire' \in Wires /\ wire'[h][q] = Append(wire[h][q], f)
      /\ \A a, b \in Hubs : a # h \/ b # q => wire'[a][b] = wire[a][b]
  BY <1>1, <1>2, <1>4, <1>5, SendEffect
<1>7. wire[h][q] = <<>> /\ wire[h][h] = <<>> /\ wire[h][q] \in Seq(Frames)
  BY <1>1, <1>2, <1>5 DEF Pipes, Typed, Wires
<1>8. Typed'
  BY <1>2, <1>3, <1>5, <1>6 DEF Typed
<1>9. NotAhead'
  <2>1. \A g \in Hubs : NotAfter(lastSent'[g], row[g])
    BY <1>2, <1>3, <1>5 DEF NotAhead, Typed
  <2>2. Behind(wire[h][q], row[h]) /\ NotAfter(f.reg, row[h])
    BY <1>2, <1>3, <1>4 DEF NotAhead
  <2>3. Behind(wire'[h][q], row[h])
    BY <1>4, <1>6, <1>7, <2>2, Appended
  <2>4. ASSUME NEW g \in Hubs, NEW p \in Hubs PROVE Behind(wire'[p][Peer(g)], row[g])
    <3>1. CASE p = h /\ Peer(g) = q
      <4>1. g = h
        BY <1>1, <3>1
      <4> QED
        BY <2>3, <3>1, <4>1
    <3>2. CASE ~(p = h /\ Peer(g) = q)
      <4>1. wire'[p][Peer(g)] = wire[p][Peer(g)]
        BY <1>6, <3>2, Two
      <4> QED
        BY <1>2, <4>1 DEF NotAhead
    <3> QED
      BY <3>1, <3>2
  <2> QED
    BY <1>2, <1>5, <2>1, <2>4 DEF NotAhead
<1>10. Pipes'
  <2>1. out'[h] = "fresh" /\ out'[q] = out[q]
    BY <1>1, <1>2, <1>5 DEF Typed
  <2>2. SyncFirst(wire'[h][q]) /\ ~Asks(wire'[h][h]) /\ ~Answers(wire'[h][h])
    <3>1. SyncFirst(wire'[h][q])
      <4>1. SyncFirst(wire[h][q])
        BY <1>7, NothingUnder
      <4> QED
        BY <1>4, <1>6, <1>7, <4>1, Appended
    <3>2. wire'[h][h] = <<>>
      BY <1>1, <1>6, <1>7
    <3> QED
      BY <3>1, <3>2, NothingUnder
  <2>3. \A k \in Hubs : wire'[q][k] = wire[q][k]
    BY <1>1, <1>6
  <2> QED
    BY <1>1, <1>2, <2>1, <2>2, <2>3 DEF Pipes
<1>11. MadeUp'
  <2>1. Asks(wire'[h][q])
    BY <1>4, <1>6, <1>7, Appended
  <2>2. lastSent'[h] = Local(h) /\ lastSent'[q] = lastSent[q]
    BY <1>1, <1>2, <1>5 DEF Typed
  <2>3. ASSUME Local(h) # None PROVE Under(wire'[h][q], Local(h).seen)
    <3>1. Covers(f.reg, Local(h).seen)
      BY <1>3, <1>4, <2>3 DEF Covers, Row
    <3> QED
      BY <1>4, <1>6, <1>7, <3>1, Appended
  <2> QED
    BY <1>1, <2>1, <2>2, <2>3 DEF MadeUp, Pending, Carried
<1> QED
  BY <1>8, <1>9, <1>10, <1>11 DEF IInv

\* A diff goes where the peer hears it, unless a pipe is down: its next sync
\* tells all.
LEMMA HeartbeatStep ==
  ASSUME IInv, NEW h \in Hubs, Heartbeat(h)
  PROVE  IInv'
<1> DEFINE q == Peer(h) f == Frame("beat", Local(h)) p == IF Sends(h) THEN h ELSE q
<1>1. q \in Hubs /\ q # h /\ Peer(q) = h /\ \A k \in Hubs : k = h \/ k = q
  BY Two
<1>2. Typed /\ NotAhead /\ Pipes /\ MadeUp
  BY DEF IInv
<1>3. Local(h) \in Row \cup {None} /\ NotAfter(Local(h), row[h])
  BY <1>2, LocalIsRow
<1>4. f \in Frames /\ f.kind = "beat" /\ f.reg = Local(h)
  BY <1>3 DEF Frame, Frames
<1>5. /\ lastSent' = [lastSent EXCEPT ![h] = Local(h)]
      /\ IF out[p] # "down" THEN Send(p, q, f) ELSE UNCHANGED wire
      /\ UNCHANGED <<row, conn, now, moves, overlay, out, breaks>>
  BY DEF Heartbeat, Diff, nodeVars
<1>6. p \in Hubs /\ (p = h \/ p = q)
  BY <1>1
<1> HIDE DEF f
<1>7. /\ wire' \in Wires
      /\ out[p] # "down" => wire'[p][q] = Append(wire[p][q], f)
      /\ out[p] = "down" => wire'[p][q] = wire[p][q]
      /\ \A a, b \in Hubs : a # p \/ b # q => wire'[a][b] = wire[a][b]
  <2>1. CASE out[p] # "down"
    BY <1>1, <1>2, <1>4, <1>5, <1>6, <2>1, SendEffect
  <2>2. CASE out[p] = "down"
    BY <1>2, <1>5, <2>2 DEF Typed
  <2> QED
    BY <2>1, <2>2
<1>8. Typed'
  BY <1>2, <1>3, <1>5, <1>7 DEF Typed
<1>9. wire[p][q] \in Seq(Frames)
  BY <1>1, <1>2, <1>6 DEF Typed, Wires
<1>10. /\ Behind(wire[p][q], row[h]) => Behind(wire'[p][q], row[h])
       /\ Asks(wire'[p][q]) <=> Asks(wire[p][q])
       /\ Answers(wire'[p][q]) => Answers(wire[p][q])
       /\ SyncFirst(wire[p][q]) => SyncFirst(wire'[p][q])
       /\ \A n : Under(wire[p][q], n) => Under(wire'[p][q], n)
  <2> HIDE DEF p, q
  <2>1. CASE out[p] = "down"
    BY <1>7, <2>1
  <2>2. CASE out[p] # "down"
    <3>1. wire'[p][q] = Append(wire[p][q], f) /\ f \in Frames /\ f.kind = "beat"
      BY <1>4, <1>7, <2>2
    <3>2. NotAfter(f.reg, row[h])
      BY <1>3, <1>4
    <3> QED
      BY <1>9, <3>1, <3>2, Appended
  <2> QED
    BY <2>1, <2>2
<1> HIDE DEF p, q
<1>11. NotAhead'
  <2>1. \A g \in Hubs : NotAfter(lastSent'[g], row[g])
    BY <1>2, <1>3, <1>5 DEF NotAhead, Typed
  <2>2. \A g, a \in Hubs : Behind(wire'[a][Peer(g)], row[g])
    BY <1>1, <1>2, <1>6, <1>7, <1>10 DEF NotAhead, q
  <2> QED
    BY <1>2, <1>5, <2>1, <2>2 DEF NotAhead
<1>12. Pipes'
  <2>1. \A a, b \in Hubs : /\ Asks(wire'[a][b]) <=> Asks(wire[a][b])
                           /\ Answers(wire'[a][b]) => Answers(wire[a][b])
                           /\ SyncFirst(wire[a][b]) => SyncFirst(wire'[a][b])
    BY <1>6, <1>7, <1>10
  <2>2. \A a, b \in Hubs : out[a] = "down" => wire'[a][b] = wire[a][b]
    BY <1>6, <1>7
  <2> QED
    BY <1>2, <1>5, <2>1, <2>2, Two DEF Pipes
<1>13. MadeUp'
  <2>1. lastSent'[h] = Local(h) /\ lastSent'[q] = lastSent[q]
    BY <1>1, <1>2, <1>5 DEF Typed
  <2>2. \A a, b \in Hubs : /\ Asks(wire[a][b]) => Asks(wire'[a][b])
                           /\ \A n : Under(wire[a][b], n) => Under(wire'[a][b], n)
    BY <1>6, <1>7, <1>10
  <2>3. lastSent[q] # None => (Pending(q) \/ Carried(q, lastSent[q].seen))'
    BY <1>1, <1>2, <1>5, <2>1, <2>2 DEF MadeUp, Pending, Carried
  <2>4. ASSUME Local(h) # None PROVE (Pending(h) \/ Carried(h, Local(h).seen))'
    <3>1. Covers(f.reg, Local(h).seen)
      BY <1>3, <1>4, <2>4 DEF Covers, Row
    <3>2. out[p] # "down" => Under(wire'[p][q], Local(h).seen)
      BY <1>4, <1>7, <1>9, <3>1, Appended
    <3>3. Local(h)' = Local(h)
      BY <1>5 DEF Local
    <3>4. p = q => out[h] = "down" \/ out[h] = "left"
      BY <1>1, <1>2 DEF p, Sends, Typed
    <3>5. ~(out[h] = "left" /\ out[q] = "left")
      BY <1>2 DEF Pipes, q
    <3> QED
      BY <1>1, <1>5, <1>6, <3>2, <3>3, <3>4, <3>5 DEF Pending, Carried, q
  <2> QED
    BY <1>1, <1>5, <2>1, <2>3, <2>4 DEF MadeUp, Local
<1> QED
  BY <1>8, <1>11, <1>12, <1>13 DEF IInv

\* The receiver keeps what it hears, and answers a sync with its own row.
LEMMA DeliverStep ==
  ASSUME IInv, NEW p \in Hubs, NEW h \in Hubs, Deliver(p, h)
  PROVE  IInv'
<1> DEFINE q == Peer(h) f == Head(wire[p][h]) g == Frame("state", Local(h))
<1>1. q \in Hubs /\ q # h /\ Peer(q) = h /\ (\A k \in Hubs : k = h \/ k = q) /\ (p = h \/ p = q)
  BY Two
<1>2. Typed /\ NotAhead /\ Pipes /\ MadeUp
  BY DEF IInv
<1>3. Local(h) \in Row \cup {None} /\ NotAfter(Local(h), row[h])
  BY <1>2, LocalIsRow
<1>4. g \in Frames /\ g.kind = "state" /\ g.reg = Local(h)
  BY <1>3 DEF Frame, Frames
<1>5. /\ wire[p][h] # <<>> /\ ~(p = h /\ out[h] = "left") /\ wire' = Received(p, h)
      /\ overlay' = [overlay EXCEPT ![h] = Merge(h, f.reg)]
      /\ out' = IF f.kind = "state" THEN [out EXCEPT ![p] = "up"] ELSE out
      /\ UNCHANGED <<row, conn, now, moves, lastSent, breaks>>
  BY DEF Deliver, nodeVars
<1>6. wire \in Wires /\ wire[p][h] \in Seq(Frames) /\ wire[p][q] \in Seq(Frames)
  BY <1>1, <1>2 DEF Typed, Wires
<1>7. f \in Frames /\ Tail(wire[p][h]) \in Seq(Frames)
  BY <1>5, <1>6, Popped
<1> HIDE DEF g, f
<1>8. Answered(h, f, wire[p][q]) \in Seq(Frames)
  BY <1>4, <1>6, Appended DEF Answered, g
<1>9. /\ wire' \in Wires /\ wire'[p][h] = Tail(wire[p][h])
      /\ wire'[p][q] = IF f.kind = "sync" THEN Append(wire[p][q], g) ELSE wire[p][q]
      /\ \A a, b \in Hubs : a # p => wire'[a][b] = wire[a][b]
  <2> DEFINE new == [k \in Hubs |-> IF k = h THEN Tail(wire[p][h]) ELSE Answered(h, f, wire[p][k])]
  <2>1. wire' = [wire EXCEPT ![p] = new]
    BY <1>5 DEF Received, f
  <2>2. new[h] = Tail(wire[p][h]) /\ new[q] = Answered(h, f, wire[p][q])
    BY <1>1
  <2>3. new \in [Hubs -> Seq(Frames)]
    BY <1>1, <1>7, <1>8
  <2> HIDE DEF new
  <2>4. wire' \in Wires /\ wire'[p] = new /\ \A a \in Hubs : a # p => wire'[a] = wire[a]
    BY <1>6, <2>1, <2>3 DEF Wires
  <2> QED
    BY <2>2, <2>4 DEF Answered, g
<1>10. /\ out' \in [Hubs -> {"down", "fresh", "up", "left"}] /\ out[p] # "down"
       /\ \A k \in Hubs : (out'[k] = "down" <=> out[k] = "down") /\ (out'[k] = "left" => out[k] = "left")
       /\ f.kind # "state" => out' = out
       /\ \A k \in Hubs : k # p => out'[k] = out[k]
  <2>1. out \in [Hubs -> {"down", "fresh", "up", "left"}]
    BY <1>2 DEF Typed
  <2>2. out[p] # "down"
    BY <1>2, <1>5 DEF Pipes
  <2> QED
    BY <1>5, <2>1, <2>2
<1>11. Typed'
  <2>1. overlay' \in [Hubs -> Row \cup {None}]
    BY <1>2, <1>5, <1>7, MergeKeepsNewer DEF Typed, Frames
  <2> QED
    BY <1>2, <1>5, <1>9, <1>10, <2>1 DEF Typed
<1>12. \A n : (Under(wire[p][h], n) => Covers(f.reg, n) \/ Under(wire'[p][h], n))
            /\ (Behind(wire[p][h], n) => NotAfter(f.reg, n) /\ Behind(wire'[p][h], n))
  BY <1>5, <1>6, <1>9, Popped DEF f
<1>13. /\ Asks(wire[p][h]) => f.kind = "sync" \/ Asks(wire'[p][h])
       /\ Asks(wire'[p][h]) => Asks(wire[p][h])
       /\ Answers(wire'[p][h]) => Answers(wire[p][h])
       /\ SyncFirst(wire[p][h]) => ~Asks(wire'[p][h]) /\ SyncFirst(wire'[p][h])
       /\ f.kind = "sync" => Asks(wire[p][h])
       /\ f.kind = "state" => Answers(wire[p][h])
  BY <1>5, <1>6, <1>9, Popped DEF f
<1>14. \A n : (Under(wire[p][q], n) => Under(wire'[p][q], n))
            /\ (f.kind = "sync" /\ Covers(Local(h), n) => Under(wire'[p][q], n))
  BY <1>4, <1>6, <1>9, Appended
<1>15. Behind(wire[p][q], row[h]) => Behind(wire'[p][q], row[h])
  BY <1>3, <1>4, <1>6, <1>9, Appended
<1>16. /\ Asks(wire'[p][q]) <=> Asks(wire[p][q])
       /\ Answers(wire'[p][q]) => Answers(wire[p][q]) \/ f.kind = "sync"
       /\ SyncFirst(wire[p][q]) => SyncFirst(wire'[p][q])
  BY <1>4, <1>6, <1>9, Appended
<1>17. f.kind = "sync" => p = q /\ out[p] = "fresh"
  BY <1>1, <1>2, <1>13 DEF Pipes
<1>18. overlay'[q] = overlay[q] /\ overlay'[h] = Merge(h, f.reg) /\ f.reg \in Row \cup {None}
  BY <1>1, <1>2, <1>5, <1>7 DEF Typed, Frames
<1> HIDE DEF q
<1>19. NotAhead'
  <2>1. row[q] \in Nat
    BY <1>1, <1>2 DEF Typed
  <2>2. NotAfter(overlay[h], row[q]) /\ Behind(wire[p][h], row[q])
    BY <1>1, <1>2 DEF NotAhead
  <2>3. NotAfter(overlay'[h], row[q])
    BY <1>2, <1>12, <1>18, <2>1, <2>2, MergeKeepsNewer
  <2>4. NotAfter(overlay'[q], row[h])
    BY <1>1, <1>2, <1>18 DEF NotAhead, q
  <2>5. Behind(wire'[p][h], row[q]) /\ Behind(wire'[p][q], row[h])
    BY <1>2, <1>12, <1>15, <2>2 DEF NotAhead, q
  <2>6. \A a \in Hubs : Behind(wire'[a][h], row[q]) /\ Behind(wire'[a][q], row[h])
    <3>1. \A a \in Hubs : Behind(wire[a][h], row[q]) /\ Behind(wire[a][q], row[h])
      BY <1>1, <1>2 DEF NotAhead, q
    <3> QED
      BY <1>1, <1>9, <2>5, <3>1
  <2> QED
    BY <1>1, <1>2, <1>5, <2>3, <2>4, <2>6 DEF NotAhead, q
<1>20. Pipes'
  <2>1. \A a \in Hubs : out'[a] = "down" => \A k \in Hubs : wire'[a][k] = <<>>
    BY <1>2, <1>9, <1>10 DEF Pipes
  <2>2. \A a \in Hubs : ~(out'[a] = "left" /\ out'[Peer(a)] = "left")
    BY <1>2, <1>10, Two DEF Pipes
  <2>3. \A a \in Hubs : ~Asks(wire'[a][a]) /\ SyncFirst(wire'[a][Peer(a)])
    <3>1. \A b \in Hubs : b = h \/ b = q
      BY <1>1
    <3>2. \A a, b \in Hubs : (Asks(wire'[a][b]) => Asks(wire[a][b]))
                            /\ (SyncFirst(wire[a][b]) => SyncFirst(wire'[a][b]))
      BY <1>9, <1>13, <1>16, <3>1
    <3> QED
      BY <1>2, <3>2, Two DEF Pipes
  <2>4. ASSUME NEW a \in Hubs, Asks(wire'[a][Peer(a)])
        PROVE  out'[a] = "fresh" /\ ~Answers(wire'[a][a])
    <3>0. Peer(a) \in Hubs /\ Peer(a) # a
      BY Two
    <3>1. CASE a # p
      <4>1. Asks(wire[a][Peer(a)]) /\ wire'[a][a] = wire[a][a] /\ out'[a] = out[a]
        BY <1>9, <1>10, <2>4, <3>0, <3>1
      <4> QED
        BY <1>2, <4>1 DEF Pipes
    <3>2. CASE a = p /\ p = h
      <4>1. Peer(a) = q /\ Asks(wire[p][q])
        BY <1>16, <2>4, <3>2 DEF q
      <4>2. out[p] = "fresh" /\ ~Answers(wire[p][p])
        BY <1>2, <3>2, <4>1 DEF Pipes
      <4>3. f.kind # "state" /\ ~Answers(wire'[p][p])
        BY <1>13, <3>2, <4>2
      <4> QED
        BY <1>10, <3>2, <4>2, <4>3
    <3>3. CASE a = p /\ p = q
      <4>1. Peer(a) = h /\ Asks(wire'[p][h])
        BY <1>1, <2>4, <3>3
      <4>2. SyncFirst(wire[p][h])
        BY <1>1, <1>2, <3>3 DEF Pipes
      <4> QED
        BY <1>13, <4>1, <4>2
    <3> QED
      BY <1>1, <3>1, <3>2, <3>3
  <2> QED
    BY <2>1, <2>2, <2>3, <2>4 DEF Pipes
<1>21. MadeUp'
  <2>1. ASSUME lastSent[q] # None PROVE (Pending(q) \/ Carried(q, lastSent[q].seen))'
    <3>n. PICK n \in Nat : n = lastSent[q].seen
      BY <1>1, <1>2, <2>1 DEF Typed, Row
    <3>0. lastSent'[q] = lastSent[q]
      BY <1>5
    <3>1. Pending(q) \/ Carried(q, n)
      BY <1>1, <1>2, <2>1, <3>n DEF MadeUp
    <3>2. Covers(overlay[h], n) \/ Covers(f.reg, n) => Covers(overlay'[h], n)
      BY <1>2, <1>18, <3>0, MergeKeepsNewer
    <3>3. Asks(wire[h][q]) => Asks(wire'[h][q])
      BY <1>1, <1>9, <1>16
    <3>4. Under(wire[q][h], n) => Covers(f.reg, n) \/ Under(wire'[q][h], n)
      BY <1>1, <1>9, <1>12
    <3>5. Under(wire[h][h], n) => Covers(f.reg, n) \/ Under(wire'[h][h], n)
      BY <1>1, <1>9, <1>12
    <3>6. Pending(q) => Pending(q)'
      BY <1>1, <1>10, <3>3 DEF Pending
    <3>7. Carried(q, n) => Carried(q, n)'
      BY <1>1, <1>10, <3>2, <3>4, <3>5 DEF Carried
    <3> QED
      BY <3>0, <3>1, <3>6, <3>7, <3>n
  <2>2. ASSUME lastSent[h] # None PROVE (Pending(h) \/ Carried(h, lastSent[h].seen))'
    <3>n. PICK n \in Nat : n = lastSent[h].seen
      BY <1>1, <1>2, <2>2 DEF Typed, Row
    <3>0. lastSent'[h] = lastSent[h] /\ lastSent[h] \in Row /\ NotAfter(lastSent[h], row[h])
      BY <1>2, <1>5, <2>2 DEF Typed, NotAhead
    <3>1. Pending(h) \/ Carried(h, n)
      BY <1>2, <2>2, <3>n DEF MadeUp
    <3>2. Covers(Local(h), n)
      BY <1>2, <3>0, <3>n, LocalIsRow
    <3>3. Asks(wire[q][h]) => Asks(wire'[q][h]) \/ (p = q /\ f.kind = "sync")
      BY <1>1, <1>9, <1>13, <1>17
    <3>4. p = q /\ f.kind = "sync" => Under(wire'[q][q], n) /\ out'[q] # "left"
      BY <1>10, <1>14, <1>17, <3>2
    <3>5. Under(wire[h][q], n) => Under(wire'[h][q], n)
      BY <1>1, <1>9, <1>14
    <3>6. Under(wire[q][q], n) => Under(wire'[q][q], n)
      BY <1>1, <1>9, <1>14
    <3>7. Pending(h) => (Pending(h) \/ Carried(h, n))'
      BY <1>1, <1>10, <3>3, <3>4 DEF Pending, Carried, q
    <3>8. Carried(h, n) => Carried(h, n)'
      BY <1>1, <1>10, <1>18, <3>5, <3>6 DEF Carried, q
    <3> QED
      BY <3>0, <3>1, <3>7, <3>8, <3>n
  <2>3. lastSent'[h] = lastSent[h] /\ lastSent'[q] = lastSent[q]
    BY <1>5
  <2> QED
    BY <1>1, <2>1, <2>2, <2>3 DEF MadeUp
<1> QED
  BY <1>11, <1>19, <1>20, <1>21 DEF IInv

\* The end of a pipe leaves one to be dialed.
LEMMA BreakStep ==
  ASSUME IInv, NEW h \in Hubs, Break(h)
  PROVE  IInv'
<1> DEFINE q == Peer(h)
<1>1. q \in Hubs /\ q # h /\ Peer(q) = h /\ \A k \in Hubs : k = h \/ k = q
  BY Two
<1>2. Typed /\ NotAhead /\ Pipes
  BY DEF IInv
<1> HIDE DEF q
<1>3. /\ out' = [k \in Hubs |-> IF k = h THEN "down" ELSE IF out[k] = "up" THEN "left" ELSE out[k]]
      /\ wire' = [wire EXCEPT ![h] = Empty]
      /\ UNCHANGED <<row, conn, now, moves, overlay, lastSent>>
  BY DEF Break, AfterBreak, nodeVars
<1>4. Empty \in [Hubs -> Seq(Frames)] /\ \A k \in Hubs : Empty[k] = <<>>
  BY NothingUnder DEF Empty
<1>5. /\ wire' \in Wires /\ (\A k \in Hubs : wire'[h][k] = <<>>)
      /\ \A a, k \in Hubs : a # h => wire'[a][k] = wire[a][k]
  BY <1>2, <1>3, <1>4 DEF Typed, Wires
<1>6. out'[h] = "down" /\ out'[q] = IF out[q] = "up" THEN "left" ELSE out[q]
  BY <1>1, <1>3
<1>7. Typed'
  <2>1. out' \in [Hubs -> {"down", "fresh", "up", "left"}]
    BY <1>2, <1>3 DEF Typed
  <2> QED
    BY <1>2, <1>3, <1>5, <2>1 DEF Typed
<1>8. NotAhead'
  <2>1. \A g, p \in Hubs : Behind(wire'[p][Peer(g)], row[g])
    BY <1>2, <1>5, Two, NothingUnder DEF NotAhead
  <2> QED
    BY <1>2, <1>3, <2>1 DEF NotAhead
<1>9. Pipes'
  <2>1. out[q] = "fresh" => out'[q] = "fresh"
    BY <1>6
  <2>2. out'[q] = "down" => out[q] = "down"
    BY <1>6
  <2>3. ~Asks(wire'[h][h]) /\ ~Asks(wire'[h][q]) /\ SyncFirst(wire'[h][q])
    BY <1>1, <1>5, NothingUnder
  <2>4. wire'[q][q] = wire[q][q] /\ wire'[q][h] = wire[q][h]
    BY <1>1, <1>5
  <2> QED
    BY <1>1, <1>2, <1>5, <1>6, <2>1, <2>2, <2>3, <2>4 DEF Pipes, q
<1>10. MadeUp'
  BY <1>1, <1>6 DEF MadeUp, Pending, q
<1> QED
  BY <1>7, <1>8, <1>9, <1>10 DEF IInv

\* A restart forgets what was said and heard, and takes both pipes down.
LEMMA RestartStep ==
  ASSUME IInv, NEW h \in Hubs, Restart(h)
  PROVE  IInv'
<1>1. Typed /\ NotAhead /\ Pipes
  BY DEF IInv
<1>2. /\ out' = [k \in Hubs |-> "down"] /\ wire' = [k \in Hubs |-> Empty]
      /\ overlay' = [overlay EXCEPT ![h] = None] /\ lastSent' = [lastSent EXCEPT ![h] = None]
      /\ conn' = [conn EXCEPT ![h] = FALSE] /\ UNCHANGED <<row, now, moves>>
  BY DEF Restart
<1>3. /\ wire' \in Wires /\ (\A a, k \in Hubs : wire'[a][k] = <<>>)
  BY <1>2, NothingUnder DEF Empty, Wires
<1>4. \A a \in Hubs : out'[a] = "down"
  BY <1>2
<1>5. Typed'
  BY <1>1, <1>2, <1>3 DEF Typed
<1>6. NotAhead'
  <2>1. \A g \in Hubs : NotAfter(lastSent'[g], row[g]) /\ NotAfter(overlay'[Peer(g)], row[g])
    BY <1>1, <1>2, Two DEF NotAhead, NotAfter, Typed
  <2> QED
    BY <1>2, <1>3, <2>1, Two, NothingUnder DEF NotAhead
<1>7. Pipes'
  BY <1>3, <1>4, Two, NothingUnder DEF Pipes
<1>8. MadeUp'
  BY <1>4 DEF MadeUp, Pending
<1> QED
  BY <1>5, <1>6, <1>7, <1>8 DEF IInv

\* A frame nobody hears is no loss: it was not counted on.
LEMMA UnheardStep ==
  ASSUME IInv, NEW h \in Hubs, Unheard(h)
  PROVE  IInv'
<1> DEFINE q == Peer(h)
<1>1. q \in Hubs /\ q # h /\ Peer(q) = h /\ \A k \in Hubs : k = h \/ k = q
  BY Two
<1>2. Typed /\ NotAhead /\ Pipes /\ MadeUp
  BY DEF IInv
<1> HIDE DEF q
<1>3. /\ wire[h][h] # <<>> /\ out[h] = "left"
      /\ wire' = [wire EXCEPT ![h] = [wire[h] EXCEPT ![h] = Tail(wire[h][h])]]
      /\ UNCHANGED <<row, conn, now, moves, overlay, lastSent, out, breaks>>
  BY DEF Unheard, nodeVars
<1>4. wire \in Wires /\ wire[h] \in [Hubs -> Seq(Frames)] /\ wire[h][h] \in Seq(Frames)
  BY <1>2 DEF Typed, Wires
<1>5. Tail(wire[h][h]) \in Seq(Frames)
  BY <1>3, <1>4, Popped
<1>6. /\ wire' \in Wires /\ wire'[h][h] = Tail(wire[h][h])
      /\ \A a, b \in Hubs : a # h \/ b # h => wire'[a][b] = wire[a][b]
  BY <1>3, <1>4, <1>5 DEF Wires
<1>7. Typed'
  BY <1>2, <1>3, <1>6 DEF Typed
<1>8. NotAhead'
  <2>1. Behind(wire[h][h], row[q])
    BY <1>1, <1>2 DEF NotAhead
  <2>2. Behind(wire'[h][h], row[q])
    BY <1>3, <1>4, <1>6, <2>1, Popped
  <2>3. ASSUME NEW g \in Hubs, NEW p \in Hubs PROVE Behind(wire'[p][Peer(g)], row[g])
    <3>1. CASE p = h /\ Peer(g) = h
      <4>1. g = q
        BY <3>1, Two DEF q
      <4> QED
        BY <2>2, <3>1, <4>1
    <3>2. CASE p # h \/ Peer(g) # h
      <4>1. wire'[p][Peer(g)] = wire[p][Peer(g)]
        BY <1>6, <3>2, Two
      <4> QED
        BY <1>2, <4>1 DEF NotAhead
    <3> QED
      BY <3>1, <3>2
  <2> QED
    BY <1>2, <1>3, <2>3 DEF NotAhead
<1>9. Pipes'
  <2>1. Asks(wire'[h][h]) => Asks(wire[h][h])
    BY <1>3, <1>4, <1>6, Popped
  <2>2. wire'[h][q] = wire[h][q] /\ wire'[q][h] = wire[q][h] /\ wire'[q][q] = wire[q][q]
    BY <1>1, <1>6
  <2> QED
    BY <1>1, <1>2, <1>3, <2>1, <2>2 DEF Pipes, q
<1>10. MadeUp'
  <2>1. wire'[h][q] = wire[h][q] /\ wire'[q][h] = wire[q][h] /\ wire'[q][q] = wire[q][q]
    BY <1>1, <1>6
  <2>2. lastSent[h] # None => (Pending(h) \/ Carried(h, lastSent[h].seen))'
    BY <1>1, <1>2, <1>3, <2>1 DEF MadeUp, Pending, Carried, q
  <2>3. lastSent[q] # None => (Pending(q) \/ Carried(q, lastSent[q].seen))'
    BY <1>1, <1>2, <1>3, <2>1 DEF MadeUp, Pending, Carried, q
  <2> QED
    BY <1>1, <1>3, <2>2, <2>3 DEF MadeUp
<1> QED
  BY <1>7, <1>8, <1>9, <1>10 DEF IInv

\* The node joins, beats and leaves: rows only get newer.
LEMMA NodeStep ==
  ASSUME IInv, NEW h \in Hubs, NodeJoins(h) \/ NodeBeats(h) \/ NodeLeaves(h)
  PROVE  IInv'
<1>1. Typed /\ NotAhead /\ Pipes /\ MadeUp
  BY DEF IInv
<1>2. UNCHANGED <<overlay, lastSent, out, wire, breaks>>
  BY DEF NodeJoins, NodeBeats, NodeLeaves, Untouched
<1>3. /\ row' \in [Hubs -> Nat] /\ now' \in Nat /\ conn' \in [Hubs -> BOOLEAN]
      /\ \A g \in Hubs : row'[g] >= row[g] /\ row'[g] <= now'
  <2>1. row \in [Hubs -> Nat] /\ now \in Nat /\ conn \in [Hubs -> BOOLEAN]
        /\ \A g \in Hubs : row[g] <= now
    BY <1>1 DEF Typed
  <2>2. CASE NodeJoins(h)
    BY <2>1, <2>2 DEF NodeJoins
  <2>3. CASE NodeBeats(h)
    BY <2>1, <2>3 DEF NodeBeats
  <2>4. CASE NodeLeaves(h)
    BY <2>1, <2>4 DEF NodeLeaves
  <2> QED
    BY <2>2, <2>3, <2>4
<1>4. Typed'
  BY <1>1, <1>2, <1>3 DEF Typed
<1>5. NotAhead'
  <2>1. \A g \in Hubs, e \in Row \cup {None} : NotAfter(e, row[g]) => NotAfter(e, row'[g])
    BY <1>1, <1>3 DEF NotAfter, Typed, Row
  <2>2. ASSUME NEW g \in Hubs, NEW s \in Seq(Frames), Behind(s, row[g]) PROVE Behind(s, row'[g])
    <3>1. \A i \in 1 .. Len(s) : s[i] \in Frames
      OBVIOUS
    <3>2. \A f \in Frames : f.reg \in Row \cup {None}
      BY DEF Frames
    <3> QED
      BY <2>1, <2>2, <3>1, <3>2 DEF Behind
  <2>3. \A g \in Hubs : lastSent[g] \in Row \cup {None} /\ overlay[Peer(g)] \in Row \cup {None}
    BY <1>1, Two DEF Typed
  <2>4. \A g, p \in Hubs : wire[p][Peer(g)] \in Seq(Frames)
    BY <1>1, Two DEF Typed, Wires
  <2> QED
    BY <1>1, <1>2, <2>1, <2>2, <2>3, <2>4 DEF NotAhead
<1>6. Pipes'
  BY <1>1, <1>2 DEF Pipes
<1>7. MadeUp'
  BY <1>1, <1>2 DEF MadeUp, Pending, Carried
<1> QED
  BY <1>4, <1>5, <1>6, <1>7 DEF IInv

LEMMA Start == Init => IInv
<1> SUFFICES ASSUME Init PROVE IInv
  OBVIOUS
<1>1. \A p, h \in Hubs : wire[p][h] = <<>>
  BY DEF Init
<1>2. \A h \in Hubs : overlay[h] = None /\ lastSent[h] = None /\ row[h] = 0 /\ out[h] = "down"
  BY DEF Init
<1>3. Typed
  BY NothingUnder DEF Init, Typed, Wires
<1>4. NotAhead
  BY <1>1, <1>2, Two, NothingUnder DEF NotAhead, NotAfter
<1>5. Pipes
  BY <1>1, <1>2, Two, NothingUnder DEF Pipes
<1>6. MadeUp
  BY <1>2 DEF MadeUp
<1> QED
  BY <1>3, <1>4, <1>5, <1>6 DEF IInv

LEMMA Steps == IInv /\ [Next]_vars => IInv'
<1> SUFFICES ASSUME IInv, [Next]_vars PROVE IInv'
  OBVIOUS
<1>1. CASE \E h \in Hubs : Dial(h) \/ Heartbeat(h) \/ Unheard(h) \/ Break(h) \/ Restart(h)
  BY <1>1, DialStep, HeartbeatStep, UnheardStep, BreakStep, RestartStep
<1>2. CASE \E p, h \in Hubs : Deliver(p, h)
  BY <1>2, DeliverStep
<1>3. CASE \E h \in Hubs : NodeJoins(h) \/ NodeBeats(h) \/ NodeLeaves(h)
  BY <1>3, NodeStep
<1>4. CASE UNCHANGED vars
  <2>1. UNCHANGED <<row, conn, now, overlay, lastSent, out, wire>>
    BY <1>4 DEF vars, nodeVars
  <2>2. Typed'
    BY <2>1 DEF IInv, Typed
  <2>3. NotAhead'
    BY <2>1 DEF IInv, NotAhead
  <2>4. Pipes'
    BY <2>1 DEF IInv, Pipes
  <2>5. MadeUp'
    BY <2>1 DEF IInv, MadeUp, Pending, Carried
  <2> QED
    BY <2>2, <2>3, <2>4, <2>5 DEF IInv
<1> QED
  BY <1>1, <1>2, <1>3, <1>4 DEF Next

\* In every reachable state nothing said of a row is newer than the row, a sync
\* leads its pipe, and what was said last reaches the peer or will be said again.
THEOREM SyncInvariance == Spec => []IInv
  BY Start, Steps, PTL DEF Spec

\* Once nothing is pending, both control planes know and show the last_seen of
\* each other's rows, whatever pipes broke and hubs restarted before.
THEOREM SettledIsSeen == Spec => []SettledSeen
<1>1. ASSUME IInv, Settled, NEW h \in Hubs
      PROVE  /\ row[Peer(h)] > 0 => overlay[h] # None /\ overlay[h].seen >= row[Peer(h)]
             /\ ShownSeen(h) = IF row[Peer(h)] > row[h] THEN row[Peer(h)] ELSE row[h]
  <2> DEFINE q == Peer(h)
  <2>1. q \in Hubs /\ Peer(q) = h
    BY Two
  <2>2. Typed /\ NotAhead /\ MadeUp
    BY <1>1 DEF IInv
  <2>3. \A a, b \in Hubs : out[a] \in {"up", "left"} /\ wire[a][b] = <<>> /\ Diff(a) = None
    BY <1>1 DEF Settled
  <2> HIDE DEF q
  <2>4. row[q] \in Nat /\ row[h] \in Nat /\ overlay[h] \in Row \cup {None}
    BY <2>1, <2>2 DEF Typed
  <2>5. NotAfter(overlay[h], row[q])
    BY <2>1, <2>2 DEF NotAhead
  <2>6. ASSUME row[q] > 0 PROVE Covers(overlay[h], row[q])
    <3>1. Local(q) # None /\ Local(q).seen = row[q]
      BY <2>1, <2>2, <2>6, LocalIsRow
    <3>2. lastSent[q] = Local(q)
      BY <2>1, <2>3, <3>1 DEF Diff
    <3>3. Pending(q) \/ Carried(q, row[q])
      BY <2>1, <2>2, <3>1, <3>2 DEF MadeUp
    <3>4. ~Pending(q)
      BY <1>1, <2>1, <2>3, NothingUnder DEF Pending
    <3>5. Carried(q, row[q]) => Covers(overlay[h], row[q])
      BY <1>1, <2>1, <2>3, NothingUnder DEF Carried
    <3> QED
      BY <3>3, <3>4, <3>5
  <2>7. row[q] > 0 => overlay[h] # None /\ overlay[h].seen = row[q]
    BY <2>4, <2>5, <2>6 DEF Covers, NotAfter, Row
  <2>8. row[q] = 0 => overlay[h] = None
    BY <2>4, <2>5 DEF NotAfter, Row
  <2> QED
    BY <2>4, <2>7, <2>8 DEF ShownSeen, q
<1>2. IInv => SettledSeen
  <2> SUFFICES ASSUME IInv, Settled
               PROVE  /\ \A h \in Hubs : row[Peer(h)] > 0 => overlay[h] # None /\ overlay[h].seen >= row[Peer(h)]
                      /\ \A h \in Hubs : ShownSeen(h) = ShownSeen(Peer(h))
    BY DEF SettledSeen
  <2>1. ASSUME NEW h \in Hubs PROVE ShownSeen(h) = ShownSeen(Peer(h))
    <3>1. Peer(h) \in Hubs /\ Peer(Peer(h)) = h
      BY Two
    <3>2. row[h] \in Nat /\ row[Peer(h)] \in Nat
      BY <3>1 DEF IInv, Typed
    <3>3. ShownSeen(Peer(h)) = IF row[h] > row[Peer(h)] THEN row[h] ELSE row[Peer(h)]
      BY <1>1, <3>1
    <3> QED
      BY <1>1, <3>2, <3>3
  <2> QED
    BY <1>1, <2>1
<1> QED
  BY SyncInvariance, <1>2, PTL

\* What a control plane shows of a node never gets older while it runs, though
\* frames of the two pipes overtake each other.
THEOREM SeenNeverLost == Spec => SeenGrows
<1> DEFINE Grows == \A h \in Hubs : overlay'[h] # None => overlay[h] = None \/ overlay'[h].seen >= overlay[h].seen
<1>1. ASSUME IInv, [Next]_vars PROVE Grows
  <2>1. \A h \in Hubs : overlay[h] \in Row \cup {None}
    BY <1>1 DEF IInv, Typed
  <2>2. \A e \in Row : e.seen >= e.seen
    BY DEF Row
  <2>3. CASE UNCHANGED overlay
    BY <2>1, <2>2, <2>3
  <2>4. ASSUME NEW p \in Hubs, NEW h \in Hubs, Deliver(p, h) PROVE Grows
    <3>1. wire[p][h] \in Seq(Frames) /\ wire[p][h] # <<>>
      BY <1>1, <2>4 DEF IInv, Typed, Wires, Deliver
    <3>2. Head(wire[p][h]).reg \in Row \cup {None}
      BY <3>1, Popped DEF Frames
    <3>3. overlay' = [overlay EXCEPT ![h] = Merge(h, Head(wire[p][h]).reg)]
      BY <2>4 DEF Deliver
    <3>4. overlay[h] # None => Merge(h, Head(wire[p][h]).reg).seen >= overlay[h].seen
      BY <1>1, <3>2, MergeKeepsNewer DEF IInv
    <3> QED
      BY <1>1, <2>1, <2>2, <3>3, <3>4 DEF IInv, Typed
  <2>5. ASSUME NEW h \in Hubs, Restart(h) PROVE Grows
    <3>1. overlay' = [overlay EXCEPT ![h] = None]
      BY <2>5 DEF Restart
    <3> QED
      BY <1>1, <2>1, <2>2, <3>1 DEF IInv, Typed
  <2>6. ASSUME Next PROVE Grows
    BY <2>3, <2>4, <2>5, <2>6
    DEF Next, Dial, Heartbeat, Unheard, Break, NodeJoins, NodeBeats, NodeLeaves, Untouched
  <2> QED
    BY <1>1, <2>3, <2>6 DEF vars
<1>2. IInv /\ [Next]_vars => [Grows]_vars
  BY <1>1
<1> QED
  BY SyncInvariance, <1>2, PTL DEF Spec, SeenGrows
=============================================================================
