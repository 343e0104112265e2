--------------------------- MODULE HubPartsProofs ---------------------------
(***************************************************************************)
(* Theorems about the parts of a hub (HubParts): presence, the router with  *)
(* its audit rows and aggregated reads, and the guard, for any nodes,       *)
(* items, requests, calls and sizes.                                        *)
(***************************************************************************)
EXTENDS HubParts, FiniteSetTheorems, SequenceTheorems, TLAPS

\* A finite set of numbered things has a greatest.  The least subset without
\* one loses an element and still has none.
LEMMA Greatest ==
  ASSUME NEW S, IsFiniteSet(S), S # {}, NEW f, \A x \in S : f[x] \in Int
  PROVE  \E x \in S : \A y \in S : f[y] <= f[x]
<1> DEFINE T == {A \in SUBSET S : A # {} /\ ~\E x \in A : \A y \in A : f[y] <= f[x]}
<1> SUFFICES ASSUME T # {} PROVE FALSE
  OBVIOUS
<1>1. FiniteSubsetsOf(S) = SUBSET S
  BY FS_FiniteSubsetsOfFinite
<1>2. IsWellFoundedOn(StrictSubsetOrdering(S), SUBSET S)
  BY <1>1, FS_StrictSubsetOrderingWellFounded
<1>3. PICK A \in T : \A B \in T : ~(<<B, A>> \in StrictSubsetOrdering(S))
  <2>1. T \subseteq SUBSET S
    OBVIOUS
  <2> HIDE DEF T
  <2> QED
    BY <1>2, <2>1, WFMin
<1>4. A \in SUBSET S /\ A # {} /\ ~\E x \in A : \A y \in A : f[y] <= f[x]
  OBVIOUS
<1>5. \A B \in SUBSET S : B \subseteq A /\ B # A => B \notin T
  BY <1>3, <1>4 DEF StrictSubsetOrdering
<1>6. PICK x \in A : TRUE
  BY <1>4
<1>7. A \ {x} # {}
  BY <1>4, <1>6
<1>8. A \ {x} \in SUBSET S /\ A \ {x} # A
  BY <1>4, <1>6
<1>9. PICK y \in A \ {x} : \A z \in A \ {x} : f[z] <= f[y]
  BY <1>5, <1>7, <1>8
<1>10. f[x] \in Int /\ \A z \in A : f[z] \in Int
  BY <1>4, <1>6
<1>11. CASE f[x] <= f[y]
  BY <1>4, <1>9, <1>11
<1>12. CASE f[y] <= f[x]
  BY <1>4, <1>6, <1>9, <1>10, <1>12
<1> QED
  BY <1>9, <1>10, <1>11, <1>12

----------------------------------------------------------------------------
(* Presence *)

Lease == [conf : {"low", "high", "sure"}, at : Nat, until : Nat, pinned : BOOLEAN]

\* A lease was claimed at its time, and lasts no longer than claims of its kind
\* may.
Backed(n) ==
  \/ auto[n] # -1 /\ lease[n].at <= auto[n] /\ lease[n].until <= lease[n].at + Ttl
  \/ hand[n] # -1 /\ lease[n].at <= hand[n] /\ lease[n].until <= lease[n].at + 6 * ManualTtl

PresenceInv == Presence!TypeOK /\ \A n \in Nodes : lease[n] # NoNode => Backed(n)

LEMMA PresenceFacts ==
  /\ IsFiniteSet(Nodes) /\ Ttl \in Nat /\ ManualTtl \in Nat /\ 6 * ManualTtl \in Nat
  /\ Window \in Nat /\ Requested \subseteq Nat /\ MaxClaims \in Nat
<1>1. /\ IsFiniteSet(Nodes) /\ Ttl \in Nat /\ ManualTtl \in Nat
      /\ Window \in Nat /\ Requested \subseteq Nat /\ MaxClaims \in Nat
  BY HubAssumption DEF Presence!PresenceAssumption, Presence!IsFiniteSet, IsFiniteSet
<1> QED
  BY <1>1

LEMMA LifetimeCapped ==
  ASSUME NEW ttl \in Int, NEW manual \in BOOLEAN
  PROVE  /\ Presence!Lifetime(manual, ttl) \in Nat
         /\ Presence!Lifetime(manual, ttl) <= IF manual THEN 6 * ManualTtl ELSE Ttl
  BY PresenceFacts DEF Presence!Lifetime, Presence!Smaller

\* A claim replaces the lease of its node.
LEMMA ClaimSafe ==
  ASSUME PresenceInv, NEW n \in Nodes, NEW manual \in BOOLEAN, NEW conf \in {"low", "high", "sure"},
         NEW at \in Nat, NEW ttl \in Int, NEW pinned \in BOOLEAN,
         lease' = Presence!Claimed(n, manual, conf, at, ttl, pinned), now' = now,
         claims < MaxClaims, claims' = claims + 1,
         \/ /\ ~manual /\ hand' = hand
            /\ auto' = [auto EXCEPT ![n] = IF at > @ THEN at ELSE @]
         \/ manual /\ auto' = auto /\ hand' = [hand EXCEPT ![n] = at]
  PROVE  PresenceInv'
<1> DEFINE r == [conf |-> conf, at |-> at, until |-> at + Presence!Lifetime(manual, ttl), pinned |-> pinned]
<1>1. /\ Presence!Lifetime(manual, ttl) \in Nat
      /\ Presence!Lifetime(manual, ttl) <= IF manual THEN 6 * ManualTtl ELSE Ttl
  BY LifetimeCapped
<1>2. lease' = [lease EXCEPT ![n] = r]
  BY DEF Presence!Claimed
<1>3. r \in Lease /\ r.at = at /\ r.until <= at + (IF manual THEN 6 * ManualTtl ELSE Ttl)
  <2>1. at + Presence!Lifetime(manual, ttl) \in Nat
    BY <1>1
  <2>2. r \in Lease /\ r.at = at /\ r.until = at + Presence!Lifetime(manual, ttl)
    BY <2>1 DEF Lease
  <2> QED
    BY <1>1, <2>2, PresenceFacts
<1> HIDE DEF r
<1>4. /\ lease \in [Nodes -> Lease \cup {NoNode}] /\ now \in Nat /\ claims \in 0 .. MaxClaims
      /\ auto \in [Nodes -> Nat \cup {-1}] /\ hand \in [Nodes -> Nat \cup {-1}]
  BY DEF PresenceInv, Presence!TypeOK, Lease, Presence!Never
<1>5. /\ lease' \in [Nodes -> Lease \cup {NoNode}] /\ lease'[n] = r
      /\ \A m \in Nodes : m # n => lease'[m] = lease[m]
  BY <1>2, <1>3, <1>4
<1>6. /\ auto' \in [Nodes -> Nat \cup {-1}] /\ hand' \in [Nodes -> Nat \cup {-1}]
      /\ \A m \in Nodes : m # n => auto'[m] = auto[m] /\ hand'[m] = hand[m]
  BY <1>4
<1>7. IF manual THEN hand'[n] = at ELSE at <= auto'[n] /\ auto'[n] # -1
  <2>1. auto[n] \in Nat \cup {-1}
    BY <1>4
  <2> QED
    BY <1>4, <2>1
<1>8. claims' \in 0 .. MaxClaims
  BY <1>4, PresenceFacts
<1>9. ASSUME NEW m \in Nodes, lease'[m] # NoNode
      PROVE  Backed(m)'
  <2>1. CASE m = n
    BY <1>3, <1>5, <1>7, <2>1 DEF Backed
  <2>2. CASE m # n
    BY <1>5, <1>6, <1>9, <2>2 DEF Backed, PresenceInv
  <2> QED
    BY <2>1, <2>2
<1> QED
  BY <1>4, <1>5, <1>6, <1>8, <1>9 DEF PresenceInv, Presence!TypeOK, Lease, Presence!Never

LEMMA PresenceStep ==
  ASSUME PresenceInv, [Presence!Next]_(Presence!vars)
  PROVE  PresenceInv'
<1>0. /\ lease \in [Nodes -> Lease \cup {NoNode}] /\ now \in Nat /\ claims \in 0 .. MaxClaims
      /\ auto \in [Nodes -> Nat \cup {-1}] /\ hand \in [Nodes -> Nat \cup {-1}]
  BY DEF PresenceInv, Presence!TypeOK, Lease, Presence!Never
<1>1. ASSUME NEW n \in Nodes, Presence!Reported(n)
      PROVE  PresenceInv'
  <2>1. PICK conf \in {"low", "high"}, pinned \in BOOLEAN, at \in (now - MaxDelay) .. now :
          /\ at >= 0 /\ lease' = Presence!Claimed(n, FALSE, conf, at, Ttl, pinned)
          /\ auto' = [auto EXCEPT ![n] = IF at > @ THEN at ELSE @]
    BY <1>1 DEF Presence!Reported
  <2>2. /\ claims < MaxClaims /\ claims' = claims + 1 /\ now' = now /\ hand' = hand
    BY <1>1 DEF Presence!Reported
  <2>3. at \in Nat /\ Ttl \in Int
    BY <2>1, PresenceFacts
  <2> QED
    BY <2>1, <2>2, <2>3, ClaimSafe
<1>2. ASSUME NEW n \in Nodes, Presence!ClaimPresence(n)
      PROVE  PresenceInv'
  <2>1. PICK ttl \in Requested \cup {0, -1} : lease' = Presence!Claimed(n, TRUE, "sure", now, ttl, TRUE)
    BY <1>2 DEF Presence!ClaimPresence
  <2>2. /\ claims < MaxClaims /\ claims' = claims + 1 /\ now' = now /\ auto' = auto
        /\ hand' = [hand EXCEPT ![n] = now]
    BY <1>2 DEF Presence!ClaimPresence
  <2>3. ttl \in Int
    BY PresenceFacts
  <2> QED
    BY <1>0, <2>1, <2>2, <2>3, ClaimSafe
<1>3. ASSUME \A n \in Nodes : lease'[n] \in {lease[n], NoNode}, lease' \in [Nodes -> Lease \cup {NoNode}],
             UNCHANGED <<claims, auto, hand>>, now' \in Nat
      PROVE  PresenceInv'
  <2>1. \A n \in Nodes : lease'[n] # NoNode => Backed(n)'
    BY <1>3 DEF PresenceInv, Backed
  <2> QED
    BY <1>0, <1>3, <2>1 DEF PresenceInv, Presence!TypeOK, Lease, Presence!Never
<1>4. ASSUME NEW n \in Nodes, Presence!ReleasePresence(n)
      PROVE  PresenceInv'
  BY <1>0, <1>3, <1>4 DEF Presence!ReleasePresence
<1>5. CASE Presence!Sweep
  BY <1>0, <1>3, <1>5 DEF Presence!Sweep
<1>6. CASE Presence!Tick
  BY <1>0, <1>3, <1>6 DEF Presence!Tick
<1>7. CASE UNCHANGED Presence!vars
  BY <1>0, <1>3, <1>7 DEF Presence!vars
<1> QED
  BY <1>1, <1>2, <1>4, <1>5, <1>6, <1>7 DEF Presence!Next

LEMMA PresenceStart == Presence!Init => PresenceInv
  BY PresenceFacts DEF Presence!Init, PresenceInv, Presence!TypeOK, Presence!Never

\* Among leases there is a freshest.
LEMMA Freshest ==
  ASSUME PresenceInv, NEW S \in SUBSET Presence!Live, S # {}
  PROVE  \E n \in S : \A m \in S : lease[m].at <= lease[n].at
<1>1. S \subseteq Nodes /\ IsFiniteSet(S)
  BY PresenceFacts, FS_Subset DEF Presence!Live
<1>2. \A n \in S : lease[n].at \in Nat
  BY <1>1 DEF PresenceInv, Presence!TypeOK, Presence!Live
<1> DEFINE f == [n \in S |-> lease[n].at]
<1>3. \A n \in S : f[n] \in Int /\ f[n] = lease[n].at
  BY <1>2
<1> HIDE DEF f
<1>4. \E n \in S : \A m \in S : f[m] <= f[n]
  BY <1>1, <1>3, Greatest
<1> QED
  BY <1>3, <1>4

LEMMA LiveFacts ==
  ASSUME PresenceInv, NEW n \in Presence!Live
  PROVE  /\ n \in Nodes /\ lease[n] \in Lease /\ lease[n] # NoNode /\ Backed(n)
         /\ lease[n].at \in Nat /\ lease[n].until \in Nat /\ now <= lease[n].until
  BY DEF PresenceInv, Presence!TypeOK, Presence!Live, Lease

LEMMA ActiveIsLive ==
  ASSUME NEW n \in Presence!Active
  PROVE  n \in Presence!Live
  BY DEF Presence!Active, Presence!Pins, Presence!Sure, Presence!Latest

\* Of leases that are sure, the freshest is named unless another is too close.
LEMMA SureApart ==
  ASSUME PresenceInv, NEW n \in Presence!Sure, n \in Presence!Latest(Presence!Sure),
         ~Presence!Collides(Presence!Sure, n), NEW m \in Presence!Sure \ {n}
  PROVE  Presence!Gap(n, m) > Window
<1> DEFINE S == Presence!Sure
<1>1. S \ {n} \in SUBSET Presence!Live /\ S \ {n} # {}
  BY DEF Presence!Sure
<1>2. PICK x \in S \ {n} : \A y \in S \ {n} : lease[y].at <= lease[x].at
  BY <1>1, Freshest
<1>3. ~(Presence!Gap(n, x) <= Window)
  BY <1>2 DEF Presence!Collides, Presence!Sure
<1>4. lease[m].at <= lease[x].at /\ lease[x].at <= lease[n].at
  BY <1>2 DEF Presence!Latest
<1>5. {lease[m].at, lease[x].at, lease[n].at} \subseteq Nat /\ Window \in Nat
  BY <1>1, <1>2, LiveFacts, PresenceFacts DEF Presence!Sure
<1> QED
  BY <1>3, <1>4, <1>5 DEF Presence!Gap

\* Automatic and manual claims of any lifetime, late reports, releases and
\* sweeps: a node nobody was seen at attracts no calls, two users at two
\* machines are never guessed between, and the evidence says which of the two
\* it was when no node is named.
THEOREM PresenceIsSafe == Presence!Spec => []PresenceSafe
<1>1. PresenceInv => Presence!AbsentForgotten
  <2> SUFFICES ASSUME PresenceInv, NEW n \in Presence!Active
               PROVE  \/ auto[n] # Presence!Never /\ now - auto[n] <= Ttl
                      \/ hand[n] # Presence!Never /\ now - hand[n] <= 6 * ManualTtl
    BY DEF Presence!AbsentForgotten
  <2>1. /\ n \in Nodes /\ Backed(n) /\ lease[n].at \in Nat /\ lease[n].until \in Nat /\ now <= lease[n].until
    BY ActiveIsLive, LiveFacts
  <2>2. now \in Nat /\ auto[n] \in Nat \cup {-1} /\ hand[n] \in Nat \cup {-1}
    BY <2>1 DEF PresenceInv, Presence!TypeOK, Presence!Never
  <2> QED
    BY <2>1, <2>2, PresenceFacts DEF Backed, Presence!Never
<1>2. PresenceInv => Presence!NoGuess
  <2> SUFFICES ASSUME PresenceInv, NEW n \in Presence!Active, ~lease[n].pinned, NEW m \in Presence!Live \ {n},
                      lease[m].conf # "low", lease[n].conf # "low"
               PROVE  Presence!Gap(n, m) > Window
    BY DEF Presence!NoGuess
  <2>1. n \in Presence!Live /\ n \in Presence!Sure /\ m \in Presence!Sure \ {n}
    BY ActiveIsLive DEF Presence!Sure
  <2>2. n \notin Presence!Pins
    BY DEF Presence!Pins
  <2>3. Presence!Pins = {}
    BY <2>2 DEF Presence!Active
  <2>4. n \in Presence!Latest(Presence!Sure) /\ ~Presence!Collides(Presence!Sure, n)
    BY <2>1, <2>3 DEF Presence!Active
  <2> QED
    BY <2>1, <2>4, SureApart
<1>3. PresenceInv => Presence!AmbiguityExplained
  <2> SUFFICES ASSUME PresenceInv, Presence!Active = {}
               PROVE  Presence!Ambiguous <=> Presence!Live # {}
    BY DEF Presence!AmbiguityExplained
  <2>1. Presence!Pins = {}
    <3> SUFFICES ASSUME Presence!Pins # {} PROVE FALSE
      OBVIOUS
    <3>1. Presence!Pins \subseteq Nodes /\ IsFiniteSet(Presence!Pins)
      BY PresenceFacts, FS_Subset DEF Presence!Pins, Presence!Live
    <3> DEFINE f == [n \in Presence!Pins |-> Presence!Rank[lease[n].conf]]
    <3>2. \A n \in Presence!Pins : f[n] \in Int /\ f[n] = Presence!Rank[lease[n].conf]
      <4>1. \A n \in Presence!Pins : lease[n].conf \in {"low", "high", "sure"}
        BY LiveFacts DEF Presence!Pins, Lease
      <4>2. /\ Presence!Rank["low"] = 0 /\ Presence!Rank["high"] = 1 /\ Presence!Rank["sure"] = 2
        BY DEF Presence!Rank
      <4> QED
        BY <4>1, <4>2
    <3> HIDE DEF f
    <3>3. PICK n \in Presence!Pins : \A m \in Presence!Pins : f[m] <= f[n]
      BY <3>1, <3>2, Greatest
    <3> QED
      BY <3>2, <3>3 DEF Presence!Active
  <2>2. CASE Presence!Sure = {}
    <3>1. ~Presence!Ambiguous
      BY <2>2 DEF Presence!Ambiguous, Presence!Latest
    <3>2. Presence!Live = {}
      <4> SUFFICES ASSUME Presence!Live # {} PROVE FALSE
        OBVIOUS
      <4>1. PICK n \in Presence!Live : \A m \in Presence!Live : lease[m].at <= lease[n].at
        BY Freshest
      <4>2. n \in Presence!Latest(Presence!Live)
        BY <4>1 DEF Presence!Latest
      <4>3. Presence!Collides(Presence!Live, n)
        BY <2>1, <2>2, <4>2 DEF Presence!Active
      <4> QED
        BY <2>2, <4>3 DEF Presence!Collides, Presence!Sure
    <3> QED
      BY <3>1, <3>2
  <2>3. CASE Presence!Sure # {}
    <3>1. Presence!Sure \in SUBSET Presence!Live
      BY DEF Presence!Sure
    <3>2. PICK n \in Presence!Sure : \A m \in Presence!Sure : lease[m].at <= lease[n].at
      BY <2>3, <3>1, Freshest
    <3>3. n \in Presence!Latest(Presence!Sure)
      BY <3>2 DEF Presence!Latest
    <3>4. Presence!Collides(Presence!Sure, n)
      BY <2>1, <2>3, <3>3 DEF Presence!Active
    <3>5. Presence!Ambiguous
      BY <3>3, <3>4 DEF Presence!Collides, Presence!Ambiguous, Presence!Latest
    <3> QED
      BY <2>3, <3>1, <3>5
  <2> QED
    BY <2>2, <2>3
<1>4. PresenceInv => PresenceSafe
  BY <1>1, <1>2, <1>3 DEF PresenceSafe, PresenceInv
<1> QED
  BY <1>4, PresenceStart, PresenceStep, PTL DEF Presence!Spec

----------------------------------------------------------------------------
(* Routing: where a call goes *)

Places == Nodes \cup {NoNode}

LEMMA RouterFacts ==
  /\ DefaultNode \in Nodes /\ NoNode \notin Nodes /\ NoNode \notin Router!Items
  /\ NoNode \notin Nodes \X Router!Items /\ Router!Items \cap (Nodes \X Router!Items) = {}
  /\ IsFiniteSet(Calls) /\ MaxChanges \in Nat /\ MaxFlaps \in Nat /\ AuditWindow \in Nat /\ Snapshots \in Nat
  /\ Router!Items = Sessions \cup Workspaces
  BY HubAssumption DEF Router!RoutingAssumption, Router!IsFiniteSet, IsFiniteSet, Router!Items

\* The lookups find nodes of the tables only.
LEMMA LookupsFindNodes ==
  ASSUME NEW ref
  PROVE  Router!BySession(ref) \subseteq Nodes /\ Router!ByWorkspace(ref) \subseteq Nodes
<1>1. \A i : Router!Holders(i) \subseteq Nodes
  BY DEF Router!Holders
<1>2. \A S : Router!Only(S) \subseteq S
  BY DEF Router!Only
<1>3. Router!ById(ref) \subseteq Nodes
  BY <1>1, <1>2 DEF Router!ById
<1>4. {r[1] : r \in Router!Only(Router!RowsAt(ref))} \subseteq Nodes
  <2>1. Router!Only(Router!RowsAt(ref)) \subseteq Nodes \X Workspaces
    BY <1>2 DEF Router!RowsAt
  <2> QED
    BY <2>1
<1>5. Router!ByWorkspace(ref) \subseteq Nodes
  BY <1>3, <1>4 DEF Router!ByWorkspace
<1> QED
  BY <1>3, <1>5 DEF Router!BySession

LEMMA ToNode ==
  ASSUME NEW via, NEW S \in SUBSET Nodes
  PROVE  /\ Router!To(via, S).via = via /\ Router!To(via, S).node \in Places
         /\ Router!To(via, S).node = NoNode <=> S = {}
         /\ \A n : S = {n} => Router!To(via, S).node = n
  BY RouterFacts DEF Router!To, Places

\* The rule that decides is the first that names a node, or the last.
LEMMA FirstRule ==
  ASSUME NEW r
  PROVE  /\ Router!First(Router!Rules(r)).node \in Places
         /\ Router!First(Router!Rules(r)).via \in {"session_owner", "workspace_owner", "presence", "default"}
         /\ Router!BySession(r.session) # {} =>
              Router!First(Router!Rules(r)) = Router!To("session_owner", Router!BySession(r.session))
         /\ Router!BySession(r.session) = {} => Router!First(Router!Rules(r)).via # "session_owner"
<1> DEFINE a == Router!To("session_owner", Router!BySession(r.session))
           b == Router!To("workspace_owner", Router!ByWorkspace(r.workspace))
           c == Router!To("presence", {presence} \cap Nodes)
           d == Router!To("default", {DefaultNode} \cap healthy \cap Nodes)
           e == Router!To("default", {DefaultNode} \cap healthy)
<1>1. /\ a.via = "session_owner" /\ a.node \in Places
      /\ a.node = NoNode <=> Router!BySession(r.session) = {}
  BY LookupsFindNodes, ToNode
<1>2. b.via = "workspace_owner" /\ b.node \in Places
  BY LookupsFindNodes, ToNode
<1>3. c.via = "presence" /\ c.node \in Places
  BY ToNode
<1>4. e.via = "default" /\ e.node \in Places
  <2>1. {DefaultNode} \cap healthy \in SUBSET Nodes
    BY RouterFacts
  <2> QED
    BY <2>1, ToNode
<1>5. Router!Rules(r) = <<a, b, c, e>>
  BY DEF Router!Rules
<1> HIDE DEF a, b, c, d, e
<1> DEFINE rules == <<a, b, c, e>>
           ok(i) == /\ rules[i].node # NoNode \/ i = Len(rules)
                    /\ \A j \in 1 .. i - 1 : rules[j].node = NoNode
<1>6. DOMAIN rules = 1 .. 4 /\ Len(rules) = 4 /\ rules[1] = a /\ rules[2] = b /\ rules[3] = c /\ rules[4] = e
  OBVIOUS
<1>7. \E i \in DOMAIN rules : ok(i)
  <2>1. CASE a.node # NoNode
    BY <1>6, <2>1
  <2>2. CASE a.node = NoNode /\ b.node # NoNode
    <3>1. \A j \in 1 .. 2 - 1 : j = 1
      OBVIOUS
    <3> QED
      BY <1>6, <2>2, <3>1
  <2>3. CASE a.node = NoNode /\ b.node = NoNode /\ c.node # NoNode
    <3>1. \A j \in 1 .. 3 - 1 : j = 1 \/ j = 2
      OBVIOUS
    <3> QED
      BY <1>6, <2>3, <3>1
  <2>4. CASE a.node = NoNode /\ b.node = NoNode /\ c.node = NoNode
    <3>1. \A j \in 1 .. 4 - 1 : j = 1 \/ j = 2 \/ j = 3
      OBVIOUS
    <3> QED
      BY <1>6, <2>4, <3>1
  <2> QED
    BY <2>1, <2>2, <2>3, <2>4
<1>8. PICK i \in DOMAIN rules : ok(i) /\ Router!First(rules) = rules[i]
  <2>1. Router!First(rules) = rules[CHOOSE i \in DOMAIN rules : ok(i)]
    BY DEF Router!First
  <2> HIDE DEF rules, ok
  <2> QED
    BY <1>7, <2>1
<1>9. i \in {1, 2, 3, 4} /\ (i # 1 => a.node = NoNode) /\ (i = 1 => a.node # NoNode)
  <2>1. i \in 1 .. 4
    BY <1>6
  <2>2. i # 1 => 1 \in 1 .. i - 1
    BY <2>1
  <2> QED
    BY <1>6, <1>8, <2>1, <2>2
<1> HIDE DEF rules
<1> QED
  BY <1>1, <1>2, <1>3, <1>4, <1>5, <1>6, <1>8, <1>9 DEF rules, a

LEMMA RouteNode ==
  ASSUME NEW r
  PROVE  Router!Route(r).node \in Places
<1>1. CASE r.target # NoNode
  BY <1>1, ToNode DEF Router!Route
<1>2. CASE r.target = NoNode
  BY <1>2, FirstRule DEF Router!Route
<1> QED
  BY <1>1, <1>2

\* Two holders name none.
LEMMA SharedNamesNone ==
  ASSUME NEW s \in Sessions, Router!Cardinality(Router!Holders(s)) > 1
  PROVE  Router!BySession(s) = {}
<1>1. s \in Router!Items /\ s # NoNode
  BY RouterFacts
<1>2. Router!Cardinality(Router!Holders(s)) # 1
  <2>1. ~(1 > 1)
    OBVIOUS
  <2> QED
    BY <2>1
<1> QED
  BY <1>1, <1>2 DEF Router!BySession, Router!ById, Router!Only

\* One holder, or a global id of a holder, names it.
LEMMA HolderIsNamed ==
  ASSUME NEW n \in Nodes, NEW s \in Sessions, NEW ref \in {s, <<n, s>>}, s \in catalog[n],
         \A o \in Nodes \ {n} : s \notin catalog[o]
  PROVE  Router!BySession(ref) = {n}
<1>1. s \in Router!Items /\ s # NoNode /\ <<n, s>> # NoNode /\ <<n, s>> \notin Router!Items
  BY RouterFacts
<1>2. Router!Holders(s) = {n}
  BY DEF Router!Holders
<1>3. Router!Cardinality({n}) = 1
  BY FS_Singleton DEF Router!Cardinality, Cardinality
<1>4. CASE ref = s
  BY <1>1, <1>2, <1>3, <1>4 DEF Router!BySession, Router!ById, Router!Only
<1>5. CASE ref = <<n, s>>
  BY <1>1, <1>2, <1>5 DEF Router!BySession, Router!ById
<1> QED
  BY <1>4, <1>5

----------------------------------------------------------------------------
(* Routing: calls, their audit rows, and aggregated reads *)

CallRec ==
  [stage : {"idle", "rejected", "sent", "cut", "ok", "error"}, req : RouterAsks \cup {NoNode},
   via : {"none", "explicit", "session_owner", "workspace_owner", "presence", "default"}, node : Places]

Row == [call : Calls, node : Nodes, result : {"pending", "ok", "error"}]

Read == [stage : {"idle", "run", "done"}, todo : SUBSET Nodes, got : SUBSET Nodes, steady : SUBSET Nodes]

CallsTyped ==
  /\ call \in [Calls -> CallRec]
  /\ \A k \in Calls : call[k].stage \in {"sent", "cut", "ok", "error"} => call[k].node # NoNode

WorldTyped ==
  /\ has \in [Nodes -> SUBSET Router!Items] /\ taken \in [Nodes -> SUBSET SUBSET Router!Items]
  /\ catalog \in [Nodes -> SUBSET Router!Items] /\ told \in [Nodes -> SUBSET Router!Items]
  /\ connected \subseteq Nodes /\ healthy \subseteq Nodes /\ presence \in Nodes \cup {"empty", "ambiguous"}
  /\ changes \in 0 .. MaxChanges /\ flaps \in 0 .. MaxFlaps

\* A node that answered so far is asked yet, or was.
ReadSound ==
  /\ agg \in Read /\ agg.steady \subseteq agg.todo \cup agg.got
  /\ agg.stage = "done" => agg.todo = {}

\* A call has at most one row, from the moment it was sent.
RowsSound ==
  /\ audit \in Seq(Row)
  /\ \A i \in 1 .. Len(audit) : call[audit[i].call].stage \notin {"idle", "rejected"}
  /\ \A i, j \in 1 .. Len(audit) : audit[i].call = audit[j].call => i = j

\* The row of a call is pending while it is under way, and has its result in
\* the end; or so many calls came after it that it was out of sight.
RowOf(k, S) == \E i \in 1 .. Len(audit) : audit[i].call = k /\ audit[i].result \in S

SettledOrBuried(k) ==
  \E i \in 1 .. Len(audit) :
    /\ audit[i].call = k
    /\ \/ audit[i].result = call[k].stage
       \/ audit[i].result = "pending" /\ Router!Buried(i)

AuditSound ==
  Audited => \A k \in Calls :
    /\ call[k].stage \in {"sent", "cut"} => RowOf(k, {"pending"})
    /\ call[k].stage \in {"ok", "error"} => SettledOrBuried(k)

RouterInv == CallsTyped /\ WorldTyped /\ ReadSound /\ RowsSound /\ AuditSound

LEMMA CallFieldsOf ==
  ASSUME CallsTyped, NEW k \in Calls
  PROVE  /\ call[k] \in CallRec /\ call[k].node \in Places
         /\ call[k].stage \in {"idle", "rejected", "sent", "cut", "ok", "error"}
         /\ call[k].stage \in {"sent", "cut", "ok", "error"} => call[k].node # NoNode
  BY DEF CallsTyped, CallRec

LEMMA RowsTyped ==
  ASSUME RowsSound
  PROVE  /\ Len(audit) \in Nat /\ DOMAIN audit = 1 .. Len(audit) /\ audit \in Seq(Row)
         /\ \A i \in 1 .. Len(audit) : audit[i] \in Row /\ audit[i].call \in Calls
<1>1. audit \in Seq(Row)
  BY DEF RowsSound
<1>2. \A i \in 1 .. Len(audit) : audit[i] \in Row
  BY <1>1, ElementOfSeq
<1> QED
  BY <1>1, <1>2, LenProperties DEF Row

LEMMA SameLength ==
  ASSUME NEW m \in Nat, NEW n \in Nat, 1 .. m = 1 .. n
  PROVE  m = n
<1>1. CASE m < n
  <2>1. n \in 1 .. m
    BY <1>1
  <2> QED
    BY <1>1, <2>1
<1>2. CASE n < m
  <2>1. m \in 1 .. n
    BY <1>2
  <2> QED
    BY <1>2, <2>1
<1> QED
  BY <1>1, <1>2

\* A step that sends and ends no call leaves the rows as sound as they were.
LEMMA AuditStays ==
  ASSUME RouterInv, audit' = audit,
         \A k \in Calls : \/ call'[k].stage = call[k].stage
                          \/ call[k].stage = "sent" /\ call'[k].stage = "cut"
                          \/ call[k].stage = "idle" /\ (Audited => call'[k].stage = "rejected")
                             /\ call'[k].stage \in {"rejected", "sent"}
  PROVE  RowsSound' /\ AuditSound'
<1>1. RowsSound'
  <2>1. \A i \in 1 .. Len(audit) : audit[i].call \in Calls
    BY RowsTyped DEF RouterInv
  <2> QED
    BY <2>1 DEF RouterInv, RowsSound
<1>2. ASSUME Audited, NEW k \in Calls
      PROVE  /\ call'[k].stage \in {"sent", "cut"} => RowOf(k, {"pending"})'
             /\ call'[k].stage \in {"ok", "error"} => SettledOrBuried(k)'
  <2>1. /\ call[k].stage \in {"sent", "cut"} => RowOf(k, {"pending"})
        /\ call[k].stage \in {"ok", "error"} => SettledOrBuried(k)
    BY <1>2 DEF RouterInv, AuditSound
  <2>2. RowOf(k, {"pending"}) => RowOf(k, {"pending"})'
    BY DEF RowOf
  <2>3. CASE call'[k].stage = call[k].stage
    BY <2>1, <2>2, <2>3 DEF SettledOrBuried, Router!Buried
  <2>4. CASE call'[k].stage # call[k].stage
    BY <1>2, <2>1, <2>2, <2>4
  <2> QED
    BY <2>3, <2>4
<1> QED
  BY <1>1, <1>2 DEF AuditSound

LEMMA DecideSafe ==
  ASSUME RouterInv, NEW k \in Calls, NEW r \in RouterAsks, Router!Decide(k, r)
  PROVE  RouterInv' /\ UNCHANGED <<has, taken, catalog, told>>
<1> DEFINE to == Router!Route(r)
           goes == to.node # NoNode /\ to.node \in connected
           q == [stage |-> IF goes THEN "sent" ELSE "rejected", req |-> r, via |-> to.via, node |-> to.node]
           row == [call |-> k, node |-> to.node, result |-> "pending"]
<1>1. /\ call[k].stage = "idle" /\ call' = [call EXCEPT ![k] = q]
      /\ audit' = IF goes /\ Audited THEN Append(audit, row) ELSE audit
      /\ UNCHANGED <<has, taken, catalog, told, changes, connected, healthy, presence, flaps, agg>>
  BY DEF Router!Decide, Router!itemVars, Router!worldVars
<1>2. to.node \in Places /\ to.via \in {"explicit", "session_owner", "workspace_owner", "presence", "default"}
  <2>1. CASE r.target # NoNode
    BY <2>1, ToNode, RouteNode DEF Router!Route
  <2>2. CASE r.target = NoNode
    BY <2>2, FirstRule, RouteNode DEF Router!Route
  <2> QED
    BY <2>1, <2>2
<1>3. /\ q \in CallRec /\ q.stage = (IF goes THEN "sent" ELSE "rejected") /\ q.node = to.node
  BY <1>2 DEF CallRec
<1>4. goes => row \in Row
  BY <1>2 DEF Row, Places
<1>5. goes => to.node # NoNode
  OBVIOUS
<1> HIDE DEF to, goes, q, row
<1>6. /\ call' \in [Calls -> CallRec] /\ call'[k] = q /\ \A x \in Calls : x # k => call'[x] = call[x]
  BY <1>1, <1>3 DEF RouterInv, CallsTyped
<1>7. CallsTyped'
  BY <1>3, <1>5, <1>6 DEF RouterInv, CallsTyped
<1>8. WorldTyped' /\ ReadSound'
  BY <1>1 DEF RouterInv, WorldTyped, ReadSound
<1>9. RowsSound' /\ AuditSound'
  <2>1. CASE ~(goes /\ Audited)
    <3>1. audit' = audit /\ call'[k].stage \in {"rejected", "sent"} /\ (Audited => call'[k].stage = "rejected")
      BY <1>1, <1>3, <1>6, <2>1
    <3> QED
      BY <1>1, <1>6, <3>1, AuditStays
  <2>2. CASE goes /\ Audited
    <3>1. /\ audit' \in Seq(Row) /\ Len(audit') = Len(audit) + 1 /\ Len(audit) \in Nat
          /\ \A i \in 1 .. Len(audit) : audit'[i] = audit[i]
          /\ audit'[Len(audit) + 1] = row
      BY <1>1, <1>4, <2>2, AppendProperties, LenProperties DEF RouterInv, RowsSound
    <3>2. row.call = k /\ row.result = "pending"
      BY DEF row
    <3>3. \A i \in 1 .. Len(audit) : audit[i].call \in Calls /\ audit[i].call # k
      BY <1>1, RowsTyped DEF RouterInv, RowsSound
    <3>4. \A i \in 1 .. Len(audit') : i = Len(audit) + 1 \/ i \in 1 .. Len(audit)
      BY <3>1
    <3>5. RowsSound'
      BY <1>3, <1>6, <2>2, <3>1, <3>2, <3>3, <3>4 DEF RouterInv, RowsSound
    <3>6. ASSUME NEW x \in Calls
          PROVE  /\ call'[x].stage \in {"sent", "cut"} => RowOf(x, {"pending"})'
                 /\ call'[x].stage \in {"ok", "error"} => SettledOrBuried(x)'
      <4>1. \A i \in 1 .. Len(audit) : i \in 1 .. Len(audit')
        BY <3>1
      <4>2. CASE x = k
        <5>1. Len(audit) + 1 \in 1 .. Len(audit')
          BY <3>1
        <5>2. call'[x].stage = "sent"
          BY <1>3, <1>6, <2>2, <4>2
        <5> QED
          BY <3>1, <3>2, <4>2, <5>1, <5>2 DEF RowOf
      <4>3. CASE x # k
        <5>1. call'[x] = call[x]
          BY <1>6, <4>3
        <5>2. RowOf(x, {"pending"}) => RowOf(x, {"pending"})'
          BY <3>1, <4>1 DEF RowOf
        <5>3. SettledOrBuried(x) => SettledOrBuried(x)'
          <6> SUFFICES ASSUME NEW i \in 1 .. Len(audit), audit[i].call = x,
                              \/ audit[i].result = call[x].stage
                              \/ audit[i].result = "pending" /\ AuditWindow <= Len(audit) - i
                       PROVE  SettledOrBuried(x)'
            BY DEF SettledOrBuried, Router!Buried
          <6>1. audit'[i] = audit[i] /\ i \in 1 .. Len(audit')
            BY <3>1, <4>1
          <6>2. AuditWindow <= Len(audit) - i => AuditWindow <= Len(audit') - i
            BY <3>1, RouterFacts
          <6> QED
            BY <5>1, <6>1, <6>2 DEF SettledOrBuried, Router!Buried
        <5> QED
          BY <2>2, <5>1, <5>2, <5>3 DEF RouterInv, AuditSound
      <4> QED
        BY <4>2, <4>3
    <3> QED
      BY <3>5, <3>6 DEF AuditSound
  <2> QED
    BY <2>1, <2>2
<1> QED
  BY <1>1, <1>7, <1>8, <1>9 DEF RouterInv

LEMMA EndedSafe ==
  ASSUME RouterInv, NEW k \in Calls, NEW result \in {"ok", "error"}, Router!Ended(k, result)
  PROVE  RouterInv' /\ UNCHANGED <<has, taken, catalog, told>>
<1>1. /\ call[k].stage \in {"sent", "cut"} /\ call' = [call EXCEPT ![k].stage = result]
      /\ audit' = [i \in DOMAIN audit |->
           IF i \in Router!Rows /\ audit[i].call = k /\ audit[i].result = "pending"
           THEN [audit[i] EXCEPT !.result = result] ELSE audit[i]]
      /\ UNCHANGED <<has, taken, catalog, told, changes, connected, healthy, presence, flaps, agg>>
  BY DEF Router!Ended, Router!Settled, Router!itemVars, Router!worldVars
<1>2. /\ call' \in [Calls -> CallRec] /\ call'[k].stage = result /\ call'[k].node = call[k].node
      /\ \A x \in Calls : x # k => call'[x] = call[x]
  BY <1>1 DEF RouterInv, CallsTyped, CallRec
<1>3. CallsTyped'
  BY <1>1, <1>2 DEF RouterInv, CallsTyped
<1>4. WorldTyped' /\ ReadSound'
  BY <1>1 DEF RouterInv, WorldTyped, ReadSound
<1>5. /\ Len(audit) \in Nat /\ DOMAIN audit = 1 .. Len(audit) /\ \A i \in 1 .. Len(audit) : audit[i] \in Row
  BY RowsTyped DEF RouterInv
<1>6. \A i \in 1 .. Len(audit) : [audit[i] EXCEPT !.result = result] \in Row
  BY <1>5 DEF Row
<1>7. /\ audit' \in [1 .. Len(audit) -> Row]
      /\ \A i \in 1 .. Len(audit) : audit'[i].call = audit[i].call /\ audit'[i].node = audit[i].node
  <2>1. ASSUME NEW i \in 1 .. Len(audit)
        PROVE  audit'[i] \in Row /\ audit'[i].call = audit[i].call /\ audit'[i].node = audit[i].node
    <3>1. audit'[i] \in {audit[i], [audit[i] EXCEPT !.result = result]}
      BY <1>1, <1>5
    <3> QED
      BY <1>5, <1>6, <3>1 DEF Row
  <2> QED
    BY <1>1, <1>5, <2>1
<1>8. audit' \in Seq(Row) /\ Len(audit') = Len(audit)
  <2>1. audit' \in Seq(Row)
    BY <1>5, <1>7, SeqDef
  <2>2. Len(audit') \in Nat /\ DOMAIN audit' = 1 .. Len(audit') /\ DOMAIN audit' = 1 .. Len(audit)
    BY <1>7, <2>1, LenProperties
  <2>3. Len(audit') = Len(audit)
    BY <1>5, <2>2, SameLength
  <2> QED
    BY <2>1, <2>3
<1>9. RowsSound'
  <2>1. \A i \in 1 .. Len(audit) : call'[audit[i].call].stage \notin {"idle", "rejected"}
    <3>1. \A i \in 1 .. Len(audit) : audit[i].call \in Calls
      BY <1>5 DEF Row
    <3> QED
      BY <1>2, <3>1 DEF RouterInv, RowsSound
  <2> QED
    BY <1>7, <1>8, <2>1 DEF RouterInv, RowsSound
<1>10. ASSUME Audited, NEW x \in Calls
       PROVE  /\ call'[x].stage \in {"sent", "cut"} => RowOf(x, {"pending"})'
              /\ call'[x].stage \in {"ok", "error"} => SettledOrBuried(x)'
  <2>1. CASE x = k
    <3>1. PICK i \in 1 .. Len(audit) : audit[i].call = k /\ audit[i].result = "pending"
      BY <1>1, <1>10 DEF RouterInv, AuditSound, RowOf
    <3>2. CASE i \in Router!Rows
      <4>1. audit'[i].result = result
        BY <1>1, <1>5, <3>1, <3>2 DEF Row
      <4> QED
        BY <1>2, <1>7, <1>8, <2>1, <3>1, <4>1 DEF SettledOrBuried
    <3>3. CASE i \notin Router!Rows
      <4>1. AuditWindow <= Len(audit) - i
        BY <1>5, <3>3, RouterFacts DEF Router!Rows
      <4>2. audit'[i] = audit[i]
        BY <1>1, <1>5, <3>3
      <4> QED
        BY <1>2, <1>7, <1>8, <2>1, <3>1, <4>1, <4>2 DEF SettledOrBuried, Router!Buried
    <3> QED
      BY <3>2, <3>3
  <2>2. CASE x # k
    <3>1. call'[x] = call[x]
      BY <1>2, <2>2
    <3>2. \A i \in 1 .. Len(audit) : audit[i].call = x => audit'[i] = audit[i]
      BY <1>1, <1>5, <2>2
    <3>3. RowOf(x, {"pending"}) => RowOf(x, {"pending"})'
      BY <1>8, <3>2 DEF RowOf
    <3>4. SettledOrBuried(x) => SettledOrBuried(x)'
      BY <1>8, <3>1, <3>2 DEF SettledOrBuried, Router!Buried
    <3> QED
      BY <1>10, <3>1, <3>3, <3>4 DEF RouterInv, AuditSound
  <2> QED
    BY <2>1, <2>2
<1> QED
  BY <1>1, <1>3, <1>4, <1>9, <1>10 DEF RouterInv, AuditSound

\* Reads, items and the world: none of them sends or ends a call.
LEMMA QuietStep ==
  ASSUME RouterInv, UNCHANGED <<call, audit>>
  PROVE  CallsTyped' /\ RowsSound' /\ AuditSound'
<1>1. CallsTyped'
  BY DEF RouterInv, CallsTyped
<1>2. RowsSound' /\ AuditSound'
  BY AuditStays
<1> QED
  BY <1>1, <1>2

LEMMA ReadStepSafe ==
  ASSUME RouterInv, Router!ReadStarts \/ (\E n \in Nodes : Router!ReadNode(n)) \/ Router!ReadEnds
  PROVE  RouterInv' /\ UNCHANGED <<has, taken, catalog, told>>
<1>1. /\ UNCHANGED <<has, taken, catalog, told, changes, connected, healthy, presence, flaps, call, audit>>
  BY DEF Router!ReadStarts, Router!ReadNode, Router!ReadEnds, Router!itemVars, Router!worldVars, Router!callVars
<1>2. agg \in Read /\ agg.steady \subseteq agg.todo \cup agg.got /\ healthy \subseteq Nodes
  BY DEF RouterInv, ReadSound, WorldTyped
<1>3. CASE Router!ReadStarts
  <2>1. agg' = [stage |-> "run", todo |-> healthy, got |-> {}, steady |-> healthy \cap connected]
    BY <1>3 DEF Router!ReadStarts
  <2>2. ReadSound'
    BY <1>2, <2>1 DEF ReadSound, Read
  <2> QED
    BY <1>1, <2>2, QuietStep DEF RouterInv, WorldTyped
<1>4. ASSUME NEW n \in Nodes, Router!ReadNode(n)
      PROVE  RouterInv'
  <2>1. /\ agg.stage = "run" /\ n \in agg.todo
        /\ \/ agg' = [agg EXCEPT !.todo = agg.todo \ {n}, !.got = agg.got \cup {n}]
           \/ agg' = [agg EXCEPT !.todo = agg.todo \ {n}, !.steady = agg.steady \ {n}]
    BY <1>4 DEF Router!ReadNode, Router!Skip
  <2>2. CASE agg' = [agg EXCEPT !.todo = agg.todo \ {n}, !.got = agg.got \cup {n}]
    <3>1. /\ agg'.stage = "run" /\ agg'.todo = agg.todo \ {n} /\ agg'.got = agg.got \cup {n}
          /\ agg'.steady = agg.steady /\ agg' \in Read
      BY <1>2, <2>1, <2>2 DEF Read
    <3>2. ReadSound'
      BY <1>2, <3>1 DEF ReadSound
    <3> QED
      BY <1>1, <3>2, QuietStep DEF RouterInv, WorldTyped
  <2>3. CASE agg' = [agg EXCEPT !.todo = agg.todo \ {n}, !.steady = agg.steady \ {n}]
    <3>1. /\ agg'.stage = "run" /\ agg'.todo = agg.todo \ {n} /\ agg'.got = agg.got
          /\ agg'.steady = agg.steady \ {n} /\ agg' \in Read
      BY <1>2, <2>1, <2>3 DEF Read
    <3>2. ReadSound'
      BY <1>2, <3>1 DEF ReadSound
    <3> QED
      BY <1>1, <3>2, QuietStep DEF RouterInv, WorldTyped
  <2> QED
    BY <2>1, <2>2, <2>3
<1>5. CASE Router!ReadEnds
  <2>1. agg.todo = {} /\ agg' = [agg EXCEPT !.stage = "done"]
    BY <1>5 DEF Router!ReadEnds
  <2>2. /\ agg'.todo = {} /\ agg'.got = agg.got /\ agg'.steady = agg.steady /\ agg' \in Read
    BY <1>2, <2>1 DEF Read
  <2>3. ReadSound'
    BY <1>2, <2>1, <2>2 DEF ReadSound
  <2> QED
    BY <1>1, <2>3, QuietStep DEF RouterInv, WorldTyped
<1> QED
  BY <1>1, <1>3, <1>4, <1>5

\* What the hub knows for sure after it applied snapshot s of n.
StillTold(n, s) == {i \in told[n] \cup (s \cap has[n]) : \A t \in taken'[n] : i \in t}

LEMMA ItemStepSafe ==
  ASSUME RouterInv, NEW n \in Nodes,
         \/ \E i \in Router!Items : Router!ItemChanges(n, i)
         \/ Router!Collect(n)
         \/ \E s \in taken[n] : Router!Reconcile(n, s)
  PROVE  RouterInv'
<1>1. UNCHANGED <<connected, healthy, presence, flaps, call, audit, agg>>
  BY DEF Router!ItemChanges, Router!Collect, Router!Reconcile, Router!worldVars, Router!callVars
<1>2. /\ has \in [Nodes -> SUBSET Router!Items] /\ taken \in [Nodes -> SUBSET SUBSET Router!Items]
      /\ catalog \in [Nodes -> SUBSET Router!Items] /\ told \in [Nodes -> SUBSET Router!Items]
      /\ changes \in 0 .. MaxChanges
  BY DEF RouterInv, WorldTyped
<1>3. ReadSound'
  BY <1>1 DEF RouterInv, ReadSound
<1>4. ASSUME NEW i \in Router!Items, Router!ItemChanges(n, i)
      PROVE  WorldTyped'
  <2>1. /\ changes < MaxChanges /\ changes' = changes + 1 /\ UNCHANGED <<taken, catalog>>
        /\ has' = [has EXCEPT ![n] = IF i \in has[n] THEN has[n] \ {i} ELSE has[n] \cup {i}]
        /\ told' = [told EXCEPT ![n] = told[n] \ {i}]
    BY <1>4 DEF Router!ItemChanges
  <2>2. changes' \in 0 .. MaxChanges
    BY <1>2, <2>1, RouterFacts
  <2> QED
    BY <1>1, <1>2, <2>1, <2>2 DEF RouterInv, WorldTyped
<1>5. CASE Router!Collect(n)
  <2>1. PICK s \in Router!Listings(n) : /\ taken' = [taken EXCEPT ![n] = taken[n] \cup {s}]
                                        /\ told' = [told EXCEPT ![n] = told[n] \cap s]
    BY <1>5 DEF Router!Collect
  <2>2. s \in SUBSET Router!Items
    BY <1>2, <2>1 DEF Router!Listings
  <2>3. UNCHANGED <<has, catalog, changes>> /\ told[n] \cap s \in SUBSET Router!Items
    BY <1>2, <1>5, <2>2 DEF Router!Collect
  <2> QED
    BY <1>1, <1>2, <1>3, <2>1, <2>2, <2>3, QuietStep DEF RouterInv, WorldTyped
<1>6. ASSUME NEW s \in taken[n], Router!Reconcile(n, s)
      PROVE  WorldTyped'
  <2>1. /\ UNCHANGED <<has, changes>> /\ taken' = [taken EXCEPT ![n] = taken[n] \ {s}]
        /\ catalog' = [catalog EXCEPT ![n] = s]
        /\ told' = [told EXCEPT ![n] = StillTold(n, s)]
    BY <1>6 DEF Router!Reconcile, Router!Replace, StillTold
  <2>2. s \in SUBSET Router!Items /\ StillTold(n, s) \in SUBSET Router!Items
    BY <1>2 DEF StillTold
  <2> QED
    BY <1>1, <1>2, <2>1, <2>2 DEF RouterInv, WorldTyped
<1> QED
  BY <1>1, <1>3, <1>4, <1>5, <1>6, QuietStep DEF RouterInv

LEMMA WorldStepSafe ==
  ASSUME RouterInv,
         \/ \E n \in Nodes : Router!ConnectionChanges(n) \/ Router!HealthChanges(n)
         \/ Router!PresenceChanges
  PROVE  RouterInv' /\ UNCHANGED <<has, taken, catalog, told>>
<1>0. flaps' \in 0 .. MaxFlaps
  <2>1. flaps < MaxFlaps /\ flaps' = flaps + 1
    BY DEF Router!ConnectionChanges, Router!HealthChanges, Router!PresenceChanges, Router!Flap
  <2> QED
    BY <2>1, RouterFacts DEF RouterInv, WorldTyped
<1>1. ASSUME NEW n \in Nodes, Router!ConnectionChanges(n)
      PROVE  RouterInv' /\ UNCHANGED <<has, taken, catalog, told>>
  <2>1. /\ connected' = IF n \in connected THEN connected \ {n} ELSE connected \cup {n}
        /\ call' = [k \in Calls |-> IF call[k].stage = "sent" /\ call[k].node \notin connected'
                                    THEN [call[k] EXCEPT !.stage = "cut"] ELSE call[k]]
        /\ agg' = [agg EXCEPT !.steady = agg.steady \cap connected']
        /\ UNCHANGED <<has, taken, catalog, told, changes, healthy, presence, audit>>
    BY <1>1 DEF Router!ConnectionChanges, Router!itemVars
  <2>2. ASSUME NEW k \in Calls
        PROVE  /\ call'[k] \in CallRec /\ call'[k].node = call[k].node
               /\ \/ call'[k].stage = call[k].stage
                  \/ call[k].stage = "sent" /\ call'[k].stage = "cut"
    <3>1. call[k] \in CallRec
      BY CallFieldsOf DEF RouterInv
    <3> DEFINE q == [call[k] EXCEPT !.stage = "cut"]
    <3>2. q \in CallRec /\ q.node = call[k].node /\ q.stage = "cut"
      BY <3>1 DEF CallRec
    <3>3. call'[k] = IF call[k].stage = "sent" /\ call[k].node \notin connected' THEN q ELSE call[k]
      BY <2>1
    <3> HIDE DEF q
    <3> QED
      BY <3>1, <3>2, <3>3
  <2>3. CallsTyped'
    <3>1. call' \in [Calls -> CallRec]
      BY <2>1, <2>2
    <3> QED
      BY <2>2, <3>1, CallFieldsOf DEF RouterInv, CallsTyped
  <2>4. RowsSound' /\ AuditSound'
    BY <2>1, <2>2, AuditStays
  <2>5. /\ agg' \in Read /\ agg'.stage = agg.stage /\ agg'.todo = agg.todo /\ agg'.got = agg.got
        /\ agg'.steady \subseteq agg.steady
    BY <2>1 DEF RouterInv, ReadSound, Read
  <2>6. ReadSound'
    BY <2>5 DEF RouterInv, ReadSound
  <2>7. WorldTyped'
    BY <1>0, <2>1 DEF RouterInv, WorldTyped
  <2> QED
    BY <2>1, <2>3, <2>4, <2>6, <2>7 DEF RouterInv
<1>2. CASE (\E n \in Nodes : Router!HealthChanges(n)) \/ Router!PresenceChanges
  <2>1. /\ UNCHANGED <<has, taken, catalog, told, changes, connected, call, audit, agg>>
        /\ healthy' \subseteq Nodes /\ presence' \in Nodes \cup {"empty", "ambiguous"}
    BY <1>2 DEF Router!HealthChanges, Router!PresenceChanges, Router!itemVars, Router!callVars, RouterInv, WorldTyped
  <2> QED
    BY <1>0, <2>1, QuietStep DEF RouterInv, WorldTyped, ReadSound
<1> QED
  BY <1>1, <1>2

LEMMA RouterStep ==
  ASSUME RouterInv, [Router!Next]_(Router!vars)
  PROVE  RouterInv'
<1>1. CASE UNCHANGED Router!vars
  BY <1>1, QuietStep DEF Router!vars, Router!itemVars, Router!worldVars, Router!callVars, RouterInv,
                         WorldTyped, ReadSound
<1>2. CASE Router!Next
  BY <1>2, DecideSafe, EndedSafe, ReadStepSafe, ItemStepSafe, WorldStepSafe DEF Router!Next
<1> QED
  BY <1>1, <1>2

LEMMA RouterStart == Router!Init => RouterInv
<1> SUFFICES ASSUME Router!Init PROVE RouterInv
  OBVIOUS
<1>1. Router!Idle \in CallRec /\ Router!Idle.stage = "idle"
  BY DEF Router!Idle, CallRec, Places
<1>2. CallsTyped
  BY <1>1 DEF Router!Init, CallsTyped
<1>3. WorldTyped
  BY RouterFacts DEF Router!Init, WorldTyped
<1>4. ReadSound
  BY DEF Router!Init, ReadSound, Router!NoRead, Read
<1>5. audit = <<>> /\ \A k \in Calls : call[k].stage = "idle"
  BY <1>1 DEF Router!Init
<1>6. RowsSound
  <2>1. audit \in Seq(Row) /\ Len(audit) = 0
    BY <1>5, EmptySeq
  <2> QED
    BY <2>1 DEF RowsSound
<1>7. AuditSound
  BY <1>5 DEF AuditSound
<1> QED
  BY <1>2, <1>3, <1>4, <1>6, <1>7 DEF RouterInv

LEMMA RouterInvariance == Router!Spec => []RouterInv
  BY RouterStart, RouterStep, PTL DEF Router!Spec

\* The table has at most one row for each call.
LEMMA RowsFit ==
  ASSUME RouterInv
  PROVE  Len(audit) <= Cardinality(Calls) /\ Cardinality(Calls) \in Nat
<1> DEFINE f == [i \in 1 .. Len(audit) |-> audit[i].call]
<1>1. /\ Len(audit) \in Nat /\ \A i \in 1 .. Len(audit) : audit[i].call \in Calls
      /\ \A i, j \in 1 .. Len(audit) : audit[i].call = audit[j].call => i = j
  BY RowsTyped DEF RouterInv, RowsSound
<1>2. f \in Injection(1 .. Len(audit), Calls)
  BY <1>1 DEF Injection, IsInjective
<1> HIDE DEF f
<1>3. Cardinality(1 .. Len(audit)) <= Cardinality(Calls)
  BY <1>2, RouterFacts, FS_Injection
<1>4. Cardinality(1 .. Len(audit)) = Len(audit)
  <2>1. Len(audit) \in Int /\ 1 \in Int
    BY <1>1
  <2>2. Cardinality(1 .. Len(audit)) = IF 1 > Len(audit) THEN 0 ELSE Len(audit) - 1 + 1
    BY <2>1, FS_Interval
  <2> QED
    BY <1>1, <2>2
<1> QED
  BY <1>3, <1>4, RouterFacts, FS_CardinalityType

\* However the ends of calls interleave and connections fail, a hub that is
\* given an audit log has one row for every call it sent, pending as long as
\* the call is under way and with its result in the end; a row stays pending
\* only when as many later calls were sent as updateResult looks back over.
THEOREM AuditIsSettled == Router!Spec => []AuditSettles
<1>1. RouterInv => AuditSettles
  <2> SUFFICES ASSUME RouterInv PROVE AuditSettles
    OBVIOUS
  <2>1. /\ Len(audit) <= Cardinality(Calls) /\ Cardinality(Calls) \in Nat /\ AuditWindow \in Nat
        /\ Len(audit) \in Nat /\ DOMAIN audit = 1 .. Len(audit)
    BY RowsFit, RowsTyped, RouterFacts DEF RouterInv
  <2>2. Router!Cardinality(Calls) = Cardinality(Calls)
    BY DEF Router!Cardinality, Cardinality
  <2>3. \A k \in Calls : /\ call[k].stage \in {"idle", "rejected", "sent", "cut", "ok", "error"}
                         /\ call[k].node \in Nodes \cup {NoNode}
                         /\ call[k].stage \in {"sent", "cut", "ok", "error"} => call[k].node # NoNode
    BY CallFieldsOf DEF RouterInv, Places
  <2>4. agg.todo \cup agg.got \cup agg.steady \subseteq Nodes
    BY DEF RouterInv, ReadSound, Read
  <2>5. Router!TypeOK
    BY <2>1, <2>2, <2>3, <2>4 DEF Router!TypeOK, RouterInv, WorldTyped
  <2>6. Router!AuditSettles
    <3> SUFFICES ASSUME NEW k \in Calls, Audited, call[k].stage \notin {"idle", "rejected"}
                 PROVE  \E i \in DOMAIN audit :
                          /\ audit[i].call = k /\ \A j \in DOMAIN audit \ {i} : audit[j].call # k
                          /\ \/ audit[i].result = IF Router!HasEnded(k) THEN call[k].stage ELSE "pending"
                             \/ audit[i].result = "pending" /\ Router!Buried(i)
      BY DEF Router!AuditSettles
    <3>1. PICK i \in 1 .. Len(audit) :
            /\ audit[i].call = k
            /\ \/ audit[i].result = IF Router!HasEnded(k) THEN call[k].stage ELSE "pending"
               \/ audit[i].result = "pending" /\ Router!Buried(i)
      <4>1. CASE Router!HasEnded(k)
        BY <4>1 DEF RouterInv, AuditSound, SettledOrBuried, Router!HasEnded
      <4>2. CASE ~Router!HasEnded(k)
        <5>1. RowOf(k, {"pending"})
          BY <2>3, <4>2 DEF RouterInv, AuditSound, Router!HasEnded
        <5> QED
          BY <4>2, <5>1 DEF RowOf
      <4> QED
        BY <4>1, <4>2
    <3>2. \A j \in DOMAIN audit \ {i} : audit[j].call # k
      BY <2>1, <3>1 DEF RouterInv, RowsSound
    <3> QED
      BY <2>1, <3>1, <3>2
  <2> QED
    BY <2>5, <2>6 DEF AuditSettles
<1> QED
  BY <1>1, RouterInvariance, PTL

\* A node that stays within its lease and connected, and answers, is in the
\* result of an aggregated read, whatever other nodes do.
THEOREM ReadsAreComplete == Router!Spec => []AggregateComplete
<1>1. RouterInv => AggregateComplete
  BY DEF RouterInv, ReadSound, AggregateComplete, Router!AggregateComplete
<1> QED
  BY <1>1, RouterInvariance, PTL

----------------------------------------------------------------------------
(* Routing: a call stays with the owner of its session *)

\* What the hub was told of still exists, is in its table, and is in every
\* snapshot on its way: none of them takes it out of the table again.
ToldSound ==
  \A n \in Nodes :
    /\ told[n] \subseteq has[n] /\ told[n] \subseteq catalog[n]
    /\ \A s \in taken[n] : told[n] \subseteq s

LEMMA ToldStep ==
  ASSUME RouterInv, ToldSound, [Router!Next]_(Router!vars)
  PROVE  ToldSound'
<1>1. CASE UNCHANGED <<has, taken, catalog, told>>
  BY <1>1 DEF ToldSound
<1>2. /\ has \in [Nodes -> SUBSET Router!Items] /\ taken \in [Nodes -> SUBSET SUBSET Router!Items]
      /\ catalog \in [Nodes -> SUBSET Router!Items] /\ told \in [Nodes -> SUBSET Router!Items]
  BY DEF RouterInv, WorldTyped
<1>3. ASSUME NEW n \in Nodes, NEW i \in Router!Items, Router!ItemChanges(n, i)
      PROVE  ToldSound'
  <2>1. /\ UNCHANGED <<taken, catalog>>
        /\ has' = [has EXCEPT ![n] = IF i \in has[n] THEN has[n] \ {i} ELSE has[n] \cup {i}]
        /\ told' = [told EXCEPT ![n] = told[n] \ {i}]
    BY <1>3 DEF Router!ItemChanges
  <2>2. \A m \in Nodes : /\ told'[m] \subseteq told[m]
                         /\ \/ m = n /\ has'[m] = IF i \in has[m] THEN has[m] \ {i} ELSE has[m] \cup {i}
                            \/ m # n /\ has'[m] = has[m]
                         /\ m = n => i \notin told'[m]
    BY <1>2, <2>1
  <2> QED
    BY <2>1, <2>2 DEF ToldSound
<1>4. ASSUME NEW n \in Nodes, Router!Collect(n)
      PROVE  ToldSound'
  <2>1. PICK s \in Router!Listings(n) : /\ taken' = [taken EXCEPT ![n] = taken[n] \cup {s}]
                                        /\ told' = [told EXCEPT ![n] = told[n] \cap s]
    BY <1>4 DEF Router!Collect
  <2>2. UNCHANGED <<has, catalog>>
    BY <1>4 DEF Router!Collect
  <2>3. \A m \in Nodes : /\ taken'[m] = IF m = n THEN taken[n] \cup {s} ELSE taken[m]
                         /\ told'[m] = IF m = n THEN told[n] \cap s ELSE told[m]
    BY <1>2, <2>1
  <2> QED
    BY <2>2, <2>3 DEF ToldSound
<1>5. ASSUME NEW n \in Nodes, NEW s \in taken[n], Router!Reconcile(n, s)
      PROVE  ToldSound'
  <2>1. /\ UNCHANGED has /\ taken' = [taken EXCEPT ![n] = taken[n] \ {s}]
        /\ catalog' = [catalog EXCEPT ![n] = s]
        /\ told' = [told EXCEPT ![n] = StillTold(n, s)]
    BY <1>5 DEF Router!Reconcile, Router!Replace, StillTold
  <2>2. /\ catalog'[n] = s /\ told'[n] = StillTold(n, s) /\ taken'[n] \subseteq taken[n]
        /\ \A m \in Nodes : m # n => taken'[m] = taken[m] /\ catalog'[m] = catalog[m] /\ told'[m] = told[m]
    BY <1>2, <2>1
  <2>3. /\ StillTold(n, s) \subseteq s /\ StillTold(n, s) \subseteq has[n]
        /\ \A t \in taken'[n] : StillTold(n, s) \subseteq t
    BY DEF ToldSound, StillTold
  <2> QED
    BY <2>1, <2>2, <2>3 DEF ToldSound
<1>6. CASE UNCHANGED Router!vars
  BY <1>1, <1>6 DEF Router!vars, Router!itemVars
<1>7. CASE Router!Next
  BY <1>1, <1>3, <1>4, <1>5, <1>7, DecideSafe, EndedSafe, ReadStepSafe, WorldStepSafe DEF Router!Next
<1> QED
  BY <1>6, <1>7

LEMMA ToldStart == Router!Init => ToldSound
  BY DEF Router!Init, ToldSound

\* A call is decided by the route of its request.
LEMMA OnlyDecides ==
  ASSUME RouterInv, [Router!Next]_(Router!vars), NEW k \in Calls, Router!DecidedNow(k)
  PROVE  \E r \in RouterAsks : /\ call'[k].req = r /\ call'[k].via = Router!Route(r).via
                             /\ call'[k].node = Router!Route(r).node
<1>1. call[k].stage = "idle" /\ call'[k].stage # "idle"
  BY DEF Router!DecidedNow
<1>2. CASE UNCHANGED call
  BY <1>1, <1>2
<1>3. ASSUME NEW x \in Calls, NEW r \in RouterAsks, Router!Decide(x, r)
      PROVE  x = k /\ call'[k].req = r /\ call'[k].via = Router!Route(r).via /\ call'[k].node = Router!Route(r).node
  <2> DEFINE to == Router!Route(r)
             q == [stage |-> IF to.node # NoNode /\ to.node \in connected THEN "sent" ELSE "rejected",
                   req |-> r, via |-> to.via, node |-> to.node]
  <2>1. call' = [call EXCEPT ![x] = q]
    BY <1>3 DEF Router!Decide
  <2>2. q.req = r /\ q.via = to.via /\ q.node = to.node
    OBVIOUS
  <2> HIDE DEF q, to
  <2>3. x = k /\ call'[k] = q
    BY <1>1, <2>1 DEF RouterInv, CallsTyped
  <2> QED
    BY <2>2, <2>3 DEF to
<1>4. ASSUME NEW x \in Calls, NEW result \in {"ok", "error"}, Router!Ended(x, result)
      PROVE  FALSE
  <2>1. call[x].stage \in {"sent", "cut"} /\ call' = [call EXCEPT ![x].stage = result]
    BY <1>4 DEF Router!Ended
  <2> QED
    BY <1>1, <2>1 DEF RouterInv, CallsTyped
<1>5. ASSUME NEW n \in Nodes, Router!ConnectionChanges(n)
      PROVE  FALSE
  <2>1. call' = [y \in Calls |-> IF call[y].stage = "sent" /\ call[y].node \notin connected'
                                 THEN [call[y] EXCEPT !.stage = "cut"] ELSE call[y]]
    BY <1>5 DEF Router!ConnectionChanges
  <2> QED
    BY <1>1, <2>1
<1>6. CASE UNCHANGED Router!vars
  BY <1>2, <1>6 DEF Router!vars, Router!callVars
<1>7. CASE Router!Next
  <2>1. \/ UNCHANGED call
        \/ \E x \in Calls : \E r \in RouterAsks : Router!Decide(x, r)
        \/ \E x \in Calls : \E result \in {"ok", "error"} : Router!Ended(x, result)
        \/ \E n \in Nodes : Router!ConnectionChanges(n)
    BY <1>7 DEF Router!Next, Router!ItemChanges, Router!Collect, Router!Reconcile, Router!ReadStarts, Router!ReadNode,
                Router!ReadEnds, Router!HealthChanges, Router!PresenceChanges, Router!callVars
  <2> QED
    BY <1>2, <1>3, <1>4, <1>5, <2>1
<1> QED
  BY <1>6, <1>7

\* A call for a session the hub has been told of, and that no snapshot on its
\* way leaves out, goes to the node that owns it or is refused, whatever
\* presence, leases and workspaces say, however many reconciles of a node
\* overlap and whichever lists failed; and an id that several nodes share names
\* none of them.
THEOREM OwnersServe == Router!Spec => OwnerServes
<1> DEFINE Owner == \A k \in Calls, n \in Nodes, s \in Sessions :
       /\ Router!DecidedNow(k) /\ call'[k].req.target = NoNode /\ call'[k].req.session \in {s, <<n, s>>}
       /\ s \in told[n] /\ \A o \in Nodes \ {n} : s \notin catalog[o]
       => call'[k].node = n
           Guessed == \A k \in Calls, s \in Sessions :
       Router!DecidedNow(k) /\ call'[k].req.session = s /\ Router!Cardinality(Router!Holders(s)) > 1
       => call'[k].via # "session_owner"
<1>1. RouterInv /\ ToldSound /\ [Router!Next]_(Router!vars) => [Owner]_(Router!vars)
  <2> SUFFICES ASSUME RouterInv, ToldSound, [Router!Next]_(Router!vars),
                      NEW k \in Calls, NEW n \in Nodes, NEW s \in Sessions,
                      Router!DecidedNow(k), call'[k].req.target = NoNode, call'[k].req.session \in {s, <<n, s>>},
                      s \in told[n], \A o \in Nodes \ {n} : s \notin catalog[o]
               PROVE  call'[k].node = n
    OBVIOUS
  <2>1. PICK r \in RouterAsks : call'[k].req = r /\ call'[k].node = Router!Route(r).node
    BY OnlyDecides
  <2>2. s \in catalog[n]
    BY DEF ToldSound
  <2>3. Router!BySession(r.session) = {n}
    BY <2>1, <2>2, HolderIsNamed
  <2>4. Router!Route(r) = Router!To("session_owner", {n})
    BY <2>1, <2>3, FirstRule DEF Router!Route
  <2> QED
    BY <2>1, <2>4, ToNode
<1>2. RouterInv /\ [Router!Next]_(Router!vars) => [Guessed]_(Router!vars)
  <2> SUFFICES ASSUME RouterInv, [Router!Next]_(Router!vars), NEW k \in Calls, NEW s \in Sessions,
                      Router!DecidedNow(k), call'[k].req.session = s, Router!Cardinality(Router!Holders(s)) > 1
               PROVE  call'[k].via # "session_owner"
    OBVIOUS
  <2>1. PICK r \in RouterAsks : call'[k].req = r /\ call'[k].via = Router!Route(r).via
    BY OnlyDecides
  <2>2. Router!BySession(r.session) = {}
    BY <2>1, SharedNamesNone
  <2>3. CASE r.target = NoNode
    BY <2>1, <2>2, <2>3, FirstRule DEF Router!Route
  <2>4. CASE r.target # NoNode
    BY <2>1, <2>4, ToNode DEF Router!Route
  <2> QED
    BY <2>3, <2>4
<1> HIDE DEF Owner, Guessed
<1>3. Router!Spec => []ToldSound
  BY ToldStart, ToldStep, RouterInvariance, PTL DEF Router!Spec
<1>4. Router!Spec => [][Owner]_(Router!vars)
  BY <1>1, <1>3, RouterInvariance, PTL DEF Router!Spec
<1>5. Router!Spec => [][Guessed]_(Router!vars)
  BY <1>2, RouterInvariance, PTL DEF Router!Spec
<1> QED
  BY <1>4, <1>5 DEF OwnerServes, Router!OwnerServes, Router!NoOwnerGuessed, Owner, Guessed

----------------------------------------------------------------------------
(* The guard: sums, digits, and the sizes of what is sent. *)

\* A set of bounded numbers has a least one.
LEMMA Least ==
  ASSUME NEW n \in Nat, NEW T, T \subseteq 0 .. n, T # {}
  PROVE  \E k \in T : \A j \in T : k <= j
<1> DEFINE f == [k \in 0 .. n |-> -k]
<1>1. IsFiniteSet(T)
  <2>1. IsFiniteSet(0 .. n)
    BY FS_Interval
  <2> QED
    BY <2>1, FS_Subset
<1>2. \A k \in T : f[k] = -k /\ k \in Int /\ f[k] \in Int
  OBVIOUS
<1> HIDE DEF f
<1>3. PICK k \in T : \A j \in T : f[j] <= f[k]
  BY <1>1, <1>2, Greatest
<1>4. \A j \in T : k <= j
  BY <1>2, <1>3
<1> QED
  BY <1>4

\* A sum over a finite set, one element after the other.
Summed(f, g, s) ==
  g[s] = IF s = {} THEN 0 ELSE f[CHOOSE x \in s : TRUE] + g[s \ {CHOOSE x \in s : TRUE}]

\* What the recursion of a sum needs of its sets.
LEMMA Smaller ==
  ASSUME NEW S, IsFiniteSet(S), NEW s \in SUBSET S
  PROVE  /\ Cardinality(s) \in 0 .. Cardinality(S) /\ Cardinality(S) \in Nat
         /\ Cardinality(s) = 0 <=> s = {}
         /\ s # {} => /\ (CHOOSE x \in s : TRUE) \in s
                      /\ s \ {CHOOSE x \in s : TRUE} \in SUBSET S
                      /\ Cardinality(s \ {CHOOSE x \in s : TRUE}) = Cardinality(s) - 1
<1>1. IsFiniteSet(s) /\ Cardinality(s) <= Cardinality(S)
  BY FS_Subset
<1>2. Cardinality(s) \in Nat /\ Cardinality(S) \in Nat
  BY <1>1, FS_CardinalityType
<1>3. Cardinality(s) = 0 <=> s = {}
  BY <1>1, FS_EmptySet
<1>4. ASSUME s # {}
      PROVE  /\ (CHOOSE x \in s : TRUE) \in s
             /\ s \ {CHOOSE x \in s : TRUE} \in SUBSET S
             /\ Cardinality(s \ {CHOOSE x \in s : TRUE}) = Cardinality(s) - 1
  <2>1. PICK y : y = CHOOSE x \in s : TRUE
    OBVIOUS
  <2>2. y \in s
    BY <1>4, <2>1
  <2>3. Cardinality(s \ {y}) = Cardinality(s) - 1
    BY <1>1, <2>2, FS_RemoveElement
  <2> QED
    BY <2>1, <2>2, <2>3
<1> QED
  BY <1>1, <1>2, <1>3, <1>4

\* Some function sums over the sets of up to k elements, whatever k.
LEMMA SumExists ==
  ASSUME NEW S, IsFiniteSet(S), NEW f, \A x \in S : f[x] \in Nat
  PROVE  \E g \in [SUBSET S -> Nat] : \A s \in SUBSET S : Summed(f, g, s)
<1> DEFINE n == Cardinality(S)
           P(k) == \E g \in [SUBSET S -> Nat] : \A s \in SUBSET S : Cardinality(s) <= k => Summed(f, g, s)
           Bad == {k \in 0 .. n : ~P(k)}
<1>1. n \in Nat /\ \A s \in SUBSET S : Cardinality(s) \in 0 .. n
  BY Smaller
<1>2. P(0)
  <2> DEFINE g == [s \in SUBSET S |-> 0]
  <2>1. \A s \in SUBSET S : Cardinality(s) <= 0 => Summed(f, g, s)
    <3> TAKE s \in SUBSET S
    <3>1. Cardinality(s) \in 0 .. n /\ (Cardinality(s) = 0 <=> s = {})
      BY Smaller
    <3>2. g[s] = 0
      OBVIOUS
    <3> QED
      BY <1>1, <3>1, <3>2 DEF Summed
  <2>2. g \in [SUBSET S -> Nat]
    OBVIOUS
  <2> QED
    BY <2>1, <2>2
<1>3. ASSUME NEW k \in Nat, P(k) PROVE P(k + 1)
  <2>1. PICK g \in [SUBSET S -> Nat] : \A s \in SUBSET S : Cardinality(s) <= k => Summed(f, g, s)
    BY <1>3
  <2> DEFINE next(s) == IF s = {} THEN 0 ELSE f[CHOOSE x \in s : TRUE] + g[s \ {CHOOSE x \in s : TRUE}]
             h == [s \in SUBSET S |-> IF Cardinality(s) <= k THEN g[s] ELSE next(s)]
  <2>2. \A s \in SUBSET S : next(s) \in Nat
    <3> TAKE s \in SUBSET S
    <3>1. CASE s = {}
      BY <3>1
    <3>2. CASE s # {}
      <4>1. PICK y : y = CHOOSE x \in s : TRUE
        OBVIOUS
      <4>2. y \in s /\ s \ {y} \in SUBSET S
        BY <3>2, <4>1, Smaller
      <4>3. f[y] \in Nat /\ g[s \ {y}] \in Nat
        BY <4>2
      <4>4. next(s) = f[y] + g[s \ {y}]
        BY <3>2, <4>1
      <4> HIDE DEF next
      <4> QED
        BY <4>3, <4>4
    <3> QED
      BY <3>1, <3>2
  <2>3. \A s \in SUBSET S : h[s] = IF Cardinality(s) <= k THEN g[s] ELSE next(s)
    OBVIOUS
  <2>4. h \in [SUBSET S -> Nat]
    <3> HIDE DEF next
    <3> QED
      BY <2>2
  <2> HIDE DEF h
  <2>5. ASSUME NEW s \in SUBSET S, Cardinality(s) <= k + 1
        PROVE  Summed(f, h, s)
    <3>1. h[s] = next(s)
      BY <2>1, <2>3, <2>5 DEF Summed
    <3>2. CASE s = {}
      BY <3>1, <3>2 DEF Summed
    <3>3. CASE s # {}
      <4>1. PICK y : y = CHOOSE x \in s : TRUE
        OBVIOUS
      <4>2. s \ {y} \in SUBSET S /\ Cardinality(s \ {y}) = Cardinality(s) - 1
        BY <3>3, <4>1, Smaller
      <4>3. h[s \ {y}] = g[s \ {y}]
        <5>1. Cardinality(s \ {y}) <= k
          <6>1. Cardinality(s) \in Nat
            BY <1>1
          <6> QED
            BY <2>5, <4>2, <6>1
        <5> HIDE DEF next
        <5> QED
          BY <2>3, <4>2, <5>1
      <4> QED
        BY <3>1, <3>3, <4>1, <4>3 DEF Summed
    <3> QED
      BY <3>2, <3>3
  <2> QED
    BY <2>4, <2>5
<1> HIDE DEF P
<1>4. ASSUME Bad # {} PROVE FALSE
  <2>1. PICK k \in Bad : \A j \in Bad : k <= j
    BY <1>1, <1>4, Least
  <2>2. k # 0 /\ k - 1 \in 0 .. n /\ k - 1 \notin Bad
    BY <1>1, <1>2, <2>1
  <2> QED
    BY <1>1, <1>3, <2>1, <2>2
<1>5. P(n)
  BY <1>1, <1>4
<1>6. PICK g \in [SUBSET S -> Nat] : \A s \in SUBSET S : Cardinality(s) <= n => Summed(f, g, s)
  BY <1>5 DEF P
<1> QED
  BY <1>1, <1>6

\* The sum of natural numbers is one.
LEMMA SumIsNat ==
  ASSUME NEW f, IsFiniteSet(DOMAIN f), \A x \in DOMAIN f : f[x] \in Nat
  PROVE  Guard!SumOver(f) \in Nat
<1> DEFINE S == DOMAIN f
           It(g) == [s \in SUBSET S |-> IF s = {} THEN 0
                                        ELSE f[CHOOSE x \in s : TRUE] + g[s \ {CHOOSE x \in s : TRUE}]]
           g == CHOOSE g : g = It(g)
           n == Cardinality(S)
<1>1. Guard!SumOver(f) = g[S]
  BY DEF Guard!SumOver, Guard!MapThenSumSet, Guard!MapThenFoldSet
<1>2. PICK h \in [SUBSET S -> Nat] : \A s \in SUBSET S : Summed(f, h, s)
  BY SumExists
<1>3. h = It(h)
  BY <1>2 DEF Summed
<1>4. g = It(g)
  <2> HIDE DEF It
  <2> QED
    BY <1>3
<1>5. \A s \in SUBSET S : Summed(f, g, s)
  <2>1. PICK e : e = g
    OBVIOUS
  <2>2. e = It(e)
    BY <1>4, <2>1
  <2>3. \A s \in SUBSET S : Summed(f, e, s)
    BY <2>2 DEF Summed
  <2> QED
    BY <2>1, <2>3
<1> HIDE DEF g
<1> DEFINE Bad == {k \in 0 .. n : \E s \in SUBSET S : Cardinality(s) = k /\ g[s] # h[s]}
<1>6. ASSUME Bad # {} PROVE FALSE
  <2>1. n \in Nat
    BY Smaller
  <2>2. PICK k \in Bad : \A j \in Bad : k <= j
    BY <2>1, <1>6, Least
  <2>3. PICK s \in SUBSET S : Cardinality(s) = k /\ g[s] # h[s]
    BY <2>2
  <2>4. s # {}
    BY <1>2, <1>5, <2>3 DEF Summed
  <2>5. PICK y : y = CHOOSE x \in s : TRUE
    OBVIOUS
  <2>6. s \ {y} \in SUBSET S /\ Cardinality(s \ {y}) = k - 1 /\ k - 1 \in 0 .. n
    BY <2>1, <2>3, <2>4, <2>5, Smaller
  <2>7. g[s \ {y}] = h[s \ {y}]
    BY <2>1, <2>2, <2>6
  <2>8. g[s] = f[y] + g[s \ {y}]
    BY <1>5, <2>4, <2>5 DEF Summed
  <2>9. h[s] = f[y] + h[s \ {y}]
    BY <1>2, <2>4, <2>5 DEF Summed
  <2> QED
    BY <2>3, <2>7, <2>8, <2>9
<1>7. g[S] = h[S]
  <2>1. n \in Nat /\ S \in SUBSET S
    BY Smaller
  <2>2. n \in 0 .. n
    BY <2>1
  <2>3. g[S] # h[S] => n \in Bad
    BY <2>1, <2>2
  <2> QED
    BY <1>6, <2>3
<1> QED
  BY <1>1, <1>2, <1>7

\* The limit and the inputs.
LEMMA GuardFacts ==
  /\ MaxBytes \in Nat /\ Suffix \in Nat /\ Slack \in Nat /\ MinText \in Nat
  /\ Passes \in Nat /\ Frame \in Nat /\ Fallback \in Nat
  /\ Fallback + 9 <= MaxBytes /\ 54 <= MaxBytes
  /\ Guard!Digits(MaxBytes - 2) = Guard!Digits(MaxBytes)
  /\ TextSizes \subseteq Nat /\ TextCounts \subseteq Nat /\ ElementSizes \subseteq Nat
  /\ ElementCounts \subseteq Nat /\ ScalarSizes \subseteq Nat
  /\ CharWidths \subseteq 1 .. 4 /\ PlainBytes \subseteq Nat
<1>1. Guard!GuardAssumption
  BY HubAssumption
<1>2. /\ MaxBytes \in Nat /\ Suffix \in Nat /\ Slack \in Nat /\ MinText \in Nat
      /\ Passes \in Nat /\ Frame \in Nat /\ Fallback \in Nat
  BY <1>1 DEF Guard!GuardAssumption
<1>3. Fallback + 9 <= MaxBytes /\ 54 <= MaxBytes
  BY <1>1, <1>2 DEF Guard!GuardAssumption, Guard!MarkerFrame
<1>4. /\ Guard!Digits(MaxBytes - 2) = Guard!Digits(MaxBytes)
      /\ TextSizes \subseteq Nat /\ TextCounts \subseteq Nat /\ ElementSizes \subseteq Nat
      /\ ElementCounts \subseteq Nat /\ ScalarSizes \subseteq Nat
      /\ CharWidths \subseteq 1 .. 4 /\ PlainBytes \subseteq Nat
  BY <1>1 DEF Guard!GuardAssumption
<1> QED
  BY <1>2, <1>3, <1>4

\* The digits of a number, from the table of powers.
DigitsAre(n, d) ==
  \/ d = 1 /\ n < 10
  \/ d = 2 /\ 10 <= n /\ n < 100
  \/ d = 3 /\ 100 <= n /\ n < 1000
  \/ d = 4 /\ 1000 <= n /\ n < 10000
  \/ d = 5 /\ 10000 <= n /\ n < 100000
  \/ d = 6 /\ 100000 <= n /\ n < 1000000
  \/ d = 7 /\ 1000000 <= n /\ n < 10000000
  \/ d = 8 /\ 10000000 <= n /\ n < 100000000
  \/ d = 9 /\ 100000000 <= n

\* Digits is that.
LEMMA DigitsOf ==
  ASSUME NEW n \in Nat
  PROVE  DigitsAre(n, Guard!Digits(n))
<1> DEFINE Fits(d) == (d = 1 \/ Guard!Power[d - 1] <= n) /\ (d = 9 \/ n < Guard!Power[d])
<1>1. /\ Guard!Power[1] = 10 /\ Guard!Power[2] = 100 /\ Guard!Power[3] = 1000
      /\ Guard!Power[4] = 10000 /\ Guard!Power[5] = 100000 /\ Guard!Power[6] = 1000000
      /\ Guard!Power[7] = 10000000 /\ Guard!Power[8] = 100000000
  BY DEF Guard!Power
<1>2. \A d \in 1 .. 9 : Fits(d) <=> DigitsAre(n, d)
  <2> TAKE d \in 1 .. 9
  <2>1. d \in {1, 2, 3, 4, 5, 6, 7, 8, 9}
    OBVIOUS
  <2> QED
    BY <1>1, <2>1 DEF DigitsAre
<1>3. \E d \in 1 .. 9 : DigitsAre(n, d)
  BY DEF DigitsAre
<1>4. \E d \in 1 .. 9 : Fits(d)
  BY <1>2, <1>3
<1>5. Guard!Digits(n) = CHOOSE d \in 1 .. 9 : Fits(d)
  BY DEF Guard!Digits
<1> HIDE DEF Fits
<1>6. Guard!Digits(n) \in 1 .. 9 /\ Fits(Guard!Digits(n))
  BY <1>4, <1>5
<1> QED
  BY <1>2, <1>6

\* A number has from one to nine of them; a larger one has no fewer, and one
\* that is larger by less than ten has at most one more.
LEMMA DigitsGrow ==
  ASSUME NEW m \in Nat, NEW n \in Nat, m <= n
  PROVE  /\ Guard!Digits(m) \in 1 .. 9 /\ Guard!Digits(n) \in 1 .. 9
         /\ Guard!Digits(m) <= Guard!Digits(n)
         /\ n < m + 9 => Guard!Digits(n) <= Guard!Digits(m) + 1
<1>1. DigitsAre(m, Guard!Digits(m)) /\ DigitsAre(n, Guard!Digits(n))
  BY DigitsOf
<1> QED
  BY <1>1 DEF DigitsAre

\* Writing the size into a document of k bytes more than its digits settles
\* at the third size.
LEMMA SizesSettle ==
  ASSUME NEW k \in Nat
  PROVE  LET a == k + 1
             b == k + Guard!Digits(a)
             c == k + Guard!Digits(b)
         IN  /\ a \in Nat /\ b \in Nat /\ c \in Nat
             /\ k + Guard!Digits(c) = c
<1> DEFINE a == k + 1
           b == k + Guard!Digits(a)
           c == k + Guard!Digits(b)
<1>1. a \in Nat /\ Guard!Digits(a) \in 1 .. 9
  BY DigitsGrow
<1>2. b \in Nat /\ a <= b /\ b < a + 9
  BY <1>1
<1>3. Guard!Digits(b) \in 1 .. 9 /\ Guard!Digits(a) <= Guard!Digits(b) /\ Guard!Digits(b) <= Guard!Digits(a) + 1
  BY <1>1, <1>2, DigitsGrow
<1>4. c \in Nat /\ b <= c /\ c <= b + 1
  BY <1>1, <1>3
<1>5. Guard!Digits(c) = Guard!Digits(b)
  <2>1. CASE Guard!Digits(b) = Guard!Digits(a)
    BY <2>1
  <2>2. CASE Guard!Digits(b) = Guard!Digits(a) + 1
    <3>1. DigitsAre(a, Guard!Digits(a)) /\ DigitsAre(b, Guard!Digits(b)) /\ DigitsAre(c, Guard!Digits(c))
      BY <1>1, <1>2, <1>4, DigitsOf
    <3>2. b < a + 9 /\ c = b + 1
      BY <1>1, <1>2, <2>2
    <3> HIDE DEF a, b, c
    <3> QED
      BY <1>1, <1>2, <1>3, <1>4, <2>2, <3>1, <3>2 DEF DigitsAre
  <2> QED
    BY <1>1, <1>3, <2>1, <2>2
<1> QED
  BY <1>1, <1>2, <1>4, <1>5

TextField == [body : Nat, tail : Nat, written : {1, 2}, content : BOOLEAN]
Document == [texts : Seq(TextField), count : Nat, each : Nat, scalars : Seq(Nat)]

\* The bytes of a document without the digits of returned_size.
Rest(d) ==
  Frame + d.count * d.each
  + Guard!SumOver([i \in DOMAIN d.texts |-> Guard!Written(d.texts[i])]) + Guard!SumOver(d.scalars)

\* What JSON.stringify counts.
LEMMA BytesAre ==
  ASSUME NEW d \in Document
  PROVE  Rest(d) \in Nat /\ \A r \in Nat : Guard!Bytes(d, r) = Rest(d) + Guard!Digits(r)
<1> DEFINE f == [i \in DOMAIN d.texts |-> Guard!Written(d.texts[i])]
           s == Guard!SumOver(f)
           t == Guard!SumOver(d.scalars)
           m == d.count * d.each
<1>1. /\ d.texts \in Seq(TextField) /\ d.scalars \in Seq(Nat) /\ d.count \in Nat /\ d.each \in Nat
  BY DEF Document
<1>2. s \in Nat
  <2>1. IsFiniteSet(DOMAIN d.texts)
    <3>1. DOMAIN d.texts = 1 .. Len(d.texts) /\ Len(d.texts) \in Nat
      BY <1>1
    <3> QED
      BY <3>1, FS_Interval
  <2>2. \A i \in DOMAIN d.texts : f[i] \in Nat
    <3> TAKE i \in DOMAIN d.texts
    <3>1. d.texts[i] \in TextField
      BY <1>1
    <3>2. /\ d.texts[i].written = 1 \/ d.texts[i].written = 2
          /\ d.texts[i].body \in Nat /\ d.texts[i].tail \in Nat
      BY <3>1 DEF TextField
    <3> QED
      BY <3>2 DEF Guard!Written
  <2>3. DOMAIN f = DOMAIN d.texts
    OBVIOUS
  <2> HIDE DEF f
  <2> QED
    BY <2>1, <2>2, <2>3, SumIsNat
<1>3. t \in Nat
  <2>1. DOMAIN d.scalars = 1 .. Len(d.scalars) /\ Len(d.scalars) \in Nat
    BY <1>1
  <2>2. IsFiniteSet(DOMAIN d.scalars)
    BY <2>1, FS_Interval
  <2> QED
    BY <1>1, <2>1, <2>2, SumIsNat
<1>4. m \in Nat
  BY <1>1
<1>5. Rest(d) = Frame + m + s + t
  BY DEF Rest
<1>6. \A r \in Nat : Guard!Bytes(d, r) = Frame + Guard!Digits(r) + m + s + t
  BY DEF Guard!Bytes
<1>7. \A r \in Nat : Guard!Digits(r) \in Nat
  <2> TAKE r \in Nat
  <2>1. Guard!Digits(r) \in 1 .. 9
    BY DigitsGrow
  <2> QED
    BY <2>1
<1> HIDE DEF s, t, m
<1> QED
  BY <1>2, <1>3, <1>4, <1>5, <1>6, <1>7, GuardFacts

\* What the stages of the guard rely on.
Filling ==
  LET a == Rest(doc) + 1
      b == Rest(doc) + Guard!Digits(a)
  IN  CASE pass = 0 -> returned = 0
        [] pass = 1 -> returned = a
        [] pass = 2 -> returned = b
        [] OTHER    -> returned = Rest(doc) + Guard!Digits(b)

Marking ==
  /\ doc \in [width : 1 .. 4, bytes : Nat] /\ doc.bytes > MaxBytes
  /\ returned = IF pass = 0 THEN MaxBytes ELSE Guard!PlainSize(doc.width, doc.bytes, MaxBytes)

GuardInv ==
  /\ Guard!TypeOK
  /\ stage \in {"shrink", "fill"} => doc \in Document
  /\ stage = "shrink" => returned = 0
  /\ stage = "fill" => Filling
  /\ stage = "mark" => Marking
  /\ stage = "done" => sent <= MaxBytes /\ (returned = sent \/ Guard!IsFallback)

\* Every document that comes in is one.
LEMMA DocumentsTyped == \A d \in Guard!Documents : d \in Document
<1> SUFFICES ASSUME NEW d \in Guard!Documents PROVE d \in Document
  OBVIOUS
<1>1. PICK n \in TextCounts, s \in TextSizes, t \in TextSizes, w \in {1, 2}, c \in BOOLEAN,
           k \in ElementCounts, e \in ElementSizes, sc \in {<<>>} \cup {<<x>> : x \in ScalarSizes} :
        d = [texts |-> [i \in 1 .. n |-> IF i = 1 THEN Guard!Text(s, w, c) ELSE Guard!Text(t, 1, ~c)],
             count |-> k, each |-> e, scalars |-> sc]
  BY DEF Guard!Documents
<1>2. n \in Nat /\ s \in Nat /\ t \in Nat /\ k \in Nat /\ e \in Nat
  BY GuardFacts
<1>3. sc \in Seq(Nat)
  <2>1. CASE sc = <<>>
    BY <2>1
  <2>2. CASE \E x \in ScalarSizes : sc = <<x>>
    <3>1. PICK x \in Nat : sc = <<x>>
      BY <2>2, GuardFacts
    <3> QED
      BY <3>1
  <2> QED
    BY <2>1, <2>2
<1>4. Guard!Text(s, w, c) \in TextField /\ Guard!Text(t, 1, ~c) \in TextField
  BY <1>2 DEF Guard!Text, TextField
<1>5. [i \in 1 .. n |-> IF i = 1 THEN Guard!Text(s, w, c) ELSE Guard!Text(t, 1, ~c)] \in Seq(TextField)
  BY <1>2, <1>4
<1> QED
  BY <1>1, <1>2, <1>3, <1>5 DEF Document

\* The response as it comes in.
LEMMA GuardStart == Guard!Init => GuardInv
<1> SUFFICES ASSUME Guard!Init PROVE GuardInv
  OBVIOUS
<1>1. pass = 0 /\ sent = 0 /\ broken = FALSE
  BY DEF Guard!Init
<1>2. CASE \E d \in Guard!Documents : Guard!Start(d)
  <2>1. stage = "shrink" /\ doc \in Document /\ returned = 0
    BY <1>2, DocumentsTyped DEF Guard!Start
  <2>2. broken \in BOOLEAN
    BY <1>1
  <2>3. Guard!TypeOK
    BY <1>1, <2>1, <2>2, GuardFacts DEF Guard!TypeOK
  <2> QED
    BY <2>1, <2>3 DEF GuardInv
<1>3. CASE stage = "mark" /\ returned = MaxBytes /\ \E w \in CharWidths, b \in PlainBytes :
             b > MaxBytes /\ doc = [width |-> w, bytes |-> b]
  <2>1. Marking
    BY <1>1, <1>3, GuardFacts DEF Marking
  <2>2. broken \in BOOLEAN
    BY <1>1
  <2>3. Guard!TypeOK
    BY <1>1, <1>3, <2>2, GuardFacts DEF Guard!TypeOK, Guard!MarkPasses
  <2> QED
    BY <1>3, <2>1, <2>3 DEF GuardInv
<1> QED
  BY <1>2, <1>3 DEF Guard!Init

\* The text that is narrowed is one of the document.
LEMMA PickIsText ==
  ASSUME NEW d \in Document, NEW i \in Guard!Picks(d)
  PROVE  i \in DOMAIN d.texts /\ d.texts[i] \in TextField
<1>1. i \in DOMAIN d.texts
  BY DEF Guard!Picks, Guard!Largest
<1> QED
  BY <1>1 DEF Document

\* A text is replaced.
LEMMA WithTextTyped ==
  ASSUME NEW d \in Document, NEW i \in DOMAIN d.texts, NEW t \in TextField
  PROVE  Guard!WithText(d, i, t) \in Document
<1>1. [d.texts EXCEPT ![i] = t] \in Seq(TextField)
  BY DEF Document
<1> QED
  BY <1>1 DEF Guard!WithText, Document

\* A narrowed document is one.
LEMMA NarrowedTyped ==
  ASSUME NEW d \in Document, NEW i \in Guard!Picks(d)
  PROVE  /\ Guard!WithText(d, i, [Guard!Shortened EXCEPT !.content = d.texts[i].content]) \in Document
         /\ \A over \in Nat : Guard!CutText(d, i, over) \in Document
<1> DEFINE t == d.texts[i]
<1>1. i \in DOMAIN d.texts /\ t \in TextField
  BY PickIsText
<1>2. t.body \in Nat /\ t.tail \in Nat /\ t.written \in {1, 2} /\ t.content \in BOOLEAN
  BY <1>1 DEF TextField
<1>3. [Guard!Shortened EXCEPT !.content = t.content] \in TextField
  BY <1>2, GuardFacts DEF Guard!Shortened, TextField
<1>4. ASSUME NEW over \in Nat, Guard!Size(t) > over + Slack + Suffix
      PROVE  [t EXCEPT !.body = Guard!Size(t) - over - Slack, !.tail = Suffix] \in TextField
  <2>1. Guard!Size(t) \in Nat
    BY <1>2 DEF Guard!Size
  <2>2. Guard!Size(t) - over - Slack \in Nat
    BY <1>4, <2>1, GuardFacts
  <2> QED
    BY <1>1, <2>2, GuardFacts DEF TextField
<1> QED
  BY <1>1, <1>3, <1>4, WithTextTyped DEF Guard!CutText

\* The array keeps some of its elements.
LEMMA ArrayTyped ==
  ASSUME NEW d \in Document, returned \in Nat
  PROVE  Guard!CutArray(d) \in Document
<1> DEFINE b == Guard!Bytes(d, returned)
           m == d.count * MaxBytes
           keep == m \div b
<1>1. Guard!Digits(returned) \in 1 .. 9
  BY DigitsGrow
<1>2. b \in Nat /\ b > 0
  BY <1>1, BytesAre
<1>3. d.count \in Nat /\ m \in Nat
  BY GuardFacts DEF Document
<1>4. keep \in Nat
  <2> HIDE DEF b, m
  <2> QED
    BY <1>2, <1>3
<1>5. Guard!CutArray(d) = [d EXCEPT !.count = IF keep = 0 THEN 1 ELSE keep]
  BY DEF Guard!CutArray
<1> HIDE DEF keep
<1> QED
  BY <1>4, <1>5 DEF Document

\* A key is dropped.
LEMMA KeysTyped ==
  ASSUME NEW d \in Document
  PROVE  Guard!DropKey(d) \in Document
<1>1. <<>> \in Seq(Nat)
  OBVIOUS
<1>2. [d EXCEPT !.count = 0] \in Document
  BY DEF Document
<1>3. [d EXCEPT !.scalars = <<>>] \in Document
  BY <1>1 DEF Document
<1> QED
  BY <1>2, <1>3 DEF Guard!DropKey

\* The marker fits, so that the size of a text with it lies within two bytes of
\* the limit.
LEMMA PlainFits ==
  ASSUME NEW w \in 1 .. 4, NEW total \in Nat, total > MaxBytes, NEW r \in Nat
  PROVE  Guard!PlainSize(w, total, r) \in MaxBytes - 2 .. MaxBytes
<1> DEFINE m == Guard!Marker(total, r)
           n == MaxBytes - m
           left == n % w
<1>1. Guard!Digits(total) \in 1 .. 9 /\ Guard!Digits(r) \in 1 .. 9
  BY DigitsGrow
<1>2. m \in Nat /\ m <= 54
  BY <1>1 DEF Guard!Marker, Guard!MarkerFrame
<1>3. n \in Nat /\ ~(total <= n)
  BY <1>2, GuardFacts
<1>4. left \in 0 .. 3
  <2>1. w = 1 \/ w = 2 \/ w = 3 \/ w = 4
    OBVIOUS
  <2> HIDE DEF n
  <2> QED
    BY <1>3, <2>1
<1>5. Guard!PlainSize(w, total, r) = n - (IF left = 3 THEN 0 ELSE left) + m
  BY <1>3 DEF Guard!PlainSize, Guard!Sliced, Guard!Broken, Guard!Leftover
<1> HIDE DEF m, left
<1> QED
  BY <1>2, <1>3, <1>4, <1>5, GuardFacts

\* It depends on the digits of the size it states only, so the first is the last.
LEMMA PlainSettles ==
  ASSUME NEW w \in 1 .. 4, NEW total \in Nat, total > MaxBytes
  PROVE  LET r == Guard!PlainSize(w, total, MaxBytes)
         IN  r \in Nat /\ r <= MaxBytes /\ Guard!PlainSize(w, total, r) = r
<1> DEFINE r == Guard!PlainSize(w, total, MaxBytes)
<1>1. r \in MaxBytes - 2 .. MaxBytes
  BY PlainFits, GuardFacts
<1>2. r \in Nat /\ MaxBytes - 2 \in Nat
  BY <1>1, GuardFacts
<1>3. Guard!Digits(r) = Guard!Digits(MaxBytes)
  <2>1. Guard!Digits(MaxBytes - 2) <= Guard!Digits(r) /\ Guard!Digits(r) \in 1 .. 9
    BY <1>1, <1>2, DigitsGrow
  <2>2. Guard!Digits(r) <= Guard!Digits(MaxBytes) /\ Guard!Digits(MaxBytes) \in 1 .. 9
    BY <1>1, <1>2, GuardFacts, DigitsGrow
  <2> QED
    BY <2>1, <2>2, GuardFacts
<1>4. Guard!PlainSize(w, total, r) = r
  <2>1. \A q \in Nat : Guard!Digits(q) = Guard!Digits(MaxBytes) =>
                           Guard!PlainSize(w, total, q) = r
    BY DEF Guard!PlainSize, Guard!Marker
  <2> HIDE DEF r
  <2> QED
    BY <1>2, <1>3, <2>1
<1> QED
  BY <1>1, <1>2, <1>4, GuardFacts

\* A pass of the first loop.
LEMMA ShrinkStep ==
  ASSUME GuardInv, Guard!ShrinkText \/ Guard!ShrinkArray \/ Guard!EmptyText \/ Guard!ShrinkKeys
  PROVE  GuardInv'
<1>1. stage = "shrink" /\ pass < Passes /\ doc \in Document /\ returned = 0 /\ pass \in Nat
  BY DEF GuardInv, Guard!TypeOK, Guard!ShrinkText, Guard!ShrinkArray, Guard!EmptyText,
         Guard!ShrinkKeys, Guard!Shrinking
<1>2. Guard!ShrinkText => Guard!Over \in Nat
  <2>1. Guard!Digits(0) \in 1 .. 9
    BY DigitsGrow
  <2>2. Guard!Bytes(doc, 0) \in Nat
    BY <1>1, <2>1, BytesAre
  <2> QED
    BY <1>1, <2>2, GuardFacts DEF Guard!ShrinkText, Guard!Shrinking, Guard!Over
<1>3. \E d \in Document : Guard!Shrunk(d)
  BY <1>1, <1>2, NarrowedTyped, ArrayTyped, KeysTyped
     DEF Guard!ShrinkText, Guard!ShrinkArray, Guard!EmptyText, Guard!ShrinkKeys
<1>4. /\ doc' \in Document /\ pass' = pass + 1
      /\ UNCHANGED <<stage, returned, sent, broken>>
  BY <1>3 DEF Guard!Shrunk
<1> QED
  BY <1>1, <1>4, GuardFacts DEF GuardInv, Guard!TypeOK

\* No narrowing any more.
LEMMA EndShrinkingStep ==
  ASSUME GuardInv, Guard!EndShrinking
  PROVE  GuardInv'
<1>1. stage = "shrink" /\ doc \in Document /\ returned = 0
  BY DEF GuardInv, Guard!EndShrinking
<1>2. stage' = "fill" /\ pass' = 0 /\ UNCHANGED <<doc, returned, sent, broken>>
  BY DEF Guard!EndShrinking
<1>3. Filling'
  BY <1>1, <1>2 DEF Filling
<1> QED
  BY <1>1, <1>2, <1>3 DEF GuardInv, Guard!TypeOK, Guard!FillPasses

\* The sizes that are written one after the other.
LEMMA FillingFacts ==
  ASSUME GuardInv, stage = "fill"
  PROVE  /\ doc \in Document /\ returned \in Nat /\ pass \in 0 .. 4
         /\ Guard!Bytes(doc, returned) \in Nat
         /\ Guard!Bytes(doc, returned) = Rest(doc) + Guard!Digits(returned)
         /\ pass >= 3 => Guard!Bytes(doc, returned) = returned
<1>1. doc \in Document /\ returned \in Nat /\ pass \in 0 .. 4 /\ Filling
  BY DEF GuardInv, Guard!TypeOK, Guard!FillPasses
<1>2. Rest(doc) \in Nat /\ Guard!Bytes(doc, returned) = Rest(doc) + Guard!Digits(returned)
  BY <1>1, BytesAre
<1>3. Guard!Digits(returned) \in 1 .. 9
  BY <1>1, DigitsGrow
<1>4. pass >= 3 => Rest(doc) + Guard!Digits(returned) = returned
  BY <1>1, <1>2, SizesSettle DEF Filling
<1> QED
  BY <1>1, <1>2, <1>3, <1>4

\* The size is written into the document.
LEMMA FillStep ==
  ASSUME GuardInv, Guard!Fill
  PROVE  GuardInv'
<1>1. /\ stage = "fill" /\ pass < 4 /\ returned' = Guard!Bytes(doc, returned) /\ pass' = pass + 1
      /\ returned # Guard!Bytes(doc, returned) /\ UNCHANGED <<stage, doc, sent, broken>>
  BY DEF Guard!Fill, Guard!Unfilled, Guard!FillPasses
<1>2. /\ doc \in Document /\ pass \in 0 .. 4 /\ returned' \in Nat
      /\ returned' = Rest(doc) + Guard!Digits(returned) /\ pass < 3
  BY <1>1, FillingFacts
<1>3. Guard!Digits(0) = 1
  BY DigitsOf DEF DigitsAre
<1>4. Rest(doc)' = Rest(doc)
  BY <1>1 DEF Rest
<1>5. Filling'
  <2>1. pass = 0 \/ pass = 1 \/ pass = 2
    BY <1>1, <1>2
  <2>2. Filling
    BY <1>1 DEF GuardInv
  <2> QED
    BY <1>1, <1>2, <1>3, <1>4, <2>1, <2>2 DEF Filling
<1> QED
  BY <1>1, <1>2, <1>5 DEF GuardInv, Guard!TypeOK, Guard!FillPasses

\* The document or the fallback is sent.
LEMMA SendStep ==
  ASSUME GuardInv, Guard!SendDocument \/ Guard!SendFallback
  PROVE  GuardInv'
<1>1. /\ stage = "fill" /\ stage' = "done" /\ UNCHANGED <<pass, doc, broken, returned>>
  BY DEF Guard!SendDocument, Guard!SendFallback, Guard!Send
<1>2. /\ doc \in Document /\ returned \in Nat /\ pass \in 0 .. 4
      /\ Guard!Bytes(doc, returned) \in Nat
      /\ pass >= 3 => Guard!Bytes(doc, returned) = returned
  BY <1>1, FillingFacts
<1>3. CASE Guard!SendDocument
  <2>1. sent' = Guard!Bytes(doc, returned) /\ Guard!Bytes(doc, returned) <= MaxBytes
    BY <1>2, <1>3, GuardFacts DEF Guard!SendDocument, Guard!Send, Guard!TooLarge
  <2>2. sent' = returned
    BY <1>2, <1>3, <2>1 DEF Guard!SendDocument, Guard!Unfilled, Guard!FillPasses
  <2> QED
    BY <1>1, <1>2, <2>1, <2>2 DEF GuardInv, Guard!TypeOK, Guard!FillPasses, Guard!MarkPasses
<1>4. CASE Guard!SendFallback
  <2>1. Guard!Digits(returned) \in 1 .. 9
    BY <1>2, DigitsGrow
  <2>2. sent' \in Nat /\ sent' <= MaxBytes /\ Guard!Bytes(doc, returned) > MaxBytes
    BY <1>4, <2>1, GuardFacts DEF Guard!SendFallback, Guard!Send, Guard!TooLarge
  <2>3. "texts" \in DOMAIN doc
    BY <1>2 DEF Document
  <2>4. Guard!Bytes(doc, returned)' = Guard!Bytes(doc, returned)
    BY <1>1 DEF Guard!Bytes
  <2>5. sent' # Guard!Bytes(doc, returned)
    BY <1>2, <2>2, GuardFacts
  <2>6. Guard!IsFallback'
    BY <1>1, <2>3, <2>4, <2>5 DEF Guard!IsFallback, Guard!IsDocument
  <2> QED
    BY <1>1, <1>2, <2>2, <2>6 DEF GuardInv, Guard!TypeOK, Guard!FillPasses, Guard!MarkPasses
<1> QED
  BY <1>3, <1>4

\* A pass over the marker, and the text that is sent.
LEMMA PlainStep ==
  ASSUME GuardInv, Guard!MarkPlain \/ Guard!SendPlain
  PROVE  GuardInv'
<1> DEFINE w == doc.width
           b == doc.bytes
           r == Guard!PlainSize(w, b, MaxBytes)
<1>1. stage = "mark" /\ Marking /\ pass \in 0 .. 8
  BY DEF GuardInv, Guard!TypeOK, Guard!MarkPasses, Guard!MarkPlain, Guard!SendPlain
<1>2. w \in 1 .. 4 /\ b \in Nat /\ b > MaxBytes
  BY <1>1 DEF Marking
<1>3. r \in Nat /\ r <= MaxBytes /\ Guard!PlainSize(w, b, r) = r
  BY <1>2, PlainSettles
<1>4. returned = IF pass = 0 THEN MaxBytes ELSE r
  BY <1>1 DEF Marking
<1>5. Guard!PlainSize(w, b, returned) = r
  BY <1>3, <1>4
<1> HIDE DEF r
<1>6. CASE Guard!MarkPlain
  <2>1. returned' = r /\ pass' = pass + 1 /\ pass < 8 /\ UNCHANGED <<stage, doc, sent, broken>>
    BY <1>1, <1>5, <1>6 DEF Guard!MarkPlain, Guard!Settled, Guard!MarkPasses
  <2>2. Marking'
    BY <1>1, <2>1 DEF Marking, r
  <2> QED
    BY <1>1, <1>3, <2>1, <2>2 DEF GuardInv, Guard!TypeOK, Guard!MarkPasses
<1>7. CASE Guard!SendPlain
  <2>1. stage' = "done" /\ sent' = r /\ broken' \in BOOLEAN /\ UNCHANGED <<pass, doc, returned>>
    BY <1>5, <1>7 DEF Guard!SendPlain, Guard!Broken
  <2>2. returned = r
    BY <1>1, <1>4, <1>5, <1>7 DEF Guard!SendPlain, Guard!Settled, Guard!MarkPasses
  <2> QED
    BY <1>1, <1>3, <2>1, <2>2 DEF GuardInv, Guard!TypeOK, Guard!MarkPasses
<1> QED
  BY <1>6, <1>7

\* What leaves the hub fits the limit, and states its own size, although
\* stating it changes it, unless it is the fallback; the sizes settle before the
\* loops that write them run out of passes.
THEOREM GuardIsSafe == Guard!Spec => []GuardSafe
<1>1. Guard!Init => GuardInv
  BY GuardStart
<1>2. GuardInv /\ [Guard!Next]_(Guard!vars) => GuardInv'
  <2> SUFFICES ASSUME GuardInv, [Guard!Next]_(Guard!vars) PROVE GuardInv'
    OBVIOUS
  <2>1. CASE UNCHANGED Guard!vars
    BY <2>1 DEF Guard!vars, GuardInv, Filling, Marking, Rest, Guard!TypeOK, Guard!IsFallback,
                Guard!IsDocument
  <2>2. CASE Guard!Next
    BY <2>2, ShrinkStep, EndShrinkingStep, FillStep, SendStep, PlainStep DEF Guard!Next
  <2> QED
    BY <2>1, <2>2
<1>3. GuardInv => GuardSafe
  BY DEF GuardInv, GuardSafe, Guard!WithinBudget, Guard!StatesItsSize
<1> QED
  BY <1>1, <1>2, <1>3, PTL DEF Guard!Spec

=============================================================================
