------------------------------ MODULE Routing ------------------------------
(***************************************************************************)
(* Where a call goes: the catalogs of sessions and workspaces               *)
(* (store/src/catalogs.ts), the reconciles that fill them                   *)
(* (node-agent/src/agent.ts, bridge.ts reconcile, control-plane.ts          *)
(* handleReconcile), Router.route (hub/src/router.ts), ControlPlane.forward *)
(* with its audit rows (control-plane.ts, store/src/audit.ts), and the      *)
(* aggregated reads.                                                        *)
(*                                                                         *)
(* A session or workspace is an item, known by an id that is private to its *)
(* node: two nodes may hold items of the same id.  Presence is the outcome  *)
(* of PresenceRegistry.activeNode, see module Presence.                     *)
(***************************************************************************)
EXTENDS Naturals, Sequences, FiniteSets

CONSTANTS
  Nodes, Sessions, Workspaces,
  PathOf,        \* the path of each workspace
  DefaultNode,
  Calls, Requests,
  Snapshots,     \* reconciles a node has under way at once
  MaxChanges,    \* how often items come and go
  MaxFlaps,      \* how often connections, health and presence change
  DaemonFails,   \* the local daemon may fail to list
  AuditWindow,   \* rows auditResult looks at
  Audited,       \* the control plane was given an audit log; startHub gives it none
  None

Items == Sessions \cup Workspaces

RoutingAssumption ==
  /\ DefaultNode \in Nodes /\ None \notin Nodes \cup Items \cup (Nodes \X Items)
  /\ Items \cap (Nodes \X Items) = {} /\ IsFiniteSet(Calls)
  /\ Snapshots \in Nat /\ MaxChanges \in Nat /\ MaxFlaps \in Nat /\ AuditWindow \in Nat
  /\ DaemonFails \in BOOLEAN /\ Audited \in BOOLEAN

VARIABLES
  has,        \* @node: the items of its daemon
  taken,      \* @node: snapshots on their way to the hub
  catalog,    \* @hub: the items the tables hold for each node
  connected, healthy, presence,
  call,       \* @hub: the calls
  audit,      \* @hub: the audit table
  agg,        \* @hub: an aggregated read
  changes, flaps,
  told        \* history: items the hub was told of since they exist, and
              \* that no snapshot on its way leaves out

itemVars  == <<has, taken, catalog, told, changes>>
worldVars == <<connected, healthy, presence, flaps>>
callVars  == <<call, audit>>
vars == <<itemVars, worldVars, callVars, agg>>

Idle == [stage |-> "idle", req |-> None, via |-> "none", node |-> None]
NoRead == [stage |-> "idle", todo |-> {}, got |-> {}, steady |-> {}]

Init ==
  /\ has = [n \in Nodes |-> {}] /\ taken = [n \in Nodes |-> {}]
  /\ catalog = [n \in Nodes |-> {}] /\ told = [n \in Nodes |-> {}]
  /\ connected = Nodes /\ healthy = Nodes /\ presence = "empty"
  /\ call = [k \in Calls |-> Idle] /\ audit = <<>> /\ agg = NoRead
  /\ changes = 0 /\ flaps = 0

-----------------------------------------------------------------------------
(* Catalogs *)

\* A node's user creates or deletes an item.
ItemChanges(n, i) ==
  /\ changes < MaxChanges /\ changes' = changes + 1
  /\ has' = [has EXCEPT ![n] = IF i \in @ THEN @ \ {i} ELSE @ \cup {i}]
  /\ told' = [told EXCEPT ![n] = @ \ {i}]
  /\ UNCHANGED <<taken, catalog, worldVars, callVars, agg>>

\* bridge.reconcile: a list that fails counts as an empty one.
Listings(n) ==
  {has[n]} \cup IF DaemonFails THEN {has[n] \ Sessions, has[n] \ Workspaces} ELSE {}

\* collectLocalCatalog, by one of the node's reconcile chains.
Collect(n) ==
  /\ Cardinality(taken[n]) < Snapshots
  /\ \E s \in Listings(n) : /\ taken' = [taken EXCEPT ![n] = @ \cup {s}]
                            /\ told' = [told EXCEPT ![n] = @ \cap s]
  /\ UNCHANGED <<has, catalog, changes, worldVars, callVars, agg>>

\* Mutant of Replace: what the hub knows is kept.
ReplaceNone(n, s) == [catalog EXCEPT ![n] = @ \cup s]

\* SessionCatalog.reconcile and WorkspaceCatalog.reconcile: delete and insert
\* in one transaction each, without an await between them.
Replace(n, s) == [catalog EXCEPT ![n] = s]

\* handleReconcile.
Reconcile(n, s) ==
  /\ s \in taken[n] /\ n \in connected
  /\ taken' = [taken EXCEPT ![n] = @ \ {s}]
  /\ catalog' = Replace(n, s)
  /\ told' = [told EXCEPT ![n] = {i \in @ \cup (s \cap has[n]) : \A t \in taken'[n] : i \in t}]
  /\ UNCHANGED <<has, changes, worldVars, callVars, agg>>

-----------------------------------------------------------------------------
(* The router *)

Holders(i) == {n \in Nodes : i \in catalog[n]}

\* Mutant of Only: the first row will do.
OnlyFirst(S) == IF S = {} THEN S ELSE {CHOOSE n \in S : TRUE}

\* A lookup that several rows answer finds nothing.
Only(S) == IF Cardinality(S) = 1 THEN S ELSE {}

\* A session or workspace is named by its id, or by node and id.
Ref == Items \cup (Nodes \X Items)

ById(ref) ==
  IF ref \in Items THEN Only(Holders(ref)) ELSE {ref[1]} \cap Holders(ref[2])

\* SessionCatalog.get; WorkspaceCatalog.resolve, which tries the path as well.
BySession(ref) == IF ref = None THEN {} ELSE ById(ref)

RowsAt(path) == {r \in Nodes \X Workspaces : r[2] \in catalog[r[1]] /\ PathOf[r[2]] = path}

ByWorkspace(ref) ==
  CASE ref = None                -> {}
    [] ref \in Ref               -> ById(ref)
    [] ref \notin Ref \cup {None} -> {r[1] : r \in Only(RowsAt(ref))}

To(via, S) == [via |-> via, node |-> IF S = {} THEN None ELSE CHOOSE n \in S : TRUE]

\* The rules below an explicit target, in the order they are tried.
Rules(r) ==
  << To("session_owner", BySession(r.session)),
     To("workspace_owner", ByWorkspace(r.workspace)),
     To("presence", {presence} \cap Nodes),
     To("default", {DefaultNode} \cap healthy) >>

\* Mutant of First: presence before the owners.
FirstPresence(rules) == IF rules[3].node # None THEN rules[3] ELSE rules[1]

\* The first rule that finds a node; the last one when none does.
First(rules) ==
  rules[CHOOSE i \in DOMAIN rules :
          /\ rules[i].node # None \/ i = Len(rules)
          /\ \A j \in 1 .. i - 1 : rules[j].node = None]

\* Mutant of Route: the explicit target is not looked up.
RouteBlind(r) ==
  IF r.target # None THEN [via |-> "explicit", node |-> r.target] ELSE First(Rules(r))

\* Router.route.
Route(r) == IF r.target # None THEN To("explicit", {r.target} \cap Nodes) ELSE First(Rules(r))

-----------------------------------------------------------------------------
(* Calls *)

\* Mutant of Rows: the oldest rows.
RowsOldest == {i \in 1 .. Len(audit) : i <= AuditWindow}

\* audit.list(100, op): the newest rows.
Rows == {i \in 1 .. Len(audit) : i > Len(audit) - AuditWindow}

\* auditResult: the row of the call, if it is among them and still pending.
Settled(k, result) ==
  [i \in DOMAIN audit |->
     IF i \in Rows /\ audit[i].call = k /\ audit[i].result = "pending"
     THEN [audit[i] EXCEPT !.result = result] ELSE audit[i]]

\* handleRouted: the route and the lookup of the connection are one step;
\* rejected calls and calls without a connection leave no row.
Decide(k, r) ==
  /\ call[k].stage = "idle"
  /\ LET to == Route(r)
         sent == to.node # None /\ to.node \in connected
     IN /\ call' = [call EXCEPT ![k] =
                      [stage |-> IF sent THEN "sent" ELSE "rejected", req |-> r, via |-> to.via, node |-> to.node]]
        /\ audit' = IF sent /\ Audited THEN Append(audit, [call |-> k, node |-> to.node, result |-> "pending"]) ELSE audit
  /\ UNCHANGED <<itemVars, worldVars, agg>>

\* forward: the node answers, fails or times out.
Ended(k, result) ==
  /\ \/ call[k].stage = "sent"
     \/ call[k].stage = "cut" /\ result = "error"
  /\ call' = [call EXCEPT ![k].stage = result]
  /\ audit' = Settled(k, result)
  /\ UNCHANGED <<itemVars, worldVars, agg>>

-----------------------------------------------------------------------------
(* Aggregated reads *)

\* aggregateSessions, aggregateWorkspaces: the nodes within their lease, asked
\* one after the other.
ReadStarts ==
  /\ agg.stage = "idle"
  /\ agg' = [stage |-> "run", todo |-> healthy, got |-> {}, steady |-> healthy \cap connected]
  /\ UNCHANGED <<itemVars, worldVars, callVars>>

\* Mutant of Skip: the first failure ends the read.
SkipAll(n) == {}

\* A node without a connection, or one that fails, is left out.
Skip(n) == agg.todo \ {n}

ReadNode(n) ==
  /\ agg.stage = "run" /\ n \in agg.todo
  /\ \/ n \in connected /\ agg' = [agg EXCEPT !.todo = @ \ {n}, !.got = @ \cup {n}]
     \/ agg' = [agg EXCEPT !.todo = Skip(n), !.steady = @ \ {n}]
  /\ UNCHANGED <<itemVars, worldVars, callVars>>

ReadEnds ==
  /\ agg.stage = "run" /\ agg.todo = {}
  /\ agg' = [agg EXCEPT !.stage = "done"]
  /\ UNCHANGED <<itemVars, worldVars, callVars>>

-----------------------------------------------------------------------------
(* The world *)

Flap == flaps < MaxFlaps /\ flaps' = flaps + 1

\* A connection comes or goes; the calls of a lost one can only fail.
ConnectionChanges(n) ==
  /\ Flap
  /\ connected' = IF n \in connected THEN connected \ {n} ELSE connected \cup {n}
  /\ call' = [k \in Calls |-> IF call[k].stage = "sent" /\ call[k].node \notin connected'
                             THEN [call[k] EXCEPT !.stage = "cut"] ELSE call[k]]
  /\ agg' = [agg EXCEPT !.steady = @ \cap connected']
  /\ UNCHANGED <<itemVars, healthy, presence, audit>>

\* A lease runs out or is renewed.
HealthChanges(n) ==
  /\ Flap
  /\ healthy' = IF n \in healthy THEN healthy \ {n} ELSE healthy \cup {n}
  /\ UNCHANGED <<itemVars, connected, presence, callVars, agg>>

PresenceChanges ==
  /\ Flap
  /\ presence' \in (Nodes \cup {"empty", "ambiguous"}) \ {presence}
  /\ UNCHANGED <<itemVars, connected, healthy, callVars, agg>>

Next ==
  \/ \E n \in Nodes : (\E i \in Items : ItemChanges(n, i)) \/ Collect(n) \/ (\E s \in taken[n] : Reconcile(n, s))
  \/ \E k \in Calls : (\E r \in Requests : Decide(k, r)) \/ (\E res \in {"ok", "error"} : Ended(k, res))
  \/ ReadStarts \/ (\E n \in Nodes : ReadNode(n)) \/ ReadEnds
  \/ \E n \in Nodes : ConnectionChanges(n) \/ HealthChanges(n)
  \/ PresenceChanges

Spec == Init /\ [][Next]_vars

\* Reconcile chains go on and snapshots arrive; requests end by their timer.
FairSpec ==
  /\ Spec
  /\ \A n \in Nodes : WF_vars(Collect(n)) /\ \A s \in SUBSET Items : SF_vars(Reconcile(n, s))
  /\ \A k \in Calls : WF_vars(\E res \in {"ok", "error"} : Ended(k, res))

-----------------------------------------------------------------------------
(* Properties *)

HasEnded(k) == call[k].stage \in {"ok", "error"}

TypeOK ==
  /\ has \in [Nodes -> SUBSET Items] /\ taken \in [Nodes -> SUBSET SUBSET Items]
  /\ catalog \in [Nodes -> SUBSET Items] /\ told \in [Nodes -> SUBSET Items]
  /\ connected \subseteq Nodes /\ healthy \subseteq Nodes
  /\ presence \in Nodes \cup {"empty", "ambiguous"}
  /\ \A k \in Calls :
       /\ call[k].stage \in {"idle", "rejected", "sent", "cut", "ok", "error"}
       /\ call[k].node \in Nodes \cup {None}
       /\ call[k].stage \in {"sent", "cut", "ok", "error"} => call[k].node # None
  /\ Len(audit) <= Cardinality(Calls)
  /\ agg.todo \cup agg.got \cup agg.steady \subseteq Nodes
  /\ changes \in 0 .. MaxChanges /\ flaps \in 0 .. MaxFlaps

\* Call k is decided in this step.
DecidedNow(k) == call[k].stage = "idle" /\ call'[k].stage # "idle"

\* Calls stay with the owner: a session the hub has been told of, that no other
\* node's rows carry and no snapshot on its way leaves out, is served by its
\* node or the call is refused, whatever presence, leases and workspaces say,
\* however many reconciles overlap and whichever lists failed in between.
OwnerServes ==
  [][\A k \in Calls, n \in Nodes, s \in Sessions :
       /\ DecidedNow(k) /\ call'[k].req.target = None /\ call'[k].req.session \in {s, <<n, s>>}
       /\ s \in told[n] /\ \A o \in Nodes \ {n} : s \notin catalog[o]
       => call'[k].node = n]_vars

\* An id that two nodes' sessions share names neither of them: no call is sent
\* by the owner rule to one of several holders.
NoOwnerGuessed ==
  [][\A k \in Calls, s \in Sessions :
       DecidedNow(k) /\ call'[k].req.session = s /\ Cardinality(Holders(s)) > 1
       => call'[k].via # "session_owner"]_vars

\* As many calls were sent after that of row i as updateResult looks back over.
Buried(i) == AuditWindow <= Len(audit) - i

\* Every call that was sent has one row, which is pending as long as the call
\* is under way and has its result once it has ended (updateResult), however
\* the ends of concurrent calls interleave and connections fail; only a row
\* that later calls have buried may stay pending for good.
AuditSettles ==
  \A k \in Calls : Audited /\ call[k].stage \notin {"idle", "rejected"} =>
    \E i \in DOMAIN audit :
      /\ audit[i].call = k /\ \A j \in DOMAIN audit \ {i} : audit[j].call # k
      /\ \/ audit[i].result = IF HasEnded(k) THEN call[k].stage ELSE "pending"
         \/ audit[i].result = "pending" /\ Buried(i)

\* An aggregated read is complete: a node that was in its lease and connected
\* when it began, and answered as long as it ran, is in the result, whatever
\* other nodes did.
AggregateComplete == agg.stage = "done" => agg.steady \subseteq agg.got

\* The hub's tables converge on what the daemons hold: a node that stays
\* connected is listed with exactly its items in the end, deleted ones included.
CatalogConverges ==
  \A n \in Nodes : <>[](n \in connected) => <>[](catalog[n] = has[n])

\* What architecture.md says of writes, that none changes its node silently,
\* needs this: the hub does not lose the owner of a session that still exists.
OwnerKept ==
  [][\A n \in Nodes, s \in Sessions :
       s \in catalog[n] /\ s \in has[n] /\ s \in has'[n] => s \in catalog'[n]]_vars

\* What auditResult says of itself: the row of every ended call has its result.
EveryRowSettles ==
  \A k \in Calls : HasEnded(k) => \E i \in DOMAIN audit : audit[i].call = k /\ audit[i].result = call[k].stage

\* What router.ts says of destructive calls: one that would fall back on the
\* default node is refused.
FailClosed ==
  \A k \in Calls :
    call[k].stage \notin {"idle", "rejected"} /\ call[k].req.danger = "destructive" => call[k].via # "default"

HasRow(k) == \E i \in DOMAIN audit : audit[i].call = k

\* What router.ts says of the audit: every decision has its row.
EveryDecisionAudited == \A k \in Calls : call[k].stage # "idle" => HasRow(k)

\* What README.md says of the shipped hub: every routed call is in the table.
ForwardsAudited == \A k \in Calls : call[k].stage \notin {"idle", "rejected"} => HasRow(k)
=============================================================================
