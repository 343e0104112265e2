------------------------------ MODULE HubParts ------------------------------
(***************************************************************************)
(* What a hub keeps apart for the calls that pass through it: presence, the *)
(* router with its catalogs, audit rows and aggregated reads, and the guard *)
(* of its responses (Presence, Routing, Guard).  They share no state: the   *)
(* outcome of presence is an input of the router.                           *)
(***************************************************************************)
EXTENDS Integers, Sequences, FiniteSets

CONSTANTS
  Nodes, NoNode,
  Ttl, ManualTtl, Window, Requested, MaxDelay, MaxClaims, MaxTime,         \* Presence
  Sessions, Workspaces, PathOf, DefaultNode, Calls, RouterAsks,            \* Routing
  Snapshots, MaxChanges, MaxFlaps, DaemonFails, AuditWindow, Audited,      \* Routing
  MaxBytes, Suffix, Slack, MinText, Passes, Frame, Fallback,               \* Guard
  TextSizes, TextCounts, ElementSizes, ElementCounts, ScalarSizes,         \* Guard
  CharWidths, PlainBytes                                                   \* Guard

VARIABLES
  lease, now, claims, auto, hand,                                         \* Presence
  has, taken, catalog, connected, healthy, presence, call, audit, agg,
  changes, flaps, told,                                                   \* Routing
  stage, pass, doc, returned, sent, broken                                \* Guard

presenceVars == <<lease, now, claims, auto, hand>>
routingVars ==
  <<has, taken, catalog, connected, healthy, presence, call, audit, agg, changes, flaps, told>>
guardVars == <<stage, pass, doc, returned, sent, broken>>

Presence == INSTANCE Presence WITH NoLease <- NoNode
Router == INSTANCE Routing WITH None <- NoNode, Requests <- RouterAsks
Guard == INSTANCE Guard

ASSUME HubAssumption == Presence!PresenceAssumption /\ Router!RoutingAssumption /\ Guard!GuardAssumption

-----------------------------------------------------------------------------
(* Properties *)

\* Absent users are forgotten, users at two machines never guessed between, and
\* the evidence of a route tells which of the two it was (presence.ts).
PresenceSafe ==
  Presence!TypeOK /\ Presence!AbsentForgotten /\ Presence!AmbiguityExplained /\ Presence!NoGuess

\* A call stays with the node that owns its session, and an id that two nodes
\* share names neither (router.ts route, catalogs.ts get).
OwnerServes == Router!OwnerServes /\ Router!NoOwnerGuessed

\* Every call that ended has a row with its result, however the ends of calls
\* interleave (control-plane.ts auditResult).
AuditSettles == Router!TypeOK /\ Router!AuditSettles

\* A node that answered as long as a read ran is in its result (server.ts
\* aggregateSessions).
AggregateComplete == Router!AggregateComplete

\* What leaves the hub fits the limit and states its own size (guard.ts
\* applyGuard).
GuardSafe == Guard!TypeOK /\ Guard!WithinBudget /\ Guard!StatesItsSize
=============================================================================
