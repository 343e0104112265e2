------------------------------ MODULE Presence ------------------------------
(***************************************************************************)
(* Presence leases: PresenceRegistry (store/src/presence.ts), the claims    *)
(* that reach it from the local listener of a node (presence/src/           *)
(* listener.ts, agent.ts reportPresence, control-plane.ts                   *)
(* handlePresenceReport), and the MCP tools presence_claim and              *)
(* presence_release (hub/src/mcp/server.ts handlePresence).                 *)
(*                                                                         *)
(* Confidence is "high" (0.8 and more) or "low"; "sure" is the 1.0 of a     *)
(* manual claim.                                                            *)
(***************************************************************************)
EXTENDS Integers, FiniteSets

CONSTANTS
  Nodes,
  Ttl, ManualTtl,   \* default lifetimes, and the cap of automatic claims
  Window,           \* the ambiguity window
  Requested,        \* positive values of ttl_ms in presence_claim
  MaxDelay,         \* how late a report may be handled
  MaxClaims,        \* bound: reports and manual claims
  MaxTime,
  NoLease

PresenceAssumption ==
  /\ IsFiniteSet(Nodes)
  /\ Ttl \in Nat /\ ManualTtl \in Nat /\ Window \in Nat /\ Requested \subseteq Nat
  /\ MaxDelay \in Nat /\ MaxClaims \in Nat /\ MaxTime \in Nat

VARIABLES
  lease,       \* presence_leases
  now,
  claims,      \* reports and claims so far
  auto, hand   \* history: the last automatic and the last manual claim of each node

vars == <<lease, now, claims, auto, hand>>

Never == -1
Rank == [low |-> 0, high |-> 1, sure |-> 2]

Init ==
  /\ lease = [n \in Nodes |-> NoLease] /\ now = 0 /\ claims = 0
  /\ auto = [n \in Nodes |-> Never] /\ hand = [n \in Nodes |-> Never]

-----------------------------------------------------------------------------
(* The registry *)

Smaller(a, b) == IF a < b THEN a ELSE b

\* Mutants of Lifetime: what was asked for is not capped; a lifetime that is
\* not positive is taken as it is.
LifetimeAsked(manual, ttl) == IF ttl > 0 THEN ttl ELSE IF manual THEN ManualTtl ELSE Ttl

LifetimeSigned(manual, ttl) == Smaller(ttl, IF manual THEN 6 * ManualTtl ELSE Ttl)

\* claim(): the lifetime asked for, or the default, capped by source.
Lifetime(manual, ttl) ==
  LET asked == IF ttl > 0 THEN ttl ELSE IF manual THEN ManualTtl ELSE Ttl
  IN Smaller(asked, IF manual THEN 6 * ManualTtl ELSE Ttl)

\* One row per node: a claim replaces the node's last one, whatever it was.
Claimed(n, manual, conf, at, ttl, pinned) ==
  [lease EXCEPT ![n] = [conf |-> conf, at |-> at, until |-> at + Lifetime(manual, ttl), pinned |-> pinned]]

\* live(), after its sweep.
Live == {n \in Nodes : lease[n] # NoLease /\ lease[n].until >= now}

Pins == {n \in Live : lease[n].pinned}
Sure == {n \in Live : lease[n].conf # "low"}
Latest(S) == {n \in S : \A m \in S : lease[m].at <= lease[n].at}
Gap(n, m) == IF lease[n].at > lease[m].at THEN lease[n].at - lease[m].at ELSE lease[m].at - lease[n].at

\* Mutants of Collides: a low confidence is enough; the window is open.
CollidesAny(S, n) == \E m \in S \ {n} : Gap(n, m) <= Window

CollidesWithin(S, n) ==
  \E m \in S \ {n} : /\ \A o \in S \ {n} : lease[o].at <= lease[m].at
                     /\ Gap(n, m) < Window /\ lease[m].conf # "low"

\* The second freshest lease is as good and too close.
Collides(S, n) ==
  \E m \in S \ {n} : /\ \A o \in S \ {n} : lease[o].at <= lease[m].at
                     /\ Gap(n, m) <= Window /\ lease[m].conf # "low"

\* activeNode: a pin with the highest confidence, or the freshest lease unless
\* it is ambiguous.  Equal leases are told apart by the order of the rows,
\* which is left open here: any node of the set may be the one.
Active ==
  IF Pins # {} THEN {n \in Pins : \A m \in Pins : Rank[lease[m].conf] <= Rank[lease[n].conf]}
  ELSE LET S == IF Sure # {} THEN Sure ELSE Live
       IN {n \in Latest(S) : ~Collides(S, n)}

\* Router.isPresenceAmbiguous: the two freshest of the sure ones.
Ambiguous ==
  \E n \in Latest(Sure) : \E m \in Latest(Sure \ {n}) : Gap(n, m) <= Window

-----------------------------------------------------------------------------
(* Claims *)

\* A report of the listener, handled some time after it was observed.
Reported(n) ==
  /\ claims < MaxClaims /\ claims' = claims + 1
  /\ \E conf \in {"low", "high"}, pinned \in BOOLEAN, at \in (now - MaxDelay) .. now :
       /\ at >= 0
       /\ lease' = Claimed(n, FALSE, conf, at, Ttl, pinned)
       /\ auto' = [auto EXCEPT ![n] = IF at > @ THEN at ELSE @]
  /\ UNCHANGED <<now, hand>>

\* presence_claim: any number may be asked for, 0 stands for none.
ClaimPresence(n) ==
  /\ claims < MaxClaims /\ claims' = claims + 1
  /\ \E ttl \in Requested \cup {0, -1} : lease' = Claimed(n, TRUE, "sure", now, ttl, TRUE)
  /\ hand' = [hand EXCEPT ![n] = now]
  /\ UNCHANGED <<now, auto>>

\* presence_release: the lease goes, whatever its source.
ReleasePresence(n) ==
  /\ lease[n] # NoLease
  /\ lease' = [lease EXCEPT ![n] = NoLease]
  /\ UNCHANGED <<now, claims, auto, hand>>

\* Every read sweeps.
Sweep ==
  /\ \E n \in Nodes : lease[n] # NoLease /\ n \notin Live
  /\ lease' = [n \in Nodes |-> IF n \in Live THEN lease[n] ELSE NoLease]
  /\ UNCHANGED <<now, claims, auto, hand>>

Tick == now < MaxTime /\ now' = now + 1 /\ UNCHANGED <<lease, claims, auto, hand>>

Next ==
  \/ \E n \in Nodes : Reported(n) \/ ClaimPresence(n) \/ ReleasePresence(n)
  \/ Sweep \/ Tick

Spec == Init /\ [][Next]_vars

-----------------------------------------------------------------------------
(* Properties *)

TypeOK ==
  /\ lease \in [Nodes -> [conf : {"low", "high", "sure"}, at : Nat, until : Nat, pinned : BOOLEAN] \cup {NoLease}]
  /\ now \in Nat /\ claims \in 0 .. MaxClaims /\ auto \in [Nodes -> Nat \cup {Never}] /\ hand \in [Nodes -> Nat \cup {Never}]

\* A node nobody was seen at for the lifetime of a claim attracts no calls,
\* whatever lifetimes were asked for and however late reports are handled
\* (presence.ts claim, sweep).
AbsentForgotten == \A n \in Active :
  \/ auto[n] # Never /\ now - auto[n] <= Ttl
  \/ hand[n] # Never /\ now - hand[n] <= 6 * ManualTtl

\* When presence does not decide, the evidence of the route says exactly
\* whether leases collided (router.ts isPresenceAmbiguous, which recomputes
\* what activeNode decided).
AmbiguityExplained == Active = {} => (Ambiguous <=> Live # {})

\* Two users at two machines at the same time are never guessed between: a node
\* is active only while no other node without a pin is as sure and as fresh.
NoGuess == \A n \in Active :
  lease[n].pinned \/ \A m \in Live \ {n} :
    lease[m].conf = "low" \/ lease[n].conf = "low" \/ Gap(n, m) > Window

-----------------------------------------------------------------------------
(* Claim that fails *)

\* presence_claim: "Manually claim presence on a node (default 10min TTL,
\* pinned)" (mcp/tools.ts): until it is released or ends, some pin is active.
PinHolds ==
  [][\A n \in Nodes : n \in Pins /\ lease[n].conf = "sure" /\ lease'[n] # NoLease => lease'[n].pinned]_lease
=============================================================================
