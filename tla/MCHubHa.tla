------------------------------ MODULE MCHubHa ------------------------------
(***************************************************************************)
(* Values for the constants of HubHa.                                      *)
(***************************************************************************)
EXTENDS HubHa

\* Both hubs run with the default --cp-priority: the smaller id wins.
MCSamePriority == [c \in CP |-> DefaultPriority]

\* The deployment of README.md:109: the second control plane to be set up is
\* CP 1, with --cp-priority 1, so CP 2 with the default is preferred over it.
MCSecondFirst == [c \in CP |-> IF c = 1 THEN 1 ELSE DefaultPriority]

\* Both hubs start over an empty store.
MCFreshStores == [c \in CP |-> [term |-> 1, leader |-> NoLeader, leaderTerm |-> 0]]

\* Both hubs start over the stores of a pair that CP 1 led at term 2.
MCSettledStores == [c \in CP |-> [term |-> 2, leader |-> 1, leaderTerm |-> 2]]

\* CP 2 led at term 2, and its machine is replaced: it starts over an empty store.
MCReplacedLeader ==
  [c \in CP |-> IF c = 1 THEN [term |-> 2, leader |-> 2, leaderTerm |-> 2]
                         ELSE MCFreshStores[2]]

MCNone == {}
MCAllFaults == FaultKind
MCCrashes == {"restart", "cut"}
MCDeathsAndLateClose == {"restart", "cut", "torn", "lateClose"}
MCOnlyTorn == {"torn"}
MCCuts == {"cut"}
MCLateClose == {"cut", "lateClose"}

=============================================================================
