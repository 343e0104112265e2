------------------------------ MODULE HaProxy ------------------------------
(***************************************************************************)
(* The HA front proxy (packages/cli/src/ha-proxy.ts): HaProxyController    *)
(* sends all MCP traffic to one of two control planes and moves it by      *)
(* health probes.  A timer starts a probe tick every 2 s; a tick probes    *)
(* the primary, then the secondary, each for up to 3 s, and judges both    *)
(* answers at its end.  So a tick may outlive the start of the next two,   *)
(* and ticks that overlap judge in any order, on answers of different age. *)
(***************************************************************************)
EXTENDS Naturals

CONSTANTS
  FailThreshold,     \* --fail-threshold
  RecoverThreshold,  \* --recover-threshold
  Overlap            \* ticks in flight at once: 3 for the default interval

ASSUME ProxyAssumption ==
  /\ FailThreshold \in Nat
  /\ RecoverThreshold \in Nat
  /\ Overlap \in Nat \ {0}

VARIABLES
  up,        \* up[b]: backend b answers health probes
  ctl,       \* the controller: its active backend and its two counters
  tick,      \* tick[i]: the state of the tick in slot i
  nextTick,  \* the slot of the next tick
  fails,     \* consecutive ticks judged with a failed primary probe, up to FailThreshold
  oks        \* consecutive ticks judged with a good primary probe, up to RecoverThreshold

vars == <<up, ctl, tick, nextTick, fails, oks>>

Backend == {"primary", "secondary"}
Slot == 0 .. Overlap - 1

\* The code's counters grow without end but are only compared with their
\* thresholds: the model stops them there.
CountTo(limit, n) == IF n < limit THEN n + 1 ELSE limit

\* A tick awaits the probe of the primary, then that of the secondary.
TickState == [stage: {"idle", "primary", "secondary"}, primaryOk: BOOLEAN]
Idle == [stage |-> "idle", primaryOk |-> FALSE]

Controller ==
  [active: Backend, failCount: 0 .. FailThreshold, recoverCount: 0 .. RecoverThreshold]

TypeOK ==
  /\ up \in [Backend -> BOOLEAN]
  /\ ctl \in Controller
  /\ tick \in [Slot -> TickState]
  /\ nextTick \in Slot
  /\ fails \in 0 .. FailThreshold
  /\ oks \in 0 .. RecoverThreshold

----------------------------------------------------------------------------

\* Mutant of SwitchTo: the counters are not reset.
SwitchToKeepsCounts(s, b) == [s EXCEPT !.active = b]

SwitchTo(s, b) ==
  IF s.active = b THEN s ELSE [active |-> b, failCount |-> 0, recoverCount |-> 0]

\* Mutant of OnPrimary: a good probe does not reset the count of failed ones.
OnPrimaryKeepsCount(s, primaryOk, secondaryOk) ==
  LET t == [s EXCEPT !.failCount = CountTo(FailThreshold, @)] IN
  IF primaryOk THEN s
  ELSE IF t.failCount >= FailThreshold /\ secondaryOk THEN SwitchTo(t, "secondary") ELSE t

OnPrimary(s, primaryOk, secondaryOk) ==
  LET t == [s EXCEPT !.failCount = CountTo(FailThreshold, @)] IN
  IF primaryOk THEN [s EXCEPT !.failCount = 0]
  ELSE IF t.failCount >= FailThreshold /\ secondaryOk THEN SwitchTo(t, "secondary") ELSE t

\* Mutants of OnSecondary: a dead secondary is kept; the primary's probe is not looked at.
OnSecondaryStays(s, primaryOk, secondaryOk) ==
  LET t == [s EXCEPT !.recoverCount = CountTo(RecoverThreshold, @)] IN
  IF ~secondaryOk THEN [s EXCEPT !.recoverCount = 0]
  ELSE IF primaryOk /\ t.recoverCount >= RecoverThreshold THEN SwitchTo(t, "primary") ELSE t

OnSecondaryBlind(s, primaryOk, secondaryOk) ==
  LET t == [s EXCEPT !.recoverCount = CountTo(RecoverThreshold, @)] IN
  IF secondaryOk
  THEN IF t.recoverCount >= RecoverThreshold THEN SwitchTo(t, "primary") ELSE t
  ELSE [(IF primaryOk THEN SwitchTo(s, "primary") ELSE s) EXCEPT !.recoverCount = 0]

\* The recovery count counts answers of the secondary.
OnSecondary(s, primaryOk, secondaryOk) ==
  LET t == [s EXCEPT !.recoverCount = CountTo(RecoverThreshold, @)] IN
  IF secondaryOk
  THEN IF primaryOk /\ t.recoverCount >= RecoverThreshold THEN SwitchTo(t, "primary") ELSE t
  ELSE [(IF primaryOk THEN SwitchTo(s, "primary") ELSE s) EXCEPT !.recoverCount = 0]

----------------------------------------------------------------------------

Init ==
  /\ up \in [Backend -> BOOLEAN]
  /\ ctl = [active |-> "primary", failCount |-> 0, recoverCount |-> 0]
  /\ tick = [i \in Slot |-> Idle]
  /\ nextTick = 0
  /\ fails = 0 /\ oks = 0

\* A backend, or the network to it, goes down or comes back.
Flip(b) ==
  /\ up' = [up EXCEPT ![b] = ~@]
  /\ UNCHANGED <<ctl, tick, nextTick, fails, oks>>

\* The timer starts a tick; the one started Overlap ticks ago has ended.
StartTick ==
  /\ tick[nextTick].stage = "idle"
  /\ tick' = [tick EXCEPT ![nextTick] = [Idle EXCEPT !.stage = "primary"]]
  /\ nextTick' = (nextTick + 1) % Overlap
  /\ UNCHANGED <<up, ctl, fails, oks>>

\* The primary answers the probe of tick i or lets it time out; the tick
\* probes the secondary next.
PrimaryProbed(i) ==
  /\ tick[i].stage = "primary"
  /\ tick' = [tick EXCEPT ![i] = [stage |-> "secondary", primaryOk |-> up["primary"]]]
  /\ UNCHANGED <<up, ctl, nextTick, fails, oks>>

\* The rest of probeTick, once the secondary answered or timed out.
Judge(i) ==
  LET primaryOk   == tick[i].primaryOk
      secondaryOk == up["secondary"]
  IN  /\ tick[i].stage = "secondary"
      /\ tick' = [tick EXCEPT ![i] = Idle]
      /\ ctl' = IF ctl.active = "primary"
                THEN OnPrimary(ctl, primaryOk, secondaryOk)
                ELSE OnSecondary(ctl, primaryOk, secondaryOk)
      /\ fails' = IF primaryOk THEN 0 ELSE CountTo(FailThreshold, fails)
      /\ oks' = IF primaryOk THEN CountTo(RecoverThreshold, oks) ELSE 0
      /\ UNCHANGED <<up, nextTick>>

Next ==
  \/ \E b \in Backend : Flip(b)
  \/ StartTick
  \/ \E i \in Slot : PrimaryProbed(i) \/ Judge(i)

Spec == Init /\ [][Next]_vars

\* The interval timer goes on and every probe ends within its timeout.
Fairness ==
  /\ WF_vars(StartTick)
  /\ \A i \in Slot : WF_vars(PrimaryProbed(i)) /\ WF_vars(Judge(i))

FairSpec == Spec /\ Fairness

----------------------------------------------------------------------------

Leaves == ctl.active = "primary" /\ ctl'.active = "secondary"
Returns == ctl.active = "secondary" /\ ctl'.active = "primary"

\* "Consecutive failed probes before switching away": traffic leaves the
\* primary only when the last FailThreshold ticks judged, overlapping or not,
\* all found it dead.
LeavesAfterStreak == [][Leaves => fails' >= FailThreshold]_vars

\* "Consecutive successful probes before switching back to primary": as long
\* as the secondary answers, traffic returns only when the last
\* RecoverThreshold ticks judged all found the primary alive.
ReturnsAfterStreak == [][Returns /\ up["secondary"] => oks' >= RecoverThreshold]_vars

\* The counters start afresh after a switch, and a failure that is counted
\* belongs to the current streak: what LeavesAfterStreak rests on.
CountersFresh ==
  /\ ctl.active = "primary" => ctl.recoverCount = 0
  /\ ctl.active = "secondary" => ctl.failCount = 0
  /\ ctl.failCount <= fails

\* A primary that stays up gets the traffic back for good, whatever the
\* secondary does meanwhile.
PrimaryPreferred == <>[](up["primary"]) => <>[](ctl.active = "primary")

\* With the primary dead for good and the secondary alive, the traffic ends
\* up at the secondary and stays there.
SecondaryServes ==
  <>[](~up["primary"] /\ up["secondary"]) => <>[](ctl.active = "secondary")

=============================================================================
