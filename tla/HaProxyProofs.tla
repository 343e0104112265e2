--------------------------- MODULE HaProxyProofs ---------------------------
(***************************************************************************)
(* Theorems about HaProxy, for any thresholds and any overlap of ticks.    *)
(***************************************************************************)
EXTENDS HaProxy, TLAPS

\* A counter stays within its limit and does not go back.
LEMMA CountToBounds ==
  ASSUME NEW limit \in Nat, NEW n \in 0 .. limit
  PROVE  /\ CountTo(limit, n) \in 0 .. limit
         /\ CountTo(limit, n) >= n
         /\ CountTo(limit, n) = n + 1 \/ CountTo(limit, n) = limit
  BY DEF CountTo

\* A switch keeps the controller well formed, ends at b, and if it moved,
\* with both counters at zero.
LEMMA SwitchToTyped ==
  ASSUME NEW s \in Controller, NEW b \in Backend
  PROVE  /\ SwitchTo(s, b) \in Controller
         /\ SwitchTo(s, b).active = b
         /\ s.active # b => SwitchTo(s, b).failCount = 0 /\ SwitchTo(s, b).recoverCount = 0
  BY ProxyAssumption DEF SwitchTo, Controller

----------------------------------------------------------------------------
(* The two judgements, on any controller and any answers. *)

\* On the primary: a good probe resets the count, a failed one raises it, and
\* the controller leaves only at the threshold.
LEMMA OnPrimaryEffect ==
  ASSUME NEW s \in Controller, NEW p \in BOOLEAN, NEW q \in BOOLEAN,
         s.active = "primary", s.recoverCount = 0
  PROVE  LET t == OnPrimary(s, p, q) IN
         /\ t \in Controller
         /\ t.active = "primary" => t.recoverCount = 0
         /\ t.active = "secondary" => t.failCount = 0 /\ ~p /\ CountTo(FailThreshold, s.failCount) >= FailThreshold
         /\ p => t.failCount = 0
         /\ t.failCount <= CountTo(FailThreshold, s.failCount)
<1> DEFINE u == [s EXCEPT !.failCount = CountTo(FailThreshold, @)]
<1>1. /\ CountTo(FailThreshold, s.failCount) \in 0 .. FailThreshold
      /\ s.failCount <= CountTo(FailThreshold, s.failCount)
  BY CountToBounds, ProxyAssumption DEF Controller
<1>2. /\ u \in Controller
      /\ u.active = "primary" /\ u.recoverCount = 0
      /\ u.failCount = CountTo(FailThreshold, s.failCount)
  BY <1>1 DEF Controller
<1>3. CASE p
  BY <1>1, <1>3, ProxyAssumption DEF OnPrimary, Controller
<1>4. CASE ~p /\ u.failCount >= FailThreshold /\ q
  <2>1. OnPrimary(s, p, q) = SwitchTo(u, "secondary")
    BY <1>4 DEF OnPrimary
  <2>2. /\ SwitchTo(u, "secondary") \in Controller
        /\ SwitchTo(u, "secondary").active = "secondary"
        /\ SwitchTo(u, "secondary").failCount = 0
    <3> HIDE DEF u
    <3> QED
      BY <1>2, SwitchToTyped DEF Backend
  <2>3. CountTo(FailThreshold, s.failCount) >= FailThreshold
    BY <1>2, <1>4
  <2>4. 0 <= CountTo(FailThreshold, s.failCount)
    BY <1>1, ProxyAssumption
  <2> HIDE DEF u
  <2> QED
    BY <1>4, <2>1, <2>2, <2>3, <2>4
<1>5. CASE ~p /\ ~(u.failCount >= FailThreshold /\ q)
  <2>1. OnPrimary(s, p, q) = u
    BY <1>5 DEF OnPrimary
  <2> HIDE DEF u
  <2> QED
    BY <1>1, <1>2, <1>5, <2>1, ProxyAssumption DEF Controller
<1> QED
  BY <1>3, <1>4, <1>5

\* On the secondary: the failure count stays at zero, and a return to the
\* primary clears the recovery count.
LEMMA OnSecondaryEffect ==
  ASSUME NEW s \in Controller, NEW p \in BOOLEAN, NEW q \in BOOLEAN,
         s.active = "secondary", s.failCount = 0
  PROVE  LET t == OnSecondary(s, p, q) IN
         /\ t \in Controller
         /\ t.failCount = 0
         /\ t.active = "primary" => t.recoverCount = 0
<1> DEFINE u == [s EXCEPT !.recoverCount = CountTo(RecoverThreshold, @)]
           r == SwitchTo(u, "primary")
           w == SwitchTo(s, "primary")
<1>1. CountTo(RecoverThreshold, s.recoverCount) \in 0 .. RecoverThreshold
  BY CountToBounds, ProxyAssumption DEF Controller
<1>2. u \in Controller /\ u.active = "secondary" /\ u.failCount = 0
  BY <1>1 DEF Controller
<1>3. r \in Controller /\ r.failCount = 0 /\ r.recoverCount = 0
  <2> HIDE DEF u
  <2> QED
    BY <1>2, SwitchToTyped DEF Backend
<1>4. w \in Controller /\ w.failCount = 0 /\ w.recoverCount = 0
  BY SwitchToTyped DEF Backend
<1>5. OnSecondary(s, p, q) \in {u, r, [w EXCEPT !.recoverCount = 0], [s EXCEPT !.recoverCount = 0]}
  BY DEF OnSecondary
<1>6. /\ [w EXCEPT !.recoverCount = 0] \in Controller
      /\ [w EXCEPT !.recoverCount = 0].failCount = 0
      /\ [w EXCEPT !.recoverCount = 0].recoverCount = 0
  <2> HIDE DEF w
  <2> QED
    BY <1>4, ProxyAssumption DEF Controller
<1>7. /\ [s EXCEPT !.recoverCount = 0] \in Controller
      /\ [s EXCEPT !.recoverCount = 0].failCount = 0
      /\ [s EXCEPT !.recoverCount = 0].recoverCount = 0
  BY ProxyAssumption DEF Controller
<1> HIDE DEF u, r, w
<1> QED
  BY <1>2, <1>3, <1>4, <1>5, <1>6, <1>7

----------------------------------------------------------------------------

\* The inductive invariant.
ProxyInv == TypeOK /\ CountersFresh

\* The effect of a judgement: the invariant holds after it, and the controller
\* leaves the primary only at the end of a streak.
LEMMA JudgeEffect ==
  ASSUME ProxyInv, NEW i \in Slot, Judge(i)
  PROVE  ProxyInv' /\ (Leaves => fails' >= FailThreshold)
<1> DEFINE p == tick[i].primaryOk
           q == up["secondary"]
<1>1. p \in BOOLEAN /\ q \in BOOLEAN /\ ctl \in Controller
  BY DEF ProxyInv, TypeOK, TickState, Backend
<1>2. tick' \in [Slot -> TickState] /\ up' \in [Backend -> BOOLEAN] /\ nextTick' \in Slot
  BY DEF ProxyInv, TypeOK, Judge, TickState, Idle
<1>3. /\ CountTo(FailThreshold, fails) \in 0 .. FailThreshold
      /\ CountTo(RecoverThreshold, oks) \in 0 .. RecoverThreshold
  BY CountToBounds, ProxyAssumption DEF ProxyInv, TypeOK
<1>4. /\ fails' = IF p THEN 0 ELSE CountTo(FailThreshold, fails)
      /\ oks' = IF p THEN CountTo(RecoverThreshold, oks) ELSE 0
  BY DEF Judge
<1>5. fails' \in 0 .. FailThreshold /\ oks' \in 0 .. RecoverThreshold
  BY <1>3, <1>4, ProxyAssumption
<1>6. CountTo(FailThreshold, ctl.failCount) <= CountTo(FailThreshold, fails)
  BY <1>1, ProxyAssumption DEF ProxyInv, TypeOK, CountersFresh, CountTo, Controller
<1>7. CASE ctl.active = "primary"
  <2> DEFINE t == OnPrimary(ctl, p, q)
  <2>1. ctl' = t
    BY <1>7 DEF Judge
  <2>2. ctl.recoverCount = 0
    BY <1>7 DEF ProxyInv, CountersFresh
  <2>3. /\ t \in Controller
        /\ t.active = "primary" => t.recoverCount = 0
        /\ t.active = "secondary" => t.failCount = 0 /\ ~p /\ CountTo(FailThreshold, ctl.failCount) >= FailThreshold
        /\ p => t.failCount = 0
        /\ t.failCount <= CountTo(FailThreshold, ctl.failCount)
    <3> HIDE DEF p, q
    <3> QED
      BY <1>1, <1>7, <2>2, OnPrimaryEffect
  <2> HIDE DEF t, p, q
  <2>4. t.failCount \in Nat /\ CountTo(FailThreshold, ctl.failCount) \in Nat
    BY <1>1, <2>3, CountToBounds, ProxyAssumption DEF Controller
  <2>5. t.failCount <= fails'
    BY <1>3, <1>4, <1>6, <2>3, <2>4, ProxyAssumption
  <2>6. t.active = "secondary" => fails' >= FailThreshold
    BY <1>3, <1>4, <1>6, <2>3, <2>4, ProxyAssumption
  <2> QED
    BY <1>2, <1>5, <2>1, <2>3, <2>5, <2>6 DEF ProxyInv, TypeOK, CountersFresh, Leaves
<1>8. CASE ctl.active = "secondary"
  <2> DEFINE t == OnSecondary(ctl, p, q)
  <2>1. ctl' = t
    BY <1>8 DEF Judge
  <2>2. ctl.failCount = 0
    BY <1>8 DEF ProxyInv, CountersFresh
  <2>3. t \in Controller /\ t.failCount = 0 /\ (t.active = "primary" => t.recoverCount = 0)
    <3> HIDE DEF p, q
    <3> QED
      BY <1>1, <1>8, <2>2, OnSecondaryEffect
  <2> HIDE DEF t, p, q
  <2> QED
    BY <1>2, <1>5, <1>8, <2>1, <2>3 DEF ProxyInv, TypeOK, CountersFresh, Leaves
<1> QED
  BY <1>1, <1>7, <1>8 DEF Controller, Backend

\* No other step touches the controller or the streaks.
LEMMA StepEffect ==
  ASSUME ProxyInv, [Next]_vars
  PROVE  ProxyInv' /\ (Leaves => fails' >= FailThreshold)
<1>1. ASSUME NEW b \in Backend, Flip(b)
      PROVE  ProxyInv' /\ ~Leaves
  BY <1>1 DEF ProxyInv, TypeOK, CountersFresh, Leaves, Flip
<1>2. ASSUME StartTick
      PROVE  ProxyInv' /\ ~Leaves
  <2>1. (nextTick + 1) % Overlap \in Slot
    BY ProxyAssumption DEF ProxyInv, TypeOK, Slot
  <2> QED
    BY <1>2, <2>1 DEF ProxyInv, TypeOK, CountersFresh, Leaves, StartTick, TickState, Idle
<1>3. ASSUME NEW i \in Slot, PrimaryProbed(i)
      PROVE  ProxyInv' /\ ~Leaves
  BY <1>3 DEF ProxyInv, TypeOK, CountersFresh, Leaves, PrimaryProbed, TickState, Backend
<1>4. ASSUME NEW i \in Slot, Judge(i)
      PROVE  ProxyInv' /\ (Leaves => fails' >= FailThreshold)
  BY <1>4, JudgeEffect
<1>5. CASE UNCHANGED vars
  BY <1>5 DEF ProxyInv, TypeOK, CountersFresh, Leaves, vars
<1> QED
  BY <1>1, <1>2, <1>3, <1>4, <1>5 DEF Next

\* The controller starts on the primary with both counters at zero.
LEMMA InitEffect == Init => ProxyInv
<1> SUFFICES ASSUME Init PROVE ProxyInv
  OBVIOUS
<1> 0 \in Slot
  BY ProxyAssumption DEF Slot
<1> QED
  BY ProxyAssumption DEF Init, ProxyInv, TypeOK, CountersFresh, Controller, Backend, TickState, Idle

\* Every reachable state is well typed, and the counters start afresh after
\* each switch and count within the current streak.
THEOREM ProxyInvariance == Spec => []ProxyInv
<1>1. ProxyInv /\ [Next]_vars => ProxyInv'
  BY StepEffect
<1> QED
  BY InitEffect, <1>1, PTL DEF Spec

\* The failover counters of the proxy, for every value of the thresholds.
THEOREM CountersSafe == Spec => []CountersFresh
<1>1. ProxyInv => CountersFresh
  BY DEF ProxyInv
<1> QED
  BY ProxyInvariance, <1>1, PTL

\* Traffic leaves the primary only after FailThreshold consecutive ticks found
\* it dead, however the ticks overlap.
THEOREM LeavesSafe == Spec => LeavesAfterStreak
<1>1. ProxyInv /\ [Next]_vars => [Leaves => fails' >= FailThreshold]_vars
  BY StepEffect
<1> QED
  BY ProxyInvariance, <1>1, PTL DEF Spec, LeavesAfterStreak

\* The controller, the ticks in flight and the streaks are well typed.
THEOREM ProxyTypes == Spec => []TypeOK
<1>1. ProxyInv => TypeOK
  BY DEF ProxyInv
<1> QED
  BY ProxyInvariance, <1>1, PTL

=============================================================================
