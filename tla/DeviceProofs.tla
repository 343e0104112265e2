---------------------------- MODULE DeviceProofs ----------------------------
(***************************************************************************)
(* Theorems about the pairing service and what runs on a device: Pairing,   *)
(* Join, NodeAgent, Bridge and SummaryCache, for any sets of codes, nodes, *)
(* devices, calls and requests, any settings and any limits.               *)
(***************************************************************************)
EXTENDS DeviceParts, FiniteSetTheorems, TLAPS

----------------------------------------------------------------------------
(* Pairing *)

\* A code that is still open has minted nothing.
OpenUnminted == \A h \in Code : rows[h].status \in {"none", "pending"} => minted[h] = 0

\* The inductive invariant.
PairingInv == TypeOK /\ OpenUnminted /\ SingleUse /\ TokensBacked /\ FailureBudget

\* Each part of the state a step may leave alone keeps its share of the invariant.
codes == <<rows, tokens, unknown, minted, cuts>>

RatesTyped ==
  /\ window \in [Caller -> RateWindow]
  /\ recent \in [Caller -> [Age -> Nat]]

\* The invariant without the rate windows, which no other part depends on.
CodesInv ==
  /\ rows \in [Code -> Row]
  /\ tokens \in [Node -> Code \cup {None}]
  /\ unknown \in [Code -> 0 .. MaxFailures - 1]
  /\ minted \in [Code -> Nat]
  /\ cuts \in [Code -> 0 .. MaxCuts]
  /\ OpenUnminted /\ SingleUse /\ TokensBacked /\ FailureBudget

LEMMA Parts == PairingInv <=> CodesInv /\ RatesTyped
  BY DEF PairingInv, CodesInv, RatesTyped, TypeOK

----------------------------------------------------------------------------
(* Rate windows. *)

LEMMA ChargedTyped ==
  ASSUME NEW w \in RateWindow
  PROVE  Charged(w) \in RateWindow
  BY PairingAssumption DEF Charged, RateWindow

LEMMA ChargeTyped ==
  ASSUME RatesTyped, NEW c \in Caller, Charge(c)
  PROVE  window' \in [Caller -> RateWindow]
  BY ChargedTyped DEF RatesTyped, Charge

LEMMA AdmittedTyped ==
  ASSUME RatesTyped, NEW c \in Caller, Admitted(c)
  PROVE  RatesTyped'
<1>1. window' \in [Caller -> RateWindow]
  BY ChargeTyped DEF Admitted
<1>2. recent[c] \in [Age -> Nat]
  BY DEF RatesTyped
<1>3. OneMore(recent[c]) \in [Age -> Nat]
  BY <1>2, PairingAssumption DEF Age, OneMore
<1>4. recent' = [recent EXCEPT ![c] = OneMore(recent[c])]
  BY DEF Admitted
<1>5. recent' \in [Caller -> [Age -> Nat]]
  BY <1>3, <1>4 DEF RatesTyped
<1> QED
  BY <1>1, <1>5 DEF RatesTyped

LEMMA ForgetTyped ==
  ASSUME Forget
  PROVE  RatesTyped'
<1>1. [age |-> Span, count |-> 0] \in RateWindow
  BY PairingAssumption DEF RateWindow
<1>2. [a \in Age |-> 0] \in [Age -> Nat]
  OBVIOUS
<1> QED
  BY <1>1, <1>2 DEF Forget, RatesTyped

LEMMA TickTyped ==
  ASSUME RatesTyped, Tick
  PROVE  RatesTyped'
<1>1. ASSUME NEW c \in Caller
      PROVE  Older(window[c]) \in RateWindow
  <2>1. window[c] \in RateWindow
    BY DEF RatesTyped
  <2>2. Older(window[c]).age \in 0 .. Span /\ Older(window[c]).count = window[c].count
    BY <2>1, PairingAssumption DEF RateWindow, Older
  <2> QED
    BY <2>1, <2>2 DEF RateWindow, Older
<1>2. ASSUME NEW c \in Caller
      PROVE  [a \in Age |-> IF a = 0 THEN 0 ELSE recent[c][a - 1]] \in [Age -> Nat]
  <2>1. recent[c] \in [Age -> Nat]
    BY DEF RatesTyped
  <2>2. ASSUME NEW a \in Age, a # 0
        PROVE  a - 1 \in Age
    BY <2>2, PairingAssumption DEF Age
  <2> QED
    BY <2>1, <2>2
<1> QED
  BY <1>1, <1>2 DEF RatesTyped, Tick

\* Charging a rejected attempt leaves the history alone.
LEMMA RateLimitedTyped ==
  ASSUME RatesTyped, NEW c \in Caller, RateLimited(c)
  PROVE  RatesTyped'
  BY ChargeTyped DEF RatesTyped, RateLimited

----------------------------------------------------------------------------
(* Code rows. *)

\* Counting a failure on a code that is not locked.
LEMMA RecordFailureEffect ==
  ASSUME NEW row \in Row, NEW d \in 0 .. MaxCuts, row.fails < MaxFailures + d
  PROVE  LET r == RecordFailure(row) IN
         r \in Row /\ r.by = row.by /\ r.status = row.status /\ r.fails = row.fails + 1
<1>1. row.fails \in 0 .. MaxFailures + MaxCuts
  BY DEF Row
<1>2. row.fails + 1 \in 0 .. MaxFailures + MaxCuts
  BY <1>1, PairingAssumption
<1> QED
  BY <1>2 DEF RecordFailure, Row

\* A failed attempt counts, locks at the limit and changes nothing else.
LEMMA FailAndMaybeLockEffect ==
  ASSUME NEW row \in Row, NEW d \in 0 .. MaxCuts, row.fails < MaxFailures + d
  PROVE  LET r == FailAndMaybeLock(row) IN
         /\ r \in Row
         /\ r.by = row.by
         /\ r.status \in {row.status, "locked"}
         /\ r.status # "locked" => r.fails < MaxFailures
<1> DEFINE k == row.fails + 1
<1>1. row.fails \in 0 .. MaxFailures + MaxCuts /\ row.status \in {"none", "pending", "consumed", "locked"}
      /\ row.expired \in BOOLEAN /\ row.by \in Node \cup {None}
  BY DEF Row
<1>2. k \in 0 .. MaxFailures + MaxCuts
  BY <1>1, PairingAssumption
<1>3. FailAndMaybeLock(row) =
        [row EXCEPT !.fails = k, !.status = IF k >= MaxFailures THEN "locked" ELSE row.status]
  BY DEF FailAndMaybeLock
<1>4. /\ FailAndMaybeLock(row).by = row.by
      /\ FailAndMaybeLock(row).fails = k
      /\ FailAndMaybeLock(row).status = IF k >= MaxFailures THEN "locked" ELSE row.status
  <2> HIDE DEF k
  <2> QED
    BY <1>3 DEF Row
<1>5. FailAndMaybeLock(row) \in Row
  <2> HIDE DEF k
  <2> QED
    BY <1>1, <1>2, <1>3 DEF Row
<1> QED
  BY <1>2, <1>4, <1>5, PairingAssumption

\* What a step must do to the rows, the tokens and the counters to keep the
\* invariant when it mints nothing: every row that changes is that of a code
\* whose token, if it has one, stays backed.
LEMMA NothingMinted ==
  ASSUME CodesInv, rows' \in [Code -> Row], unknown' \in [Code -> 0 .. MaxFailures - 1],
         cuts' \in [Code -> 0 .. MaxCuts], UNCHANGED <<tokens, minted>>,
         \A h \in Code :
           /\ rows'[h].status # "locked" => rows'[h].fails < MaxFailures + cuts'[h]
           /\ rows[h].status = "locked" => rows'[h] = rows[h]
           /\ rows[h].status = "consumed" =>
                rows'[h].by = rows[h].by /\ rows'[h].status \in {"consumed", "locked"}
  PROVE  CodesInv' /\ LocksKept
<1>1. ASSUME NEW h \in Code
      PROVE  rows[h].status \in {"none", "pending", "consumed", "locked"}
  BY DEF CodesInv, Row
<1>2. OpenUnminted'
  BY <1>1 DEF CodesInv, OpenUnminted
<1>3. SingleUse'
  BY DEF CodesInv, SingleUse
<1>4. TokensBacked'
  BY DEF CodesInv, TokensBacked
<1>5. FailureBudget'
  <2> SUFFICES ASSUME NEW h \in Code, rows'[h].status # "locked"
               PROVE  rows'[h].fails < MaxFailures + cuts'[h] /\ unknown'[h] < MaxFailures
    BY DEF FailureBudget
  <2>1. unknown'[h] \in 0 .. MaxFailures - 1
    OBVIOUS
  <2> QED
    BY <2>1, PairingAssumption
<1>6. LocksKept
  BY DEF LocksKept
<1> QED
  BY <1>2, <1>3, <1>4, <1>5, <1>6 DEF CodesInv

\* The same for a step that changes the one row of h to r.
LEMMA RowChanged ==
  ASSUME CodesInv, NEW h \in Code, NEW r \in Row,
         rows' = [rows EXCEPT ![h] = r], UNCHANGED <<tokens, minted>>,
         unknown' \in [Code -> 0 .. MaxFailures - 1],
         cuts' \in [Code -> 0 .. MaxCuts], \A g \in Code : g # h => cuts'[g] = cuts[g],
         rows[h].status # "locked",
         r.status # "locked" => r.fails < MaxFailures + cuts'[h],
         rows[h].status = "consumed" => r.by = rows[h].by /\ r.status \in {"consumed", "locked"}
  PROVE  CodesInv' /\ LocksKept
<1>1. rows' \in [Code -> Row]
  BY DEF CodesInv
<1>2. ASSUME NEW g \in Code
      PROVE  /\ rows'[g].status # "locked" => rows'[g].fails < MaxFailures + cuts'[g]
             /\ rows[g].status = "locked" => rows'[g] = rows[g]
             /\ rows[g].status = "consumed" =>
                  rows'[g].by = rows[g].by /\ rows'[g].status \in {"consumed", "locked"}
  BY DEF CodesInv, FailureBudget
<1> QED
  BY <1>1, <1>2, NothingMinted

\* The same for a step that leaves the deaths alone.
LEMMA RowReplaced ==
  ASSUME CodesInv, NEW h \in Code, NEW r \in Row,
         rows' = [rows EXCEPT ![h] = r], UNCHANGED <<tokens, minted, cuts>>,
         unknown' \in [Code -> 0 .. MaxFailures - 1],
         rows[h].status # "locked",
         r.status # "locked" => r.fails < MaxFailures + cuts[h],
         rows[h].status = "consumed" => r.by = rows[h].by /\ r.status \in {"consumed", "locked"}
  PROVE  CodesInv' /\ LocksKept
<1>1. cuts' \in [Code -> 0 .. MaxCuts] /\ \A g \in Code : cuts'[g] = cuts[g]
  BY DEF CodesInv
<1> QED
  BY <1>1, RowChanged

\* Every row of an unlocked code is one that another failure can be counted on.
LEMMA OpenRow ==
  ASSUME CodesInv, NEW h \in Code, rows[h].status # "locked"
  PROVE  /\ rows[h] \in Row
         /\ cuts[h] \in 0 .. MaxCuts
         /\ rows[h].fails < MaxFailures + cuts[h]
         /\ cuts[h] \in Nat
  BY PairingAssumption DEF CodesInv, FailureBudget

\* The same for a step that changes no row and no token.
LEMMA SameRows ==
  ASSUME CodesInv, rows' = rows, UNCHANGED <<tokens, minted, cuts>>,
         unknown' \in [Code -> 0 .. MaxFailures - 1]
  PROVE  CodesInv' /\ LocksKept
<1>1. rows' \in [Code -> Row] /\ cuts' \in [Code -> 0 .. MaxCuts]
  BY DEF CodesInv
<1>2. ASSUME NEW g \in Code
      PROVE  rows'[g].status # "locked" => rows'[g].fails < MaxFailures + cuts'[g]
  BY DEF CodesInv, FailureBudget
<1> QED
  BY <1>1, <1>2, NothingMinted

\* A step that leaves codes and tokens alone.
LEMMA CodesUnchanged ==
  ASSUME CodesInv, UNCHANGED codes
  PROVE  CodesInv' /\ LocksKept
  BY DEF CodesInv, codes, OpenUnminted, SingleUse, TokensBacked, FailureBudget, LocksKept

\* The unknown counters after a restart.
LEMMA ForgetCounts ==
  ASSUME Forget
  PROVE  unknown' \in [Code -> 0 .. MaxFailures - 1]
<1> 0 \in 0 .. MaxFailures - 1
  BY PairingAssumption
<1> QED
  BY DEF Forget

----------------------------------------------------------------------------
(* The steps. *)

LEMMA WrongCodeSafe ==
  ASSUME CodesInv, NEW c \in Caller, NEW h \in Code, WrongCode(c, h)
  PROVE  CodesInv' /\ LocksKept
<1>1. rows[h].status = "none" /\ UNCHANGED <<tokens, minted, cuts>>
  BY DEF WrongCode
<1>2. 0 \in 0 .. MaxFailures - 1
  BY PairingAssumption
<1>3. CASE unknown[h] + 1 >= MaxFailures
  <2>1. rows' = [rows EXCEPT ![h] = LockedShadow] /\ unknown' = [unknown EXCEPT ![h] = 0]
    BY <1>3, PairingAssumption DEF WrongCode, CodesInv
  <2>2. LockedShadow \in Row /\ LockedShadow.status = "locked"
    BY PairingAssumption DEF LockedShadow, Row
  <2>3. unknown' \in [Code -> 0 .. MaxFailures - 1]
    BY <1>2, <2>1 DEF CodesInv
  <2> QED
    BY <1>1, <2>1, <2>2, <2>3, RowReplaced
<1>4. CASE unknown[h] + 1 < MaxFailures
  <2>1. rows' = rows /\ unknown' = [unknown EXCEPT ![h] = @ + 1]
    BY <1>4, PairingAssumption DEF WrongCode, CodesInv
  <2>2. unknown[h] + 1 \in 0 .. MaxFailures - 1
    BY <1>4, PairingAssumption DEF CodesInv
  <2>3. unknown' \in [Code -> 0 .. MaxFailures - 1]
    BY <2>1, <2>2 DEF CodesInv
  <2> QED
    BY <1>1, <2>1, <2>3, SameRows
<1> QED
  BY <1>3, <1>4 DEF WrongCode

LEMMA SpentCodeSafe ==
  ASSUME CodesInv, NEW c \in Caller, NEW h \in Code, SpentCode(c, h)
  PROVE  CodesInv' /\ LocksKept
<1> DEFINE r == FailAndMaybeLock(rows[h])
<1>1. rows[h].status \in {"consumed", "pending"}
  BY DEF SpentCode, Spent
<1>2. /\ r \in Row
      /\ r.by = rows[h].by
      /\ r.status \in {rows[h].status, "locked"}
      /\ r.status # "locked" => r.fails < MaxFailures
  BY <1>1, OpenRow, FailAndMaybeLockEffect
<1>3. rows' = [rows EXCEPT ![h] = r] /\ UNCHANGED <<tokens, minted, cuts>>
  BY DEF SpentCode
<1>4. unknown' \in [Code -> 0 .. MaxFailures - 1]
  BY DEF SpentCode, CodesInv
<1>5. cuts[h] \in Nat
  BY <1>1, OpenRow
<1> HIDE DEF r
<1>6. r.status # "locked" => r.fails < MaxFailures + cuts[h]
  <2>1. r.fails \in Nat /\ MaxFailures \in Nat
    BY <1>2, PairingAssumption DEF Row
  <2> QED
    BY <1>2, <1>5, <2>1
<1> QED
  BY <1>1, <1>2, <1>3, <1>4, <1>6, RowReplaced

\* What consuming an open code makes of its row.
LEMMA ConsumedRow ==
  ASSUME CodesInv, NEW h \in Code, NEW n \in Node, Redeemable(h)
  PROVE  LET r == ConsumeIfPending(rows[h], n) IN
         r \in Row /\ r.status = "consumed" /\ r.by = n /\ r.fails < MaxFailures + cuts[h]
<1>1. rows[h] \in Row /\ rows[h].status = "pending" /\ rows[h].fails < MaxFailures + cuts[h]
  BY OpenRow DEF Redeemable
<1>2. ConsumeIfPending(rows[h], n) = [rows[h] EXCEPT !.status = "consumed", !.by = n]
  BY <1>1 DEF ConsumeIfPending
<1> QED
  BY <1>1, <1>2 DEF Row

LEMMA RedeemSafe ==
  ASSUME CodesInv, NEW c \in Caller, NEW h \in Code, NEW n \in Node, Redeem(c, h, n)
  PROVE  CodesInv' /\ LocksKept
<1> DEFINE r == ConsumeIfPending(rows[h], n)
<1>1. rows[h].status = "pending" /\ minted[h] = 0
  BY DEF CodesInv, OpenUnminted, Redeem, Redeemable
<1>2. r \in Row /\ r.status = "consumed" /\ r.by = n /\ r.fails < MaxFailures + cuts[h]
  BY ConsumedRow DEF Redeem
<1>3. /\ rows' = [rows EXCEPT ![h] = r]
      /\ tokens' = [tokens EXCEPT ![n] = h]
      /\ minted' = [minted EXCEPT ![h] = @ + 1]
      /\ unknown' = unknown /\ cuts' = cuts
  BY DEF Redeem
<1> HIDE DEF r
<1>4. minted'[h] = 1 /\ \A g \in Code : g # h => minted'[g] = minted[g]
  BY <1>1, <1>3 DEF CodesInv
<1>5. rows'[h] = r /\ \A g \in Code : g # h => rows'[g] = rows[g]
  BY <1>3 DEF CodesInv
<1>6. /\ rows' \in [Code -> Row] /\ tokens' \in [Node -> Code \cup {None}]
      /\ unknown' \in [Code -> 0 .. MaxFailures - 1] /\ minted' \in [Code -> Nat]
      /\ cuts' \in [Code -> 0 .. MaxCuts]
  BY <1>1, <1>2, <1>3 DEF CodesInv
<1>7. OpenUnminted'
  BY <1>2, <1>4, <1>5 DEF CodesInv, OpenUnminted
<1>8. SingleUse'
  BY <1>4 DEF CodesInv, SingleUse
<1>9. TokensBacked'
  <2> SUFFICES ASSUME NEW m \in Node, NEW g \in Code, tokens'[m] = g
               PROVE  rows'[g].by = m /\ rows'[g].status \in {"consumed", "locked"}
    BY DEF TokensBacked
  <2>1. CASE m = n
    BY <1>2, <1>3, <1>5, <2>1 DEF CodesInv
  <2>2. CASE m # n
    <3>1. tokens[m] = g
      BY <1>3, <2>2 DEF CodesInv
    <3>2. rows[g].by = m /\ rows[g].status \in {"consumed", "locked"}
      BY <3>1 DEF CodesInv, TokensBacked
    <3>3. g # h
      BY <1>1, <3>2
    <3> QED
      BY <1>5, <3>2, <3>3
  <2> QED
    BY <2>1, <2>2
<1>10. FailureBudget'
  <2> SUFFICES ASSUME NEW g \in Code, rows'[g].status # "locked"
               PROVE  rows'[g].fails < MaxFailures + cuts'[g] /\ unknown'[g] < MaxFailures
    BY DEF FailureBudget
  <2>1. cuts'[g] = cuts[g] /\ unknown'[g] = unknown[g]
    BY <1>3
  <2>2. unknown[g] < MaxFailures
    BY PairingAssumption DEF CodesInv
  <2>3. rows'[g].fails < MaxFailures + cuts[g]
    BY <1>2, <1>5 DEF CodesInv, FailureBudget
  <2> QED
    BY <2>1, <2>2, <2>3
<1>11. LocksKept
  BY <1>1, <1>4, <1>5 DEF LocksKept
<1> QED
  BY <1>6, <1>7, <1>8, <1>9, <1>10, <1>11 DEF CodesInv

LEMMA CreateSafe ==
  ASSUME CodesInv, NEW h \in Code, CreatePairingCode(h)
  PROVE  CodesInv' /\ LocksKept
<1>1. rows[h].status = "none"
  BY DEF CreatePairingCode
<1>2. cuts[h] \in Nat
  BY <1>1, OpenRow
<1>3. PendingRow \in Row /\ PendingRow.status = "pending" /\ PendingRow.fails = 0
  BY PairingAssumption DEF PendingRow, Row
<1>4. PendingRow.fails < MaxFailures + cuts[h]
  BY <1>2, <1>3, PairingAssumption
<1>5. rows' = [rows EXCEPT ![h] = PendingRow] /\ UNCHANGED <<tokens, minted, cuts>>
  BY DEF CreatePairingCode
<1>6. unknown' \in [Code -> 0 .. MaxFailures - 1]
  BY DEF CreatePairingCode, CodesInv
<1> QED
  BY <1>1, <1>3, <1>4, <1>5, <1>6, RowReplaced

LEMMA ExpireSafe ==
  ASSUME CodesInv, NEW h \in Code, Expire(h)
  PROVE  CodesInv' /\ LocksKept
<1> DEFINE r == Overdue(rows[h])
<1>1. rows[h] \in Row /\ rows[h].status = "pending" /\ rows[h].fails < MaxFailures + cuts[h]
  BY OpenRow DEF Expire, Redeemable
<1>2. r \in Row /\ r.status = "pending" /\ r.fails = rows[h].fails
  BY <1>1 DEF Row, Overdue
<1>3. rows' = [rows EXCEPT ![h] = r] /\ UNCHANGED <<tokens, minted, cuts>>
  BY DEF Expire
<1>4. unknown' \in [Code -> 0 .. MaxFailures - 1]
  BY DEF Expire, CodesInv
<1> HIDE DEF r
<1> QED
  BY <1>1, <1>2, <1>3, <1>4, RowReplaced

LEMMA DieWhileRedeemingSafe ==
  ASSUME CodesInv, NEW h \in Code, NEW n \in Node, DieWhileRedeeming(h, n)
  PROVE  CodesInv' /\ LocksKept
<1> DEFINE r == ConsumeIfPending(rows[h], n)
<1>1. r \in Row /\ r.status = "consumed" /\ r.fails < MaxFailures + cuts[h]
  BY ConsumedRow DEF DieWhileRedeeming
<1>2. /\ rows' = [rows EXCEPT ![h] = r]
      /\ rows[h].status = "pending"
      /\ UNCHANGED <<tokens, minted, cuts>>
  BY DEF DieWhileRedeeming, Redeemable
<1>3. unknown' \in [Code -> 0 .. MaxFailures - 1]
  BY ForgetCounts DEF DieWhileRedeeming
<1> HIDE DEF r
<1> QED
  BY <1>1, <1>2, <1>3, RowReplaced

LEMMA DieWhileFailingSafe ==
  ASSUME CodesInv, NEW h \in Code, DieWhileFailing(h)
  PROVE  CodesInv' /\ LocksKept
<1> DEFINE r == RecordFailure(rows[h])
<1>1. rows[h].status \in {"consumed", "pending"} /\ cuts[h] < MaxCuts
  BY DEF DieWhileFailing, Spent
<1>2. cuts[h] \in 0 .. MaxCuts /\ cuts[h] + 1 \in 0 .. MaxCuts
  BY <1>1, OpenRow, PairingAssumption
<1>3. /\ cuts' \in [Code -> 0 .. MaxCuts]
      /\ cuts'[h] = cuts[h] + 1
      /\ \A g \in Code : g # h => cuts'[g] = cuts[g]
  BY <1>2 DEF DieWhileFailing, CodesInv
<1>4. r \in Row /\ r.by = rows[h].by /\ r.status = rows[h].status /\ r.fails = rows[h].fails + 1
  BY <1>1, OpenRow, RecordFailureEffect
<1>5. r.fails < MaxFailures + cuts'[h]
  <2>1. rows[h].fails \in Nat /\ rows[h].fails < MaxFailures + cuts[h]
    BY <1>1, OpenRow DEF Row
  <2> QED
    BY <1>2, <1>3, <1>4, <2>1, PairingAssumption
<1>6. rows' = [rows EXCEPT ![h] = r] /\ UNCHANGED <<tokens, minted>>
  BY DEF DieWhileFailing
<1>7. unknown' \in [Code -> 0 .. MaxFailures - 1]
  BY ForgetCounts DEF DieWhileFailing
<1> HIDE DEF r
<1> QED
  BY <1>1, <1>3, <1>4, <1>5, <1>6, <1>7, RowChanged

LEMMA RestartSafe ==
  ASSUME CodesInv, Restart
  PROVE  CodesInv' /\ LocksKept
  BY ForgetCounts, SameRows DEF Restart

----------------------------------------------------------------------------

\* An attempt to redeem a code.
LEMMA ConsumeSafe ==
  ASSUME CodesInv, RatesTyped, NEW c \in Caller, NEW h \in Code, Consume(c, h)
  PROVE  CodesInv' /\ LocksKept /\ RatesTyped'
<1>1. CASE RateLimited(c)
  BY <1>1, RateLimitedTyped, CodesUnchanged DEF RateLimited, codes
<1>2. CASE Malformed(c)
  BY <1>2, AdmittedTyped, CodesUnchanged DEF Malformed, codes
<1>3. CASE WrongCode(c, h)
  <2>1. Admitted(c)
    BY <1>3 DEF WrongCode
  <2> QED
    BY <1>3, <2>1, AdmittedTyped, WrongCodeSafe
<1>4. CASE LockedCode(c, h)
  BY <1>4, AdmittedTyped, CodesUnchanged DEF LockedCode, codes
<1>5. CASE SpentCode(c, h)
  <2>1. Admitted(c)
    BY <1>5 DEF SpentCode
  <2> QED
    BY <1>5, <2>1, AdmittedTyped, SpentCodeSafe
<1>6. ASSUME NEW n \in Node, Redeem(c, h, n)
      PROVE  CodesInv' /\ LocksKept /\ RatesTyped'
  <2>1. Admitted(c)
    BY <1>6 DEF Redeem
  <2> QED
    BY <1>6, <2>1, AdmittedTyped, RedeemSafe
<1> QED
  BY <1>1, <1>2, <1>3, <1>4, <1>5, <1>6 DEF Consume

\* One step of the service: the invariant holds after it and no lock is undone.
LEMMA Step ==
  ASSUME CodesInv, RatesTyped, [Next]_vars
  PROVE  CodesInv' /\ LocksKept /\ RatesTyped'
<1>1. ASSUME NEW h \in Code, CreatePairingCode(h) \/ Expire(h)
      PROVE  CodesInv' /\ LocksKept /\ RatesTyped'
  <2>1. RatesTyped'
    BY <1>1 DEF CreatePairingCode, Expire, RatesTyped
  <2>2. CASE CreatePairingCode(h)
    BY <2>1, <2>2, CreateSafe
  <2>3. CASE Expire(h)
    BY <2>1, <2>3, ExpireSafe
  <2> QED
    BY <1>1, <2>2, <2>3
<1>2. ASSUME NEW h \in Code, NEW n \in Node, DieWhileRedeeming(h, n)
      PROVE  CodesInv' /\ LocksKept /\ RatesTyped'
  <2>1. Forget
    BY <1>2 DEF DieWhileRedeeming
  <2> QED
    BY <1>2, <2>1, DieWhileRedeemingSafe, ForgetTyped
<1>3. ASSUME NEW h \in Code, DieWhileFailing(h)
      PROVE  CodesInv' /\ LocksKept /\ RatesTyped'
  <2>1. Forget
    BY <1>3 DEF DieWhileFailing
  <2> QED
    BY <1>3, <2>1, DieWhileFailingSafe, ForgetTyped
<1>4. CASE Restart
  <2>1. Forget
    BY <1>4 DEF Restart
  <2> QED
    BY <1>4, <2>1, RestartSafe, ForgetTyped
<1>5. CASE Tick
  BY <1>5, CodesUnchanged, TickTyped DEF Tick, codes
<1>6. CASE UNCHANGED vars
  <2>1. UNCHANGED codes /\ UNCHANGED <<window, recent>>
    BY <1>6 DEF vars, codes
  <2>2. RatesTyped'
    BY <2>1 DEF RatesTyped
  <2> QED
    BY <2>1, <2>2, CodesUnchanged
<1> QED
  BY <1>1, <1>2, <1>3, <1>4, <1>5, <1>6, ConsumeSafe DEF Next

\* The parts put together again.
LEMMA StepInv ==
  ASSUME PairingInv, [Next]_vars
  PROVE  PairingInv' /\ LocksKept
<1>1. CodesInv' /\ LocksKept /\ RatesTyped'
  BY Parts, Step
<1> QED
  BY <1>1 DEF PairingInv, CodesInv, RatesTyped, TypeOK

LEMMA InitInv == Init => PairingInv
<1> SUFFICES ASSUME Init PROVE PairingInv
  OBVIOUS
<1>1. NoRow \in Row /\ NoRow.status = "none" /\ NoRow.fails = 0
  BY PairingAssumption DEF NoRow, Row
<1>2. 0 \in 0 .. MaxFailures - 1 /\ 0 < MaxFailures /\ 0 \in 0 .. MaxCuts
  BY PairingAssumption
<1>3. [age |-> Span, count |-> 0] \in RateWindow
  BY PairingAssumption DEF RateWindow
<1>4. TypeOK
  BY <1>1, <1>2, <1>3 DEF Init, TypeOK
<1>5. OpenUnminted /\ SingleUse
  BY DEF Init, OpenUnminted, SingleUse
<1>6. TokensBacked
  BY PairingAssumption DEF Init, TokensBacked
<1>7. FailureBudget
  <2> SUFFICES ASSUME NEW h \in Code
               PROVE  rows[h].fails < MaxFailures + cuts[h] /\ unknown[h] < MaxFailures
    BY DEF FailureBudget
  <2>1. rows[h] = NoRow /\ cuts[h] = 0 /\ unknown[h] = 0
    BY DEF Init
  <2> QED
    BY <1>1, <1>2, <2>1, PairingAssumption
<1> QED
  BY <1>4, <1>5, <1>6, <1>7 DEF PairingInv

\* Types, single use, backed tokens and failure budgets hold together in every
\* reachable state.
THEOREM PairingInvariance == Spec => []PairingInv
<1>1. PairingInv /\ [Next]_vars => PairingInv'
  BY StepInv
<1> QED
  BY InitInv, <1>1, PTL DEF Spec

\* No code ever mints two tokens, through any replays, locks and deaths.
THEOREM SingleUseSafe == Spec => []SingleUse
<1>1. PairingInv => SingleUse
  BY DEF PairingInv
<1> QED
  BY PairingInvariance, <1>1, PTL

\* Every stored token is backed by a code its node consumed.
THEOREM TokensSafe == Spec => []TokensBacked
<1>1. PairingInv => TokensBacked
  BY DEF PairingInv
<1> QED
  BY PairingInvariance, <1>1, PTL

\* The failure limit of a code holds whether or not it has a row, and each death
\* costs it one attempt at most.
THEOREM BudgetSafe == Spec => []FailureBudget
<1>1. PairingInv => FailureBudget
  BY DEF PairingInv
<1> QED
  BY PairingInvariance, <1>1, PTL

\* No step of the service undoes or uses a lock.
THEOREM LocksSafe == Spec => LockIsFinal
<1>1. PairingInv /\ [Next]_vars => [LocksKept]_vars
  BY StepInv
<1> QED
  BY PairingInvariance, <1>1, PTL DEF Spec, LockIsFinal

\* Rows, tokens, counters and rate windows are well typed.
THEOREM PairingTypes == Spec => []TypeOK
<1>1. PairingInv => TypeOK
  BY DEF PairingInv
<1> QED
  BY PairingInvariance, <1>1, PTL

----------------------------------------------------------------------------
(* NodeAgent *)

AgentObject ==
  [st : {"idle", "connecting", "connected", "reconnecting", "stopped"},
   sock : [ep : Agent!Endpoints, phase : {"none", "opening", "handshake", "live"},
           end : {"ok", "closed", "silent", "gone"}],
   peer : BOOLEAN, timer : {"none", "short", "long"},
   backoff : 0 .. MaxBackoff, index : Agent!Endpoints]

\* Whatever the state of the object: without a pending timer its index is the
\* endpoint of its socket.
Pinned(a) == a.timer = "none" /\ a.sock.end = "ok" => a.index = a.sock.ep

\* Nothing of the past is left in an agent that was stopped.
Halted(a) == a.timer = "none" /\ ~a.peer /\ a.sock = Agent!NoSocket

AgentSound(a) ==
  /\ a \in AgentObject
  /\ a.st = "reconnecting" => a.timer # "none"
  /\ Pinned(a)
  /\ a.st = "stopped" => Halted(a)

\* The inductive invariant of the agent.
AgentInv == Agent!TypeOK /\ AgentSound(agent)

LEMMA Wraps ==
  ASSUME NEW i \in Agent!Endpoints
  PROVE  (i + 1) % N \in Agent!Endpoints
  BY DeviceAssumption DEF Agent!AgentAssumption, Agent!Endpoints

\* scheduleReconnect does nothing, or leaves a timer behind.
LEMMA ScheduleEffect ==
  ASSUME NEW a \in AgentObject, NEW advance \in BOOLEAN
  PROVE  LET b == Agent!ScheduleReconnect(a, advance) IN
         /\ b \in AgentObject /\ b.sock = a.sock /\ b.peer = a.peer
         /\ a.st = "stopped" => b = a
         /\ a.st # "stopped" => b.timer # "none" /\ b.st # "stopped"
<1> DEFINE i == IF advance THEN Agent!Advanced(a) ELSE a.index
           c == [a EXCEPT !.index = i, !.timer = Agent!Delay(a), !.backoff = Agent!Longer(a),
                          !.st = "reconnecting"]
<1>1. i \in Agent!Endpoints
  BY Wraps DEF AgentObject, Agent!Advanced
<1>2. Agent!Delay(a) \in {"short", "long"}
  BY DEF Agent!Delay
<1>3. Agent!Longer(a) \in 0 .. MaxBackoff
  BY DeviceAssumption DEF AgentObject, Agent!Longer, Agent!AgentAssumption
<1> HIDE DEF i
<1>4. c \in AgentObject /\ c.sock = a.sock /\ c.peer = a.peer /\ c.timer # "none" /\ c.st # "stopped"
  BY <1>1, <1>2, <1>3 DEF AgentObject
<1> QED
  BY <1>4 DEF Agent!ScheduleReconnect, i

\* It makes a sound object of one that may have lost its endpoint.
LEMMA ScheduleSound ==
  ASSUME NEW a \in AgentObject, NEW advance \in BOOLEAN,
         a.st = "reconnecting" => a.timer # "none", a.st = "stopped" => Halted(a)
  PROVE  AgentSound(Agent!ScheduleReconnect(a, advance))
<1>1. CASE a.st = "stopped" \/ a.timer # "none"
  <2>1. Agent!ScheduleReconnect(a, advance) = a
    BY <1>1 DEF Agent!ScheduleReconnect
  <2> QED
    BY <1>1, <2>1 DEF AgentSound, Pinned, Halted, Agent!NoSocket
<1>2. CASE ~(a.st = "stopped" \/ a.timer # "none")
  BY <1>2, ScheduleEffect DEF AgentSound, Pinned
<1> QED
  BY <1>1, <1>2

LEMMA LostSound ==
  ASSUME NEW a, AgentSound(a)
  PROVE  AgentSound(Agent!Lost(a)) /\ (a.st = "stopped" => Agent!Lost(a) = a)
  BY ScheduleSound DEF Agent!Lost, AgentSound

\* connect() dials the endpoint of the index, or leaves a stopped agent alone.
LEMMA ConnectSound ==
  ASSUME NEW a \in AgentObject, NEW failed \in BOOLEAN, a.st = "stopped" => Halted(a)
  PROVE  AgentSound(Agent!Connect(a, failed)) /\ (a.st = "stopped" => Agent!Connect(a, failed) = a)
<1>1. CASE a.st = "stopped"
  BY <1>1 DEF Agent!Connect, AgentSound, Pinned, Halted, Agent!NoSocket
<1>2. CASE a.st # "stopped"
  <2> DEFINE b == [a EXCEPT !.st = "connecting"]
             c == IF failed THEN Agent!ScheduleReconnect(b, TRUE) ELSE b
  <2>1. b \in AgentObject /\ b.st = "connecting"
    BY DEF AgentObject
  <2>2. c \in AgentObject /\ c.st # "stopped" /\ (c.st = "reconnecting" => c.timer # "none")
    <3>1. CASE failed
      BY <2>1, <3>1, ScheduleEffect
    <3>2. CASE ~failed
      BY <2>1, <3>2
    <3> QED
      BY <3>1, <3>2
  <2>3. Agent!Connect(a, failed) = [c EXCEPT !.sock = Agent!Dialing(c.index)]
    BY <1>2 DEF Agent!Connect
  <2> HIDE DEF c
  <2>4. Agent!Dialing(c.index) \in [ep : Agent!Endpoints, phase : {"none", "opening", "handshake", "live"},
                                    end : {"ok", "closed", "silent", "gone"}]
    BY <2>2 DEF AgentObject, Agent!Dialing
  <2> QED
    BY <1>2, <2>2, <2>3, <2>4 DEF AgentSound, AgentObject, Pinned, Agent!Dialing
<1> QED
  BY <1>1, <1>2

\* What a step does to the object.
AgentKept == AgentSound(agent') /\ (agent.st = "stopped" => agent'.st = "stopped")

LEMMA SocketSound ==
  ASSUME AgentSound(agent),
         \/ Agent!Start \/ Agent!SocketOpens \/ Agent!SocketFails \/ Agent!SocketCloses \/ Agent!Welcome
         \/ Agent!GoSilent \/ Agent!HandshakeRefused \/ \E e \in Agent!Endpoints : Agent!HubDown(e)
  PROVE  AgentKept
<1> USE DEF AgentKept
<1> DEFINE Gone == [agent EXCEPT !.sock.end = "gone"]
<1>a. /\ Gone \in AgentObject /\ Gone.st = agent.st /\ Gone.timer = agent.timer
      /\ AgentSound(agent) => AgentSound(Gone)
  BY DEF AgentSound, AgentObject, Pinned, Halted, Agent!NoSocket
<1>1. CASE Agent!Start
  BY <1>1, ConnectSound DEF Agent!Start, AgentSound
<1>2. CASE Agent!SocketOpens
  BY <1>2 DEF Agent!SocketOpens, AgentSound, AgentObject, Pinned, Halted, Agent!NoSocket
<1>3. CASE Agent!SocketFails \/ Agent!SocketCloses
  BY <1>3, <1>a, LostSound DEF Agent!SocketFails, Agent!SocketCloses
<1>4. CASE Agent!Welcome
  <2> DEFINE b == Agent!OnConnected(agent)
  <2>1. 0 \in 0 .. MaxBackoff
    BY DeviceAssumption DEF Agent!AgentAssumption
  <2>2. /\ b \in AgentObject /\ b.st = "connected" /\ b.timer = agent.timer /\ b.index = agent.index
        /\ b.sock.ep = agent.sock.ep /\ b.sock.end = agent.sock.end
    BY <2>1 DEF Agent!OnConnected, AgentSound, AgentObject
  <2>3. agent.sock.phase = "handshake" /\ agent' = b
    BY <1>4 DEF Agent!Welcome
  <2> HIDE DEF b
  <2> QED
    BY <2>2, <2>3 DEF AgentSound, Pinned, Halted, Agent!NoSocket
<1>5. CASE Agent!GoSilent
  BY <1>5 DEF Agent!GoSilent, AgentSound, AgentObject, Pinned, Halted, Agent!NoSocket
<1>6. CASE Agent!HandshakeRefused
  BY <1>6, <1>a, ScheduleSound, ScheduleEffect DEF Agent!HandshakeRefused, AgentSound
<1>7. ASSUME NEW e \in Agent!Endpoints, Agent!HubDown(e)
      PROVE  AgentKept
  BY <1>7 DEF Agent!HubDown, AgentSound, AgentObject, Pinned, Halted, Agent!NoSocket
<1> QED
  BY <1>1, <1>2, <1>3, <1>4, <1>5, <1>6, <1>7

LEMMA TimerSound ==
  ASSUME AgentSound(agent),
         Agent!ReconnectTimer \/ Agent!Stop \/ Agent!HeartbeatFails \/ Agent!PrimaryProbed
  PROVE  AgentKept
<1> USE DEF AgentKept
<1>1. CASE Agent!ReconnectTimer
  <2> DEFINE b == [agent EXCEPT !.timer = "none", !.peer = FALSE]
  <2>1. PICK failed \in BOOLEAN :
          agent' = IF beat = "sent" THEN Agent!ScheduleReconnect(Agent!Connect(b, failed), TRUE)
                   ELSE Agent!Connect(b, failed)
    BY <1>1 DEF Agent!ReconnectTimer
  <2>2. agent.st # "stopped"
    BY <1>1 DEF Agent!ReconnectTimer, AgentSound, Halted
  <2>3. b \in AgentObject /\ b.st # "stopped"
    BY <2>2 DEF AgentSound, AgentObject
  <2>4. AgentSound(Agent!Connect(b, failed))
    BY <2>3, ConnectSound
  <2> QED
    BY <2>1, <2>2, <2>4, ScheduleSound DEF AgentSound
<1>2. CASE Agent!Stop
  <2>1. 0 \in Agent!Endpoints
    BY DeviceAssumption DEF Agent!AgentAssumption, Agent!Endpoints
  <2>2. Agent!NoSocket \in [ep : Agent!Endpoints, phase : {"none", "opening", "handshake", "live"},
                            end : {"ok", "closed", "silent", "gone"}]
    BY <2>1 DEF Agent!NoSocket
  <2>3. agent' = [agent EXCEPT !.st = "stopped", !.sock = Agent!NoSocket, !.peer = FALSE, !.timer = "none"]
    BY <1>2 DEF Agent!Stop
  <2>4. agent' \in AgentObject /\ agent'.st = "stopped" /\ agent'.sock = Agent!NoSocket /\ ~agent'.peer /\ agent'.timer = "none"
    BY <2>2, <2>3 DEF AgentSound, AgentObject
  <2> QED
    BY <2>4 DEF AgentSound, Pinned, Halted, Agent!NoSocket
<1>3. CASE Agent!HeartbeatFails
  BY <1>3, ScheduleSound, ScheduleEffect DEF Agent!HeartbeatFails, AgentSound
<1>4. CASE Agent!PrimaryProbed
  <2> DEFINE b == [agent EXCEPT !.index = 0]
             c == Agent!ScheduleReconnect(b, FALSE)
  <2>1. 0 \in Agent!Endpoints
    BY DeviceAssumption DEF Agent!AgentAssumption, Agent!Endpoints
  <2>2. /\ b \in AgentObject /\ b.st = agent.st /\ b.timer = agent.timer
        /\ b.sock = agent.sock /\ b.peer = agent.peer
    BY <2>1 DEF AgentSound, AgentObject
  <2>3. AgentSound(c) /\ c.sock = agent.sock /\ (agent.st = "stopped" => c.st = "stopped")
    BY <2>2, ScheduleSound, ScheduleEffect DEF AgentSound, Halted
  <2> HIDE DEF c
  <2>4. AgentSound(Agent!CloseSocket(c)) /\ Agent!CloseSocket(c).st = c.st
    BY <2>3 DEF Agent!CloseSocket, AgentSound, AgentObject, Pinned, Halted, Agent!NoSocket
  <2>5. agent' = agent \/ agent' = Agent!CloseSocket(c)
    BY <1>4 DEF Agent!PrimaryProbed, Agent!SwitchBack, c
  <2> QED
    BY <2>3, <2>4, <2>5
<1> QED
  BY <1>1, <1>2, <1>3, <1>4

\* Heartbeats, registrations and reconciles read the object and leave it alone.
LEMMA AgentStep ==
  ASSUME AgentSound(agent), Agent!Next
  PROVE  AgentKept
<1>1. ASSUME UNCHANGED agent
      PROVE  AgentKept
  BY <1>1 DEF AgentKept
<1>2. CASE Agent!HeartbeatTick \/ Agent!HeartbeatSent \/ Agent!HeartbeatAnswered
  BY <1>1, <1>2 DEF Agent!HeartbeatTick, Agent!HeartbeatSent, Agent!HeartbeatAnswered
<1>3. CASE Agent!Work
  BY <1>1, <1>3 DEF Agent!Work, Agent!BackendReady, Agent!Registered, Agent!RegisterFails,
    Agent!Collected, Agent!Reconciled, Agent!ChainTick, Agent!ChainDone
<1>4. ASSUME NEW e \in Agent!Endpoints, Agent!HubUp(e)
      PROVE  AgentKept
  BY <1>1, <1>4 DEF Agent!HubUp
<1> QED
  BY <1>2, <1>3, <1>4, SocketSound, TimerSound DEF Agent!Next, Agent!Step, Agent!World

AgentWorkTyped ==
  /\ beat \in {"none", "probe", "sent"} /\ probe \in BOOLEAN
  /\ regs \in SUBSET {"backend", "register", "collect", "reconcile"}
  /\ chains \in SUBSET {"wait", "reconcile"}
  /\ synced \in BOOLEAN /\ hubs \in SUBSET Agent!Endpoints /\ faults \in Nat

LEMMA AgentWorkStep ==
  ASSUME AgentWorkTyped, Agent!Next
  PROVE  AgentWorkTyped'
<1> USE DEF AgentWorkTyped
<1>1. CASE Agent!Start \/ Agent!SocketOpens \/ Agent!SocketFails \/ Agent!SocketCloses \/ Agent!Welcome
  BY <1>1 DEF Agent!Start, Agent!SocketOpens, Agent!SocketFails, Agent!SocketCloses, Agent!Welcome, Agent!workVars
<1>2. CASE Agent!ReconnectTimer \/ Agent!Stop
  BY <1>2 DEF Agent!ReconnectTimer, Agent!Stop, Agent!RegsOnClose, Agent!ChainsOnClose
<1>3. CASE Agent!HeartbeatTick
  <2>1. beat' = "probe" /\ UNCHANGED <<regs, chains, synced, hubs, faults>>
    BY <1>3 DEF Agent!HeartbeatTick
  <2>2. probe' \in BOOLEAN
    BY <1>3, Zenon DEF Agent!HeartbeatTick
  <2> QED
    BY <2>1, <2>2
<1>4. CASE Agent!HeartbeatSent \/ Agent!HeartbeatAnswered \/ Agent!HeartbeatFails \/ Agent!PrimaryProbed
  BY <1>4 DEF Agent!HeartbeatSent, Agent!HeartbeatAnswered, Agent!HeartbeatFails, Agent!PrimaryProbed
<1>5. CASE Agent!BackendReady \/ Agent!Registered \/ Agent!ChainTick
  BY <1>5 DEF Agent!BackendReady, Agent!Registered, Agent!ChainTick, Agent!Move
<1>9. CASE Agent!RegisterFails
  <2>1. UNCHANGED <<beat, probe, chains, synced, hubs>> /\ regs' = regs \ {"register"}
    BY <1>9 DEF Agent!RegisterFails
  <2>2. faults' = faults \/ faults' = faults + 1
    BY <1>9 DEF Agent!RegisterFails
  <2> QED
    BY <2>1, <2>2
<1>6. CASE Agent!Collected
  BY <1>6 DEF Agent!Collected, Agent!Move
<1>7. CASE Agent!Reconciled \/ Agent!ChainDone
  <2>1. synced' \in BOOLEAN
    BY <1>7, Zenon DEF Agent!Reconciled, Agent!ChainDone
  <2>2. UNCHANGED <<beat, probe, hubs, faults>>
    BY <1>7 DEF Agent!Reconciled, Agent!ChainDone
  <2>3. regs' \in SUBSET {"backend", "register", "collect", "reconcile"} /\ chains' \in SUBSET {"wait", "reconcile"}
    BY <1>7 DEF Agent!Reconciled, Agent!ChainDone, Agent!Move, Agent!Again
  <2> QED
    BY <2>1, <2>2, <2>3
<1>8. CASE Agent!World
  <2>1. UNCHANGED <<beat, probe, regs, chains, synced>>
    BY <1>8 DEF Agent!World, Agent!HubDown, Agent!HubUp, Agent!GoSilent, Agent!HandshakeRefused, Agent!workVars
  <2>2. \A e \in Agent!Endpoints : Agent!HubDown(e) \/ Agent!HubUp(e) => hubs' \in SUBSET Agent!Endpoints
    BY DEF Agent!HubDown, Agent!HubUp
  <2>3. Agent!GoSilent \/ Agent!HandshakeRefused => hubs' = hubs
    BY DEF Agent!GoSilent, Agent!HandshakeRefused
  <2>4. faults' = faults \/ faults' = faults + 1
    BY <1>8 DEF Agent!World, Agent!HubDown, Agent!HubUp, Agent!GoSilent, Agent!HandshakeRefused, Agent!Fault
  <2>5. hubs' \in SUBSET Agent!Endpoints /\ faults' \in Nat
    BY <1>8, <2>2, <2>3, <2>4 DEF Agent!World
  <2> QED
    BY <2>1, <2>5
<1> QED
  BY <1>1, <1>2, <1>3, <1>4, <1>5, <1>6, <1>7, <1>8, <1>9 DEF Agent!Work, Agent!Next, Agent!Step

LEMMA AgentParts == AgentInv <=> AgentSound(agent) /\ AgentWorkTyped
  BY DEF AgentInv, AgentWorkTyped, AgentSound, AgentObject, Agent!TypeOK

LEMMA AgentStart == Agent!Init => AgentInv
<1> SUFFICES ASSUME Agent!Init PROVE AgentInv
  OBVIOUS
<1>1. 0 \in Agent!Endpoints /\ 0 \in 0 .. MaxBackoff
  BY DeviceAssumption DEF Agent!AgentAssumption, Agent!Endpoints
<1>2. AgentSound(agent)
  BY <1>1 DEF Agent!Init, AgentSound, AgentObject, Pinned, Halted, Agent!NoSocket
<1>3. AgentWorkTyped
  BY DEF Agent!Init, AgentWorkTyped
<1> QED
  BY <1>2, <1>3, AgentParts

\* What AgentInv says of the object is inductive, and no step starts a stopped
\* agent.
LEMMA AgentStepInv ==
  ASSUME AgentInv, [Agent!Next]_Agent!vars
  PROVE  AgentInv' /\ AgentKept
<1>0. AgentSound(agent) /\ AgentWorkTyped
  BY AgentParts
<1>1. CASE Agent!Next
  <2>1. AgentKept /\ AgentWorkTyped'
    BY <1>0, <1>1, AgentStep, AgentWorkStep
  <2>2. AgentSound(agent)'
    BY <2>1 DEF AgentKept
  <2> QED
    BY <2>1, <2>2 DEF AgentInv, AgentWorkTyped, AgentSound, AgentObject, Agent!TypeOK
<1>2. CASE UNCHANGED Agent!vars
  <2>1. UNCHANGED <<agent, beat, probe, regs, chains, synced, hubs, faults>>
    BY <1>2 DEF Agent!vars, Agent!workVars
  <2> QED
    BY <1>0, <2>1 DEF AgentKept, AgentInv, Agent!TypeOK
<1> QED
  BY <1>1, <1>2

LEMMA AgentInvariance == Agent!Spec => []AgentInv
<1>1. AgentInv /\ [Agent!Next]_Agent!vars => AgentInv'
  BY AgentStepInv
<1> QED
  BY AgentStart, <1>1, PTL DEF Agent!Spec

\* With any number of endpoints, any faults and timers of any speed: the agent
\* is well typed, never waits for a timer it has not set, and stays at the
\* endpoint it is connected to.
THEOREM AgentIsSafe == Agent!Spec => []AgentSafe
<1>1. AgentInv => AgentSafe
  BY DEF AgentInv, AgentSafe, AgentSound, Pinned, Agent!ReconnectIsPending, Agent!PinnedToSocket, Agent!TypeOK
<1> QED
  BY AgentInvariance, <1>1, PTL

\* stop() is final: no timer, probe, heartbeat or answer that was under way
\* brings a stopped agent back to a socket.
THEOREM StopSafe == Agent!Spec => StopIsFinal
<1> DEFINE Final ==
      agent.st = "stopped" =>
        agent'.st = "stopped" /\ agent'.timer = "none" /\ ~agent'.peer /\ agent'.sock = Agent!NoSocket
<1>1. AgentInv /\ [Agent!Next]_Agent!vars => [Final]_agent
  BY AgentStepInv DEF AgentKept, AgentSound, Halted
<1> QED
  BY AgentInvariance, <1>1, PTL DEF Agent!Spec, StopIsFinal, Agent!StopIsFinal

----------------------------------------------------------------------------
(* Join *)

Attempted ==
  [stage : {"idle", "joined", "failed"} \cup Open, device : Device \cup {None}, code : Code \cup {None},
   force : BOOLEAN, asked : {"no", "sent", "served", "lost"}, reply : {"token", "refused", None}]

\* An attempt that began has a device and a code; a token on its way back to it
\* is the one that the hub has stored for it.
AttemptSound(a) ==
  /\ join[a].stage # "idle" => join[a].device \in Device /\ join[a].code \in Code
  /\ join[a].stage \in {"idle", "dialing"} => join[a].asked = "no"
  /\ join[a].reply # None => join[a].asked = "served" /\ (join[a].reply = "token" => tokens[a] = join[a].code)

\* A node.json is that of an attempt which joined on this very device, with the
\* token that the hub stored for it.
FileSound(d) ==
  LET a == file[d].node IN
  file[d] # None => /\ join[a].stage = "joined" /\ join[a].asked = "served" /\ join[a].device = d
                    /\ tokens[a] = file[d].code

\* The inductive invariant of the attempts, beside PairingInv.
JoinInv ==
  /\ join \in [Attempt -> Attempted]
  /\ file \in [Device -> [node : Attempt, code : Code] \cup {None}]
  /\ \A a \in Attempt : AttemptSound(a)
  /\ \A d \in Device : FileSound(d)

\* What an attempt, or the hub for it, does to the service is a step of the
\* service.
LEMMA ServedStep ==
  ASSUME JoinInv, NEW a \in Attempt, Served(a)
  PROVE  /\ Next
         /\ \E answer \in {"token", "refused"} :
              /\ join' = [join EXCEPT ![a].asked = "served", ![a].reply = answer]
              /\ tokens' = IF answer = "token" THEN [tokens EXCEPT ![a] = join[a].code] ELSE tokens
<1>1. a \in Node /\ a \in Caller
  BY DeviceAssumption DEF JoinAssumption
<1>2. join[a].code \in Code
  BY DEF JoinInv, AttemptSound, Served
<1>3. CASE Redeem(a, join[a].code, a) /\ join' = [join EXCEPT ![a].asked = "served", ![a].reply = "token"]
  <2>1. tokens' = [tokens EXCEPT ![a] = join[a].code]
    BY <1>3 DEF Redeem
  <2> QED
    BY <1>1, <1>2, <1>3, <2>1 DEF Next, Consume
<1>4. CASE /\ RateLimited(a) \/ WrongCode(a, join[a].code) \/ LockedCode(a, join[a].code) \/ SpentCode(a, join[a].code)
           /\ join' = [join EXCEPT ![a].asked = "served", ![a].reply = "refused"]
  <2>1. tokens' = tokens
    BY <1>4 DEF RateLimited, WrongCode, LockedCode, SpentCode
  <2> QED
    BY <1>1, <1>2, <1>4, <2>1 DEF Next, Consume
<1> QED
  BY <1>3, <1>4 DEF Served

LEMMA JoinIsService ==
  ASSUME JoinInv, [JoinNext]_allVars
  PROVE  [Next]_vars
<1>1. ASSUME NEW a \in Attempt, JoinStep(a)
      PROVE  [Next]_vars
  <2>1. CASE Served(a)
    BY <2>1, ServedStep
  <2>2. CASE HubDies(a)
    <3>1. a \in Node /\ join[a].code \in Code
      BY <2>2, DeviceAssumption DEF JoinAssumption, JoinInv, AttemptSound, HubDies
    <3> QED
      BY <2>2, <3>1 DEF HubDies, Next
  <2>3. CASE Start(a) \/ Welcomed(a) \/ Replied(a) \/ GivesUp(a) \/ RequestLost(a)
    BY <2>3 DEF Start, Welcomed, Replied, GivesUp, RequestLost
  <2> QED
    BY <1>1, <2>1, <2>2, <2>3 DEF JoinStep
<1>2. CASE \E h \in Code : CreatePairingCode(h) \/ Expire(h)
  BY <1>2 DEF Next
<1>3. CASE Restart
  BY <1>3 DEF Next
<1>4. CASE UNCHANGED allVars
  BY <1>4 DEF allVars
<1> QED
  BY <1>1, <1>2, <1>3, <1>4 DEF JoinNext

\* One attempt goes on: what the others left behind, and its own past, stay.
LEMMA AttemptStep ==
  ASSUME JoinInv, tokens \in [Node -> Code \cup {None}],
         NEW a \in Attempt, NEW r \in Attempted, join' = [join EXCEPT ![a] = r],
         \/ tokens' = tokens
         \/ join[a].asked = "sent" /\ tokens' = [tokens EXCEPT ![a] = join[a].code],
         AttemptSound(a)',
         join[a].stage = "joined" => r.stage = "joined" /\ r.device = join[a].device,
         join[a].asked = "served" => r.asked = "served",
         file' = file
  PROVE  JoinInv'
<1>1. join' \in [Attempt -> Attempted]
  BY DEF JoinInv
<1>2. ASSUME NEW b \in Attempt, b # a
      PROVE  join'[b] = join[b] /\ tokens'[b] = tokens[b]
  BY <1>2, DeviceAssumption DEF JoinInv, JoinAssumption
<1>3. ASSUME NEW b \in Attempt
      PROVE  AttemptSound(b)'
  <2>1. CASE b # a
    BY <1>2, <2>1 DEF JoinInv, AttemptSound
  <2> QED
    BY <2>1
<1>4. join[a].asked # "sent" => tokens' = tokens
  OBVIOUS
<1>5. join'[a] = r
  BY DEF JoinInv
<1>6. ASSUME NEW d \in Device
      PROVE  FileSound(d)'
  <2>1. CASE file[d] = None
    BY <2>1 DEF FileSound
  <2>2. CASE file[d] # None
    <3>1. file[d].node \in Attempt /\ FileSound(d)
      BY <2>2 DEF JoinInv
    <3>2. CASE file[d].node = a
      <4>1. tokens' = tokens
        BY <1>4, <2>2, <3>1, <3>2 DEF FileSound
      <4> QED
        BY <1>5, <2>2, <3>1, <3>2, <4>1 DEF FileSound
    <3> QED
      BY <1>2, <2>2, <3>1, <3>2 DEF FileSound
  <2> QED
    BY <2>1, <2>2
<1>7. file' \in [Device -> [node : Attempt, code : Code] \cup {None}]
  BY DEF JoinInv
<1> QED
  BY <1>1, <1>3, <1>6, <1>7 DEF JoinInv

\* An attempt that reported its failure stays failed and writes nothing.
FailureKept ==
  \A a \in Attempt : join[a].stage = "failed" =>
    /\ join'[a].stage = "failed"
    /\ \A d \in Device : file'[d] = file[d] \/ file'[d].node # a

\* One attempt that has not failed, or keeps its stage, goes on.
LEMMA FailureStays ==
  ASSUME JoinInv, NEW a \in Attempt, NEW r \in Attempted, join' = [join EXCEPT ![a] = r], file' = file,
         join[a].stage # "failed" \/ r.stage = join[a].stage
  PROVE  FailureKept
  BY DEF FailureKept, JoinInv

LEMMA AttemptsStep ==
  ASSUME JoinInv, PairingInv, NEW a \in Attempt, JoinStep(a)
  PROVE  JoinInv' /\ FailureKept
<1>0. tokens \in [Node -> Code \cup {None}] /\ join[a] \in Attempted /\ AttemptSound(a)
  BY DEF PairingInv, TypeOK, JoinInv
<1>1. CASE Start(a)
  <2>1. PICK d \in Device, h \in Code, force \in BOOLEAN :
          join' = [join EXCEPT ![a] =
                     [Idle EXCEPT !.stage = "dialing", !.device = d, !.code = h, !.force = force]]
    BY <1>1 DEF Start
  <2> DEFINE r == [Idle EXCEPT !.stage = "dialing", !.device = d, !.code = h, !.force = force]
  <2>2. /\ r \in Attempted /\ r.stage = "dialing" /\ r.device = d /\ r.code = h
        /\ r.asked = "no" /\ r.reply = None
    BY DEF Idle, Attempted, Open
  <2>3. join[a].stage = "idle" /\ UNCHANGED <<vars, file>>
    BY <1>1 DEF Start
  <2>4. tokens' = tokens /\ join[a].asked = "no"
    BY <1>0, <2>3 DEF vars, Attempted, AttemptSound
  <2> HIDE DEF r
  <2>5. join' = [join EXCEPT ![a] = r] /\ join'[a] = r
    BY <2>1 DEF r, JoinInv
  <2>6. AttemptSound(a)'
    BY <2>2, <2>5 DEF AttemptSound
  <2> QED
    BY <1>0, <2>2, <2>3, <2>4, <2>5, <2>6, AttemptStep, FailureStays
<1>2. CASE Welcomed(a)
  <2> DEFINE r == [join[a] EXCEPT !.stage = "asking", !.asked = "sent"]
  <2>1. join[a].stage = "dialing" /\ join' = [join EXCEPT ![a] = r] /\ tokens' = tokens /\ file' = file
    BY <1>2 DEF Welcomed, vars
  <2>2. r \in Attempted /\ join'[a] = r
    BY <1>0, <2>1 DEF Attempted, Open, JoinInv
  <2>3. r.stage = "asking" /\ r.device = join[a].device /\ r.code = join[a].code /\ r.reply = join[a].reply /\ r.asked = "sent"
    BY <1>0 DEF Attempted
  <2> HIDE DEF r
  <2>4. AttemptSound(a)'
    BY <1>0, <2>1, <2>2, <2>3 DEF AttemptSound
  <2>5. join[a].asked = "no"
    BY <1>0, <2>1 DEF AttemptSound
  <2> QED
    BY <1>0, <2>1, <2>2, <2>3, <2>4, <2>5, AttemptStep, FailureStays
<1>3. CASE Served(a)
  <2>1. PICK answer \in {"token", "refused"} :
          /\ join' = [join EXCEPT ![a].asked = "served", ![a].reply = answer]
          /\ tokens' = IF answer = "token" THEN [tokens EXCEPT ![a] = join[a].code] ELSE tokens
    BY <1>3, ServedStep
  <2> DEFINE r == [join[a] EXCEPT !.asked = "served", !.reply = answer]
  <2>2. join[a].asked = "sent" /\ file' = file /\ join' = [join EXCEPT ![a] = r]
    BY <1>3, <2>1 DEF Served
  <2>3. r \in Attempted /\ join'[a] = r
    BY <1>0, <2>2 DEF Attempted, JoinInv
  <2>4. /\ r.stage = join[a].stage /\ r.device = join[a].device /\ r.code = join[a].code
        /\ r.reply = answer /\ r.asked = "served"
    BY <1>0 DEF Attempted
  <2> HIDE DEF r
  <2>5. answer = "token" => tokens'[a] = join[a].code
    BY <1>0, <2>1, DeviceAssumption DEF JoinAssumption
  <2>6. AttemptSound(a)'
    BY <1>0, <2>2, <2>3, <2>4, <2>5 DEF AttemptSound
  <2> QED
    BY <1>0, <2>1, <2>2, <2>3, <2>4, <2>6, AttemptStep, FailureStays
<1>4. CASE HubDies(a)
  <2> DEFINE r == [join[a] EXCEPT !.asked = "served"]
  <2>1. join[a].asked = "sent" /\ file' = file /\ join' = [join EXCEPT ![a] = r] /\ tokens' = tokens
    BY <1>4 DEF HubDies, DieWhileRedeeming
  <2>2. r \in Attempted /\ join'[a] = r
    BY <1>0, <2>1 DEF Attempted, JoinInv
  <2>3. /\ r.stage = join[a].stage /\ r.device = join[a].device /\ r.code = join[a].code
        /\ r.reply = join[a].reply /\ r.asked = "served"
    BY <1>0 DEF Attempted
  <2> HIDE DEF r
  <2>4. AttemptSound(a)'
    BY <1>0, <2>1, <2>2, <2>3 DEF AttemptSound
  <2> QED
    BY <1>0, <2>1, <2>2, <2>3, <2>4, AttemptStep, FailureStays
<1>5. CASE GivesUp(a)
  <2> DEFINE r == [join[a] EXCEPT !.stage = "failed"]
  <2>1. join[a].stage \in Open /\ file' = file /\ join' = [join EXCEPT ![a] = r] /\ tokens' = tokens
    BY <1>5 DEF GivesUp, vars
  <2>2. r \in Attempted /\ join'[a] = r
    BY <1>0, <2>1 DEF Attempted, JoinInv
  <2>3. /\ r.stage = "failed" /\ r.device = join[a].device /\ r.code = join[a].code
        /\ r.reply = join[a].reply /\ r.asked = join[a].asked
    BY <1>0 DEF Attempted
  <2> HIDE DEF r
  <2>4. AttemptSound(a)'
    BY <1>0, <2>1, <2>2, <2>3 DEF AttemptSound, Open
  <2> QED
    BY <1>0, <2>1, <2>2, <2>3, <2>4, AttemptStep, FailureStays DEF Open
<1>6. CASE RequestLost(a)
  <2> DEFINE r == [join[a] EXCEPT !.asked = "lost"]
  <2>1. /\ join[a].asked = "sent" /\ join[a].stage = "failed"
        /\ file' = file /\ join' = [join EXCEPT ![a] = r] /\ tokens' = tokens
    BY <1>6 DEF RequestLost, vars
  <2>2. r \in Attempted /\ join'[a] = r
    BY <1>0, <2>1 DEF Attempted, JoinInv
  <2>3. /\ r.stage = "failed" /\ r.device = join[a].device /\ r.code = join[a].code
        /\ r.reply = join[a].reply /\ r.asked = "lost"
    BY <1>0, <2>1 DEF Attempted
  <2> HIDE DEF r
  <2>4. AttemptSound(a)'
    BY <1>0, <2>1, <2>2, <2>3 DEF AttemptSound
  <2> QED
    BY <1>0, <2>1, <2>2, <2>3, <2>4, AttemptStep, FailureStays
<1>7. CASE Replied(a)
  <2> DEFINE r == [join[a] EXCEPT !.stage = IF join[a].reply = "token" THEN "joined" ELSE "failed", !.reply = None]
  <2>1. /\ join[a].stage = "asking" /\ join[a].reply # None
        /\ file' = Written(a) /\ join' = [join EXCEPT ![a] = r] /\ tokens' = tokens
    BY <1>7 DEF Replied, Hears, vars
  <2>2. r \in Attempted /\ join'[a] = r
    BY <1>0, <2>1 DEF Attempted, JoinInv
  <2>3. /\ r.stage = IF join[a].reply = "token" THEN "joined" ELSE "failed"
        /\ r.device = join[a].device /\ r.code = join[a].code
        /\ r.reply = None /\ r.asked = join[a].asked
    BY <1>0 DEF Attempted
  <2> HIDE DEF r
  <2>4. AttemptSound(a)'
    BY <1>0, <2>1, <2>2, <2>3 DEF AttemptSound
  <2>5. CASE join[a].reply # "token"
    <3>1. file' = file
      BY <2>1, <2>5 DEF Written
    <3> QED
      BY <1>0, <2>1, <2>2, <2>3, <2>4, <3>1, AttemptStep, FailureStays
  <2>6. CASE join[a].reply = "token"
    <3> DEFINE f == [node |-> a, code |-> join[a].code]
    <3>1. file' = [file EXCEPT ![join[a].device] = f]
      BY <2>1, <2>6 DEF Written
    <3>2. /\ join[a].device \in Device /\ join[a].code \in Code
          /\ tokens[a] = join[a].code /\ join[a].asked = "served"
      BY <1>0, <2>1, <2>6 DEF AttemptSound
    <3>3. join' \in [Attempt -> Attempted] /\ \A b \in Attempt : b # a => join'[b] = join[b]
      BY <2>1, <2>2 DEF JoinInv
    <3>4. file' \in [Device -> [node : Attempt, code : Code] \cup {None}]
      BY <3>1, <3>2 DEF JoinInv
    <3>5. ASSUME NEW b \in Attempt
          PROVE  AttemptSound(b)'
      <4>1. CASE b # a
        BY <2>1, <3>3, <4>1 DEF JoinInv, AttemptSound
      <4> QED
        BY <2>4, <4>1
    <3>6. ASSUME NEW d \in Device
          PROVE  FileSound(d)'
      <4>1. CASE d = join[a].device
        <5>1. file'[d] = f
          BY <3>1, <3>2, <4>1 DEF JoinInv
        <5> QED
          BY <2>1, <2>2, <2>3, <2>6, <3>2, <4>1, <5>1 DEF FileSound
      <4>2. CASE d # join[a].device
        <5>1. file'[d] = file[d]
          BY <3>1, <4>2 DEF JoinInv
        <5>2. CASE file[d] # None
          <6>1. file[d].node \in Attempt /\ FileSound(d)
            BY <5>2 DEF JoinInv
          <6>2. file[d].node # a
            BY <2>1, <5>2, <6>1 DEF FileSound
          <6> QED
            BY <2>1, <3>3, <5>1, <5>2, <6>1, <6>2 DEF FileSound
        <5> QED
          BY <5>1, <5>2 DEF FileSound
      <4> QED
        BY <4>1, <4>2
    <3>7. FailureKept
      BY <2>1, <3>1, <3>2, <3>3 DEF FailureKept, JoinInv
    <3> QED
      BY <3>3, <3>4, <3>5, <3>6, <3>7 DEF JoinInv
  <2> QED
    BY <2>5, <2>6
<1> QED
  BY <1>1, <1>2, <1>3, <1>4, <1>5, <1>6, <1>7 DEF JoinStep

\* One step of the attempts and the service.
LEMMA JoinStepInv ==
  ASSUME PairingInv, JoinInv, [JoinNext]_allVars
  PROVE  PairingInv' /\ JoinInv' /\ FailureKept
<1>1. PairingInv'
  BY JoinIsService, StepInv
<1>2. ASSUME NEW a \in Attempt, JoinStep(a)
      PROVE  JoinInv' /\ FailureKept
  BY <1>2, AttemptsStep
<1>3. ASSUME UNCHANGED <<tokens, join, file>>
      PROVE  JoinInv' /\ FailureKept
  BY <1>3 DEF JoinInv, AttemptSound, FileSound, FailureKept
<1>4. CASE (\E h \in Code : CreatePairingCode(h) \/ Expire(h)) /\ UNCHANGED joinVars
  BY <1>1, <1>3, <1>4 DEF CreatePairingCode, Expire, joinVars
<1>5. CASE Restart /\ UNCHANGED joinVars
  BY <1>1, <1>3, <1>5 DEF Restart, joinVars
<1>6. CASE UNCHANGED allVars
  BY <1>1, <1>3, <1>6 DEF allVars, joinVars, vars
<1> QED
  BY <1>1, <1>2, <1>4, <1>5, <1>6 DEF JoinNext

LEMMA JoinStart == JoinInit => PairingInv /\ JoinInv
<1> SUFFICES ASSUME JoinInit PROVE PairingInv /\ JoinInv
  OBVIOUS
<1>1. PairingInv
  BY InitInv DEF JoinInit
<1>2. /\ Idle \in Attempted /\ Idle.stage = "idle" /\ Idle.asked = "no" /\ Idle.reply = None
  BY DEF Idle, Attempted
<1>3. JoinInv
  BY <1>2 DEF JoinInit, JoinInv, AttemptSound, FileSound
<1> QED
  BY <1>1, <1>3

LEMMA JoinInvariance == JoinSpec => [](PairingInv /\ JoinInv)
<1>1. PairingInv /\ JoinInv /\ [JoinNext]_allVars => PairingInv' /\ JoinInv'
  BY JoinStepInv
<1> QED
  BY JoinStart, <1>1, PTL DEF JoinSpec

\* Devices, their timeouts and what they leave behind ask nothing of the
\* pairing service that its specification does not allow: all that is proved of
\* Pairing holds with Join.
THEOREM JoinImplementsPairing == JoinSpec => Spec
<1>1. JoinInit => Init
  BY DEF JoinInit
<1>2. PairingInv /\ JoinInv /\ [JoinNext]_allVars => [Next]_vars
  BY JoinIsService
<1> QED
  BY <1>1, <1>2, JoinInvariance, PTL DEF JoinSpec, Spec

\* A node.json works at the hub and belongs to one device, however many
\* attempts race for its code, time out, and are served all the same.
THEOREM JoinIsSafe == JoinSpec => []JoinSafe
<1>1. PairingInv /\ JoinInv => JoinSafe
  <2> SUFFICES ASSUME PairingInv, JoinInv PROVE JoinSafe
    OBVIOUS
  <2>1. TypeOK /\ TokensBacked
    BY DEF PairingInv
  <2>2. ASSUME NEW d \in Device, file[d] # None
        PROVE  /\ file[d].node \in Attempt /\ file[d].node \in Node /\ file[d].code \in Code
               /\ join[file[d].node].stage = "joined" /\ join[file[d].node].device = d
               /\ tokens[file[d].node] = file[d].code /\ rows[file[d].code].by = file[d].node
    BY <2>1, <2>2, DeviceAssumption DEF JoinInv, FileSound, TokensBacked, JoinAssumption
  <2>3. JoinTypeOK
    <3>1. \A a \in Attempt : join[a] \in Attempted /\ (join[a].asked = "no" => join[a].reply = None)
      BY DEF JoinInv, AttemptSound
    <3>2. \A d \in Device : file[d] # None => join[file[d].node].stage = "joined"
      BY <2>2
    <3> QED
      BY <2>1, <3>1, <3>2 DEF JoinTypeOK, Attempted, JoinInv
  <2>4. FileIsKnownToHub
    BY <2>2 DEF FileIsKnownToHub
  <2>5. OneDevicePerCode
    BY <2>2 DEF OneDevicePerCode
  <2> QED
    BY <2>3, <2>4, <2>5 DEF JoinSafe
<1> QED
  BY <1>1, JoinInvariance, PTL

\* An attempt that told its user that it failed leaves no identity behind when
\* the hub serves it after that.
THEOREM FailureSafe == JoinSpec => FailureIsFinal
<1>1. PairingInv /\ JoinInv /\ [JoinNext]_allVars => [FailureKept]_allVars
  BY JoinStepInv
<1> QED
  BY <1>1, JoinInvariance, PTL DEF JoinSpec, FailureIsFinal, FailureKept

----------------------------------------------------------------------------
(* Bridge *)

Ids == (1 .. issued) \cup {None}

CallRecord ==
  [stage : Bridge!InFlight \cup {"idle", "waiting", "ok", "failed"}, hdr : Nat \cup {None},
   retry : BOOLEAN, clean : BOOLEAN, runs : {0, 1}]

BridgeTyped ==
  /\ daemon \in BOOLEAN /\ issued \in Nat /\ valid \subseteq 1 .. issued /\ sid \in Ids
  /\ post \in [DaemonCalls -> CallRecord] /\ \A c \in DaemonCalls : post[c].hdr \in Ids
  /\ shake \in [Bridge!Shakers -> [stage : {"none", "posted", "answered", "notify"}, id : Nat \cup {None}]]
  /\ \A d \in Bridge!Shakers : shake[d].id \in Ids

\* While the daemon runs, handshakes that it answered gave sessions it knows,
\* and the one that calls wait for has left such a session in place.
ShakesSound ==
  daemon => /\ \A d \in Bridge!Shakers : shake[d].stage = "answered" => shake[d].id \in valid
            /\ shake["re"].stage = "notify" => sid \in valid

\* A call that waits or is posted has not run; one that the daemon was up for
\* all along is posted again with a session the daemon knows.
CallSound(r) ==
  /\ r.stage \in {"ran", "ok"} => r.runs = 1
  /\ r.stage \in {"idle", "posted", "unknown", "waiting"} => r.runs = 0
  /\ r.stage # "refused"
  /\ r.stage = "idle" => ~r.retry
  /\ r.stage = "failed" => ~r.clean
  /\ r.stage \in {"posted", "unknown", "waiting"} /\ r.clean => daemon
  /\ r.stage = "posted" /\ r.retry /\ r.clean => r.hdr \in valid
  /\ r.stage = "unknown" /\ r.retry => ~r.clean

CallsSound == \A c \in DaemonCalls : CallSound(post[c])

LEMMA BridgeFacts ==
  /\ IsFiniteSet(DaemonCalls) /\ None \notin Nat /\ MaxDials \in Nat
  /\ Sessionless \subseteq {"ran", "unknown", "refused"}
  BY DeviceAssumption DEF Bridge!BridgeAssumption, Bridge!IsFiniteSet, IsFiniteSet

\* One call goes on while sessions, handshakes and the daemon stay.
LEMMA CallGoesOn ==
  ASSUME BridgeTyped, CallsSound, NEW c \in DaemonCalls, NEW r \in CallRecord, r.hdr \in Ids,
         CallSound(r), post' = [post EXCEPT ![c] = r],
         UNCHANGED <<daemon, valid, issued>>, sid' = sid \/ sid' = None
  PROVE  /\ post' \in [DaemonCalls -> CallRecord] /\ \A x \in DaemonCalls : post'[x].hdr \in Ids'
         /\ sid' \in Ids' /\ CallsSound'
<1>1. post' \in [DaemonCalls -> CallRecord] /\ \A x \in DaemonCalls : post'[x] = IF x = c THEN r ELSE post[x]
  BY DEF BridgeTyped
<1>2. CallsSound'
  BY <1>1 DEF CallsSound, CallSound
<1> QED
  BY <1>1, <1>2 DEF BridgeTyped, Ids

LEMMA CallFields ==
  ASSUME BridgeTyped, CallsSound, NEW c \in DaemonCalls
  PROVE  /\ post[c] \in CallRecord /\ post[c].hdr \in Ids /\ CallSound(post[c])
         /\ sid \in Ids /\ Ids \subseteq Nat \cup {None} /\ daemon \in BOOLEAN
  BY DEF BridgeTyped, CallsSound, Ids

LEMMA CallStepSafe ==
  ASSUME "refused" \notin Sessionless, BridgeTyped, CallsSound, NEW c \in DaemonCalls,
         Bridge!Post(c) \/ Bridge!CallStep(c)
  PROVE  /\ post' \in [DaemonCalls -> CallRecord] /\ \A x \in DaemonCalls : post'[x].hdr \in Ids'
         /\ sid' \in Ids' /\ CallsSound'
<1>0. /\ post[c] \in CallRecord /\ post[c].hdr \in Ids /\ CallSound(post[c])
      /\ sid \in Ids /\ Ids \subseteq Nat \cup {None} /\ daemon \in BOOLEAN
  BY CallFields
<1>1. ASSUME NEW r, r \in CallRecord, r.hdr \in Ids, CallSound(r),
             post' = [post EXCEPT ![c] = r], UNCHANGED <<daemon, valid, issued>>, sid' = sid \/ sid' = None
      PROVE  /\ post' \in [DaemonCalls -> CallRecord] /\ \A x \in DaemonCalls : post'[x].hdr \in Ids'
             /\ sid' \in Ids' /\ CallsSound'
  BY <1>1, CallGoesOn
<1>2. CASE Bridge!Post(c)
  <2> DEFINE r == [[post[c] EXCEPT !.stage = "posted", !.hdr = sid] EXCEPT !.clean = daemon]
  <2>1. /\ post' = [post EXCEPT ![c] = r] /\ UNCHANGED <<daemon, valid, issued, sid>>
        /\ post[c].stage = "idle"
    BY <1>2 DEF Bridge!Post, Bridge!Posted, Bridge!daemonVars
  <2>2. /\ r \in CallRecord /\ r.stage = "posted" /\ r.hdr = sid /\ r.clean = daemon
        /\ r.runs = post[c].runs /\ r.retry = post[c].retry
    BY <1>0 DEF CallRecord, Bridge!InFlight
  <2>3. ~post[c].retry
    BY <1>0, <2>1 DEF CallSound
  <2> HIDE DEF r
  <2>4. CallSound(r)
    BY <1>0, <2>1, <2>2, <2>3 DEF CallSound
  <2> QED
    BY <1>0, <1>1, <2>1, <2>2, <2>4
<1>3. CASE Bridge!Handle(c)
  <2>1. PICK answer \in IF post[c].hdr = None THEN Sessionless
                        ELSE IF post[c].hdr \in valid THEN {"ran"} ELSE {"unknown"} :
          post' = [post EXCEPT ![c].stage = answer, ![c].runs = IF answer = "ran" THEN @ + 1 ELSE @]
    BY <1>3 DEF Bridge!Handle
  <2> DEFINE r == [post[c] EXCEPT !.stage = answer, !.runs = IF answer = "ran" THEN @ + 1 ELSE @]
  <2>2. answer \in {"ran", "unknown"} /\ (answer = "unknown" => post[c].hdr = None \/ post[c].hdr \notin valid)
    BY <2>1, BridgeFacts
  <2>3. /\ UNCHANGED <<daemon, valid, issued, sid>> /\ post[c].stage = "posted" /\ daemon
    BY <1>3 DEF Bridge!Handle, Bridge!daemonVars
  <2>4. post[c].runs = 0
    BY <1>0, <2>3 DEF CallSound
  <2>5. post' = [post EXCEPT ![c] = r]
    BY <2>1
  <2>6. /\ r \in CallRecord /\ r.stage = answer /\ r.hdr = post[c].hdr /\ r.clean = post[c].clean
        /\ r.runs = (IF answer = "ran" THEN 1 ELSE 0) /\ r.retry = post[c].retry
    <3>1. (IF answer = "ran" THEN post[c].runs + 1 ELSE post[c].runs) = (IF answer = "ran" THEN 1 ELSE 0)
      BY <2>4
    <3>2. r = [post[c] EXCEPT !.stage = answer, !.runs = IF answer = "ran" THEN 1 ELSE 0]
      BY <3>1
    <3> HIDE DEF r
    <3> QED
      BY <1>0, <2>2, <3>2 DEF CallRecord, Bridge!InFlight
  <2>7. None \notin valid
    <3>1. valid \subseteq 1 .. issued /\ issued \in Nat
      BY DEF BridgeTyped
    <3>2. valid \subseteq Nat
      BY <3>1
    <3> QED
      BY <3>2, BridgeFacts
  <2> HIDE DEF r
  <2>8. CallSound(r)
    BY <1>0, <2>2, <2>3, <2>6, <2>7 DEF CallSound
  <2> QED
    BY <1>0, <1>1, <2>3, <2>5, <2>6, <2>8
<1>4. CASE Bridge!AnswerArrives(c)
  <2> DEFINE r == [post[c] EXCEPT !.stage = IF @ = "ran" THEN "ok" ELSE "failed"]
  <2>1. /\ post' = [post EXCEPT ![c] = r] /\ UNCHANGED <<daemon, valid, issued, sid>>
        /\ post[c].stage \in {"ran", "refused"}
    BY <1>4 DEF Bridge!AnswerArrives, Bridge!daemonVars
  <2>2. post[c].stage = "ran"
    BY <1>0, <2>1 DEF CallSound
  <2>3. /\ r \in CallRecord /\ r.stage = "ok" /\ r.hdr = post[c].hdr /\ r.clean = post[c].clean
        /\ r.runs = post[c].runs /\ r.retry = post[c].retry
    BY <1>0, <2>2 DEF CallRecord, Bridge!InFlight
  <2> HIDE DEF r
  <2>4. CallSound(r)
    BY <1>0, <2>2, <2>3 DEF CallSound
  <2> QED
    BY <1>0, <1>1, <2>1, <2>3, <2>4
<1>5. CASE Bridge!UnknownArrives(c)
  <2>1. /\ UNCHANGED <<daemon, valid, issued>> /\ (sid' = sid \/ sid' = None) /\ post[c].stage = "unknown"
        /\ \/ post[c].retry /\ post' = [post EXCEPT ![c].stage = "failed"]
           \/ ~post[c].retry /\ post' = [post EXCEPT ![c].stage = "waiting"]
    BY <1>5 DEF Bridge!UnknownArrives, Bridge!daemonVars
  <2>2. CASE post[c].retry /\ post' = [post EXCEPT ![c].stage = "failed"]
    <3> DEFINE r == [post[c] EXCEPT !.stage = "failed"]
    <3>1. /\ r \in CallRecord /\ r.stage = "failed" /\ r.hdr = post[c].hdr /\ r.clean = post[c].clean
          /\ r.runs = post[c].runs /\ r.retry = post[c].retry
      BY <1>0 DEF CallRecord, Bridge!InFlight
    <3>2. post' = [post EXCEPT ![c] = r]
      BY <2>2
    <3> HIDE DEF r
    <3>3. CallSound(r)
      BY <1>0, <2>1, <2>2, <3>1 DEF CallSound
    <3> QED
      BY <1>0, <1>1, <2>1, <3>1, <3>2, <3>3
  <2>3. CASE ~post[c].retry /\ post' = [post EXCEPT ![c].stage = "waiting"]
    <3> DEFINE r == [post[c] EXCEPT !.stage = "waiting"]
    <3>1. /\ r \in CallRecord /\ r.stage = "waiting" /\ r.hdr = post[c].hdr /\ r.clean = post[c].clean
          /\ r.runs = post[c].runs /\ r.retry = post[c].retry
      BY <1>0 DEF CallRecord, Bridge!InFlight
    <3>2. post' = [post EXCEPT ![c] = r]
      BY <2>3
    <3> HIDE DEF r
    <3>3. CallSound(r)
      BY <1>0, <2>1, <2>3, <3>1 DEF CallSound
    <3> QED
      BY <1>0, <1>1, <2>1, <3>1, <3>2, <3>3
  <2> QED
    BY <2>1, <2>2, <2>3
<1>6. CASE Bridge!Lost(c)
  <2> DEFINE r == [post[c] EXCEPT !.stage = "failed", !.clean = FALSE]
  <2>1. /\ post' = [post EXCEPT ![c] = r] /\ UNCHANGED <<daemon, valid, issued, sid>>
    BY <1>6 DEF Bridge!Lost, Bridge!AfterLoss, Bridge!daemonVars
  <2>2. /\ r \in CallRecord /\ r.stage = "failed" /\ r.hdr = post[c].hdr /\ ~r.clean
    BY <1>0 DEF CallRecord, Bridge!InFlight
  <2> HIDE DEF r
  <2>3. CallSound(r)
    BY <2>2 DEF CallSound
  <2> QED
    BY <1>0, <1>1, <2>1, <2>2, <2>3
<1> QED
  BY <1>2, <1>3, <1>4, <1>5, <1>6 DEF Bridge!CallStep

\* What the handshakes of a call's step become.
LEMMA CallStepShakes ==
  ASSUME BridgeTyped, ShakesSound, NEW c \in DaemonCalls, Bridge!Post(c) \/ Bridge!CallStep(c)
  PROVE  /\ UNCHANGED <<daemon, valid, issued, dials>> /\ ShakesSound'
         /\ shake' \in [Bridge!Shakers -> [stage : {"none", "posted", "answered", "notify"}, id : Nat \cup {None}]]
         /\ \A d \in Bridge!Shakers : shake'[d].id = shake[d].id
         /\ shake'["agent"] = shake["agent"]
         /\ \/ shake' = shake
            \/ /\ shake["re"].stage = "none" /\ shake'["re"].stage = "posted"
               /\ post[c].stage = "unknown" /\ ~post[c].retry /\ post'[c].stage = "waiting"
<1>1. \/ UNCHANGED <<daemon, valid, issued, dials, sid, shake>>
      \/ /\ UNCHANGED <<daemon, valid, issued, dials>>
         /\ shake["re"].stage = "none" /\ shake' = [shake EXCEPT !["re"].stage = "posted"]
         /\ post[c].stage = "unknown" /\ ~post[c].retry /\ post' = [post EXCEPT ![c].stage = "waiting"]
  BY DEF Bridge!Post, Bridge!CallStep, Bridge!Handle, Bridge!AnswerArrives, Bridge!UnknownArrives,
         Bridge!Lost, Bridge!Join, Bridge!daemonVars
<1>2. CASE UNCHANGED <<daemon, valid, issued, dials, sid, shake>>
  BY <1>2 DEF BridgeTyped, ShakesSound
<1>3. CASE /\ UNCHANGED <<daemon, valid, issued, dials>>
           /\ shake["re"].stage = "none" /\ shake' = [shake EXCEPT !["re"].stage = "posted"]
           /\ post[c].stage = "unknown" /\ ~post[c].retry /\ post' = [post EXCEPT ![c].stage = "waiting"]
  <2>1. post'[c].stage = "waiting"
    BY <1>3 DEF BridgeTyped, CallRecord
  <2>2. /\ shake' \in [Bridge!Shakers -> [stage : {"none", "posted", "answered", "notify"}, id : Nat \cup {None}]]
        /\ \A d \in Bridge!Shakers : shake'[d].id = shake[d].id
        /\ shake'["agent"] = shake["agent"] /\ shake'["re"].stage = "posted"
    BY <1>3 DEF BridgeTyped, Bridge!Shakers
  <2>3. ShakesSound'
    BY <1>3, <2>2 DEF ShakesSound, Bridge!Shakers
  <2> QED
    BY <1>3, <2>1, <2>2, <2>3
<1> QED
  BY <1>1, <1>2, <1>3

----------------------------------------------------------------------------
(* Bridge: handshakes, the daemon, and the sessions handed out *)

ShakeStates == [Bridge!Shakers -> [stage : {"none", "posted", "answered", "notify"}, id : Nat \cup {None}]]

\* A handshake moves while the calls stay, unless it settles those that wait.
LEMMA ShakeStepSafe ==
  ASSUME BridgeTyped, CallsSound, ShakesSound, NEW d \in Bridge!Shakers, Bridge!ShakeStep(d)
  PROVE  BridgeTyped' /\ CallsSound' /\ ShakesSound'
<1>0. /\ shake \in ShakeStates /\ \A e \in Bridge!Shakers : shake[e].id \in Ids
      /\ issued \in Nat /\ valid \subseteq 1 .. issued /\ daemon \in BOOLEAN /\ sid \in Ids
  BY DEF BridgeTyped, ShakeStates
<1>1. CASE Bridge!InitHandled(d)
  <2>1. /\ shake[d].stage = "posted" /\ daemon /\ issued' = issued + 1 /\ valid' = valid \cup {issued + 1}
        /\ shake' = [shake EXCEPT ![d] = [stage |-> "answered", id |-> issued + 1]]
        /\ UNCHANGED <<daemon, sid, post>>
    BY <1>1 DEF Bridge!InitHandled
  <2>2. issued' \in Nat /\ valid' \subseteq 1 .. issued' /\ Ids \subseteq Ids'
    BY <1>0, <2>1 DEF Ids
  <2>3. shake' \in ShakeStates /\ \A e \in Bridge!Shakers : shake'[e].id \in Ids'
    <3>1. issued + 1 \in Ids' /\ issued + 1 \in Nat
      BY <1>0, <2>1 DEF Ids
    <3> QED
      BY <1>0, <2>1, <2>2, <3>1 DEF ShakeStates
  <2>4. ShakesSound'
    BY <1>0, <2>1 DEF ShakesSound, ShakeStates
  <2>5. CallsSound'
    BY <2>1 DEF CallsSound, CallSound
  <2> QED
    BY <1>0, <2>1, <2>2, <2>3, <2>4, <2>5 DEF BridgeTyped, ShakeStates
<1>2. CASE Bridge!InitAnswered(d)
  <2>1. /\ shake[d].stage = "answered" /\ sid' = shake[d].id /\ shake' = [shake EXCEPT ![d].stage = "notify"]
        /\ UNCHANGED <<daemon, valid, issued, post>>
    BY <1>2 DEF Bridge!InitAnswered, Bridge!daemonVars
  <2>2. shake' \in ShakeStates /\ \A e \in Bridge!Shakers : shake'[e].id = shake[e].id
    BY <1>0, <2>1 DEF ShakeStates
  <2>3. ShakesSound'
    BY <1>0, <2>1 DEF ShakesSound, ShakeStates
  <2>4. CallsSound'
    BY <2>1 DEF CallsSound, CallSound
  <2> QED
    BY <1>0, <2>1, <2>2, <2>3, <2>4 DEF BridgeTyped, ShakeStates, Ids
<1>3. CASE Bridge!Notified(d)
  <2>1. /\ shake[d].stage = "notify" /\ shake' = [shake EXCEPT ![d] = Bridge!NoShake]
        /\ UNCHANGED <<daemon, valid, issued, sid>>
        /\ post' = [c \in DaemonCalls |-> IF d = "re" /\ c \in Bridge!Waiting
                     THEN [[post[c] EXCEPT !.stage = "posted", !.hdr = sid] EXCEPT !.retry = TRUE] ELSE post[c]]
    BY <1>3 DEF Bridge!Notified, Bridge!Posted, Bridge!daemonVars
  <2>2. shake' \in ShakeStates /\ \A e \in Bridge!Shakers : shake'[e].id \in Ids
    BY <1>0, <2>1 DEF ShakeStates, Bridge!NoShake, Ids
  <2>3. ShakesSound'
    BY <1>0, <2>1 DEF ShakesSound, ShakeStates, Bridge!NoShake, Bridge!Shakers
  <2>0. UNCHANGED <<daemon, valid, issued, sid>> /\ (d = "re" => shake["re"].stage = "notify")
    BY <2>1
  <2>4. ASSUME NEW c \in DaemonCalls
        PROVE  post'[c] \in CallRecord /\ post'[c].hdr \in Ids /\ CallSound(post[c])'
    <3>0. /\ post[c] \in CallRecord /\ post[c].hdr \in Ids /\ CallSound(post[c])
          /\ sid \in Ids /\ Ids \subseteq Nat \cup {None} /\ daemon \in BOOLEAN
      BY CallFields
    <3>1. CASE d = "re" /\ c \in Bridge!Waiting
      <4> DEFINE r == [[post[c] EXCEPT !.stage = "posted", !.hdr = sid] EXCEPT !.retry = TRUE]
      <4>1. post'[c] = r /\ post[c].stage = "waiting"
        BY <2>1, <3>1 DEF Bridge!Waiting
      <4>2. /\ r \in CallRecord /\ r.stage = "posted" /\ r.hdr = sid /\ r.clean = post[c].clean
            /\ r.runs = post[c].runs
        BY <3>0 DEF CallRecord, Bridge!InFlight
      <4>3. daemon => sid \in valid
        BY <2>0, <3>1 DEF ShakesSound
      <4> HIDE DEF r
      <4>4. CallSound(post[c])'
        BY <2>0, <3>0, <4>1, <4>2, <4>3 DEF CallSound
      <4> QED
        BY <3>0, <4>1, <4>2, <4>4
    <3>2. CASE ~(d = "re" /\ c \in Bridge!Waiting)
      <4>1. post'[c] = post[c]
        BY <2>1, <3>2
      <4> QED
        BY <2>0, <3>0, <4>1 DEF CallSound
    <3> QED
      BY <3>1, <3>2
  <2>5. post' \in [DaemonCalls -> CallRecord] /\ CallsSound'
    BY <2>1, <2>4 DEF CallsSound
  <2> QED
    BY <1>0, <2>1, <2>2, <2>3, <2>4, <2>5 DEF BridgeTyped, ShakeStates, Ids
<1>4. CASE Bridge!InitFails(d)
  <2>1. /\ UNCHANGED <<daemon, valid, issued, sid>> /\ shake' = [shake EXCEPT ![d] = Bridge!NoShake]
        /\ post' = [c \in DaemonCalls |-> IF d = "re" /\ c \in Bridge!Waiting
                                          THEN [post[c] EXCEPT !.stage = "failed"] ELSE post[c]]
        /\ \/ shake[d].stage = "posted" /\ ~daemon
           \/ shake[d].stage = "answered" /\ shake[d].id \notin valid
    BY <1>4 DEF Bridge!InitFails, Bridge!Cleared, Bridge!Rejected, Bridge!daemonVars
  <2>2. shake' \in ShakeStates /\ \A e \in Bridge!Shakers : shake'[e].id \in Ids
    BY <1>0, <2>1 DEF ShakeStates, Bridge!NoShake, Ids
  <2>3. ShakesSound'
    BY <1>0, <2>1 DEF ShakesSound, ShakeStates, Bridge!NoShake
  <2>0. UNCHANGED <<daemon, valid, issued, sid>>
    BY <2>1
  <2>4. ~daemon
    BY <2>1 DEF ShakesSound
  <2>5. ASSUME NEW c \in DaemonCalls
        PROVE  post'[c] \in CallRecord /\ post'[c].hdr \in Ids /\ CallSound(post[c])'
    <3>0. /\ post[c] \in CallRecord /\ post[c].hdr \in Ids /\ CallSound(post[c])
      BY CallFields
    <3>1. CASE d = "re" /\ c \in Bridge!Waiting
      <4> DEFINE r == [post[c] EXCEPT !.stage = "failed"]
      <4>1. post'[c] = r /\ post[c].stage = "waiting"
        BY <2>1, <3>1 DEF Bridge!Waiting
      <4>2. /\ r \in CallRecord /\ r.stage = "failed" /\ r.hdr = post[c].hdr /\ r.clean = post[c].clean
        BY <3>0 DEF CallRecord, Bridge!InFlight
      <4>3. ~post[c].clean
        BY <2>4, <3>0, <4>1 DEF CallSound
      <4> HIDE DEF r
      <4>4. CallSound(post[c])'
        BY <4>1, <4>2, <4>3 DEF CallSound
      <4> QED
        BY <3>0, <4>1, <4>2, <4>4
    <3>2. CASE ~(d = "re" /\ c \in Bridge!Waiting)
      <4>1. post'[c] = post[c]
        BY <2>1, <3>2
      <4> QED
        BY <2>0, <3>0, <4>1 DEF CallSound
    <3> QED
      BY <3>1, <3>2
  <2>6. post' \in [DaemonCalls -> CallRecord] /\ CallsSound'
    BY <2>1, <2>5 DEF CallsSound
  <2> QED
    BY <1>0, <2>1, <2>2, <2>3, <2>5, <2>6 DEF BridgeTyped, ShakeStates, Ids
<1> QED
  BY <1>1, <1>2, <1>3, <1>4 DEF Bridge!ShakeStep

LEMMA DaemonStepSafe ==
  ASSUME BridgeTyped, CallsSound, ShakesSound,
         Bridge!AgentConnects \/ Bridge!DaemonStops \/ Bridge!DaemonStarts
  PROVE  BridgeTyped' /\ CallsSound' /\ ShakesSound'
<1>0. shake \in ShakeStates /\ post \in [DaemonCalls -> CallRecord]
  BY DEF BridgeTyped, ShakeStates
<1>1. CASE Bridge!AgentConnects
  <2>1. UNCHANGED <<daemon, valid, issued, sid, post>> /\ shake' = [shake EXCEPT !["agent"].stage = "posted"]
    BY <1>1 DEF Bridge!AgentConnects, Bridge!daemonVars
  <2>2. shake' \in ShakeStates /\ \A e \in Bridge!Shakers : shake'[e].id = shake[e].id
    BY <1>0, <2>1 DEF ShakeStates, Bridge!Shakers
  <2>3. ShakesSound'
    BY <1>0, <2>1 DEF ShakesSound, ShakeStates, Bridge!Shakers
  <2> QED
    BY <2>1, <2>2, <2>3 DEF BridgeTyped, CallsSound, CallSound, Ids, ShakeStates
<1>2. CASE Bridge!DaemonStops
  <2>1. /\ UNCHANGED <<issued, sid, shake>> /\ daemon' = FALSE /\ valid' = {}
        /\ post' = [c \in DaemonCalls |-> [post[c] EXCEPT !.clean = FALSE]]
    BY <1>2 DEF Bridge!DaemonStops
  <2>2. ASSUME NEW c \in DaemonCalls
        PROVE  post'[c] \in CallRecord /\ post'[c].hdr \in Ids /\ CallSound(post[c])'
    <3>0. post[c] \in CallRecord /\ post[c].hdr \in Ids /\ CallSound(post[c])
      BY CallFields
    <3> DEFINE r == [post[c] EXCEPT !.clean = FALSE]
    <3>1. post'[c] = r
      BY <2>1
    <3>2. /\ r \in CallRecord /\ ~r.clean /\ r.hdr = post[c].hdr /\ r.stage = post[c].stage
          /\ r.runs = post[c].runs /\ r.retry = post[c].retry
      BY <3>0 DEF CallRecord
    <3> HIDE DEF r
    <3>3. CallSound(post[c])'
      BY <3>0, <3>1, <3>2 DEF CallSound
    <3> QED
      BY <3>0, <3>1, <3>2, <3>3
  <2>3. post' \in [DaemonCalls -> CallRecord] /\ CallsSound'
    BY <2>1, <2>2 DEF CallsSound
  <2>4. ShakesSound'
    BY <2>1 DEF ShakesSound
  <2> QED
    BY <2>1, <2>2, <2>3, <2>4 DEF BridgeTyped, Ids
<1>3. CASE Bridge!DaemonStarts
  <2>1. /\ UNCHANGED <<valid, issued, sid, shake, post>> /\ daemon' = TRUE /\ ~daemon
        /\ \A d \in Bridge!Shakers : shake[d].stage = "none"
    BY <1>3 DEF Bridge!DaemonStarts
  <2>2. CallsSound'
    BY <2>1 DEF CallsSound, CallSound
  <2>3. ShakesSound'
    BY <2>1 DEF ShakesSound, Bridge!Shakers
  <2> QED
    BY <2>1, <2>2, <2>3 DEF BridgeTyped, Ids
<1> QED
  BY <1>1, <1>2, <1>3

\* A session handed out was asked for by a connect of the agent or by a call
\* that met a 404: each such call is of this kind from then on.
Repeaters == {c \in DaemonCalls : post[c].stage \in {"waiting", "failed"} \/ post[c].retry}

Asking(d) == IF shake[d].stage = "posted" THEN 1 ELSE 0

Budget ==
  /\ dials \in 0 .. MaxDials
  /\ issued + Asking("agent") + Asking("re") <= dials + Cardinality(Repeaters)

LEMMA SpentFinite ==
  /\ Cardinality(Repeaters) \in Nat /\ Cardinality(Repeaters) <= Cardinality(DaemonCalls)
  /\ Cardinality(Repeaters') \in Nat /\ Cardinality(DaemonCalls) \in Nat
<1>1. Repeaters \in SUBSET DaemonCalls /\ Repeaters' \in SUBSET DaemonCalls
  BY DEF Repeaters
<1> QED
  BY <1>1, BridgeFacts, FS_Subset, FS_CardinalityType

LEMMA SpentGrows ==
  ASSUME Repeaters \subseteq Repeaters'
  PROVE  /\ Cardinality(Repeaters) <= Cardinality(Repeaters')
         /\ \A c \in Repeaters' : c \notin Repeaters => Cardinality(Repeaters) + 1 <= Cardinality(Repeaters')
<1>1. Repeaters' \in SUBSET DaemonCalls /\ Repeaters \in SUBSET Repeaters'
  BY DEF Repeaters
<1>2. IsFiniteSet(Repeaters') /\ IsFiniteSet(Repeaters)
  BY <1>1, BridgeFacts, FS_Subset
<1>3. ASSUME NEW c \in Repeaters', c \notin Repeaters
      PROVE  Cardinality(Repeaters) + 1 <= Cardinality(Repeaters')
  <2>1. Repeaters \cup {c} \in SUBSET Repeaters'
    BY <1>1, <1>3
  <2>2. Cardinality(Repeaters \cup {c}) = Cardinality(Repeaters) + 1
    BY <1>2, <1>3, FS_AddElement
  <2> QED
    BY <1>2, <2>1, <2>2, FS_Subset
<1> QED
  BY <1>1, <1>2, <1>3, FS_Subset

\* No step frees a call that has asked for a session.
LEMMA SpentStays ==
  ASSUME BridgeTyped, CallsSound, [Bridge!Next]_bridgeVars
  PROVE  Repeaters \subseteq Repeaters'
<1>0. post \in [DaemonCalls -> CallRecord]
  BY DEF BridgeTyped
<1>1. ASSUME NEW c \in DaemonCalls, Bridge!Post(c) \/ Bridge!CallStep(c)
      PROVE  Repeaters \subseteq Repeaters'
  <2>1. CASE Bridge!Post(c)
    <3>1. post[c].stage = "idle" /\ ~post[c].retry
      BY <2>1 DEF Bridge!Post, CallsSound, CallSound
    <3> QED
      BY <1>0, <2>1, <3>1 DEF Bridge!Post, Bridge!Posted, Repeaters, CallRecord
  <2>2. CASE Bridge!Handle(c)
    BY <1>0, <2>2 DEF Bridge!Handle, Repeaters, CallRecord
  <2>3. CASE Bridge!AnswerArrives(c)
    BY <1>0, <2>3 DEF Bridge!AnswerArrives, Repeaters, CallRecord
  <2>4. CASE Bridge!UnknownArrives(c)
    <3>1. \/ post' = [post EXCEPT ![c].stage = "failed"]
          \/ post' = [post EXCEPT ![c].stage = "waiting"]
      BY <2>4 DEF Bridge!UnknownArrives
    <3> QED
      BY <1>0, <3>1 DEF Repeaters, CallRecord
  <2>5. CASE Bridge!Lost(c)
    BY <1>0, <2>5 DEF Bridge!Lost, Bridge!AfterLoss, Repeaters, CallRecord
  <2> QED
    BY <1>1, <2>1, <2>2, <2>3, <2>4, <2>5 DEF Bridge!CallStep
<1>2. ASSUME NEW d \in Bridge!Shakers, Bridge!ShakeStep(d)
      PROVE  Repeaters \subseteq Repeaters'
  <2>1. CASE post' = post
    BY <2>1 DEF Repeaters
  <2>2. CASE Bridge!Notified(d)
    <3>1. ASSUME NEW c \in DaemonCalls, c \in Repeaters
          PROVE  c \in Repeaters'
      <4>1. CASE c \in Bridge!Waiting /\ d = "re"
        BY <1>0, <2>2, <4>1 DEF Bridge!Notified, Bridge!Posted, Repeaters, CallRecord
      <4>2. CASE ~(c \in Bridge!Waiting /\ d = "re")
        <5>1. post'[c] = post[c]
          BY <2>2, <4>2 DEF Bridge!Notified
        <5> QED
          BY <3>1, <5>1 DEF Repeaters
      <4> QED
        BY <4>1, <4>2
    <3> QED
      BY <3>1 DEF Repeaters
  <2>3. CASE Bridge!InitFails(d)
    <3>1. ASSUME NEW c \in DaemonCalls, c \in Repeaters
          PROVE  c \in Repeaters'
      <4>1. CASE c \in Bridge!Waiting /\ d = "re"
        BY <1>0, <2>3, <4>1 DEF Bridge!InitFails, Bridge!Rejected, Repeaters, CallRecord
      <4>2. CASE ~(c \in Bridge!Waiting /\ d = "re")
        <5>1. post'[c] = post[c]
          BY <2>3, <4>2 DEF Bridge!InitFails, Bridge!Rejected
        <5> QED
          BY <3>1, <5>1 DEF Repeaters
      <4> QED
        BY <4>1, <4>2
    <3> QED
      BY <3>1 DEF Repeaters
  <2> QED
    BY <1>2, <2>1, <2>2, <2>3 DEF Bridge!ShakeStep, Bridge!InitHandled, Bridge!InitAnswered
<1>3. CASE Bridge!DaemonStops
  BY <1>0, <1>3 DEF Bridge!DaemonStops, Repeaters, CallRecord
<1>4. CASE post' = post
  BY <1>4 DEF Repeaters
<1> QED
  BY <1>1, <1>2, <1>3, <1>4 DEF Bridge!Next, Bridge!AgentConnects, Bridge!DaemonStarts, bridgeVars

BridgeInv == BridgeTyped /\ CallsSound /\ ShakesSound /\ Budget

LEMMA BridgeStart == Bridge!Init => BridgeInv
<1> SUFFICES ASSUME Bridge!Init PROVE BridgeInv
  OBVIOUS
<1>1. Bridge!Fresh \in CallRecord /\ Bridge!Fresh.hdr = None /\ CallSound(Bridge!Fresh)
  BY DEF Bridge!Fresh, CallRecord, CallSound
<1>2. BridgeTyped /\ CallsSound /\ ShakesSound
  BY <1>1 DEF Bridge!Init, BridgeTyped, CallsSound, ShakesSound, Ids, Bridge!NoShake, Bridge!Shakers
<1>3. issued = 0 /\ dials = 0 /\ Asking("agent") = 0 /\ Asking("re") = 0
  BY DEF Bridge!Init, Asking, Bridge!Shakers, Bridge!NoShake
<1>4. Budget
  BY <1>3, BridgeFacts, SpentFinite DEF Budget
<1> QED
  BY <1>2, <1>4 DEF BridgeInv

LEMMA BudgetStep ==
  ASSUME BridgeInv, [Bridge!Next]_bridgeVars
  PROVE  Budget'
<1>0. /\ BridgeTyped /\ CallsSound /\ ShakesSound /\ Budget
      /\ issued \in Nat /\ dials \in 0 .. MaxDials /\ MaxDials \in Nat
      /\ Cardinality(Repeaters) \in Nat /\ Cardinality(Repeaters') \in Nat
      /\ issued + Asking("agent") + Asking("re") <= dials + Cardinality(Repeaters)
      /\ {Asking("agent"), Asking("re")} \subseteq {0, 1}
  BY SpentFinite, BridgeFacts DEF BridgeInv, BridgeTyped, Budget, Asking
<1>1. /\ Cardinality(Repeaters) <= Cardinality(Repeaters')
      /\ \A c \in Repeaters' : c \notin Repeaters => Cardinality(Repeaters) + 1 <= Cardinality(Repeaters')
  BY <1>0, SpentStays, SpentGrows
<1>2. ASSUME NEW c \in DaemonCalls, Bridge!Post(c) \/ Bridge!CallStep(c)
      PROVE  Budget'
  <2>1. /\ issued' = issued /\ dials' = dials /\ shake'["agent"] = shake["agent"]
        /\ \/ shake' = shake
           \/ /\ shake["re"].stage = "none" /\ shake'["re"].stage = "posted"
              /\ post[c].stage = "unknown" /\ ~post[c].retry /\ post'[c].stage = "waiting"
    BY <1>0, <1>2, CallStepShakes
  <2>2. CASE shake' = shake
    <3>1. Asking("agent")' = Asking("agent") /\ Asking("re")' = Asking("re")
      BY <2>2 DEF Asking
    <3> QED
      BY <1>0, <1>1, <2>1, <3>1 DEF Budget
  <2>3. CASE /\ shake["re"].stage = "none" /\ shake'["re"].stage = "posted"
             /\ post[c].stage = "unknown" /\ ~post[c].retry /\ post'[c].stage = "waiting"
    <3>1. Asking("agent")' = Asking("agent") /\ Asking("re")' = 1 /\ Asking("re") = 0
      BY <2>1, <2>3 DEF Asking
    <3>2. c \in Repeaters' /\ c \notin Repeaters
      BY <2>3 DEF Repeaters
    <3>3. Cardinality(Repeaters) + 1 <= Cardinality(Repeaters')
      BY <1>1, <3>2
    <3> QED
      BY <1>0, <2>1, <3>1, <3>3 DEF Budget
  <2> QED
    BY <2>1, <2>2, <2>3
<1>3. ASSUME NEW d \in Bridge!Shakers, Bridge!ShakeStep(d)
      PROVE  Budget'
  <2>0. shake \in ShakeStates /\ dials' = dials /\ d \in {"agent", "re"}
    BY <1>0, <1>3 DEF BridgeTyped, ShakeStates, Bridge!ShakeStep, Bridge!InitHandled, Bridge!InitAnswered,
                      Bridge!Notified, Bridge!InitFails, Bridge!Shakers
  <2>1. CASE Bridge!InitHandled(d)
    <3>1. /\ shake[d].stage = "posted" /\ issued' = issued + 1 /\ shake'[d].stage = "answered"
          /\ \A e \in Bridge!Shakers : e # d => shake'[e] = shake[e]
      BY <2>0, <2>1 DEF Bridge!InitHandled, ShakeStates
    <3>2. Asking("agent") + Asking("re") = Asking("agent")' + Asking("re")' + 1
      BY <2>0, <3>1 DEF Asking, Bridge!Shakers
    <3>3. {Asking("agent")', Asking("re")'} \subseteq {0, 1}
      BY DEF Asking
    <3> QED
      BY <1>0, <1>1, <2>0, <3>1, <3>2, <3>3 DEF Budget
  <2>2. CASE Bridge!InitAnswered(d) \/ Bridge!Notified(d) \/ Bridge!InitFails(d)
    <3>1. /\ issued' = issued /\ shake'[d].stage # "posted"
          /\ \A e \in Bridge!Shakers : e # d => shake'[e] = shake[e]
      BY <2>0, <2>2 DEF Bridge!InitAnswered, Bridge!Notified, Bridge!InitFails, Bridge!Cleared, Bridge!NoShake,
                        Bridge!daemonVars, ShakeStates
    <3>2. Asking("agent")' <= Asking("agent") /\ Asking("re")' <= Asking("re")
      BY <2>0, <3>1 DEF Asking, Bridge!Shakers
    <3>3. {Asking("agent")', Asking("re")'} \subseteq {0, 1}
      BY DEF Asking
    <3> QED
      BY <1>0, <1>1, <2>0, <3>1, <3>2, <3>3 DEF Budget
  <2> QED
    BY <1>3, <2>1, <2>2 DEF Bridge!ShakeStep
<1>4. CASE Bridge!AgentConnects
  <2>1. /\ issued' = issued /\ dials' = dials + 1 /\ dials < MaxDials /\ shake["agent"].stage = "none"
        /\ shake' = [shake EXCEPT !["agent"].stage = "posted"]
    BY <1>4 DEF Bridge!AgentConnects, Bridge!daemonVars
  <2>2. shake \in ShakeStates
    BY <1>0 DEF BridgeTyped, ShakeStates
  <2>3. Asking("agent")' = 1 /\ Asking("agent") = 0 /\ Asking("re")' = Asking("re")
    BY <2>1, <2>2 DEF Asking, ShakeStates, Bridge!Shakers
  <2> QED
    BY <1>0, <1>1, <2>1, <2>3 DEF Budget
<1>5. CASE UNCHANGED <<issued, dials, shake>>
  <2>1. Asking("agent")' = Asking("agent") /\ Asking("re")' = Asking("re")
    BY <1>5 DEF Asking
  <2> QED
    BY <1>0, <1>1, <1>5, <2>1 DEF Budget
<1> QED
  BY <1>2, <1>3, <1>4, <1>5 DEF Bridge!Next, Bridge!DaemonStops, Bridge!DaemonStarts, bridgeVars

LEMMA BridgeStepInv ==
  ASSUME "refused" \notin Sessionless, BridgeInv, [Bridge!Next]_bridgeVars
  PROVE  BridgeInv'
<1>0. BridgeTyped /\ CallsSound /\ ShakesSound /\ Budget
  BY DEF BridgeInv
<1>1. ASSUME NEW c \in DaemonCalls, Bridge!Post(c) \/ Bridge!CallStep(c)
      PROVE  BridgeTyped' /\ CallsSound' /\ ShakesSound'
  <2>1. /\ post' \in [DaemonCalls -> CallRecord] /\ \A x \in DaemonCalls : post'[x].hdr \in Ids'
        /\ sid' \in Ids' /\ CallsSound'
    BY <1>0, <1>1, CallStepSafe
  <2>2. /\ UNCHANGED <<daemon, valid, issued, dials>> /\ ShakesSound'
        /\ shake' \in [Bridge!Shakers -> [stage : {"none", "posted", "answered", "notify"}, id : Nat \cup {None}]]
        /\ \A d \in Bridge!Shakers : shake'[d].id = shake[d].id
    BY <1>0, <1>1, CallStepShakes
  <2> QED
    BY <1>0, <2>1, <2>2 DEF BridgeTyped, Ids
<1>2. ASSUME NEW d \in Bridge!Shakers, Bridge!ShakeStep(d)
      PROVE  BridgeTyped' /\ CallsSound' /\ ShakesSound'
  BY <1>0, <1>2, ShakeStepSafe
<1>3. CASE Bridge!AgentConnects \/ Bridge!DaemonStops \/ Bridge!DaemonStarts
  BY <1>0, <1>3, BudgetStep, DaemonStepSafe DEF BridgeInv
<1>4. CASE UNCHANGED bridgeVars
  <2>1. BridgeTyped' /\ CallsSound' /\ ShakesSound'
    BY <1>0, <1>4 DEF bridgeVars, BridgeTyped, CallsSound, CallSound, ShakesSound, Ids
  <2> QED
    BY <2>1, BudgetStep DEF BridgeInv
<1> QED
  BY <1>1, <1>2, <1>3, <1>4, BudgetStep DEF Bridge!Next, BridgeInv

\* Behind a daemon that turns no call without a session away, a call runs at
\* most once and fails only when its connection was lost or the daemon was not
\* up for all of it; connects and calls bound the sessions it hands out.
THEOREM BridgeIsSafe ==
  ASSUME "refused" \notin Sessionless
  PROVE  Bridge!Spec => []BridgeSafe
<1>1. BridgeInv /\ [Bridge!Next]_(Bridge!vars) => BridgeInv'
  <2>1. UNCHANGED Bridge!vars => UNCHANGED bridgeVars
    BY DEF Bridge!vars, Bridge!daemonVars, bridgeVars
  <2> QED
    BY <2>1, BridgeStepInv
<1>2. BridgeInv => BridgeSafe
  <2> SUFFICES ASSUME BridgeInv PROVE BridgeSafe
    OBVIOUS
  <2>1. BridgeTyped /\ CallsSound /\ Budget
    BY DEF BridgeInv
  <2>2. issued <= MaxDials + Cardinality(DaemonCalls)
    <3>1. {Asking("agent"), Asking("re")} \subseteq {0, 1}
      BY DEF Asking
    <3> QED
      BY <2>1, <3>1, SpentFinite, BridgeFacts DEF Budget, BridgeTyped
  <2>3. Bridge!Cardinality(DaemonCalls) = Cardinality(DaemonCalls)
    BY DEF Bridge!Cardinality, Cardinality
  <2>4. Bridge!TypeOK
    BY <2>1, <2>2, <2>3 DEF Bridge!TypeOK, BridgeTyped, CallRecord, Ids
  <2>5. Bridge!AtMostOnce
    BY <2>1 DEF Bridge!AtMostOnce, BridgeTyped, CallRecord
  <2>6. Bridge!CallSurvivesRestart
    BY <2>1 DEF Bridge!CallSurvivesRestart, CallsSound, CallSound
  <2> QED
    BY <2>4, <2>5, <2>6 DEF BridgeSafe
<1> QED
  BY <1>1, <1>2, BridgeStart, PTL DEF Bridge!Spec

----------------------------------------------------------------------------
(* SummaryCache *)

Last == MaxTurns + Cardinality(Summary!Requests)

ReqRecord ==
  [stage : {"idle", "asked", "built", "ok", "failed"}, since : Nat, at : Nat, seen : Nat, full : BOOLEAN,
   done : BOOLEAN, was : BOOLEAN, hit : BOOLEAN, floor : Nat, calm : Nat]

\* The state v was the session's at some time not before t.
HeldSince(v, t) == until[v] = None \/ t <= until[v]

SummaryTyped ==
  /\ session \in 0 .. Last /\ running \in BOOLEAN /\ clock \in Nat
  /\ landed \in 0 .. session /\ quiet \in 0 .. landed
  /\ until \in [0 .. Last -> Nat \cup {None}] /\ req \in [Summary!Requests -> ReqRecord]
  /\ \A v \in 0 .. Last : session <= v => until[v] = None

\* What is cached is what the daemon said during one fetch before it was
\* written, and holds every change that was answered while nothing was read.
CacheSound ==
  cache # None => /\ cache.v \in 0 .. session /\ cache.at \in 0 .. clock /\ quiet <= cache.v
                  /\ until[cache.v] = None \/ cache.at <= until[cache.v] + MaxCall

Lag == CacheTtl + MaxCall

\* A read under way began after the last such change.
ReqSound(r, q) ==
  /\ q.since <= clock /\ q.at <= clock /\ q.seen <= session /\ (q.stage = "idle" => ~q.done)
  /\ r \in Readers =>
       /\ q.stage = "asked" => q.floor <= session /\ q.calm <= session
       /\ q.stage \in {"asked", "built"} => q.calm = quiet
       /\ q.stage = "built" => q.calm <= q.seen /\ q.floor <= q.seen /\ HeldSince(q.seen, q.since)
       /\ q.stage = "ok" => /\ q.calm <= q.seen /\ (q.full => q.floor <= q.seen)
                            /\ until[q.seen] = None \/ q.at <= until[q.seen] + Lag

ReqsSound == \A r \in Summary!Requests : ReqSound(r, req[r])

\* A change of the session is a turn, or a request that is carried out once.
Carried == {r \in Summary!Requests : req[r].done \/ req[r].stage = "failed"}

Changes == turns \in 0 .. MaxTurns /\ session <= turns + Cardinality(Carried)

LEMMA SummaryFacts ==
  /\ IsFiniteSet(Summary!Requests) /\ None \notin Nat /\ CacheTtl \in Nat /\ MaxCall \in Nat /\ MaxTurns \in Nat
  /\ Cardinality(Summary!Requests) \in Nat /\ Last \in Nat
  /\ Summary!Cardinality(Summary!Requests) = Cardinality(Summary!Requests)
<1>1. /\ IsFiniteSet(Summary!Requests) /\ None \notin Nat /\ CacheTtl \in Nat /\ MaxCall \in Nat
      /\ MaxTurns \in Nat
  BY DeviceAssumption DEF Summary!SummaryAssumption, Summary!IsFiniteSet, IsFiniteSet
<1>2. Summary!Cardinality(Summary!Requests) = Cardinality(Summary!Requests)
  BY DEF Summary!Cardinality, Cardinality
<1> QED
  BY <1>1, <1>2, FS_CardinalityType DEF Last

\* Time and the session move on: the session's states are superseded now or
\* were before.
MovesOn ==
  /\ session' \in 0 .. Last /\ session <= session' /\ clock' \in Nat /\ clock <= clock'
  /\ until' \in [0 .. Last -> Nat \cup {None}]
  /\ \A v \in 0 .. Last : until'[v] = until[v] \/ until'[v] = clock
  /\ \A v \in 0 .. Last : session' <= v => until'[v] = None

LEMMA ReqStays ==
  ASSUME SummaryTyped, MovesOn, NEW r \in Summary!Requests, ReqSound(r, req[r]), req'[r] = req[r],
         quiet' = quiet \/ ~(r \in Readers /\ Summary!InFlight(r))
  PROVE  ReqSound(r, req[r])'
<1> DEFINE q == req[r]
<1>1. /\ q \in ReqRecord /\ q.seen \in 0 .. Last /\ session \in Nat /\ clock \in Nat /\ Lag \in Nat
  <2>1. q \in ReqRecord /\ session \in 0 .. Last /\ clock \in Nat
    BY DEF SummaryTyped
  <2>2. q.seen \in Nat /\ q.seen <= session
    BY <2>1 DEF ReqSound, ReqRecord
  <2>3. Last \in Nat /\ Lag \in Nat
    BY SummaryFacts DEF Lag
  <2>4. session \in Nat /\ session <= Last
    BY <2>1, <2>3
  <2> QED
    BY <2>1, <2>2, <2>3, <2>4
<1>2. /\ q.since \in Nat /\ q.at \in Nat /\ q.seen \in Nat /\ q.floor \in Nat /\ q.calm \in Nat
  BY <1>1 DEF ReqRecord
<1>3. until'[q.seen] = until[q.seen] \/ until'[q.seen] = clock
  BY <1>1 DEF MovesOn
<1>4. HeldSince(q.seen, q.since) => HeldSince(req[r].seen, req[r].since)'
  BY <1>3 DEF HeldSince, ReqSound
<1>5. (until[q.seen] = None \/ q.at <= until[q.seen] + Lag) => (until'[q.seen] = None \/ q.at <= until'[q.seen] + Lag)
  BY <1>1, <1>2, <1>3 DEF ReqSound
<1>6. session' \in Nat /\ session <= session' /\ clock' \in Nat /\ clock <= clock'
  BY DEF MovesOn
<1>7. quiet' = quiet \/ ~(r \in Readers /\ q.stage \in {"asked", "built"})
  BY DEF Summary!InFlight
<1>8. q.since <= clock' /\ q.at <= clock' /\ q.seen <= session'
  BY <1>1, <1>2, <1>6 DEF ReqSound
<1>9. r \in Readers /\ q.stage = "asked" => q.floor <= session' /\ q.calm <= session'
  BY <1>1, <1>2, <1>6 DEF ReqSound
<1> QED
  BY <1>4, <1>5, <1>7, <1>8, <1>9 DEF ReqSound, HeldSince, Lag

LEMMA CacheStays ==
  ASSUME SummaryTyped, MovesOn, CacheSound, cache' = cache, quiet' = quiet
  PROVE  CacheSound'
<1>1. CASE cache # None
  <2>1. /\ cache.v \in 0 .. Last /\ cache.at \in Nat /\ session \in Nat /\ clock \in Nat /\ MaxCall \in Nat
    BY <1>1, SummaryFacts DEF CacheSound, SummaryTyped
  <2>2. until'[cache.v] = until[cache.v] \/ until'[cache.v] = clock
    BY <2>1 DEF MovesOn
  <2>3. until'[cache.v] = None \/ cache.at <= until'[cache.v] + MaxCall
    BY <1>1, <2>1, <2>2 DEF CacheSound
  <2> QED
    BY <1>1, <2>1, <2>3 DEF CacheSound, MovesOn
<1>2. CASE cache = None
  BY <1>2 DEF CacheSound
<1> QED
  BY <1>1, <1>2

SummaryInv == SummaryTyped /\ CacheSound /\ ReqsSound

\* One request goes on.
LEMMA ReqGoesOn ==
  ASSUME SummaryInv, MovesOn, NEW r \in Summary!Requests, NEW q \in ReqRecord, req' = [req EXCEPT ![r] = q],
         ReqSound(r, req[r])', running' \in BOOLEAN, landed' \in 0 .. session', quiet' \in 0 .. landed',
         quiet' = quiet \/ ~\E x \in Readers : Summary!InFlight(x), CacheSound'
  PROVE  SummaryInv'
<1>1. req' \in [Summary!Requests -> ReqRecord] /\ \A x \in Summary!Requests : x # r => req'[x] = req[x]
  BY DEF SummaryInv, SummaryTyped
<1>2. ASSUME NEW x \in Summary!Requests
      PROVE  ReqSound(x, req[x])'
  <2>1. CASE x = r
    BY <2>1
  <2>2. CASE x # r
    BY <1>1, <2>2, ReqStays DEF SummaryInv, ReqsSound
  <2> QED
    BY <2>1, <2>2
<1> QED
  BY <1>1, <1>2 DEF SummaryInv, SummaryTyped, MovesOn, ReqsSound

LEMMA StaysPut ==
  ASSUME SummaryInv, UNCHANGED <<session, clock, until>>
  PROVE  MovesOn
<1>1. session \in 0 .. Last /\ Last \in Nat /\ clock \in Nat
  BY SummaryFacts DEF SummaryInv, SummaryTyped
<1> QED
  BY <1>1 DEF SummaryInv, SummaryTyped, MovesOn

LEMMA ReqFields ==
  ASSUME SummaryInv, NEW r \in Summary!Requests
  PROVE  /\ req[r] \in ReqRecord /\ req[r].since \in Nat /\ req[r].at \in Nat /\ req[r].seen \in Nat
         /\ req[r].floor \in Nat /\ req[r].calm \in Nat /\ ReqSound(r, req[r])
         /\ session \in Nat /\ session \in 0 .. Last /\ clock \in Nat /\ landed \in Nat /\ quiet \in Nat
         /\ quiet <= landed /\ landed <= session /\ landed \in 0 .. session /\ quiet \in 0 .. landed
         /\ running \in BOOLEAN /\ req[r].full \in BOOLEAN
<1>1. req[r] \in ReqRecord /\ ReqSound(r, req[r])
  BY DEF SummaryInv, SummaryTyped, ReqsSound
<1>2. /\ session \in Nat /\ session \in 0 .. Last /\ clock \in Nat /\ landed \in Nat /\ quiet \in Nat
      /\ quiet <= landed /\ landed <= session /\ landed \in 0 .. session /\ quiet \in 0 .. landed
      /\ running \in BOOLEAN
  BY SummaryFacts DEF SummaryInv, SummaryTyped
<1> QED
  BY <1>1, <1>2 DEF ReqRecord

LEMMA ReadSafe ==
  ASSUME SummaryInv, NEW r \in Readers, Summary!Read(r)
  PROVE  SummaryInv' /\ UNCHANGED <<session, turns>> /\ Carried \subseteq Carried'
<1>0. r \in Summary!Requests
  BY DEF Summary!Requests
<1>1. PICK full \in BOOLEAN :
        req' = [req EXCEPT ![r] = IF Summary!Cached(full)
                  THEN [Summary!Asked(r, full) EXCEPT !.stage = "ok", !.seen = cache.v, !.since = 0]
                  ELSE Summary!Asked(r, full)]
  BY DEF Summary!Read
<1>2. UNCHANGED <<session, running, cache, clock, turns, until, landed, quiet>> /\ req[r].stage = "idle"
  BY DEF Summary!Read
<1>3. MovesOn /\ CacheSound'
  BY <1>2, StaysPut, CacheStays DEF SummaryInv
<1>4. /\ session \in Nat /\ clock \in Nat /\ landed \in Nat /\ quiet \in Nat /\ quiet <= landed
      /\ landed <= session /\ landed \in 0 .. session /\ quiet \in 0 .. landed /\ running \in BOOLEAN
      /\ ReqSound(r, req[r])
  BY <1>0, ReqFields
<1> DEFINE q == Summary!Asked(r, full)
<1>5. /\ q \in ReqRecord /\ q.stage = "asked" /\ q.since = clock /\ q.at = clock /\ q.seen = 0
      /\ q.full = full /\ q.floor = landed /\ q.calm = quiet /\ q.done = FALSE
  BY <1>4 DEF Summary!Asked, Summary!Fresh, ReqRecord
<1> HIDE DEF q
<1>6. CASE ~Summary!Cached(full)
  <2>1. req' = [req EXCEPT ![r] = q] /\ req'[r] = q
    BY <1>0, <1>1, <1>6 DEF q, SummaryInv, SummaryTyped
  <2>2. ReqSound(r, req[r])'
    BY <1>2, <1>4, <1>5, <2>1 DEF ReqSound
  <2>3. SummaryInv'
    BY <1>0, <1>2, <1>3, <1>4, <1>5, <2>1, <2>2, ReqGoesOn
  <2> QED
    BY <1>0, <1>2, <1>4, <2>1, <2>3 DEF Carried, SummaryInv, SummaryTyped, ReqSound
<1>7. CASE Summary!Cached(full)
  <2> DEFINE h == [q EXCEPT !.stage = "ok", !.seen = cache.v, !.since = 0]
  <2>0. cache # None => cache.v \in Nat
    BY <1>4 DEF SummaryInv, CacheSound
  <2>1. req' = [req EXCEPT ![r] = h] /\ req'[r] = h
    BY <1>0, <1>1, <1>7 DEF q, SummaryInv, SummaryTyped
  <2>2. cache # None /\ clock - cache.at <= CacheTtl /\ ~full
    BY <1>7 DEF Summary!Cached, Summary!Hit
  <2>3. /\ cache.v \in 0 .. session /\ cache.at \in 0 .. clock /\ quiet <= cache.v
        /\ until[cache.v] = None \/ cache.at <= until[cache.v] + MaxCall
    BY <2>2 DEF SummaryInv, CacheSound
  <2>4. /\ h \in ReqRecord /\ h.stage = "ok" /\ h.since = 0 /\ h.at = clock /\ h.seen = cache.v
        /\ ~h.full /\ h.calm = quiet
    BY <1>5, <2>0, <2>2 DEF ReqRecord
  <2> HIDE DEF h
  <2>5. until[cache.v] = None \/ clock <= until[cache.v] + Lag
    <3>1. cache.v \in 0 .. Last
      BY <1>4, <2>3, SummaryFacts DEF SummaryInv, SummaryTyped
    <3>2. until[cache.v] = None \/ until[cache.v] \in Nat
      BY <3>1 DEF SummaryInv, SummaryTyped
    <3> QED
      BY <1>4, <2>2, <2>3, <3>2, SummaryFacts DEF Lag
  <2>6. ReqSound(r, req[r])'
    BY <1>2, <1>4, <2>1, <2>3, <2>4, <2>5 DEF ReqSound, Lag
  <2>7. SummaryInv'
    BY <1>0, <1>2, <1>3, <1>4, <2>1, <2>4, <2>6, ReqGoesOn
  <2> QED
    BY <1>0, <1>2, <1>4, <2>1, <2>7 DEF Carried, SummaryInv, SummaryTyped, ReqSound
<1> QED
  BY <1>6, <1>7

LEMMA BuiltSafe ==
  ASSUME SummaryInv, NEW r \in Readers, Summary!Built(r)
  PROVE  SummaryInv' /\ UNCHANGED <<session, turns>> /\ Carried \subseteq Carried'
<1>0. r \in Summary!Requests
  BY DEF Summary!Requests
<1> DEFINE q == [req[r] EXCEPT !.stage = "built", !.seen = session]
<1>1. /\ UNCHANGED <<session, running, cache, clock, turns, until, landed, quiet>> /\ req[r].stage = "asked"
      /\ req' = [req EXCEPT ![r] = q] /\ req'[r] = q
  BY <1>0 DEF Summary!Built, SummaryInv, SummaryTyped
<1>2. MovesOn /\ CacheSound'
  BY <1>1, StaysPut, CacheStays DEF SummaryInv
<1>3. /\ req[r] \in ReqRecord /\ req[r].since \in Nat /\ req[r].at \in Nat /\ ReqSound(r, req[r])
      /\ session \in 0 .. Last /\ session \in Nat /\ clock \in Nat /\ landed \in 0 .. session /\ quiet \in 0 .. landed
      /\ running \in BOOLEAN
  BY <1>0, ReqFields
<1>4. /\ q \in ReqRecord /\ q.stage = "built" /\ q.seen = session /\ q.since = req[r].since
      /\ q.at = req[r].at /\ q.floor = req[r].floor /\ q.calm = req[r].calm /\ q.done = req[r].done
  BY <1>3 DEF ReqRecord
<1> HIDE DEF q
<1>5. HeldSince(session, req[r].since)
  BY <1>3 DEF HeldSince, SummaryInv, SummaryTyped
<1>6. ReqSound(r, req[r])'
  BY <1>1, <1>3, <1>4, <1>5 DEF ReqSound, HeldSince
<1>7. SummaryInv'
  BY <1>0, <1>1, <1>2, <1>3, <1>4, <1>6, ReqGoesOn
<1> QED
  BY <1>0, <1>1, <1>4, <1>7 DEF Carried, SummaryInv, SummaryTyped

LEMMA ReadAnsweredSafe ==
  ASSUME SummaryInv, NEW r \in Readers, Summary!ReadAnswered(r)
  PROVE  SummaryInv' /\ UNCHANGED <<session, turns>> /\ Carried \subseteq Carried'
<1>0. r \in Summary!Requests
  BY DEF Summary!Requests
<1> DEFINE q == [req[r] EXCEPT !.stage = "ok", !.seen = req[r].seen, !.at = clock, !.since = 0]
<1>1. /\ UNCHANGED <<session, running, clock, turns, until, landed, quiet>> /\ req[r].stage = "built"
      /\ clock - req[r].since <= MaxCall
      /\ \/ cache' \in {cache, None}
         \/ cache' = [v |-> req[r].seen, at |-> clock]
      /\ req' = [req EXCEPT ![r] = q] /\ req'[r] = q
  BY <1>0 DEF Summary!ReadAnswered, Summary!Answered, Summary!Written, SummaryInv, SummaryTyped
<1>2. MovesOn
  BY <1>1, StaysPut
<1>3. /\ req[r] \in ReqRecord /\ req[r].since \in Nat /\ req[r].at \in Nat /\ req[r].seen \in Nat
      /\ ReqSound(r, req[r]) /\ session \in 0 .. Last /\ session \in Nat /\ clock \in Nat
      /\ landed \in 0 .. session /\ quiet \in 0 .. landed /\ quiet \in Nat /\ running \in BOOLEAN
  BY <1>0, ReqFields
<1>4. /\ req[r].seen <= session /\ req[r].calm = quiet /\ quiet <= req[r].seen
      /\ req[r].floor <= req[r].seen /\ HeldSince(req[r].seen, req[r].since) /\ req[r].since <= clock
  BY <1>1, <1>3 DEF ReqSound
<1>5. /\ q \in ReqRecord /\ q.stage = "ok" /\ q.seen = req[r].seen /\ q.since = 0
      /\ q.at = clock /\ q.floor = req[r].floor /\ q.calm = req[r].calm /\ q.done = req[r].done
  BY <1>3 DEF ReqRecord
<1> HIDE DEF q
<1>6. until[q.seen] = None \/ clock <= until[q.seen] + MaxCall
  <2>1. q.seen \in 0 .. Last
    BY <1>3, <1>4, <1>5, SummaryFacts
  <2>2. until[q.seen] = None \/ until[q.seen] \in Nat
    BY <2>1 DEF SummaryInv, SummaryTyped
  <2> QED
    BY <1>1, <1>3, <1>4, <1>5, <2>2, SummaryFacts DEF HeldSince
<1>7. until[q.seen] = None \/ clock <= until[q.seen] + Lag
  <2>1. q.seen \in 0 .. Last
    BY <1>3, <1>4, <1>5, SummaryFacts
  <2>2. until[q.seen] = None \/ until[q.seen] \in Nat
    BY <2>1 DEF SummaryInv, SummaryTyped
  <2> QED
    BY <1>3, <1>6, <2>2, SummaryFacts DEF Lag
<1>8. ReqSound(r, req[r])'
  BY <1>1, <1>3, <1>4, <1>5, <1>7 DEF ReqSound, Lag
<1>9. CacheSound'
  <2>1. CASE cache' = [v |-> req[r].seen, at |-> clock]
    <3>1. cache'.v = q.seen /\ cache'.at = clock
      BY <1>5, <2>1
    <3>2. q.seen \in 0 .. session /\ clock \in 0 .. clock
      BY <1>3, <1>4, <1>5
    <3> QED
      BY <1>1, <1>4, <1>5, <1>6, <3>1, <3>2 DEF CacheSound
  <2>2. CASE cache' = None
    BY <2>2 DEF CacheSound
  <2>3. CASE cache' = cache
    BY <1>1, <1>2, <2>3, CacheStays DEF SummaryInv
  <2> QED
    BY <1>1, <2>1, <2>2, <2>3
<1>10. SummaryInv'
  BY <1>0, <1>1, <1>2, <1>3, <1>5, <1>8, <1>9, ReqGoesOn
<1> QED
  BY <1>0, <1>1, <1>5, <1>10 DEF Carried, SummaryInv, SummaryTyped

LEMMA WriteSafe ==
  ASSUME SummaryInv, NEW r \in Summary!Requests \ Readers, Summary!Write(r)
  PROVE  SummaryInv' /\ UNCHANGED <<session, turns>> /\ Carried \subseteq Carried'
<1>1. PICK was \in BOOLEAN :
        req' = [req EXCEPT ![r].stage = "asked", ![r].since = clock, ![r].was = was]
  BY ReqFields DEF Summary!Write
<1> DEFINE q == [req[r] EXCEPT !.stage = "asked", !.since = clock, !.was = was]
<1>2. /\ UNCHANGED <<session, running, cache, clock, turns, until, landed, quiet>> /\ req[r].stage = "idle"
      /\ req' = [req EXCEPT ![r] = q] /\ req'[r] = q
  BY <1>1 DEF Summary!Write, SummaryInv, SummaryTyped
<1>3. MovesOn /\ CacheSound'
  BY <1>2, StaysPut, CacheStays DEF SummaryInv
<1>4. /\ req[r] \in ReqRecord /\ ReqSound(r, req[r]) /\ clock \in Nat
      /\ landed \in 0 .. session /\ quiet \in 0 .. landed /\ running \in BOOLEAN
  BY ReqFields
<1>5. /\ q \in ReqRecord /\ q.stage = "asked" /\ q.seen = req[r].seen /\ q.since = clock
      /\ q.at = req[r].at /\ q.done = req[r].done
  BY <1>4 DEF ReqRecord
<1> HIDE DEF q
<1>6. ReqSound(r, req[r])'
  BY <1>2, <1>4, <1>5 DEF ReqSound
<1>7. SummaryInv'
  BY <1>2, <1>3, <1>4, <1>5, <1>6, ReqGoesOn
<1> QED
  BY <1>2, <1>5, <1>7 DEF Carried, SummaryInv, SummaryTyped

\* The session changes: what is cached or was read is superseded now at the
\* earliest.
LEMMA ChangeMovesOn ==
  ASSUME SummaryInv, session + 1 <= Last, Summary!Change, UNCHANGED clock
  PROVE  MovesOn /\ session' = session + 1 /\ running' \in BOOLEAN
<1>1. /\ session \in 0 .. Last /\ Last \in Nat /\ clock \in Nat /\ running \in BOOLEAN
      /\ until \in [0 .. Last -> Nat \cup {None}] /\ \A v \in 0 .. Last : session <= v => until[v] = None
  BY SummaryFacts DEF SummaryInv, SummaryTyped
<1>2. session' = session + 1 /\ until' = [until EXCEPT ![session] = clock] /\ running' \in BOOLEAN
  BY <1>1 DEF Summary!Change
<1>3. until' \in [0 .. Last -> Nat \cup {None}] /\ \A v \in 0 .. Last : v # session => until'[v] = until[v]
  BY <1>1, <1>2
<1>4. \A v \in 0 .. Last : until'[v] = until[v] \/ until'[v] = clock
  BY <1>1, <1>2
<1>5. \A v \in 0 .. Last : session + 1 <= v => until'[v] = None
  BY <1>1, <1>3
<1> QED
  BY <1>1, <1>2, <1>3, <1>4, <1>5 DEF MovesOn

LEMMA CarriedGrows ==
  /\ Cardinality(Carried) \in Nat /\ Cardinality(Carried) <= Cardinality(Summary!Requests)
  /\ Cardinality(Carried') \in Nat /\ Cardinality(Carried') <= Cardinality(Summary!Requests)
  /\ Carried \subseteq Carried' =>
       /\ Cardinality(Carried) <= Cardinality(Carried')
       /\ \A r \in Carried' : r \notin Carried => Cardinality(Carried) + 1 <= Cardinality(Carried')
<1>1. Carried \in SUBSET Summary!Requests /\ Carried' \in SUBSET Summary!Requests
  BY DEF Carried
<1>2. /\ IsFiniteSet(Carried) /\ IsFiniteSet(Carried')
      /\ Cardinality(Carried) <= Cardinality(Summary!Requests)
      /\ Cardinality(Carried') <= Cardinality(Summary!Requests)
  BY <1>1, SummaryFacts, FS_Subset
<1>3. ASSUME NEW r \in Carried', r \notin Carried, Carried \subseteq Carried'
      PROVE  Cardinality(Carried) + 1 <= Cardinality(Carried')
  <2>1. Carried \cup {r} \in SUBSET Carried'
    BY <1>3
  <2>2. Cardinality(Carried \cup {r}) = Cardinality(Carried) + 1
    BY <1>2, <1>3, FS_AddElement
  <2> QED
    BY <1>2, <2>1, <2>2, FS_Subset
<1>4. Carried \subseteq Carried' => Cardinality(Carried) <= Cardinality(Carried')
  BY <1>2, FS_Subset
<1> QED
  BY <1>2, <1>3, <1>4, FS_CardinalityType

LEMMA AppliedSafe ==
  ASSUME SummaryInv, Changes, NEW r \in Summary!Requests \ Readers, Summary!Applied(r)
  PROVE  SummaryInv' /\ Changes'
<1> DEFINE q == [req[r] EXCEPT !.done = TRUE, !.seen = session + 1, !.hit = running]
<1>1. /\ UNCHANGED <<cache, clock, turns, landed, quiet>> /\ req[r].stage = "asked" /\ ~req[r].done
      /\ Summary!Change /\ session' = session + 1
      /\ req' = [req EXCEPT ![r] = q] /\ req'[r] = q
  BY DEF Summary!Applied, Summary!Change, SummaryInv, SummaryTyped
<1>2. /\ req[r] \in ReqRecord /\ ReqSound(r, req[r]) /\ clock \in Nat /\ session \in Nat
      /\ landed \in 0 .. session /\ quiet \in 0 .. landed /\ running \in BOOLEAN
  BY ReqFields
<1>3. /\ q \in ReqRecord /\ q.stage = "asked" /\ q.seen = session + 1 /\ q.since = req[r].since
      /\ q.at = req[r].at /\ q.done
  <2>1. session + 1 \in Nat
    BY <1>2
  <2> QED
    BY <1>1, <1>2, <2>1, Zenon DEF ReqRecord
<1> HIDE DEF q
<1>4. Carried \subseteq Carried' /\ r \in Carried' /\ r \notin Carried
  BY <1>1, <1>3 DEF Carried, SummaryInv, SummaryTyped
<1>5. Cardinality(Carried) + 1 <= Cardinality(Carried')
  BY <1>4, CarriedGrows
<1>6. session + 1 <= Last /\ Changes'
  <2>1. /\ turns \in 0 .. MaxTurns /\ MaxTurns \in Nat /\ session <= turns + Cardinality(Carried)
        /\ Cardinality(Carried) \in Nat /\ Cardinality(Carried') \in Nat
        /\ Cardinality(Carried') <= Cardinality(Summary!Requests) /\ Cardinality(Summary!Requests) \in Nat
    BY SummaryFacts, CarriedGrows DEF Changes
  <2> QED
    BY <1>1, <1>2, <1>5, <2>1 DEF Last, Changes
<1>7. MovesOn /\ running' \in BOOLEAN /\ CacheSound'
  BY <1>1, <1>6, ChangeMovesOn, CacheStays DEF SummaryInv
<1>8. ReqSound(r, req[r])'
  BY <1>1, <1>2, <1>3 DEF ReqSound
<1>9. landed' \in 0 .. session' /\ quiet' \in 0 .. landed'
  BY <1>1, <1>2
<1>10. SummaryInv'
  BY <1>1, <1>3, <1>7, <1>8, <1>9, ReqGoesOn
<1> QED
  BY <1>6, <1>10

LEMMA WriteAnsweredSafe ==
  ASSUME SummaryInv, NEW r \in Summary!Requests \ Readers, Summary!WriteAnswered(r)
  PROVE  SummaryInv' /\ UNCHANGED <<session, turns>> /\ Carried \subseteq Carried'
<1> DEFINE q == [req[r] EXCEPT !.stage = "ok", !.seen = req[r].seen, !.at = clock, !.since = 0]
<1>1. /\ UNCHANGED <<session, running, clock, turns, until>> /\ req[r].stage = "asked" /\ req[r].done
      /\ req' = [req EXCEPT ![r] = q] /\ req'[r] = q
      /\ cache' = (IF r \in Writers \cup Steers THEN None ELSE cache)
      /\ landed' = Summary!Greater(landed, req[r].seen)
      /\ quiet' = IF r \notin Passed /\ ~\E x \in Readers : Summary!InFlight(x)
                  THEN Summary!Greater(quiet, req[r].seen) ELSE quiet
  BY DEF Summary!WriteAnswered, Summary!Answered, Summary!Invalidates, Summary!Invalidated,
         SummaryInv, SummaryTyped
<1>2. MovesOn
  BY <1>1, StaysPut
<1>3. /\ req[r] \in ReqRecord /\ ReqSound(r, req[r]) /\ clock \in Nat /\ session \in Nat
      /\ req[r].seen \in Nat /\ req[r].seen <= session
      /\ landed \in 0 .. session /\ quiet \in 0 .. landed /\ landed \in Nat /\ quiet \in Nat /\ running \in BOOLEAN
  BY ReqFields DEF ReqSound
<1>4. /\ q \in ReqRecord /\ q.stage = "ok" /\ q.seen = req[r].seen /\ q.since = 0
      /\ q.at = clock /\ q.done
  BY <1>1, <1>3 DEF ReqRecord
<1> HIDE DEF q
<1>5. landed' \in 0 .. session' /\ quiet' \in 0 .. landed'
  BY <1>1, <1>3 DEF Summary!Greater
<1>6. quiet' = quiet \/ ~\E x \in Readers : Summary!InFlight(x)
  BY <1>1
<1>7. CacheSound'
  <2>1. CASE r \in Writers \cup Steers
    BY <1>1, <2>1 DEF CacheSound
  <2>2. CASE r \notin Writers \cup Steers
    <3>1. r \in Passed
      BY <2>2 DEF Summary!Requests
    <3> QED
      BY <1>1, <1>2, <2>2, <3>1, CacheStays DEF SummaryInv
  <2> QED
    BY <2>1, <2>2
<1>8. ReqSound(r, req[r])'
  BY <1>1, <1>3, <1>4 DEF ReqSound
<1>9. SummaryInv'
  BY <1>1, <1>2, <1>3, <1>4, <1>5, <1>6, <1>7, <1>8, ReqGoesOn
<1> QED
  BY <1>1, <1>4, <1>9 DEF Carried, SummaryInv, SummaryTyped

LEMMA FailsSafe ==
  ASSUME SummaryInv, NEW r \in Summary!Requests, Summary!Fails(r)
  PROVE  SummaryInv' /\ UNCHANGED <<session, turns>> /\ Carried \subseteq Carried'
<1> DEFINE q == [Summary!Fresh EXCEPT !.stage = "failed"]
<1>1. /\ UNCHANGED <<session, running, cache, clock, turns, until, landed, quiet>>
      /\ req' = [req EXCEPT ![r] = q] /\ req'[r] = q
  BY DEF Summary!Fails, SummaryInv, SummaryTyped
<1>2. MovesOn /\ CacheSound'
  BY <1>1, StaysPut, CacheStays DEF SummaryInv
<1>3. /\ clock \in Nat /\ session \in Nat
      /\ landed \in 0 .. session /\ quiet \in 0 .. landed /\ running \in BOOLEAN
  BY ReqFields
<1>4. q \in ReqRecord /\ q.stage = "failed" /\ q.seen = 0 /\ q.since = 0 /\ q.at = 0
  BY DEF ReqRecord, Summary!Fresh
<1> HIDE DEF q
<1>5. ReqSound(r, req[r])'
  BY <1>1, <1>3, <1>4 DEF ReqSound
<1>6. SummaryInv'
  BY <1>1, <1>2, <1>3, <1>4, <1>5, ReqGoesOn
<1> QED
  BY <1>1, <1>4, <1>6 DEF Carried, SummaryInv, SummaryTyped

\* Time or the session goes on and the requests stay.
LEMMA AllStay ==
  ASSUME SummaryInv, MovesOn, UNCHANGED <<req, cache, landed, quiet>>, running' \in BOOLEAN
  PROVE  SummaryInv'
<1>1. \A r \in Summary!Requests : ReqSound(r, req[r])'
  BY ReqStays DEF SummaryInv, ReqsSound
<1>2. CacheSound'
  BY CacheStays DEF SummaryInv
<1>3. landed' \in 0 .. session' /\ quiet' \in 0 .. landed'
  <2>1. /\ landed \in 0 .. session /\ quiet \in 0 .. landed /\ session \in Nat /\ session' \in Nat
        /\ session <= session'
    BY SummaryFacts DEF SummaryInv, SummaryTyped, MovesOn
  <2> QED
    BY <2>1
<1> QED
  BY <1>1, <1>2, <1>3 DEF SummaryInv, SummaryTyped, MovesOn, ReqsSound

LEMMA SummaryStep ==
  ASSUME SummaryInv, Changes, [Summary!Next]_(Summary!vars)
  PROVE  SummaryInv' /\ Changes'
<1>0. /\ turns \in 0 .. MaxTurns /\ MaxTurns \in Nat /\ session <= turns + Cardinality(Carried)
      /\ Cardinality(Carried) \in Nat /\ Cardinality(Carried') \in Nat /\ session \in Nat
      /\ Cardinality(Carried) <= Cardinality(Summary!Requests) /\ Cardinality(Summary!Requests) \in Nat
      /\ clock \in Nat /\ running \in BOOLEAN
  BY SummaryFacts, CarriedGrows DEF Changes, SummaryInv, SummaryTyped
<1>1. UNCHANGED <<session, turns>> /\ Carried \subseteq Carried' => Changes'
  BY <1>0, CarriedGrows DEF Changes
<1>2. ASSUME NEW r \in Readers, Summary!Read(r) \/ Summary!Built(r) \/ Summary!ReadAnswered(r)
      PROVE  SummaryInv' /\ Changes'
  BY <1>1, <1>2, ReadSafe, BuiltSafe, ReadAnsweredSafe
<1>3. ASSUME NEW r \in Summary!Requests \ Readers,
             Summary!Write(r) \/ Summary!Applied(r) \/ Summary!WriteAnswered(r)
      PROVE  SummaryInv' /\ Changes'
  BY <1>1, <1>3, WriteSafe, AppliedSafe, WriteAnsweredSafe
<1>4. ASSUME NEW r \in Summary!Requests, Summary!Fails(r)
      PROVE  SummaryInv' /\ Changes'
  BY <1>1, <1>4, FailsSafe
<1>5. CASE Summary!Turn
  <2>1. /\ turns' = turns + 1 /\ turns < MaxTurns /\ Summary!Change /\ session' = session + 1
        /\ UNCHANGED <<cache, req, clock, landed, quiet>>
    BY <1>5 DEF Summary!Turn, Summary!Change
  <2>2. Carried' = Carried
    BY <2>1 DEF Carried
  <2>3. session + 1 <= Last /\ Changes'
    BY <1>0, <2>1, <2>2 DEF Last, Changes
  <2>4. SummaryInv'
    BY <2>1, <2>3, ChangeMovesOn, AllStay
  <2> QED
    BY <2>3, <2>4
<1>6. CASE Summary!Tick
  <2>1. clock' = clock + 1 /\ UNCHANGED <<session, running, cache, req, turns, until, landed, quiet>>
    BY <1>6 DEF Summary!Tick
  <2>2. MovesOn
    BY <1>0, <2>1 DEF MovesOn, SummaryInv, SummaryTyped
  <2>3. SummaryInv'
    BY <1>0, <2>1, <2>2, AllStay
  <2>4. Changes'
    BY <2>1 DEF Changes, Carried
  <2> QED
    BY <2>3, <2>4
<1>7. CASE UNCHANGED Summary!vars
  <2>1. UNCHANGED <<session, running, cache, req, clock, turns, until, landed, quiet>>
    BY <1>7 DEF Summary!vars
  <2>2. SummaryInv'
    BY <1>0, <2>1, StaysPut, AllStay
  <2>3. Changes'
    BY <2>1 DEF Changes, Carried
  <2> QED
    BY <2>2, <2>3
<1> QED
  BY <1>2, <1>3, <1>4, <1>5, <1>6, <1>7 DEF Summary!Next

LEMMA SummaryStart == Summary!Init => SummaryInv /\ Changes
<1> SUFFICES ASSUME Summary!Init PROVE SummaryInv /\ Changes
  OBVIOUS
<1>1. until = [v \in 0 .. Last |-> None] /\ Last \in Nat /\ MaxTurns \in Nat
  BY SummaryFacts DEF Summary!Init, Last
<1>2. Summary!Fresh \in ReqRecord /\ \A r \in Summary!Requests : ReqSound(r, Summary!Fresh)
  BY DEF Summary!Init, ReqRecord, Summary!Fresh, ReqSound
<1>3. SummaryInv
  <2>1. /\ session = 0 /\ running = FALSE /\ cache = None /\ clock = 0 /\ landed = 0 /\ quiet = 0
        /\ req = [r \in Summary!Requests |-> Summary!Fresh]
    BY DEF Summary!Init
  <2>2. until \in [0 .. Last -> Nat \cup {None}] /\ \A v \in 0 .. Last : until[v] = None
    BY <1>1
  <2>3. 0 \in 0 .. Last /\ 0 \in 0 .. 0
    BY <1>1
  <2>4. req \in [Summary!Requests -> ReqRecord] /\ ReqsSound
    BY <1>2, <2>1 DEF ReqsSound
  <2> QED
    BY <2>1, <2>2, <2>3, <2>4 DEF SummaryInv, SummaryTyped, CacheSound
<1>4. Changes
  BY <1>1, CarriedGrows DEF Summary!Init, Changes
<1> QED
  BY <1>3, <1>4

\* What sessions_get returns was the session's state at most one lifetime of
\* the cache and one fetch ago, and holds every change that was answered to a
\* request that invalidates while nothing was being read; the whole history
\* holds every answered change.
THEOREM SummariesAreFresh == Summary!Spec => []SummariesFresh
<1>1. SummaryInv /\ Changes /\ [Summary!Next]_(Summary!vars) => SummaryInv' /\ Changes'
  BY SummaryStep
<1>2. SummaryInv => SummariesFresh
  <2> SUFFICES ASSUME SummaryInv PROVE SummariesFresh
    OBVIOUS
  <2>1. /\ session \in 0 .. Last /\ DOMAIN until = 0 .. Last /\ running \in BOOLEAN
        /\ landed \in 0 .. session /\ quiet \in 0 .. landed /\ session \in Nat /\ clock \in Nat
    BY SummaryFacts DEF SummaryInv, SummaryTyped
  <2>2. ASSUME NEW r \in Summary!Requests
        PROVE  /\ req[r].stage \in {"idle", "asked", "built", "ok", "failed"}
               /\ req[r].seen \in 0 .. session /\ {req[r].since, req[r].at} \subseteq 0 .. clock
    <3>1. /\ req[r] \in ReqRecord /\ req[r].since \in Nat /\ req[r].at \in Nat /\ req[r].seen \in Nat
          /\ req[r].since <= clock /\ req[r].at <= clock /\ req[r].seen <= session
      BY ReqFields DEF ReqSound
    <3> QED
      BY <2>1, <3>1 DEF ReqRecord
  <2>3. quiet <= landed /\ landed <= session
    BY <2>1
  <2>4. Summary!TypeOK
    BY <2>1, <2>2, <2>3 DEF Summary!TypeOK, SummaryInv, CacheSound
  <2>5. ASSUME NEW r \in Summary!Requests, Summary!ReadDone(r)
        PROVE  /\ until[req[r].seen] = None \/ req[r].at <= until[req[r].seen] + CacheTtl + MaxCall
               /\ req[r].calm <= req[r].seen /\ (req[r].full => req[r].floor <= req[r].seen)
               /\ req[r].calm \in Nat /\ req[r].floor \in Nat /\ req[r].seen \in Nat
    <3>1. /\ req[r].calm <= req[r].seen /\ (req[r].full => req[r].floor <= req[r].seen)
          /\ until[req[r].seen] = None \/ req[r].at <= until[req[r].seen] + Lag
          /\ req[r].calm \in Nat /\ req[r].floor \in Nat /\ req[r].seen \in Nat
          /\ req[r].seen \in 0 .. session
      BY <2>2, <2>5, ReqFields DEF ReqSound, Summary!ReadDone
    <3>2. until[req[r].seen] = None \/ until[req[r].seen] \in Nat
      BY <2>1, <3>1, SummaryFacts DEF SummaryInv, SummaryTyped
    <3> QED
      BY <3>1, <3>2, SummaryFacts DEF Lag
  <2>6. Summary!StalenessBounded /\ Summary!QuietChangeSeen /\ Summary!HistoryIsFresh
    BY <2>5 DEF Summary!StalenessBounded, Summary!QuietChangeSeen, Summary!HistoryIsFresh
  <2> QED
    BY <2>4, <2>6 DEF SummariesFresh
<1> QED
  BY <1>1, <1>2, SummaryStart, PTL DEF Summary!Spec

=============================================================================
