------------------------------ MODULE Pairing ------------------------------
(***************************************************************************)
(* Device pairing at one hub (packages/hub/src/pairing.ts over             *)
(* packages/store/src/enrollment.ts): one-time codes that a new device     *)
(* trades for a long-term node token.                                      *)
(*                                                                         *)
(* consumePairingCode runs without an await, so every outcome of it is one *)
(* step; the process may still die between two of its SQL writes.  Code    *)
(* rows and tokens are in the store; the failures of unknown codes and the *)
(* rate windows are in memory.  A code stands for its hash, and for the    *)
(* token minted from it.  Time is counted in ticks, Span to a window.      *)
(***************************************************************************)
EXTENDS Naturals, FiniteSetsExt

CONSTANTS
  Code,         \* the codes that are created or guessed
  Node,         \* the node ids that devices claim
  Caller,       \* the peers that call enrollment.consume
  None,         \* no node, no code
  MaxFailures,  \* failed attempts that lock a code
  RateMax,      \* attempts let through in one window
  Span,         \* length of a rate window, in ticks
  MaxCuts       \* bound: deaths between counting a code's failure and locking it

ASSUME PairingAssumption ==
  /\ None \notin Node \cup Code
  /\ MaxFailures \in Nat \ {0}
  /\ RateMax \in Nat
  /\ Span \in Nat \ {0}
  /\ MaxCuts \in Nat

VARIABLES
  rows,     \* the enrollment_codes table
  tokens,   \* registration_tokens: the code each node's token was minted from
  unknown,  \* unknownFailures: failed attempts at codes without a row
  window,   \* the rate window of each caller
  minted,   \* history: tokens stored for each code
  cuts,     \* history: deaths that kept a code from being locked
  recent    \* history: attempts let through, by caller and age in ticks

vars == <<rows, tokens, unknown, window, minted, cuts, recent>>

Row ==
  [status: {"none", "pending", "consumed", "locked"}, expired: BOOLEAN,
   fails: 0 .. MaxFailures + MaxCuts, by: Node \cup {None}]

NoRow == [status |-> "none", expired |-> FALSE, fails |-> 0, by |-> None]

Age == 0 .. Span - 1

\* A window of age Span has elapsed.  The count grows on rejected attempts
\* too, but is only compared with RateMax: the model stops it one above.
RateWindow == [age: 0 .. Span, count: 0 .. RateMax + 1]

TypeOK ==
  /\ rows \in [Code -> Row]
  /\ tokens \in [Node -> Code \cup {None}]
  /\ unknown \in [Code -> 0 .. MaxFailures - 1]
  /\ window \in [Caller -> RateWindow]
  /\ minted \in [Code -> Nat]
  /\ cuts \in [Code -> 0 .. MaxCuts]
  /\ recent \in [Caller -> [Age -> Nat]]

----------------------------------------------------------------------------

\* allowRate: a new window when the old one elapsed, and one more attempt in it.
Charged(w) ==
  IF w.age = Span THEN [age |-> 0, count |-> 1]
  ELSE [w EXCEPT !.count = IF @ > RateMax THEN @ ELSE @ + 1]

Charge(c) == window' = [window EXCEPT ![c] = Charged(@)]

OneMore(ages) == [ages EXCEPT ![0] = @ + 1]

\* The attempt of c is within its rate and is looked at.
Admitted(c) ==
  /\ Charged(window[c]).count <= RateMax
  /\ Charge(c)
  /\ recent' = [recent EXCEPT ![c] = OneMore(@)]

\* recordFailure.  Also a mutant of FailAndMaybeLock, which then never locks.
RecordFailure(row) == [row EXCEPT !.fails = @ + 1]

\* Mutant of FailAndMaybeLock: one attempt too late.
FailAndLockLate(row) ==
  [row EXCEPT !.fails = @ + 1,
              !.status = IF row.fails + 1 > MaxFailures THEN "locked" ELSE @]

FailAndMaybeLock(row) ==
  [row EXCEPT !.fails = @ + 1,
              !.status = IF row.fails + 1 >= MaxFailures THEN "locked" ELSE @]

\* Mutant of ConsumeIfPending: the claimant is written, the status is not.
ConsumeKeepsPending(row, n) == [row EXCEPT !.by = n]

ConsumeIfPending(row, n) ==
  IF row.status = "pending" THEN [row EXCEPT !.status = "consumed", !.by = n] ELSE row

LockedShadow == [status |-> "locked", expired |-> TRUE, fails |-> MaxFailures, by |-> None]

----------------------------------------------------------------------------
(* The outcomes of consumePairingCode. *)

RateLimited(c) ==
  /\ Charged(window[c]).count > RateMax
  /\ Charge(c)
  /\ UNCHANGED <<rows, tokens, unknown, minted, cuts, recent>>

\* A malformed code or node id.
Malformed(c) ==
  /\ Admitted(c)
  /\ UNCHANGED <<rows, tokens, unknown, minted, cuts>>

\* No such code: counted in memory, and locked by a shadow row at the limit.
WrongCode(c, h) ==
  /\ Admitted(c)
  /\ rows[h].status = "none"
  /\ \/ /\ unknown[h] + 1 >= MaxFailures
        /\ unknown' = [unknown EXCEPT ![h] = 0]
        /\ rows' = [rows EXCEPT ![h] = LockedShadow]
     \/ /\ unknown[h] + 1 < MaxFailures
        /\ unknown' = [unknown EXCEPT ![h] = @ + 1]
        /\ UNCHANGED rows
  /\ UNCHANGED <<tokens, minted, cuts>>

LockedCode(c, h) ==
  /\ Admitted(c)
  /\ rows[h].status = "locked"
  /\ UNCHANGED <<rows, tokens, unknown, minted, cuts>>

\* A code that was consumed before, or that expired.
Spent(h) ==
  \/ rows[h].status = "consumed"
  \/ rows[h].status = "pending" /\ rows[h].expired

SpentCode(c, h) ==
  /\ Admitted(c)
  /\ Spent(h)
  /\ rows' = [rows EXCEPT ![h] = FailAndMaybeLock(@)]
  /\ UNCHANGED <<tokens, unknown, minted, cuts>>

Redeemable(h) == rows[h].status = "pending" /\ ~rows[h].expired

\* The code is consumed and the token stored.
Redeem(c, h, n) ==
  /\ Admitted(c)
  /\ Redeemable(h)
  /\ rows' = [rows EXCEPT ![h] = ConsumeIfPending(@, n)]
  /\ tokens' = [tokens EXCEPT ![n] = h]
  /\ minted' = [minted EXCEPT ![h] = @ + 1]
  /\ UNCHANGED <<unknown, cuts>>

----------------------------------------------------------------------------
(* The rest of the service and its environment. *)

PendingRow == [status |-> "pending", expired |-> FALSE, fails |-> 0, by |-> None]

\* Mutant of CreatePairingCode: an existing row is replaced.
CreateOverLock(h) ==
  /\ rows[h].status \in {"none", "locked"}
  /\ rows' = [rows EXCEPT ![h] = PendingRow]
  /\ UNCHANGED <<tokens, unknown, window, minted, cuts, recent>>

\* A code whose hash has a row is generated again.
CreatePairingCode(h) ==
  /\ rows[h].status = "none"
  /\ rows' = [rows EXCEPT ![h] = PendingRow]
  /\ UNCHANGED <<tokens, unknown, window, minted, cuts, recent>>

Overdue(row) == [row EXCEPT !.expired = TRUE]

Expire(h) ==
  /\ Redeemable(h)
  /\ rows' = [rows EXCEPT ![h] = Overdue(@)]
  /\ UNCHANGED <<tokens, unknown, window, minted, cuts, recent>>

\* What a restart forgets; the history of the old process ends with it.
Forget ==
  /\ unknown' = [h \in Code |-> 0]
  /\ window' = [c \in Caller |-> [age |-> Span, count |-> 0]]
  /\ recent' = [c \in Caller |-> [a \in Age |-> 0]]

Restart == Forget /\ UNCHANGED <<rows, tokens, minted, cuts>>

\* Mutant of DieWhileRedeeming: the token is stored before the code is consumed.
DieTokenFirst(h, n) ==
  /\ Redeemable(h)
  /\ tokens' = [tokens EXCEPT ![n] = h]
  /\ minted' = [minted EXCEPT ![h] = @ + 1]
  /\ Forget
  /\ UNCHANGED <<rows, cuts>>

\* The hub dies between consuming a code and storing its token.
DieWhileRedeeming(h, n) ==
  /\ Redeemable(h)
  /\ rows' = [rows EXCEPT ![h] = ConsumeIfPending(@, n)]
  /\ Forget
  /\ UNCHANGED <<tokens, minted, cuts>>

\* The hub dies between counting a failed attempt and locking the code for it.
DieWhileFailing(h) ==
  /\ Spent(h)
  /\ rows[h].fails + 1 >= MaxFailures
  /\ cuts[h] < MaxCuts
  /\ rows' = [rows EXCEPT ![h] = RecordFailure(@)]
  /\ cuts' = [cuts EXCEPT ![h] = @ + 1]
  /\ Forget
  /\ UNCHANGED <<tokens, minted>>

Older(w) == [w EXCEPT !.age = IF @ = Span THEN @ ELSE @ + 1]

Tick ==
  /\ window' = [c \in Caller |-> Older(window[c])]
  /\ recent' = [c \in Caller |->
       [a \in Age |-> IF a = 0 THEN 0 ELSE recent[c][a - 1]]]
  /\ UNCHANGED <<rows, tokens, unknown, minted, cuts>>

Init ==
  /\ rows = [h \in Code |-> NoRow]
  /\ tokens = [n \in Node |-> None]
  /\ unknown = [h \in Code |-> 0]
  /\ window = [c \in Caller |-> [age |-> Span, count |-> 0]]
  /\ minted = [h \in Code |-> 0]
  /\ cuts = [h \in Code |-> 0]
  /\ recent = [c \in Caller |-> [a \in Age |-> 0]]

Consume(c, h) ==
  \/ RateLimited(c) \/ Malformed(c)
  \/ WrongCode(c, h) \/ LockedCode(c, h) \/ SpentCode(c, h)
  \/ \E n \in Node : Redeem(c, h, n)

Next ==
  \/ \E c \in Caller, h \in Code : Consume(c, h)
  \/ \E h \in Code : CreatePairingCode(h) \/ Expire(h)
  \/ \E h \in Code, n \in Node : DieWhileRedeeming(h, n)
  \/ \E h \in Code : DieWhileFailing(h)
  \/ Restart
  \/ Tick

Spec == Init /\ [][Next]_vars

----------------------------------------------------------------------------

\* "Codes are single-use": a code mints at most one token, however its
\* replays, its lock and the deaths of the hub fall.
SingleUse == \A h \in Code : minted[h] <= 1

\* A stored token is always backed by the row of its code: consumed by that
\* very node, or locked by replays after that, and never open to a second device.
TokensBacked == \A n \in Node, h \in Code : tokens[n] = h =>
  rows[h].by = n /\ rows[h].status \in {"consumed", "locked"}

\* No code takes MaxFailures failed attempts without being locked, but for
\* one more with each death of the hub just before the lock: a code with a
\* row counts them there, a code without one in memory.
FailureBudget == \A h \in Code : rows[h].status # "locked" =>
  rows[h].fails < MaxFailures + cuts[h] /\ unknown[h] < MaxFailures

LocksKept == \A h \in Code : rows[h].status = "locked" =>
  rows'[h] = rows[h] /\ minted'[h] = minted[h]

\* A lock is final: the row of a locked code never changes again and no
\* token is minted from it, not even when a code of that hash is generated.
LockIsFinal == [][LocksKept]_vars

\* "5 tries / 10s", by "sliding windows per peer": in any Span consecutive
\* ticks no caller has more than RateMax attempts looked at.
RateBound == \A c \in Caller :
  MapThenSumSet(LAMBDA a : recent[c][a], Age) <= RateMax

=============================================================================
