------------------------------ MODULE RpcCalls ------------------------------
(***************************************************************************)
(* What a remote call promises its caller (RpcPeer.request in              *)
(* packages/protocol/src/jsonrpc.ts): the promise settles at most once, it *)
(* resolves only with the answer the node computed for this very call, and *)
(* the node starts the handler of a call at most once.  A call that failed *)
(* may still be executed: a timeout says nothing about the node.           *)
(***************************************************************************)
CONSTANT Calls

VARIABLES status, started

callVars == <<status, started>>

Statuses == {"idle", "waiting", "ok", "failed"}

CallsInit == /\ status = [k \in Calls |-> "idle"]
             /\ started = [k \in Calls |-> FALSE]

\* The caller asks.
Ask(k) == /\ status[k] = "idle"
          /\ status' = [status EXCEPT ![k] = "waiting"]
          /\ UNCHANGED started

\* The node starts the handler, once, whether or not the caller still waits.
Execute(k) == /\ status[k] # "idle" /\ ~started[k]
              /\ started' = [started EXCEPT ![k] = TRUE]
              /\ UNCHANGED status

\* The promise resolves: only with the answer of a handler that ran for it.
Resolve(k) == /\ status[k] = "waiting" /\ started[k]
              /\ status' = [status EXCEPT ![k] = "ok"]
              /\ UNCHANGED started

\* One event (an error answer, a timer, a closing connection) rejects some
\* of the calls that wait.
Reject(K) == /\ \A k \in K : status[k] = "waiting"
             /\ status' = [k \in Calls |-> IF k \in K THEN "failed" ELSE status[k]]
             /\ UNCHANGED started

CallsNext == \/ \E k \in Calls : Ask(k) \/ Execute(k) \/ Resolve(k)
             \/ \E K \in SUBSET Calls : Reject(K)

CallsSpec == CallsInit /\ [][CallsNext]_callVars

=============================================================================
