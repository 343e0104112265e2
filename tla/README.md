# dsh-helm: TLA+ models, model checking and proofs

dsh-helm lets one MCP connector (ChatGPT, through a tunnel) reach several
machines.  A *hub* (control plane, CP) accepts *node agents* over WebSockets,
keeps their catalogs, routes MCP calls to them and, when two hubs are
configured, replicates its state to a peer hub and lets exactly one of the two
write.  This directory models the parts of that system whose correctness
depends on the order of events, checks them with TLC and proves what matters
most with TLAPS.

Paths below are relative to `src/packages/`.

## 1. Inventory

### 1.1 Components

| Component | Source | State it keeps | Operations |
|---|---|---|---|
| HA pair (`HubHa`, `RegistrySync`, `WriteForward`) | `hub/src/ha.ts`, wiring in `hub/src/hub-cli.ts` | term, leader, leaderTerm, electedTerm, role, phase, leaseEpoch; the peers map with an inbound and an outbound pipe each; `this.outbound`; three kv rows | dial, full sync, heartbeat, election, lease take and renew, tick, disconnect, restart |
| HA front proxy (`HaProxy`, `WriteForward`) | `cli/src/ha-proxy.ts` | active backend, fail and recover counters | probe tick, switch, forward |
| Pairing (`Pairing`, `Join`) | `hub/src/pairing.ts`, `store/src/enrollment.ts`, `cli/src/pair.ts` | code rows, in-memory failure counters, rate windows, tokens | create, consume, lock, expire |
| Node connections (`NodeLink`, `Directory`) | `hub/src/connection.ts`, `control-plane.ts`, `mesh.ts`, `store/src/registry.ts`, `protocol/src/handshake.ts` | handshake state, connections map, node rows with status and lease | authenticate, register, heartbeat, release, reconcile, close, forward |
| Node agent (`NodeAgent`) | `node-agent/src/agent.ts` | state, socket, rpc peer, endpoint index, backoff, timers, probe flag | connect, register, reconcile, heartbeat, return to primary, reconnect, stop |
| Summaries, steer, bridge (`SummaryCache`, `Bridge`) | `node-agent/src/summary.ts`, `steer.ts`, `bridge.ts` | cached summaries by session, steer queue, MCP session of the local daemon | get, invalidate, steer, call |
| JSON-RPC peer (`RpcPeer`, `RpcCalls`) | `protocol/src/jsonrpc.ts` | pending calls by id, handlers | request, timeout, dispatch, close |
| Router, catalogs, presence (`Routing`, `Presence`) | `hub/src/router.ts`, `store/src/catalogs.ts`, `store/src/presence.ts`, `presence/src` | session and workspace owners, presence leases | route, reconcile, report, expire |
| MCP server (`ToolTable`, `WriteForward`, `Guard`) | `hub/src/mcp` | metrics only; write gating through `HubHa` | tools/call, model gate, write gate, forward, response guard |
| Store and audit (`Routing`) | `store/src/db.ts`, `audit.ts` | SQLite schema, audit rows | migrate, append, settle, query |
| CLI, doctor, dashboard, platform, protocol types | `cli/src`, `dashboard/src`, `platform/src`, `protocol/src` | none the others depend on | one-shot commands and read-only pages |

### 1.2 Interactions

* A hub dials its peer hub; each of the two WebSockets carries JSON-RPC both
  ways.  The pipe a hub dialed is `this.outbound` and `PeerState.outbound`, the
  one it accepted is `PeerState.inbound`.  Requests prefer the outbound pipe
  (`rpcPeerFor`), replies use the pipe their request came on.
* Node agents dial one hub at a time, register, heartbeat and reconcile their
  catalogs.  The hub forwards MCP calls over the same connection.
* The MCP server asks `HubHa.handleWrite` before a write: the leased leader
  executes it, a follower forwards it to the leader, anybody else refuses.
* The front proxy sends all MCP traffic to one of the two hubs and moves it
  when health probes fail.
* Pairing writes the token table that the handshake reads.

### 1.3 Hard behaviours and the properties that answer them

* *HA pair*: state used after an await; frames of two pipes that overtake each
  other; closes reported late; restarts from stored terms.  It is correct when
  at most one hub is writable, no lease is taken without an election since
  boot, no lease outlives the last pipe, the stored term is the current one and
  never goes back, an abandoned election decides nothing, and writes resume
  once faults stop.
* *Front proxy*: probe ticks overlap.  It is correct when it leaves the primary
  only after a streak of failures, returns only after a streak of successes,
  and settles on a live backend.
* *Pairing*: in-memory counters against a restart, counters at their limit,
  deaths between two SQL writes.  It is correct when a code mints at most one
  token, every stored token is backed by the row of its code, a lock is final,
  and no hash is tried more often than the limit.
* *Node connections and agent*: reconnect races, frames and closes of old
  sockets handled late, a switch of endpoint that races the reconnect timer and
  the heartbeat, reconcile chains that are never cancelled.  Correct when the
  routing table holds the newest live connection, both ends of a handshake agree
  on its outcome, the agent always comes back to some hub, stays with the
  endpoint of its socket, and its catalog arrives.
* *JSON-RPC*: a peer that is replaced while its handlers run.  Correct when a
  call is settled once and only with its own answer.
* *Summaries and bridge*: a cached summary that survives a prompt which changed
  the session; calls that share a handshake and are repeated after it.  Correct
  when staleness is bounded, changes made while nothing was read are seen, no
  call runs twice and every call ends.
* *Router and presence*: a decision taken on rows that reconciles and claims
  replace in any order.  Correct when the owner of a session serves it, nothing
  is guessed between two candidates, and every forwarded call's row is settled.
* *Write path*: a write admitted by a hub that is no longer the leader, a call
  aborted by the proxy and executed all the same, a repeated one.  Correct when
  a call runs at most once, begins under the lease, and passes the model gate on
  every path.
* *Registry replication*: diffs lost with a pipe, restarts, two pipes.  Correct
  when a hub ends up seeing what its peer saw, and never goes back.
* *Response guard*: a document whose size changes when its size is written into
  it.  Correct when what is sent fits and states its size.

## 2. Plan

| Order | Module | What it composes | Theorems |
|---|---|---|---|
| 1 | `HubHa`, `MCHubHa`; `OnePipe` extends it | two hubs and the pipes between them; the invariant of a single pipe | `HubHaProofs` |
| 2 | `HaProxy` | controller, probe ticks, backends | `HaProxyProofs` |
| 3 | `Pairing`; `Join` extends it | code store, pairing service, deaths; the devices that redeem codes | `DeviceProofs` |
| 4 | `RpcPeer`, implements `RpcCalls` | hub peers, the agent's peer, the sockets between them | `RpcPeerProofs` |
| 5 | `NodeLink`, `MCNodeLink`, implements `Directory` | both ends of the handshake, the connections table, the registry rows | `NodeLinkProofs` |
| 6 | `NodeAgent` | an agent and the control planes it dials | `DeviceProofs` |
| 7 | `WriteForward`, `ToolTable` | proxy, hubs, node, with the timeout of each | `WriteForwardProofs` |
| 8 | `RegistrySync` | two registries and the frames on both pipes | `RegistrySyncProofs` |
| 9 | `SummaryCache`, `Bridge`; `Presence`, `Routing`, `Guard` | what serves a call on the node and on the hub | `DeviceProofs`; `HubPartsProofs` |
| 10 | `DeviceParts`, `HubParts` | the parts of a device (3 with Join, 6, 9) and of a hub (9), with the properties of each | `DeviceProofs`, `HubPartsProofs` |
| 11 | `MCParts`, `MCProgress` | values for 10, for TLC | |

All of these are written and checked, and every safety property of the passing
runs is proved.  What is left to TLC is liveness (section 15).

## 3. `HubHa`: two control planes

### 3.1 Correspondence with the code

`ha[c]` is the `HubHa` object of control plane `c`: its `term`, `leader`,
`leaderTerm`, `role`, `phase`, `leaseEpoch`, `electedTerm`, the one entry of its
`peers` map (`peerPriority`, `peerTerm`, `peerIn`, `peerOut`), `this.outbound`
(`out`) and the three kv rows (`saved`).  `electing` is `electInFlight` together
with the await at which the election stands.  `fresh` abstracts `lastSeenAt`:
the peer was heard within three heartbeats.  Fields derived from these
(`leaderId` in replies, log lines, audit rows) and the replicated registry are
not modelled.

`link[d]` is the WebSocket that `d` dials, `chan[d][s]` the frames that `s` sent
on it, FIFO.  `orphan[c]` says that a socket `c` accepted is dead and its
`onclose` has yet to run.  Sockets that a hub accepted and dialed are separate,
so frames on the two overtake one another.

Every synchronous stretch of code, from an event to the next `await`, is one
action: `ReceiveState` (`handleSyncRequest`, `handleHeartbeatRequest`),
`ReceiveElect`, `ReceiveLease`, the continuations `ReceiveSyncReply`,
`ReceiveElectReply`, `ReceiveLeaseReply`, the branches of `tick` (`LeaseExpired`,
`LeaderSilent`, `RetryLease`, `StartElection`, `AlignToPeer`), `RenewLease`,
`Heartbeat`, `Dial`, `OutboundClosed`, `InboundClosed`, `Restart` and
`RestartTorn`.  The
decisions they share (`OnPeerState`, `AcceptPeer`, `SplitBrain`, `OnPeerLost`,
`PersistState`, ...) are operators on the record of one object, under the names
the code uses.  `for` in a request says whose continuation its reply resumes; a
caller that gave up leaves `"none"` behind, and the reply is dropped as
`RpcPeer.dispatch` drops an answer to an unknown id.

Abstractions:

* *Time.*  A timeout may always fire once what it waits for can no longer
  come (`CanBeHeard`, `CanRenew`, no frame of the election left).  Firing
  earlier is a fault of kind `timing`: a suspended laptop or a stalled event
  loop.
* *Faults.*  `cut` kills a pipe and loses its frames; each end learns of it in
  a step of its own.  `restart` kills a process and boots it over its store,
  `torn` kills it in the handler of a frame, between two of the three statements
  of `persistState` (`ha.ts:951`), and boots it over the rows written so far.
  `lateClose` lets a dead accepted socket report its close after its successor
  registered.  `FaultKinds` chooses and `MaxFaults` counts them, so that a run
  says exactly what it tolerates.
* *Bounds.*  `MaxTerm`: no election proposes, and no declared state leads, past
  it.  `QueueCap`: calls and replies on a pipe before a new request; one
  heartbeat per direction on top.  All three are named in the module and no
  theorem assumes anything of them but that they are numbers.

Left out: standalone mode (no peer, no timer; nothing changes after the
constructor) and a `cp.elect` that names its receiver as the candidate (the code
accepts one, no hub sends one).

### 3.2 Runs

| Run | Configuration | Result |
|---|---|---|
| `ha_one_pipe` | one dialer, fresh stores, CP 2 preferred, any one fault of all five kinds, terms to 4, two calls per pipe; 679,788 states | `SingleWriter`, `OneElection` hold |
| `ha_two_pipes` | both dial, settled stores, one cut, restart, torn `persistState` or late close, terms to 3; 666,102 states | `SavedTermIsCurrent`, `LeaseNeedsElection`, `LoneOnlyForgotten` hold |
| `ha_recovers` | one dialer, settled stores, two cuts or restarts, terms to 6; 8,397 states | `WritesResume`, `OutboundReturns` hold |
| `ha_split_brain` | both dial, CP 2 led before and comes back over an empty store, terms to 3, one call per pipe, no fault | `SingleWriter` violated |
| `ha_term_regress` (a claim that fails, section 14) | one dialer, fresh stores, no fault | `TermNeverRegresses` violated |
| `ha_lease_livelock` (a claim that fails, section 14) | one dialer, fresh stores, no fault | `WritesResume` violated |
| `ha_torn` (a claim that fails, section 14) | one dialer, settled stores, one death within `persistState` | `WritesResume` violated |
| `ha_late_close` (a claim that fails, section 14) | one dialer, one cut with a late close | `WritesResume` violated |
| `ha_zombie_outbound` (a claim that fails, section 14) | both dial, one cut | `OutboundReturns` violated |

The priorities are the ones a deployment has: both CPs with the default of 0
(`protocol/src/constants.ts:150`), where the smaller id wins, or the second CP
with `--cp-priority 1` as `README.md:109` of the repository sets it up
(`MCSecondFirst`).  So are the stores: both empty (term 1, no leader), those of a
pair that CP 1 led at term 2, and those of a pair that CP 2 led, whose own store
was lost with its machine (`MCReplacedLeader`).  The bounds leave room for what
matters: from term 1 or 2, a bound of 3 or 4 gives two rounds of election or a
split brain followed by an election, and a pipe that holds two calls holds a
request of each side, or an abandoned request and its successor.  The liveness
violations end in cycles well below their `MaxTerm`, so the bound plays no part
in them.  Symmetry is not used: the ids break ties in `electLeader`.

`ha_recovers` has equal priorities and a stored leader that is also the preferred
one.  Outside of that `WritesResume` fails: `leaderTerm` is left behind `term`
(`ha.ts:756`, `:864`), `AcceptPeer` hands the old value on (`ha.ts:734`), and
every lease is refused at `ha.ts:686`.  TLC finds it with fresh stores
(`ha_lease_livelock`) and, with `MCSecondFirst` in that configuration, for fresh
stores and for a pair that CP 2 led, without a fault.  The mutual wait at
`ha.ts:814` is among the latter: with one priority still unknown each CP takes
the other for the leader.  With equal priorities only the junior waits.

The line between the passing and the violated runs is itself a result.  When
one pipe carries everything, FIFO order alone keeps the two hubs from writing at
once.  With two pipes it does not, even without faults.  In `ha_split_brain` CP 2,
the leader whose machine was replaced, adopts term 2 from its peer, which makes it
a leader elected at 2, and asks for the lease on its own pipe.  CP 1, which the
smaller id prefers, has proposed term 3 on the other one by then.  CP 1 grants the
lease, CP 2 accepts the election, CP 1 takes the lease of term 3, and the late
acknowledgement makes CP 2 a writable leader beside it.  Nothing about it needs
the lost store: two fresh hubs with `MCSecondFirst` get there as well, in 21 steps
and with two calls per pipe, which takes TLC longer than a run should.

A leader loses the lease with its last pipe, and a late acknowledgement does not
bring it back, except in one case: a dead inbound socket that reports its close
after its successor registered (`ha.ts:564`) has the acceptor forget the
successor, and a reply that comes over that open and forgotten pipe may make a
leader without a peer.  `LoneOnlyForgotten` says that nothing else does.  The
tempting "a hub that writes has role leader and a lease of its current term" fails
even with one pipe, for the continuation of `takeLease` reads nothing again, so it
is not among the properties.

### 3.3 Fairness

`FairSpec` assumes what the process and its event loop give: intervals keep
firing, frames on a live pipe are delivered, a dead socket reports its close in
the end, the dial loop retries (weak fairness for each).  `Heartbeat`,
`RetryLease` and `StartElection` get strong fairness: their timers fire for
ever, and what can disable them between two firings is the model's own bound on
frames in flight, or a request that is about to be answered.  The assumption
made here is that a periodic timer does not hit just these moments for ever.
Early firings and faults are never fair, and are finitely many.

### 3.4 What is proved

`HubHaProofs` proves `TypeCorrect` (`Spec => []TypeOK`), `IInv` inductive and,
from it, `SavedTermIsCurrent`, `LeaseNeedsElection` and `FollowerHasLeader`, and
two more invariants on top of it, for `LoneOnlyForgotten` and `OneElection`: all for
any priorities, stores, dialers, fault kinds and bounds.  The only assumption is
`ConstantsAssumption`: types, and stored terms of at least 1 (the constructor's
default).  `LeaderIsAttached` says one thing more, for fault kinds without
`lateClose`: there is no lone leader at all (`NoLoneLeader`).  With them TLC
refutes that (section 3.2).

None of the first three is inductive.  `LeaseNeedsElection` fails to be preserved by
the receipt of a lease reply unless the frame in flight promises that its
receiver was elected; a follower names its peer only if every refusal names its
sender; and an elected term differs from 0 only if proposed terms are positive,
in flight as well.  So `IInv` is `TypeOK`, `Sound(c, ha[c])` of each hub between
two steps, and `FramesSound`: what every frame promises until it is received.
The same promises make a restart over torn rows sound (`RestartSound`): whatever
part of it `persistState` wrote, the stored term is positive.  The proof handles
the object operators one by one (`PeerStateSound`, `WinElectionSound`, ...), shows
that appending, popping and dropping frames keep
`FramesSound`, and then goes through the actions in four groups: connections,
restarts, timers, frames.

`LoneOnlyForgotten` (`LeaderIsAttached`) rests on `PipesSound`.  A lease reply may
make a leader of a hub at any moment, so what must hold is that a pipe which still
carries one keeps its reader attached: frames exist only on a live pipe, and its
dialer listens only through `this.outbound`.  The acceptor of a live pipe has it
registered, and no dead socket of a pipe that was redialed is left over, as long
as no close is late; otherwise the pipe is `Forgotten`.

`OneElection` (`OneElectionSafe`) rests on `Elections`: a count over both
directions of both pipes.  An awaited request or its reply is in one place only,
of the kind `electing` names, and none is awaited by an idle hub; a request moves
to its reply within one step, a timeout takes the name off all of them
(`Forget`), and a restart loses every frame.

`SingleWriter` (`OneWriter`) is proved for one dialer, that is for
`Dialers = {a}`, and needs that: with pipes in both directions `ha_split_brain`
refutes it without any fault.  Everything else is arbitrary: which of the two
dials, the priorities, the stored rows, all five kinds of fault, the bounds.  The
hard part is that `takeLease` looks at nothing again when its reply arrives
(`ha.ts:914`), so two requests that are each granted rightly could meet.  What
prevents it is the order of frames in the one pipe, and `OnePipe` states it over
the senior hub (which wins whenever both priorities are known), the junior one and
the two queues between them:

* `Hello`: the pipe opens with one sync and one answer, before which the dialer
  asks for nothing; so (`Known`) the senior knows the junior's priority whenever
  they compare, the junior never wins, and nothing the junior proposes is granted.
* `Terms`, `Rounds`: the junior never gives a term back (`JuniorNeverBack`).  The
  senior may: it proposed a term, heard of a later one, and then took the answer,
  which sets its term to the proposed one.  The junior is then
  up to two terms ahead instead of one, and the senior has no means (`Loose`) to start
  an election or take a lease until the junior tells it of its term.
* `Ordered`: while the senior awaits an election it asks for nothing else, so an
  answer that would take its term back is not followed by an acknowledgement.
* `Leases`: an acknowledgement under way to one hub excludes one under way to the
  other and excludes that the granter has the lease.  Requests already sent
  are refused in time, because by then their receiver has gone past their term.

The invariant is `Pair`, `Agrees` with the numbers its parts are about, and is
independent of which end dials.  Each handler is first described by what it does to
the two objects and the two queues (`JuniorTook`, `SeniorSent`, `SeniorWon`, ...),
each such change is shown once to keep `Pair` (`JuniorTakes`, `SeniorSends`,
`SeniorWins`, ...), and every action is then one of these changes, or several in a
row.  It uses `IInv` and `Elections`.  No run lists `OnePipeInv`; `ha_one_pipe`
checks what follows from it.

Only model-checked: liveness (fairness and ENABLED are beyond the prover).

## 4. `HaProxy`: the front proxy

`ctl` is the controller's `active`, `failCount` and `recoverCount`; `OnPrimary`
and `OnSecondary` are the two halves of `probeTick` and `SwitchTo` is `switchTo`.
`tick[i]` is a tick in flight: it awaits the primary's probe, keeps the answer,
awaits the secondary's and then judges both in one step (`Judge`).  The interval
starts a tick every 2 s and each of the two probes ends within 3 s, so a tick
has ended before the third after it starts: `Overlap` is 3, and a slot is free
when its turn comes.  Ticks in flight judge in any order.  `up` is what a probe
would find; it flips freely (`Flip`).  The counters are stopped at their
thresholds, which is all they are compared with.  `fails` and `oks` are history:
the streak of verdicts on the primary, in the order of judgement.  When ticks
overlap this need not be the order in which the probes were answered.

| Run | Configuration | Result |
|---|---|---|
| `proxy_settles` | thresholds 3 and 2 (the defaults), three ticks in flight; 10,912 states | `LeavesAfterStreak`, `PrimaryPreferred`, `SecondaryServes` hold |

Fairness: the interval goes on and every probe is answered or aborted by its
3 s signal (`probeHealth`), hence weak fairness of `StartTick`, `PrimaryProbed`
and `Judge`; `Flip` is never owed.  `PrimaryPreferred` and `SecondaryServes`
start from `<>[]` of the backends' health, since nothing can be promised while
they flap.

`HaProxyProofs` proves, for any thresholds and any `Overlap`,
`ProxyInvariance` (types and `CountersFresh`), its parts `ProxyTypes` and
`CountersSafe`, and `LeavesSafe` (`LeavesAfterStreak`).  The invariant is needed because `probeTick` compares
`failCount`, not the streak: the proof rests on `failCount <= fails`, which in
turn needs the counter to be zero whenever the secondary is active.

Forwarding (`handle`) is in `WriteForward`, section 8.  Not modelled: the fields
that are only reported.

## 5. `Pairing`: one-time codes

`rows` is the table `enrollment_codes`, `tokens` the table
`registration_tokens` (which code each node's token came from), `unknown` and
`window` are the in-memory maps `unknownFailures` and `windows`.
`consumePairingCode` has no await, so each of its outcomes is one action:
`RateLimited`, `Malformed`, `WrongCode`, `LockedCode`, `SpentCode`, `Redeem`.
Each of the SQL statements commits on its own, so the process can die between
two of them: `DieWhileRedeeming` (code consumed, token not stored) and
`DieWhileFailing` (failure counted, code not locked).  `Restart` forgets the
maps.  `CreatePairingCode` may draw a code whose hash was locked by guesses
before; the insert then fails and another one is drawn.  `consume` returns on a
malformed `display_name` before it counts the attempt, which changes nothing.
Time is a number of ticks per rate window; expiry may come at any moment.  The
purge of elapsed windows above 1024 peers changes no verdict and is left out,
as are the lists for the dashboard.  The joining client is in `Join`.  `minted`, `cuts` and
`recent` are history; `MaxCuts` bounds the deaths between counting and locking.

| Run | Configuration | Result |
|---|---|---|
| `pairing_codes` | two codes, nodes and callers, lock at 3 failures, 2 attempts per window, one death before a lock; 189,640 states | `SingleUse`, `TokensBacked`, `FailureBudget`, `LockIsFinal` hold |

Two of each are enough for a replay by another device, a node that pairs twice,
and a caller that is limited while the other is not; three failures separate
"one below the limit" from "none yet".  Values are not symmetric sets because
the runs are small without it.

`DeviceProofs` proves, for all sets and limits, `PairingInvariance` and from it
`PairingTypes`, `SingleUseSafe`, `TokensSafe`, `BudgetSafe` and the action property `LocksSafe`.
`SingleUse` is not inductive by itself: the invariant adds `OpenUnminted`, that a
code with no row or a pending one has minted nothing, so `Redeem` mints the first
token.  `FailureBudget` in turn is what keeps `fails` within its type.  The rate
windows are typed apart (`RatesTyped`), since no other part depends on them.

There is no fairness and no liveness in this module: nothing in it must happen.

`Join` extends `Pairing` by `dsh-helm join` (`enrollClient`, `runJoin` of
`cli/src/pair.ts`).  An attempt is its node id and its enroll id (`randomUUID`);
`join[a]` is where it stands, `file[d]` the `node.json` of a device.  `Served`
runs one of `Pairing`'s outcomes whether or not the attempt still waits; `Hears`
takes the reply and writes the file in the same turn of the event loop; `GivesUp`
is any of the timers, errors and closes.  `parts` checks it with two attempts,
devices and codes: one attempt is late while the other races it, on its device
or with its code.  `JoinSafe`: a file names a node the hub knows, and two devices
never hold tokens of one code.  `FailureIsFinal`: after an attempt reported its
failure no identity of its appears.

`DeviceProofs` proves that devices ask nothing of the service that `Pairing` does
not allow (`JoinImplementsPairing`), so that everything above holds with them,
and `JoinIsSafe` and `FailureSafe` for any attempts, devices and codes.  Their
invariant says that a token on its way to an attempt is the one the hub has
stored for it (`AttemptSound`) and that a file is that of an attempt which joined
on its device with the token stored (`FileSound`); that two devices do not share
a code then follows from `SingleUse` and `TokensBacked`.

## 6. `RpcPeer` and `NodeLink`: connections between hub and nodes

`RpcPeer` is the JSON-RPC layer as a hub uses it to call one node across the
node's reconnects.  Every connection has a hub peer with ids of its own that
start at 1 (`nextId`, `pending`); the agent has one current peer and hands every
frame to it, whichever socket the frame came from (`Dispatched`).  So ids of two
connections coincide and answers leave over a newer socket.  Frames are sets: no
property needs their order.  `RpcCalls` is what a caller is promised (a call is
asked, its handler starts at most once, it resolves only with an answer computed
for it, and one event may reject several).  `rpc_reconnect`: three connections
and two calls, enough for an id that occurs on two connections while a third
call's socket is replaced under it.  The only fairness is that of the request
timers (`FairSpec`): no answer and no close event is owed, and `EveryCallSettles`
holds all the same.

`RpcPeerProofs` proves `RpcInvariance` for any connections and calls, and from it
`AnswersSafe` and `RpcImplementsCalls`.  `AnswersMatch` alone is not inductive:
the invariant says that ids of pending entries are below `nextId`, that an id of
a connection was given to one call, and that every frame carries the id under
which its call is registered; that socket and peer change together makes the
answer over another connection find no entry that is not its own.

`NodeLink` is one hub with the sockets its nodes dial.  `client[c]` and
`server[c]` are the two ends of a socket (`handshake.ts`, `HubConnection`),
`up[c]` and `down[c]` the frames under way, `route` is `ControlPlane.connections`,
`row` the registry row with its lease and the health read from it.  `SocketDies`
may lose what is under way; `SocketClosed` is the hub's close event, which comes
after the last frame and as late as it likes.  `latest` and `beat` are history.
`Directory` is the abstract table: a node is bound to at most one connection, and
a connection that was bound once is never bound again.

`link_sockets` (through `MCNodeLink`) explores three slices: three sockets of one
node at one moment, two of them while time passes, and the sockets of three
strangers (wrong token, old protocol, enrolling) by themselves.  The slices leave
nothing out that matters: the strangers share neither a row nor a route with the
node, and the clock only enters the lease.  Three sockets are what a close event
needs to come two connections late.  Fairness: the event loops read what arrives.
The hub refuses a bad MAC at once; `docs/threat-model.md:35` and `:193` speak of
three attempts, and the model follows the code.  No node of the repository sends
`node.release`, which the hub handles, so `Releasing` chooses who does.

`NodeLinkProofs` proves `LinkInvariance` for all sets of nodes and connections:
types, `RouteLive`, `NewestRouted`, `OutcomesAgree` and, as a step property,
`LinkImplementsDirectory`.  `NewestRouted` needs that `latest` is a connection
that authenticated as its node; `OutcomesAgree` needs what each frame under way
says of the server's end (a welcome is in flight only of an accepted connection).

Left out: blocked nodes (`status = 'blocked'`), which no code path sets.

## 7. `NodeAgent`: the agent's connection and its work

`agent` is the object: state, socket (endpoint, phase, how it ended), whether
`this.peer` exists, the reconnect timer, backoff and endpoint index.  Its methods
are operators under the code's names (`ScheduleReconnect`, `Connect`,
`OnConnected`).  `beat` is the heartbeat under way, `probe` is
`primaryProbeInFlight`, `regs` and `chains` are the stages at which calls of
`registerAndReconcile` and periodic reconciles stand (as sets: two at one stage
act alike).  Every `await` ends an action, so nothing that was read before it is
read again unless the code does.  Closing a socket that is still opening may fire
its error event (`Connect`, parameter `failed`).

Bounds: the backoff is a number of doublings; a timer is "short" or, from
`LongFrom` on, longer than a heartbeat interval, which decides whether a timer
left over at the welcome fires before the next heartbeat.  `Prompt` says that a
running control plane welcomes before the next reconnect timer fires, as its
10 s timeouts and the delays allow; the safety properties do without it.

In `parts` two endpoints, two faults of any kind (a control plane dies, a
socket falls silent, a registration or a handshake is refused), a stop at any
time and no `Prompt`: `AgentSafe` and `StopIsFinal`.  In `progress` the same two
faults without refused registrations, or three with one endpoint.  `ComesBack`:
with two endpoints the agent is connected again and again whatever happens, with
one it stays connected once faults end.  It does not settle at the primary with
two (section 14).  `CatalogArrives`: a control plane that stays connected gets the
catalog; when a registration can be refused this fails (section 14), so `progress`
leaves that fault out.  Fairness: timers fire, requests are answered or time out,
sockets report their end, control planes are started again.

Left out: the verdicts of the local probe and the lists of the local daemon.

`DeviceProofs` proves `AgentIsSafe` and `StopSafe` for any number of endpoints,
any faults and any delays.  `PinnedToSocket` speaks of connected agents, and what
resumes after an await meets the agent in any state; so the invariant says of all
states that an object with no timer pending and a good socket has the index of
that socket (`Pinned`), and that a stopped one has neither timer, peer nor socket
(`Halted`).  Each method is shown to keep both before the actions that call it.

## 8. `WriteForward` and `ToolTable`: a call on its way

A call passes through the front proxy (`cli/src/ha-proxy.ts`, 3 s), a hub
(`callTool`), the leader the hub forwards it to (`forwardWrite`, 15 s and 30 s)
and the node (60 s).  `job[c][i]` is the `callTool` of hop `i`, `frame[c][i]` the
request to the node.  Any of the timers may end while what it limits goes on.
`req`, `reply` and `runs` are what was asked, what the caller heard and how often
the call ran.  The phases, processes and connections are an environment: `Moves`
changes them as `HubHa` allows with one pipe, at most one leased leader.  A
repetition by the caller is another call.  `ToolTable` holds the classes of tools
that the code keeps apart in three places.

`forward_writes`: one call of each class through three hops, six moves.  Two hops
show a follower that forwards; the third one a leader that became a follower and
hands the write back.  Six moves are enough for two changes of leader with a
crash and a restart.  Discovery is answered in one step, the path of unknown
tools is left out.  `forward_answers` (no move of the phases is owed) checks that
every call is answered (`CallsAnswered`).

`WriteForwardProofs` proves, for any calls, hops and moves, `RunsOnce`,
`GateHoldsEverywhere`, `LeaseHolderBegins` and `ResultsAreReal`.  `AtMostOnce`
rests on `ForwardInvariance`: of the `callTool`s a call is in, the last one alone
may still have it run (`Chain`, `OpenOnce`), none of them once it ran (`Unsent`);
the gate theorem needs that what is at a node has passed the gate (`Gatekept`).
The lease theorem is a step property of the guards and the phase (`Begun`).

## 9. `RegistrySync`: the replicated registry

Rows are independent, so one node stands for all: `row[h]` is its `last_seen` at
hub `h`, `overlay[h]` what the peer said of it, `lastSent[h]` the snapshot
`registryDiff` compares with, `wire[p][k]` the frames on the pipe `p` dialed.  A
pipe is fresh until the answer to its sync tells who the peer is, and "left" when
its dialer has forgotten it (`ha.ts:572`).  Metadata of a row come and go with its
`last_seen`.  Both sides see a broken pipe at once; an answer to a sync that comes
after its 10 s is not modelled.

`sync_seen`: three times the node is heard of, four joins and leaves, two breaks
or restarts, two frames per direction: enough for a heartbeat that is lost, the
sync that makes up for it, and a restart of the hub that heard of it.
`sync_converges` checks `SeenConverges` under fairness of timers and delivery.

`RegistrySyncProofs` proves `SettledIsSeen` and `SeenNeverLost` for any bounds.
The invariant says what is known when something is still pending: for every row
the peer has not seen there is a frame under way that carries it, or a diff, or a
sync that is owed (`MadeUp`), and no frame or overlay is ahead of its row
(`NotAhead`).

## 10. `Presence` and `Routing`

`Presence`: `lease[n]` is the one row a node has, `Reported` a listener's claim
(handled up to `MaxDelay` late), `ClaimPresence` and `ReleasePresence` the MCP
tools, `Active` is `activeNode` and `Ambiguous` is `isPresenceAmbiguous`, which the
router recomputes for its evidence.  `auto` and `hand` are history.  `parts` has
two machines and three claims (`MaxClaims`), two to collide and one to overwrite,
and time for each to run out; the requested lifetime 9 exceeds every cap.
`HubPartsProofs` proves `PresenceIsSafe` for any machines, claims, lifetimes and
delays; the newest of finitely many leases (`Greatest`) is found by induction over
sets, which the library offers as a theorem about well-founded relations.  The
probes of `windows.ts`, `desktop.ts` and `browser.ts` only produce claims, and
the agent never calls their chain.

`Routing`: items (sessions, workspaces) come and go on the nodes, reconciles
carry snapshots (`taken`) that replace the rows of a node in any order, `Route`
is the router's rules over the rows, `Decide` and `Ended` are `forward` with its
audit rows, `ReadStarts`, `ReadNode` and `ReadEnds` the aggregated reads.  An id
is private to its node, so two nodes may hold items of one id.  `told` is history:
what the hub has heard of.  Three of the parts are settings of this module: calls
against changing items (`owner`), an aggregated read against connections and
leases (`reads`),
two calls with their rows (`audit`).  Calls and reads do not meet, since neither
changes what the other reads.  `Audited` gives the control plane the audit log
its constructor takes; the shipped hub is built without one (section 14), so
`AuditSettles` speaks of a hub built as the tests build it.  The window of 100
rows is scaled to one for the two calls, so that the second pushes the first out
of it.  Reconcile chains overlap (two snapshots under way, `agent.ts:374`) and
lists fail (`bridge.ts:180`): `told` then keeps what every snapshot under way
still lists.

`HubPartsProofs` proves, for any nodes, items, requests and calls and without
further conditions: `ReadsAreComplete`; `AuditIsSettled`, for any window (a row
that stays pending has as many rows after it as `updateResult` looks back over);
`OwnersServe`, for any number of overlapping snapshots and lists that fail.
`OwnersServe` needs that what the hub was told of and still exists is in its table
and in every snapshot on its way (`ToldSound`); the audit theorem that a call has
at most one row, pending while it is under way or buried (`RowsSound`,
`AuditSound`).  What the documents promise beyond this, that no owner is forgotten
and no row stays pending, fails (`OwnerKept`, `EveryRowSettles`, section 14).

## 11. `SummaryCache` and `Bridge`

`SummaryCache` is one session: a number of changes, and a summary is the number
it was built at.  `Readers` are `sessions_get`, `Writers` the RPCs that
invalidate, `Passed` the same through `mcp.call`, `Steers` prompts with mode
`steer`.  `Built` may find the write or its reading back failing.  `until`,
`landed` and `quiet` are history.  Three settings: two reads and a request that
invalidates, two reads and one that is passed through while the session turns by
itself, two reads and a steer.  `SummariesFresh` says how old an answer can be
(a lifetime and one fetch), that what changed while nothing was being read is
seen, and that the full history is never behind.  What the comments promise
beyond that fails (section 14).  The text of a summary and a failing `rmSync` are
left out.  `DeviceProofs` proves `SummariesAreFresh` for any requests, lifetimes
and limits: an answer that is being built, the cached one and the one returned
each carry the time at which they were still current (`ReqSound`, `CacheSound`).

`Bridge`: `post()` sends with the session of the moment; a 404 makes the call
wait on `reestablish()`, which callers share, and repeats it once.  The daemon
forgets its sessions when it restarts.  What it answers to a call without a
session is a constant, since the repository leaves it open (`Sessionless`):
`parts` allows running it or a 404, `progress` also a refusal.  Local connections
have ended before a new daemon listens (`DaemonStarts`).  Two calls, two connects
of the agent and two restarts cover a call that learns late, an initialize of the
agent beside that of a call, and a restart during either.  `DeviceProofs` proves
`BridgeIsSafe` for any calls, connects and restarts and a daemon that does not
refuse calls without a session (`"refused" \notin Sessionless`; one that does may
fail a call that was posted before any handshake).  The invariant (`CallSound`)
says that a call that is yet to be answered has not run, and that one which the
daemon was up for all along is repeated with a session the daemon knows.

## 12. `Guard`: the response guard

A response is its sizes: text fields (with escapes and the `CONTENT_KEYS` order),
one array of equal elements, scalars; or a plain text of equally wide characters.
Each pass of a loop of `guard.ts` is an action, so the bounds of the loops
(`Passes`, `FillPasses`, `MarkPasses`) are part of the model.  The sizes chosen
lie about the limit, which is 600 bytes instead of the real one, and make every
branch occur: a text that can be cut and one that cannot, an array that is halved
until one element is left, keys that are dropped, the fallback.  `GuardSafe`: what
is sent fits, and states its own size although stating it changes it.

`HubPartsProofs` proves `GuardIsSafe`: `GuardSafe` for any limit, inputs and number
of passes that narrow.  That the sizes settle within the passes the code allows is
arithmetic over their digits.  A document of `k` bytes and the digits of its size
takes the sizes `k + 1`, then `k` and the digits of that, and the third is the last
(`SizesSettle`), since each differs from the one before by less than ten bytes; the
size in the marker depends on its own digits only, so the first is the last
(`PlainSettles`) unless a power of ten lies within two bytes below the limit.
`GuardAssumption` excludes that (the limit is 50 000): with a limit of 1000 the size
would alternate between 999 and 1000 for ever, and the marker sent would state the
wrong one.  `SumIsNat` says that a sum over finitely many naturals is one.  It is
an induction, made without the library's rules: the least size of a subset at which
the sum fails (`Least`, from `Greatest`) is contradicted by the subset without one
element.  `Digits` reads a table of powers because the provers know no exponentiation.

## 13. Runs

| Run | Module | Checks | Size |
|---|---|---|---|
| `ha_one_pipe`, `ha_two_pipes`, `ha_recovers` | `MCHubHa` | section 3.2 | 679,788 / 666,102 / 8,397 states |
| `ha_split_brain` | `MCHubHa` | `SingleWriter` violated with two pipes and no fault | |
| `proxy_settles` | `HaProxy` | section 4 | 10,912 |
| `pairing_codes` | `Pairing` | section 5 | 189,640 |
| `rpc_reconnect` | `RpcPeer` | `AnswersMatch`, `EveryCallSettles`, `ImplementsCalls` | 106,259 |
| `link_sockets` | `MCNodeLink` | `NewestRouted`, `OutcomesAgree`, `ImplementsDirectory`, `HandshakeEnds` | 176,752 |
| `forward_writes` | `WriteForward` | `AtMostOnce`, `UndeclaredNeverRuns`, `WritesBeginUnderLease` | 1,061,520 |
| `sync_seen` | `RegistrySync` | `SettledSeen`, `SeenGrows` | 2,652,696 |
| `parts` | `MCParts` | the safety of `NodeAgent`, `Bridge`, `SummaryCache`, `Join`, `Presence`, `Routing`, `Guard` | 968,846 |
| `progress` | `MCProgress` | `ComesBack`, `CatalogArrives`, `CallsEnd` | 66,046 |

`DeviceParts` and `HubParts` instantiate what runs on a device and on a hub and
state their properties; `DeviceProofs` and `HubPartsProofs` prove these for every
value of the constants, `MCParts` gives them values.  `MCParts` and `MCProgress`
put several components in one run.  The components share no state in the code (the agent's connection, its bridge and its summaries
touch different fields; presence, the router and the guard different tables), so
`Init` picks the part that moves and the others stay as they began: interleaving
them would multiply states and decide nothing.  TLC counts their steps by part
(`AgentMoves`, ...); every action of each part occurs.

The type invariants of `HubHa`, `HaProxy`, `Pairing`, `RpcPeer`, `NodeLink` and
`WriteForward` are theorems, so no run spends time on them; the type invariants
of the parts are in the properties of `parts` (and in the theorems about them),
and `TypeOK` of `RegistrySync` is
in its inductive invariant except for the length of a wire, which is
`sync_converges`'s business only.  Likewise `NoLoneLeader`, `RouteLive`, `NothingForgotten`,
`CountersFresh`, `FollowerHasLeader` and `OkMeansRun` are proved and in no run.

## 14. What does not hold

`ha_split_brain` is the run that stays in the list: both hubs end up writable
(`takeLease` sets the phase after its await without looking again, `ha.ts:914`;
section 3.2 tells how), while `ha.ts:5` says "never split-brain writes".

The other claims of comments and documents that a model contradicts are
properties too, under "Claims that fail" in their modules.  Each can be seen with
the configuration named here; where that is `parts.cfg`, `progress.cfg` or
`link_sockets.cfg`, or a configuration with a changed constant, put the property
in the place of the listed ones.

| Property | Code | What happens, and what was said | Configuration |
|---|---|---|---|
| `HubHa.TermNeverRegresses` | `hub/src/ha.ts:666`, `:848` | an election at a lower term is accepted and persisted; `ha.ts:39` "A peer declaring a higher term wins" | `ha_term_regress.cfg` |
| `HubHa.WritesResume` | `hub/src/ha.ts:864`, `:756`, `:734` | `leaderTerm` is left behind `term` and every lease is refused for ever; `ha.ts:42` "the deterministic election always converges" | `ha_lease_livelock.cfg` |
| `HubHa.WritesResume` | `hub/src/ha.ts:951` | a process that dies after the term is stored and before the leader's term is comes back with `leaderTerm` behind `term`; the peer adopts the term, and every lease is refused for ever; `ha.ts:42` as above | `ha_torn.cfg` |
| `HubHa.WritesResume` | `hub/src/ha.ts:564` | a late close of a dead inbound socket detaches its live successor; `connection.ts:96` guards node connections against just this | `ha_late_close.cfg` |
| `HubHa.OutboundReturns` | `hub/src/ha.ts:572` | closing the inbound pipe forgets the open outbound one; `ha.ts:1133` "pipe will be re-established by the dial loop" | `ha_zombie_outbound.cfg` |
| `HaProxy.ReturnsAfterStreak` | `cli/src/ha-proxy.ts:139` | one good probe of the primary may switch back; `ha-proxy.ts:45` "Consecutive successful probes" | `proxy_settles.cfg` with `Overlap = 1` |
| `Pairing.RateBound` | `hub/src/pairing.ts:223` | windows are fixed; `pairing.ts:99` "Sliding windows per peer" | `pairing_codes.cfg` with `Span = 2` |
| `NodeLink.ChannelNeedsConnection` | `store/src/registry.ts:127` | a node with a closed socket is "ok" until its lease ends; `health.ts:7` "node WS connection + lease freshness" | `link_sockets.cfg` |
| `NodeLink.StatusExpires` | `store/src/registry.ts:84` | a silent node stays "online" for ever; `docs/architecture.md:385` says it is judged offline | `link_status.cfg` |
| `NodeAgent.SettlesAtPrimary` (`ReturnsToPrimary`) | `node-agent/src/agent.ts:453` | the heartbeat that starts the return is rejected by it and sends the agent back to the fallback, again and again, since the local probe is renewed at every heartbeat (10 s against 15 s); `agent.ts:398` "a live primary triggers a clean switch back" | `progress.cfg` |
| `NodeAgent.OneReconnect` | `node-agent/src/agent.ts:662` | a second reconnect is scheduled behind the connection being made; `agent.ts:491` "Reconnect is idempotent" | `parts.cfg` |
| `NodeAgent.NeverHangs` | `node-agent/src/agent.ts:230` | a socket that goes half open before the welcome leaves the agent connecting for ever; `docs/troubleshooting.md:47` says such faults heal | `agent_hang.cfg` |
| `NodeAgent.CatalogArrives` | `node-agent/src/agent.ts:310` | a failed registration ends before the reconcile; `docs/architecture.md:390` "re-register + metadata reconcile" | `agent_no_catalog.cfg` |
| `Presence.PinHolds` | `store/src/presence.ts:63` | the node's next report overwrites a pinned claim; `hub/src/mcp/tools.ts:222` "default 10min TTL, pinned" | `parts.cfg` |
| `Routing.OwnerKept` | `node-agent/src/bridge.ts:180`, `agent.ts:374` | a failed list, or an older snapshot that arrives later, takes the row of a session that exists, and a prompt goes elsewhere; `docs/architecture.md:299` says writes never change node silently | `parts.cfg` |
| `Routing.FailClosed` | `hub/src/router.ts:142` | a destructive call falls back on the default node; `router.ts:14` "fail-closed" | `parts.cfg` |
| `Routing.EveryDecisionAudited` | `hub/src/mcp/server.ts:249` | rejected decisions leave no row; `router.ts:18` "every decision records ... plus an audit entry" | `parts.cfg` |
| `Routing.ForwardsAudited` | `hub/src/hub-cli.ts:175` | `startHub` gives the control plane no audit log; `docs/threat-model.md:54` says every decision is written | `parts.cfg` with `Audited = FALSE` |
| `Routing.EveryRowSettles` | `hub/src/control-plane.ts:319` | a row pushed out of the newest 100 stays pending; `control-plane.ts:318` "update the pending audit row's result" | `parts.cfg` |
| `SummaryCache.ChangeSeen` (`PassedChangeSeen`) | `node-agent/src/agent.ts:578` | prompts through `mcp.call` do not invalidate; `summary.ts:12` says the agent does | `parts.cfg` |
| `SummaryCache.ChangeSeen` | `node-agent/src/summary.ts:150` | a summary is written after its cache was invalidated; `agent.ts:545` | `parts.cfg` |
| `SummaryCache.SteerTold` | `node-agent/src/steer.ts:113` | the turn may end between the lookup and the prompt; `steer.ts:20` | `summary_steer.cfg` |
| `Bridge.NoDuplicateHandshake` | `node-agent/src/bridge.ts:243` | two calls of one stale session make two handshakes; `bridge.ts:205` "no duplicate handshakes" | `progress.cfg` |
| `WriteForward.RefusedNotRun` | `hub/src/ha.ts:1177` | a forward that times out answers `QUORUM_LOST` for a write that runs; `server.ts:116` "refused" | `forward_fence.cfg` |
| `WriteForward.LeaseFences` | `hub/src/mcp/server.ts:118` | the node executes a write begun under a lease that is lost by then; `server.ts:114` "Single-writer fencing" | `forward_fence.cfg` |
| `WriteForward.ReadsServed` | `hub/src/control-plane.ts:236` | a read at the hub the node is not connected to is refused; `ha.ts:26` "always served locally ... on either CP" | `forward_fence.cfg` |
| `RegistrySync.DirectIsAuthoritative` | `hub/src/ha.ts:180` | the peer never hears that a node left; `server.ts:215` "authoritative for `connected`" | `sync_connected.cfg` |
| `Guard.NarrowedIsSent` | `hub/src/mcp/guard.ts:110` | an array narrowed to within 4 bytes of the limit is replaced by the fallback; `guard.ts:125` | `parts.cfg` |
| `Guard.AlwaysStatesItsSize` | `hub/src/mcp/guard.ts:135` | the fallback carries the size of the document it replaces; `guard.test.ts:34` | `parts.cfg` |
| `Guard.NoBrokenCharacter` | `hub/src/mcp/guard.ts:255` | 3 bytes of a 4-byte character become a replacement character; `guard.ts:248` | `parts.cfg` |
| `Join.IdentityKept` | `cli/src/pair.ts:276` | of two joins on one device the second overwrites the first one's identity; `pair.ts:238` | `parts.cfg` |

## 15. Proofs and what is only model-checked

Sections 3.4 to 12 give the argument of each proof.  Every theorem is for all
values of the constants and rests on the named assumptions of its module
(`ConstantsAssumption`, `ConnAssumption`, `LinkAssumption`, `DeviceAssumption`,
`HubAssumption`, ...); TLC evaluates them with each run.  Two theorems, and the
second part of a third, state a condition of their own, each needed, as TLC shows
without it:

| Theorem | Condition |
|---|---|
| `LeaderIsAttached`, the part about `NoLoneLeader` | no late closes: `"lateClose" \notin FaultKinds` |
| `OneWriter` | one hub dials: `Dialers = {a}` |
| `BridgeIsSafe` | the daemon does not refuse calls without a session: `"refused" \notin Sessionless` |

What is left to TLC: liveness under fairness (`WritesResume`, `OutboundReturns`,
`PrimaryPreferred`, `SecondaryServes`, `EveryCallSettles`, `HandshakeEnds`, and
those of `progress`), which is beyond the prover.

    tlc -config ha_one_pipe.cfg MCHubHa.tla        # ha_*.cfg
    tlc -config proxy_settles.cfg HaProxy.tla      # proxy_*.cfg
    tlc -config pairing_codes.cfg Pairing.tla      # pairing_*.cfg
    tlc -config rpc_reconnect.cfg RpcPeer.tla
    tlc -config link_sockets.cfg MCNodeLink.tla    # link_*.cfg
    tlc -config forward_writes.cfg WriteForward.tla    # forward_*.cfg
    tlc -config sync_seen.cfg RegistrySync.tla     # sync_*.cfg
    tlc -config parts.cfg MCParts.tla
    tlc -config progress.cfg MCProgress.tla
    tlc -config agent_hang.cfg NodeAgent.tla       # agent_*.cfg
    tlc -config summary_steer.cfg SummaryCache.tla
    tlapm HubHaProofs.tla                          # and every other *Proofs.tla

`forward_answers.cfg` and `sync_converges.cfg` are liveness checks beside the
listed runs; both end without an error.  Definitions commented "Mutant of" are
variants of the definition that follows, each with one plausible mistake.
Nothing uses them; put in place of the original, each breaks the property
`PROJECT.json` lists with it, or another conjunct of it.

## 16. Not modelled

* Standalone mode of `HubHa`, blocked nodes, `cp.elect` naming its receiver.
* The store's schema and migrations, which run in one transaction at start; the
  route log, which is append-only; the metrics of the MCP server.
* The dashboard, the command-line tools other than `pair`, the doctor (one-shot
  checks), platform helpers, wire formats and cryptography: stateless, read-only
  or pure input and output.  `PROJECT.json` gives the reason for each.
* The presence probes, the local probe and the text of summaries: they choose
  inputs of what is modelled.
