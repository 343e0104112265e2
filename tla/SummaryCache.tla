---------------------------- MODULE SummaryCache ----------------------------
(***************************************************************************)
(* Session summaries of a node: SessionSummaryService (node-agent/src/      *)
(* summary.ts), the handlers of the agent that read through it and          *)
(* invalidate it (agent.ts registerRpcHandlers), and prompts that steer     *)
(* (steer.ts), for one session.                                             *)
(*                                                                         *)
(* The session is the number of its changes so far; a summary is the number *)
(* it was built at.  Turns of the session change it as well.                *)
(***************************************************************************)
EXTENDS Naturals, FiniteSets

CONSTANTS
  Readers,     \* sessions_get, by GET_SESSION or mcp.call
  Writers,     \* prompt, resume and cancel, by RPCs of their own
  Passed,      \* the same through mcp.call
  Steers,      \* prompts with mode "steer", by either RPC
  Ttl,         \* SUMMARY_TTL_MS
  MaxCall,     \* how long a fetch from the daemon may last
  MaxTurns,    \* changes by the session itself
  MaxTime,
  None

Requests == Readers \cup Writers \cup Passed \cup Steers

SummaryAssumption ==
  /\ Ttl \in Nat /\ MaxCall \in Nat /\ MaxTurns \in Nat /\ MaxTime \in Nat
  /\ IsFiniteSet(Requests) /\ None \notin Nat
  /\ \A r \in Requests : Cardinality({S \in {Readers, Writers, Passed, Steers} : r \in S}) = 1

VARIABLES
  session, running,   \* @daemon: changes so far; a turn is under way (told to steers only)
  file,               \* the cache file of the session
  req,                \* @agent: the requests
  now, turns,
  until,              \* history: when each state of the session was superseded
  landed,             \* history: the latest change whose request was answered
  quiet               \* the same, of requests that invalidate, with no read under way

vars == <<session, running, file, req, now, turns, until, landed, quiet>>

Fresh ==
  [stage |-> "idle", since |-> 0, at |-> 0, seen |-> 0, full |-> FALSE, done |-> FALSE,
   was |-> FALSE, hit |-> FALSE, floor |-> 0, calm |-> 0]

Init ==
  /\ session = 0 /\ running = FALSE /\ file = None
  /\ req = [r \in Requests |-> Fresh] /\ now = 0 /\ turns = 0
  /\ until = [v \in 0 .. (MaxTurns + Cardinality(Requests)) |-> None]
  /\ landed = 0 /\ quiet = 0

Greater(m, n) == IF m > n THEN m ELSE n
InFlight(r) == req[r].stage \in {"asked", "built"}
\* "since" counts while the request is under way.
Answered(r, v) == [req[r] EXCEPT !.stage = "ok", !.seen = v, !.at = now, !.since = 0]

-----------------------------------------------------------------------------
(* The cache *)

\* Mutant of Hit: a file lasts for ever.
HitAlways == file # None

\* readCache.
Hit == file # None /\ now - file.at <= Ttl

\* Mutant of Written: generated_at is taken for the end of the lifetime.
WrittenEnd(v) == {[v |-> v, at |-> now + Ttl], file, None}

\* writeCache: the file is written, left or ruined; generated_at is the time of
\* the answer.
Written(v) == {[v |-> v, at |-> now], file, None}

\* Mutant of Invalidated: the file stays.
InvalidatedNot == file

\* invalidate.
Invalidated == None

-----------------------------------------------------------------------------
(* sessions_get *)

Asked(r, full) ==
  [Fresh EXCEPT !.stage = "asked", !.since = now, !.at = now, !.full = full, !.floor = landed, !.calm = quiet]

\* Mutant of Cached: the whole history comes from the cache too.
CachedAlways(full) == Hit

\* include_messages does not look at the cache.
Cached(full) == Hit /\ ~full

\* getSession: a hit answers at once.
Read(r) ==
  /\ req[r].stage = "idle"
  /\ \E full \in BOOLEAN :
       req' = [req EXCEPT ![r] = IF Cached(full) THEN [Asked(r, full) EXCEPT !.stage = "ok", !.seen = file.v, !.since = 0]
                                 ELSE Asked(r, full)]
  /\ UNCHANGED <<session, running, file, now, turns, until, landed, quiet>>

\* The daemon reads the session.
Built(r) ==
  /\ req[r].stage = "asked" /\ now - req[r].since <= MaxCall
  /\ req' = [req EXCEPT ![r].stage = "built", ![r].seen = session]
  /\ UNCHANGED <<session, running, file, now, turns, until, landed, quiet>>

\* Its answer arrives; a summary is cached.
ReadAnswered(r) ==
  /\ req[r].stage = "built" /\ now - req[r].since <= MaxCall
  /\ req' = [req EXCEPT ![r] = Answered(r, req[r].seen)]
  /\ IF req[r].full THEN file' = file ELSE file' \in Written(req[r].seen)
  /\ UNCHANGED <<session, running, now, turns, until, landed, quiet>>

-----------------------------------------------------------------------------
(* Changes *)

Change ==
  /\ session' = session + 1 /\ until' = [until EXCEPT ![session] = now]
  /\ running' \in IF Steers = {} THEN {running} ELSE BOOLEAN

\* A handler asks the daemon; steerPrompt has probed session.list before, and
\* takes a probe that fails as not running.
Write(r) ==
  /\ req[r].stage = "idle"
  /\ \E was \in IF r \in Steers THEN {running, FALSE} ELSE {FALSE} :
       req' = [req EXCEPT ![r].stage = "asked", ![r].since = now, ![r].was = was]
  /\ UNCHANGED <<session, running, file, now, turns, until, landed, quiet>>

\* The daemon carries it out.
Applied(r) ==
  /\ req[r].stage = "asked" /\ ~req[r].done
  /\ Change
  /\ req' = [req EXCEPT ![r].done = TRUE, ![r].seen = session', ![r].hit = running]
  /\ UNCHANGED <<file, now, turns, landed, quiet>>

\* Mutant of Invalidates: a steer drops nothing.
InvalidatesWriters(r) == r \in Writers

Invalidates(r) == r \in Writers \cup Steers

\* The answer arrives ("steered" of a steer): all but mcp.call's plain ones
\* drop the summary.
WriteAnswered(r) ==
  /\ req[r].stage = "asked" /\ req[r].done
  /\ req' = [req EXCEPT ![r] = Answered(r, req[r].seen)]
  /\ file' = IF Invalidates(r) THEN Invalidated ELSE file
  /\ landed' = Greater(landed, req[r].seen)
  /\ quiet' = IF r \notin Passed /\ ~\E x \in Readers : InFlight(x)
              THEN Greater(quiet, req[r].seen) ELSE quiet
  /\ UNCHANGED <<session, running, now, turns, until>>

\* An error of the daemon, or no answer: carried out or not, nothing is dropped.
Fails(r) ==
  /\ InFlight(r)
  /\ req' = [req EXCEPT ![r] = [Fresh EXCEPT !.stage = "failed"]]
  /\ UNCHANGED <<session, running, file, now, turns, until, landed, quiet>>

\* The session goes on by itself.
Turn ==
  /\ turns < MaxTurns /\ turns' = turns + 1 /\ Change
  /\ UNCHANGED <<file, req, now, landed, quiet>>

Tick == now < MaxTime /\ now' = now + 1 /\ UNCHANGED <<session, running, file, req, turns, until, landed, quiet>>

Next ==
  \/ \E r \in Readers : Read(r) \/ Built(r) \/ ReadAnswered(r)
  \/ \E r \in Requests \ Readers : Write(r) \/ Applied(r) \/ WriteAnswered(r)
  \/ \E r \in Requests : Fails(r)
  \/ Turn \/ Tick

Spec == Init /\ [][Next]_vars

-----------------------------------------------------------------------------
(* Properties *)

TypeOK ==
  /\ session \in DOMAIN until /\ running \in BOOLEAN
  /\ file = None \/ (file.v \in 0 .. session /\ file.at \in 0 .. now)
  /\ \A r \in Requests :
       /\ req[r].stage \in {"idle", "asked", "built", "ok", "failed"}
       /\ req[r].seen \in 0 .. session /\ {req[r].since, req[r].at} \subseteq 0 .. now
  /\ quiet <= landed /\ landed <= session

ReadDone(r) == r \in Readers /\ req[r].stage = "ok"

\* However fills, invalidations and turns interleave, what sessions_get returns
\* was the session's state at most one lifetime of the cache and one fetch ago.
StalenessBounded ==
  \A r \in Requests :
    ReadDone(r) => \/ until[req[r].seen] = None
                   \/ req[r].at <= until[req[r].seen] + Ttl + MaxCall

\* A change made through an RPC of its own or by a steer, with no read under way
\* when it was answered, is seen by every later sessions_get.
QuietChangeSeen == \A r \in Requests : ReadDone(r) => req[r].seen >= req[r].calm

\* The daemon is asked for the whole history every time: it never shows less
\* than a change answered before, invalidated or not.
HistoryIsFresh == \A r \in Requests : ReadDone(r) /\ req[r].full => req[r].seen >= req[r].floor

\* What summary.ts says of the cache: a change that was answered is seen by
\* every later sessions_get.
ChangeSeen == \A r \in Requests : ReadDone(r) => req[r].seen >= req[r].floor

\* What steer.ts says of its answer: session_was_running tells whether the
\* prompt went into a turn under way.
SteerTold == \A r \in Steers : req[r].stage = "ok" /\ req[r].was => req[r].hit
=============================================================================
