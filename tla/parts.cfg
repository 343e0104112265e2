SPECIFICATION PartsSpec
CONSTANTS
  None = None NoNode = NoNode
  \* NodeAgent: every fault, a stop, and timers that fire however slow a handshake is
  N = 2 MaxBackoff = 2 LongFrom = 2 MaxAgentFaults = 2 MayStop = TRUE Prompt = FALSE
  AgentFaults = {"down", "silent", "register", "reject"}
  \* Bridge: a daemon that runs a call without a session, or answers it with a 404
  DaemonCalls = {c1, c2} Sessionless = {"ran", "unknown"} MaxDials = 2 MaxRestarts = 2
  \* SummaryCache
  w1 = w1 p1 = p1 s1 = s1
  Readers = {r1, r2} Writers = {w1} Passed = {p1} Steers = {s1}
  CacheTtl = 1 MaxCall = 1 MaxTurns = 1 MaxClock = 3
  \* Join: two attempts race for two codes, on one device or on two
  Attempt = {a1, a2} Node = {a1, a2} Caller = {a1, a2} Device = {d1, d2} Code = {h1, h2}
  MaxFailures = 2 RateMax = 1 Span = 1 MaxCuts = 0
  \* Presence: three claims on two machines, and the time for each to run out
  m1 = m1 m2 = m2 Nodes = {m1, m2}
  Ttl = 2 ManualTtl = 1 Window = 1 Requested = {9} MaxDelay = 1 MaxClaims = 3 MaxTime = 7
  \* Routing
  s = s w = w k1 = k1 k2 = k2
  Sessions = {s} Workspaces = {w} PathOf <- MCPathOf DefaultNode = m1
  Calls = {k1, k2} RouterAsks <- MCRequests Snapshots = 2 MaxChanges = 2 MaxFlaps = 1
  DaemonFails = TRUE AuditWindow = 1 Audited = TRUE
  \* Guard: sizes about the limit, which is scaled down to 600 bytes
  MaxBytes = 600 Suffix = 14 Slack = 64 MinText = 64 Passes = 3 Frame = 100 Fallback = 130
  TextSizes = {5, 60, 70, 300, 900, 1500} TextCounts = {0, 1, 2, 4} ElementSizes = {7, 90}
  ElementCounts = {0, 1, 5, 130, 300} ScalarSizes = {8, 550, 1200}
  CharWidths = {1, 2, 3, 4} PlainBytes = {1200, 9996, 12000, 120000}
CHECK_DEADLOCK FALSE
INVARIANTS
  AgentSafe BridgeSafe SummariesFresh JoinSafe PresenceSafe AuditSettles AggregateComplete GuardSafe
PROPERTIES StopIsFinal FailureIsFinal OwnerServes
