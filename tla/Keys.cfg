SPECIFICATION Spec
CONSTANTS
  Responses <- AllResponses
  Phases <- HalfSeconds
  Jitters <- JitterEnds
  Covered <- AllListed
  Bounds <- Edges
  MaxTokens = 3
  Statuses <- AnyStatus
  Default <- DefaultRanges
  Requests = {r1, r2}
  Keys = {1, 2, 3}
  NoKey = NoKey
  Slots = 1
  QueueCapacity = 1
  MaxAttempts = 2
  RetryBudget = 2
  TotalBudget = 1
  Upstream <- EveryFault
  Listed <- DefaultListed
  Horizon = 2
  RowIds = {1}
  Clients = {s1}
  Admins = {a1}
  Probers = {p1}
  Operations <- AllOperations
  Cooldowns = {0, 1}
  SyncHorizon = 2
  Restarts = 1
  Gone = Gone
SYMMETRY Symmetry
INVARIANTS MatcherIsExact CallsOnLeases LateCallIsLast OutcomesAreTrue PoolFollowsTable
PROPERTIES LadderClimbs BlameIsJust
CHECK_DEADLOCK FALSE
