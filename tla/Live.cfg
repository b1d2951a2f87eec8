SPECIFICATION Spec
CONSTANTS
  Requests = {r1, r2}
  Keys = {k1}
  NoKey = NoKey
  Slots = 1
  QueueCapacity = 1
  MaxAttempts = 2
  RetryBudget = 1
  TotalBudget = 1
  Upstream <- OneFault
  Listed <- DefaultListed
  Horizon = 1
  Streamed = r1
  Updates = {u1}
  Refreshes = {f1}
  Acquires = {}
  Patches <- MCPatches
  Environment <- MCEnvironment
  InitialRows <- MCRows
  Boot = Boot
  Keep = Keep
  NoPool = NoPool
  NoRow = NoRow
  Refused = Refused
  Nobody = Nobody
  Events = {"comment", "text", "length", "done", "bad"}
  MostEvents = 2
  MaxCapture = 2
  Records = {u1}
  Flushes = {f1}
  Capacity = 2
  BatchSize = 2
  FlushRetries = 1
  Jobs = {j1}
  Total = 2
  JobWorkers = 2
  MaxActiveJobs = 1
  Untimed = {1}
PROPERTY EverythingEnds
CHECK_DEADLOCK FALSE
