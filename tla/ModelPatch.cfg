SPECIFICATION RowSpec
CONSTANTS
  Keys = {k1}
  Targets = {1, 2}
  Selections <- MCSelections
  Patches <- MCPatches
  LastSecond = 1
  MostWrites = 3
  ProbeAttempts = 3
  MostKeys = 4
  HealthModels = {m1, m2}
  Keyless = {m2}
  Intervals = {i1, i2}
  Concurrency = 2
  MostPatches = 2
  MostBatches = 2
  Jobs = {j1, j2}
  Total = 3
  JobWorkers = 2
  MaxActiveJobs = 1
  Untimed = {}
INVARIANT RowStaysPatchable
CHECK_DEADLOCK FALSE
