SPECIFICATION Spec
CONSTANTS
  Exits = {x1, x2}
  Carried = {r1}
  Lists <- MCLists
  Gone = Gone
  FailureLimit = 2
  HTTPFailureLimit = 1
  MaxEjections = 1
  BaseWindow = 2
  MaxWindow = 2
  ProxyTTL = 2
  RemovalCooldown = 1
  RecentWindow = 0
  FetchAttempts = 2
  Requests = {q1, q2, q3}
  Sessions = {x1, x2}
  PoolExits = {x1, x2}
  MaxCached = 1
  NoEntry = NoEntry
  Updates = {x1, x2}
  Refreshes = {f1}
  Acquires = {a1}
  Patches <- MCPatches
  Environment <- MCEnvironment
  InitialRows <- MCRows
  Boot = Boot
  Keep = Keep
  NoPool = NoPool
  NoRow = NoRow
  Refused = Refused
  Nobody = Nobody
SYMMETRY Symmetry
INVARIANTS ExitsAreCurrent ManagersAreSound SentOnce SuccessIsEarned
PROPERTIES IsolationIsEarned TransportsAreSound
CHECK_DEADLOCK FALSE
