SPECIFICATION Spec
CONSTANTS
  Callers = {x1, x2}
  Policies <- MCPolicies
  Usage = {1, 2}
  SpentBefore = {0, 2}
  Deadline = 2
  MostUpdates = 1
  Never = Never
  None = None
  Logins = {r1, r2, r3}
  Addresses = {x1, x2}
  Usernames = {"admin"}
  AttemptLimit = 2
  Window = 2
  StateLifetime = 3
  MaxStates = 3
  GateDeadline = 3
  Handlers = {r1, r2, r3}
  Passwords = {p0, p1}
  InitialPassword = p0
  MostResets = 1
  NoRequest = NoRequest
SYMMETRY Symmetry
INVARIANTS PolicyHolds SessionsFollowPassword
PROPERTIES SpendNeverRefunded LoginsAreLimited
CHECK_DEADLOCK FALSE
