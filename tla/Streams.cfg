SPECIFICATION Spec
CONSTANTS
  Uploads = {u1, u2, u3}
  BodyLimit = 2
  ReadWindow = 2
  ChunkedReserve = 1
  MaxInFlight = 4
  MaxReads = 2
  Lengths <- MCLengths
  Events = {"comment", "thought", "text", "length", "done", "bad"}
  MostEvents = 3
  MaxCapture = 2
  Calls = {0, 1}
  MostDeltas = 3
  TextLimit = 2
  ProxyAttempts = 3
  Records = {u1, u2, u3}
  Flushes = {f1}
  Capacity = 2
  BatchSize = 2
  FlushRetries = 1
SYMMETRY Symmetry
INVARIANTS BudgetIsKept RelayedInOrder EndIsTold TerminalIsRight SameAsNotStreamed CallsAreSingle RecordsAreKept
CHECK_DEADLOCK FALSE
