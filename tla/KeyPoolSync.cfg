SPECIFICATION LoadSpec
CONSTANTS
  Keys = {1, 2, 3}
  m1 = m1
  Models = {m1}
  c1 = c1
  c2 = c2
  c3 = c3
  Callers = {c1, c2}
  Requests <- MixedRequests
  Capacity = 2
  MaxStreaming = 1
  RequestLimit = 1
  Snapshots <- AnyHealth
  MaxChanges = 3
  NoLease = NoLease
  NoCaller = NoCaller
SYMMETRY CallerSymmetry
VIEW LoadView
INVARIANTS TypeOK SlotsMatchLeases NoLeaseLeaked NoLostWakeup
PROPERTIES RotationIsSound ImplementsLeaseTable
