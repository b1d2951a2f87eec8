CONSTANTS
  Keys = {1, 2}
  m1 = m1
  Models = {m1}
  c1 = c1
  c2 = c2
  c3 = c3
  Callers = {c1, c2}
  Requests <- ShortRequests
  Capacity = 2
  MaxStreaming = 1
  RequestLimit = 1
  Snapshots <- Healthy
  MaxChanges = 0
  NoLease = NoLease
  NoCaller = NoCaller
SPECIFICATION Spec
VIEW LiveState
PROPERTY FailoverQueuesForFreshKey
