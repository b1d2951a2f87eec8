CONSTANTS
  Keys = {1}
  m1 = m1
  Models = {m1}
  c1 = c1
  c2 = c2
  c3 = c3
  Callers = {c1, c2}
  Requests <- RetryRequests
  Capacity = 2
  MaxStreaming = 1
  RequestLimit = 1
  Snapshots <- Rested
  MaxChanges = 1
  NoLease = NoLease
  NoCaller = NoCaller
SPECIFICATION FairSpec
PROPERTY WaitingEnds
