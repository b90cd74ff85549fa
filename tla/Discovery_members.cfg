SPECIFICATION Spec
CONSTANTS
  n1 = n1
  n2 = n2
  p1 = p1
  p2 = p2
  Nodes = {n1, n2}
  t1 = t1
  t2 = t2
  Threads = {t1, t2}
  ThreadsOf <- RacingThreads
  Members = {n1}
  Ports = {p1, p2}
  PortOf <- OwnPort
  Fetches = {f1}
  None = None
  MaxInfoID = 4
  OfflineAfter = 1
INVARIANTS IdMatchIsFresh OnlyMembersRegistered
VIEW WithoutHistory
CHECK_DEADLOCK FALSE
