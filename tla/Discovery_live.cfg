SPECIFICATION FairSpec
CONSTANTS
  n1 = n1
  n2 = n2
  p1 = p1
  p2 = p2
  Nodes = {n1}
  t1 = t1
  t2 = t2
  Threads = {t1, t2}
  ThreadsOf <- RacingThreads
  Members = {n1}
  Ports = {p1, p2}
  PortOf <- OnePort
  Fetches = {f1, f2}
  None = None
  MaxInfoID = 3
  OfflineAfter = 1
PROPERTIES NoRegress Converges SilentAreForgotten
CHECK_DEADLOCK FALSE
