SPECIFICATION Spec
CONSTANTS
  n1 = n1
  n2 = n2
  p1 = p1
  p2 = p2
  Nodes = {n1, n2}
  t1 = t1
  t2 = t2
  Threads = {t1}
  ThreadsOf <- OneThread
  Members = {n1, n2}
  Ports = {p1, p2}
  PortOf <- OwnPort
  Fetches = {f1}
  None = None
  MaxInfoID = 2
  OfflineAfter = 1
INVARIANT MonitorKeepsRunning

CHECK_DEADLOCK FALSE
