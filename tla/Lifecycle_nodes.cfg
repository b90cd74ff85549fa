SPECIFICATION Spec
CONSTANTS
  t1 = t1
  t2 = t2
  g1 = g1
  g2 = g2
  n1 = n1
  n2 = n2
  m1 = m1
  m2 = m2
  Threads = {t1, t2}
  Groups = {g1, g2}
  Nodes = {n1, n2}
  Managers = {m1, m2}
  None = None
SYMMETRY Interchangeable
INVARIANTS TypeOK NoOrphans DefaultIsEntered ShutdownSucceeds
PROPERTIES SessionSpec ShutdownIsComplete
CHECK_DEADLOCK FALSE
