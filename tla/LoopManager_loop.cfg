SPECIFICATION FairSpec
CONSTANTS
  Threads = {t1, t2}
  Managers = {m1, m2, m3}
  None = None
  CallbacksExit = TRUE
INVARIANTS TypeOK OneLoop NoLeftovers
PROPERTIES SessionSpec StopShutsDown SignalledStopReturns CallsEndWithLoop
CHECK_DEADLOCK FALSE
