SPECIFICATION FairSpec
CONSTANTS
  Threads = {t1, t2}
  Managers = {m1}
  None = None
  CallbacksExit = FALSE
PROPERTY StopReturns
CHECK_DEADLOCK FALSE
