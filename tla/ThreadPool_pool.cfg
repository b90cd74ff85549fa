SPECIFICATION FairSpec
CONSTANTS
  Tasks = {t1, t2, t3, t4}
  Workers = {w1, w2}
  Exits = {t1, t2}
  NoTask = NoTask
INVARIANTS TypeOK OpenPoolIsServed
PROPERTIES ExecutorSpec AcceptedTasksRun
CHECK_DEADLOCK FALSE
