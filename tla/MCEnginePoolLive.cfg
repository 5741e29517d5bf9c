\* Two tasks, two models, one job each, fair event loop: the pool after one job,
\* and liveness.
SPECIFICATION FairSpec
CONSTANTS
  t1 = t1
  t2 = t2
  t3 = t3
  t4 = t4
  A = A
  B = B
  NONE = NONE
  Task <- TwoTasks
  Model <- TwoModels
  Default = NONE
  Kinds <- JobKinds
  Degraded = TRUE
  Copies = 3
CHECK_DEADLOCK FALSE
INVARIANTS
  SettledBetweenJobs
PROPERTIES
  EveryJobEnds
