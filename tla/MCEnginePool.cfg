\* Three tasks, two models, one job each: safety where models evict one another;
\* no load ends up on the CPU and is done again.
SPECIFICATION Spec
CONSTANTS
  t1 = t1
  t2 = t2
  t3 = t3
  t4 = t4
  A = A
  B = B
  NONE = NONE
  Task <- ThreeTasks
  Model <- TwoModels
  Default = NONE
  Kinds <- NoIdleUnloads
  Degraded = FALSE
  Copies = 4
SYMMETRY Symmetry
CHECK_DEADLOCK FALSE
INVARIANTS
  ActiveIsRegistered
  PublishedIsLoading
  EvictingNamesAreFreed
