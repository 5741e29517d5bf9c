\* Four tasks, one model, one job each: safety without evictions.  An unload of
\* all models frees its one model as an unload does.
SPECIFICATION Spec
CONSTANTS
  t1 = t1
  t2 = t2
  t3 = t3
  t4 = t4
  A = A
  B = B
  NONE = NONE
  Task <- FourTasks
  Model <- OneModel
  Default = NONE
  Kinds <- NoUnloadAll
  Degraded = TRUE
  Copies = 5
CHECK_DEADLOCK FALSE
SYMMETRY Symmetry
INVARIANTS
  FreesSpareReplies
  OneLoadPerModel
