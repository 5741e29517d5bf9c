\* Three updates and rollbacks of three builds, each of which may die anywhere.
SPECIFICATION Spec
SYMMETRY Symmetry
CONSTANTS
  t1 = t1
  t2 = t2
  t3 = t3
  version = version
  extra = extra
  b1 = b1
  b2 = b2
  b3 = b3
  NONE = NONE
  TORN = TORN
  Task <- ThreeTasks
  Name <- TwoNames
  VERSION = version
  Build <- ThreeBuilds
  Holds <- Contents
  Deps <- Dependencies
  First = b1
CONSTRAINT OneInside
CHECK_DEADLOCK FALSE
INVARIANTS
  PreviousIsKept
PROPERTIES
  FailedIsUndone
  RollbackIsExact
