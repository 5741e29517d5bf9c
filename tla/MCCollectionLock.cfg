\* Three writers, two of one process; that of w1 may die, calls may fail.
SPECIFICATION FairSpec
CONSTANTS
  w1 = w1
  w2 = w2
  w3 = w3
  p1 = p1
  p2 = p2
  NONE = NONE
  Writer <- ThreeWriters
  Process <- TwoProcesses
  ProcessOf <- TwoOfOneProcess
  Mortal <- FirstOnly
  Timely = TRUE
  ProbesFail = TRUE
  CallsFail = TRUE
  Confirm = 2
  Grace = 2
  StaleAfter = 3
INVARIANTS
  MutualExclusion
PROPERTIES
  RunningHolderIsKept
  AbandonedLockIsTakenOver
