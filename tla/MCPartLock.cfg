\* Four pulls of three processes that may die; the death of one is not provable.
SPECIFICATION Spec
SYMMETRY ThreadsAlike
CONSTANTS
  w1 = w1
  w2 = w2
  w3 = w3
  w4 = w4
  p1 = p1
  p2 = p2
  p3 = p3
  NONE = NONE
  EMPTY = EMPTY
  Pull <- FourPulls
  Process <- ThreeProcesses
  ProcessOf <- TwoOfOneProcess
  Mortal <- ThreeProcesses
  Provable <- FirstTwo
CHECK_DEADLOCK FALSE
INVARIANTS
  AloneIsNotRefused
  
PROPERTIES
  ImplementsLock
