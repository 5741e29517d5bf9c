\* Two streams that may queue, crash, hang or be stopped; no symmetry.
SPECIFICATION FairSpec
CONSTANTS
  r1 = r1
  r2 = r2
  NONE = NONE
  Reader <- TwoReaders
  Asker = {}
  MaxTokens = 1
PROPERTIES
  EveryCallEnds
CHECK_DEADLOCK FALSE
