\* Two pulls of one address, one of another, and a cleaner, each of which may die.
SPECIFICATION Spec
SYMMETRY SameRequest
CONSTANTS
  w1 = w1
  w2 = w2
  w3 = w3
  c1 = c1
  u1 = u1
  u2 = u2
  NONE = NONE
  Pull <- ThreePulls
  Cleaner = {c1}
  Url <- TwoUrls
  UrlOf <- TwoOfOneUrl
  Size = 2
CHECK_DEADLOCK FALSE
INVARIANTS
  PartIsWhatItSays
  FinishedIsWhole
  TransferKeepsItsFile
  RunningKeepsItsRecord
  NothingIsForgotten
