\* Two streams and a token count, replies of at most one token.
SPECIFICATION Spec
SYMMETRY ReadersAlike
CONSTANTS
  r1 = r1
  r2 = r2
  NONE = NONE
  Reader <- TwoReaders
  Asker = {a1}
  MaxTokens = 1
INVARIANTS
  TypeOK
  OwnEnvelopes
  CancelsAreExact
PROPERTIES
  WholeReplies
CHECK_DEADLOCK FALSE
