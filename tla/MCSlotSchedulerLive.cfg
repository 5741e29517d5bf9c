\* Two replies without a budget, on two slots; one exclusive caller.
SPECIFICATION FairSpec
CONSTANTS
  r1 = r1
  r2 = r2
  r3 = r3
  NONE = NONE
  Stream <- TwoReplies
  i1 = i1
  i2 = i2
  Slot <- TwoSlots
  Caller = {c1}
  Prompt <- Prompts
  Budget <- Budgets
  UnlimitedStep = 1
  Pad = 0
  Base = 2
  GrowBy = 2
  Ceiling = 5
PROPERTIES
  EveryReplyEnds
  CancelledEnds
CHECK_DEADLOCK FALSE
