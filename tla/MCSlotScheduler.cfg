\* Three replies, one with a budget, on two slots; one exclusive caller.
SPECIFICATION Spec
CONSTANTS
  r1 = r1
  r2 = r2
  r3 = r3
  NONE = NONE
  Stream <- Replies
  i1 = i1
  i2 = i2
  Slot <- TwoSlots
  Caller = {c1}
  Prompt <- Prompts
  Budget <- Budgets
  UnlimitedStep = 1
  Pad = 0
  Base = 2
  GrowBy = 4
  Ceiling = 7
SYMMETRY SlotsAlike
INVARIANTS
  EachReplyInOnePlace
  RecordIsCache
  CellsFit
  PromisesFit
  NoStall
PROPERTIES
  BudgetIsHonoured
  SharesTheModel
CHECK_DEADLOCK FALSE
