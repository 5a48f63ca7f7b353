SPECIFICATION ConsoleSpec
CONSTANTS
  b1 = b1
  b2 = b2
  Bank <- MCBank
  Id = Id
  NoData = NoData
  Idle = Idle
  Asked = Asked
  MaxMutations = 2
  MaxViews = 1
INVARIANTS
  ViewsFollow
SYMMETRY
  MCSymmetry
CHECK_DEADLOCK FALSE
