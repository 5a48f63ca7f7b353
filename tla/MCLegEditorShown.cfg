SPECIFICATION Spec
CONSTANTS
  Account = {a1}
  NoAccount = NoAccount
  Cents <- MCSmallCents
  Infinity = Infinity
  Null = Null
  NoCall = NoCall
  Typed <- MCSmallTyped
  MaxLegs = 3
  Safe = 8
  MaxDouble = 24
  HalfRange = 16
INVARIANTS
  ShownIsSent
CHECK_DEADLOCK FALSE
