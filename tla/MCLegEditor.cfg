SPECIFICATION Spec
CONSTANTS
  Account = {a1}
  NoAccount = NoAccount
  Cents <- MCCents
  Infinity = Infinity
  Null = Null
  NoCall = NoCall
  Typed <- MCTyped
  MaxLegs = 3
  Safe = 8
  MaxDouble = 24
  HalfRange = 16
INVARIANTS
  TypeOK
  SentPostable
PROPERTIES
  OnlyRemovalParts
CHECK_DEADLOCK FALSE
