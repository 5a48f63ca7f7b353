SPECIFICATION Spec
CONSTANTS
  Shown <- MCShown
  MaxAttempts = 2
  MaxSittings = 3
INVARIANTS
  OncePerSitting
  FinalOnce
  SuccessDisarms
  OffersExact
  NothingMalformed
PROPERTIES
  NoLateMove
CHECK_DEADLOCK FALSE
