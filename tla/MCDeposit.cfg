SPECIFICATION MCSpec
CONSTANTS
  Account = {bob}
  alice = alice
  bob = bob
  Limit <- MCLimit
  HoldSum = {0, 1}
  CaptureSum = {0, 2}
  PaymentSum = {1}
  CreditSum = {1}
  DebitSum = {1}
  Expiry = {0}
  NoExpiry = NoExpiry
  BusinessDate = {day1}
  day1 = day1
  Other = Other
  MaxTime = 1
  MaxHolds = 2
  MaxFunds = 2
INVARIANTS
  TypeOK
  LockProtects
  HoldSettlesOnce
PROPERTIES
  ChecksStayTrue
  OverdrawnOnlyByOverride
  SnapshotWasSo
CHECK_DEADLOCK FALSE
