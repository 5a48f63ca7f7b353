SPECIFICATION LedgerSpec
CONSTANTS
  bankA = bankA
  bankB = bankB
  alice = alice
  bob = bob
  Participant = {bankA, bankB}
  CentralBank = CentralBank
  Account = {alice, bob}
  BankOf <- MCBankOf
  Limit <- MCLimit
  Scheme = {"sepa.ct"}
  Sum = {1}
  MandateMax = {0}
  EndToEnd = {}
  NoEndToEnd = NoEndToEnd
  Managed = {}
  Returnable = {1}
  MaxFunds = 1
  MaxPayments = 2
  MaxCycles = 2
  MaxMandates = 0
  MaxReversals = 2
INVARIANTS
  SuspenseTraced
  ReserveTraced
CHECK_DEADLOCK FALSE
