SPECIFICATION Spec
CONSTANTS
  bankA = bankA
  bankB = bankB
  alice = alice
  anna = anna
  bob = bob
  Participant = {bankA, bankB}
  CentralBank = CentralBank
  Account = {alice, bob}
  BankOf <- MCBankOf
  Limit <- AliceOverdraft
  Scheme = {"sepa.ct"}
  Sum = {1, 2}
  MandateMax = {0}
  EndToEnd = {e1}
  NoEndToEnd = NoEndToEnd
  Managed = {}
  Returnable = {1, 2, 3}
  MaxFunds = 2
  MaxPayments = 3
  MaxCycles = 2
  MaxMandates = 0
INVARIANTS
  TypeOK
  CycleAgreement
  LegsAgree
  EndToEndOnce
  BooksBalance
  NetsSumToZero
  SuspenseExact
  MirrorExact
PROPERTIES
  OverdrawnOnlyByReturn
  ImplementsTransfers
CHECK_DEADLOCK FALSE
