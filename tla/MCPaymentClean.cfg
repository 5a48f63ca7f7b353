SPECIFICATION FairSpec
CONSTANTS
  bankA = bankA
  bankB = bankB
  alice = alice
  anna = anna
  bob = bob
  Participant = {bankA, bankB}
  CentralBank = CentralBank
  Account = {alice, bob}
  BankOf <- MCBankOf
  Limit <- NoOverdraft
  Scheme = {"sepa.ct", "sepa.dd"}
  Sum = {1, 2}
  MandateMax = {1}
  EndToEnd = {}
  NoEndToEnd = NoEndToEnd
  Managed = {bob}
  Returnable = {}
  MaxFunds = 2
  MaxPayments = 2
  MaxCycles = 2
  MaxMandates = 1
INVARIANTS
  SuspenseExact
PROPERTY ClosedCycleSettles
CHECK_DEADLOCK FALSE
