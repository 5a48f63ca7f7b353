SPECIFICATION FairSpec
CONSTANTS
  bankA = bankA
  bankB = bankB
  alice = alice
  anna = anna
  bob = bob
  Participant = {bankA, bankB}
  CentralBank = CentralBank
  Account = {alice, bob}
  BankOf <- MCBankOf
  Limit <- AliceOverdraft
  Scheme = {"sepa.ct"}
  Sum = {1, 2}
  MandateMax = {0}
  EndToEnd = {}
  NoEndToEnd = NoEndToEnd
  Managed = {}
  Returnable = {}
  MaxFunds = 2
  MaxPayments = 1
  MaxCycles = 1
  MaxMandates = 0
PROPERTY ClosedCycleSettles
CHECK_DEADLOCK FALSE
