SPECIFICATION FairSpec
CONSTANTS
  Goroutine = {g1, g2}
  Bank = {b1, b2}
  CentralBank = CentralBank
  None = None
  Served <- AllRequests
INVARIANTS
  TypeOK
  NoCircularWait
PROPERTY RequestsAnswered
