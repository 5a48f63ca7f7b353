SPECIFICATION Spec
CONSTANTS
  LedgerId = {l1}
  SubledgerId = {s1}
  cash = cash
  deposits = deposits
  costs = costs
  AccountId = {cash, deposits, costs}
  TypeOf <- MCTypeOf
  key1 = key1
  key2 = key2
  Key = {key1, key2}
  NoKey = NoKey
  Date = {1, 2}
  NoDate = NoDate
  Request <- MCRequest
  HalfRange = 64
  MaxTransactions = 4
PROPERTY AuditImmutable
CHECK_DEADLOCK FALSE
