------------------------------- MODULE Ledger -------------------------------
(***************************************************************************)
(* The general ledger: package ledger, type Book (src/service.go).         *)
(*                                                                         *)
(* A Book holds a chart of accounts (ledgers, subledgers, accounts), the   *)
(* posted transactions, an index of the idempotency keys already used and  *)
(* an audit log.  One mutex serialises its methods, so each method is one  *)
(* action; a call the code refuses changes nothing and is a stutter.       *)
(*                                                                         *)
(* A transaction ID is the transaction's position in `transactions`: the   *)
(* code never removes one and hands out IDs from a counter.  Balances are  *)
(* not stored: BookBalance replays every entry ever posted.                *)
(***************************************************************************)
EXTENDS Integers, Sequences, Functions

CONSTANTS
  LedgerId, SubledgerId, AccountId,  \* the IDs nextID can hand out
  TypeOf,                            \* the type the client opening an account gives it
  Key,                               \* idempotency keys clients choose
  NoKey,                             \* "", no idempotency key given
  Date,                              \* instants the clock can show
  NoDate,                            \* the zero time.Time, no date given
  Request,                           \* the calls clients make to PostTransaction
  HalfRange,                         \* an Amount lies in -HalfRange..HalfRange-1
  MaxTransactions                    \* bound: transactions in one behaviour

VARIABLES
  ledgers,           \* the ledger IDs created
  subledgers,        \* subledger ID -> its ledger
  accounts,          \* account ID -> its subledger and type
  transactions,      \* the transactions, in the order of their IDs
  idempotencyIndex,  \* key -> position of the transaction posted under it
  auditLog           \* the audit events, oldest first

chart == <<ledgers, subledgers, accounts>>
vars == <<ledgers, subledgers, accounts, transactions, idempotencyIndex, auditLog>>

AccountType == {"Asset", "Liability", "Equity", "Revenue", "Expense"}
Direction == {"Debit", "Credit"}
Amount == -HalfRange .. HalfRange - 1
Entry == [account: AccountId, amount: Amount, direction: Direction]

(* The account types checkSufficientBalance does not let go below zero. *)
Checked == {"Asset", "Expense"}

ASSUME HalfRangeAssumption == HalfRange \in Nat \ {0}

ASSUME MaxTransactionsAssumption == MaxTransactions \in Nat

ASSUME TypeOfAssumption == TypeOf \in [AccountId -> AccountType]

ASSUME SentinelAssumption == NoKey \notin Key /\ NoDate \notin Date

ASSUME RequestAssumption ==
  Request \subseteq [entries: Seq(Entry), key: Key \cup {NoKey},
                     bookingDate: Date \cup {NoDate}, valueDate: Date \cup {NoDate}]
-----------------------------------------------------------------------------
(* Amount arithmetic: int64 sums wrap around. *)
Wrap(n) == ((n + HalfRange) % (2 * HalfRange)) - HalfRange

(* m[k] = v for a Go map m. *)
Put(m, k, v) == [x \in DOMAIN m \cup {k} |-> IF x = k THEN v ELSE m[x]]

(* Fault: Liability falls through to the zero value of Direction. *)
NormalBalanceZero(type) == IF type \in {"Equity", "Revenue"} THEN "Credit" ELSE "Debit"

NormalBalance(type) == IF type \in Checked THEN "Debit" ELSE "Credit"

Opposite(d) == IF d = "Debit" THEN "Credit" ELSE "Debit"

(* The amounts of the entries on side d, zero elsewhere. *)
Side(entries, d) ==
  [i \in DOMAIN entries |-> IF entries[i].direction = d THEN entries[i].amount ELSE 0]

ValidateBalance(entries) ==
  Wrap(SumFunction(Side(entries, "Debit"))) = Wrap(SumFunction(Side(entries, "Credit")))

(* What the entries do to account a of a type, positive in its normal direction. *)
ImpactOf(type, a, entries) ==
  Wrap(SumFunction([i \in DOMAIN entries |->
    IF entries[i].account # a THEN 0
    ELSE IF entries[i].direction = NormalBalance(type) THEN entries[i].amount
         ELSE -entries[i].amount]))

Impact(a, entries) == ImpactOf(accounts[a].type, a, entries)

(* Fault: Reversed transactions left out of the replay. *)
BookBalanceOfPosted(a) ==
  Wrap(SumFunction([t \in DOMAIN transactions |->
    IF transactions[t].status = "Posted" THEN Impact(a, transactions[t].entries) ELSE 0]))

(* All transactions count, the Reversed ones included. *)
BookBalance(a) ==
  Wrap(SumFunction([t \in DOMAIN transactions |-> Impact(a, transactions[t].entries)]))

(* Fault: each entry checked alone, not the net of the account's entries. *)
CheckEachEntry(entries) ==
  \A i \in DOMAIN entries :
    LET a == entries[i].account
        delta == Impact(a, <<entries[i]>>)
    IN  (accounts[a].type \in Checked /\ delta < 0) => Wrap(BookBalance(a) + delta) >= 0

CheckSufficientBalance(entries) ==
  \A a \in {entries[i].account : i \in DOMAIN entries} :
    LET delta == Impact(a, entries)
    IN  (accounts[a].type \in Checked /\ delta < 0) => Wrap(BookBalance(a) + delta) >= 0

(* Fault: only the first entry flipped. *)
FlipFirst(entries) == [entries EXCEPT ![1].direction = Opposite(@)]

(* The entries of a reversal: every direction flipped. *)
Flip(entries) ==
  [i \in DOMAIN entries |-> [entries[i] EXCEPT !.direction = Opposite(@)]]

(* Faults: the checks forgotten. *)
AnySubledger(id) == TRUE
AnyKey(key) == TRUE
ReverseAgain(tx) == TRUE

(* The check of CreateAccount. *)
SubledgerExists(id) == id \in DOMAIN subledgers

(* The idempotency check of PostTransaction, and the one of ReverseTransaction. *)
KeyUnused(key) == key # NoKey => key \notin DOMAIN idempotencyIndex

CanReverse(tx) == transactions[tx].status # "Reversed"

(* The transaction that reverses tx. *)
Reversal(tx, now) ==
  [key |-> NoKey, entries |-> Flip(transactions[tx].entries), bookingDate |-> now,
   valueDate |-> transactions[tx].valueDate, status |-> "Posted", reversalOf |-> tx]

Event(type, entity) == [type |-> type, entity |-> entity, reversal |-> 0]
-----------------------------------------------------------------------------
Init ==
  /\ ledgers = {}
  /\ subledgers = << >>
  /\ accounts = << >>
  /\ transactions = << >>
  /\ idempotencyIndex = << >>
  /\ auditLog = << >>

CreateLedger(id) ==
  /\ id \notin ledgers
  /\ ledgers' = ledgers \cup {id}
  /\ auditLog' = Append(auditLog, Event("ledger.created", id))
  /\ UNCHANGED <<subledgers, accounts, transactions, idempotencyIndex>>

CreateSubledger(id, ledger) ==
  /\ id \notin DOMAIN subledgers
  /\ ledger \in ledgers
  /\ subledgers' = Put(subledgers, id, ledger)
  /\ auditLog' = Append(auditLog, Event("subledger.created", id))
  /\ UNCHANGED <<ledgers, accounts, transactions, idempotencyIndex>>

CreateAccount(id, subledger) ==
  /\ id \notin DOMAIN accounts
  /\ SubledgerExists(subledger)
  /\ accounts' = Put(accounts, id, [subledger |-> subledger, type |-> TypeOf[id]])
  /\ auditLog' = Append(auditLog, Event("account.created", id))
  /\ UNCHANGED <<ledgers, subledgers, transactions, idempotencyIndex>>

PostTransaction(req, now) ==
  LET entries == req.entries
      bookingDate == IF req.bookingDate = NoDate THEN now ELSE req.bookingDate
      valueDate == IF req.valueDate = NoDate THEN bookingDate ELSE req.valueDate
      id == Len(transactions) + 1
  IN  /\ id <= MaxTransactions
      /\ entries # << >>
      /\ \A i \in DOMAIN entries : entries[i].amount > 0
      /\ \A i \in DOMAIN entries : entries[i].account \in DOMAIN accounts
      /\ KeyUnused(req.key)
      /\ ValidateBalance(entries)
      /\ CheckSufficientBalance(entries)
      /\ transactions' = Append(transactions,
           [key |-> req.key, entries |-> entries, bookingDate |-> bookingDate,
            valueDate |-> valueDate, status |-> "Posted", reversalOf |-> 0])
      /\ idempotencyIndex' = IF req.key = NoKey THEN idempotencyIndex
                             ELSE Put(idempotencyIndex, req.key, id)
      /\ auditLog' = Append(auditLog, Event("transaction.posted", id))
      /\ UNCHANGED chart

(* No balance check, and a reversal may be reversed in its turn. *)
ReverseTransaction(tx, now) ==
  LET id == Len(transactions) + 1
  IN  /\ id <= MaxTransactions
      /\ CanReverse(tx)
      /\ transactions' = Append([transactions EXCEPT ![tx].status = "Reversed"],
                                Reversal(tx, now))
      /\ auditLog' = Append(auditLog,
           [type |-> "transaction.reversed", entity |-> tx, reversal |-> id])
      /\ UNCHANGED <<ledgers, subledgers, accounts, idempotencyIndex>>

Next ==
  \/ \E id \in LedgerId : CreateLedger(id)
  \/ \E id \in SubledgerId, ledger \in LedgerId : CreateSubledger(id, ledger)
  \/ \E id \in AccountId, subledger \in SubledgerId : CreateAccount(id, subledger)
  \/ \E req \in Request, now \in Date : PostTransaction(req, now)
  \/ \E tx \in DOMAIN transactions, now \in Date : ReverseTransaction(tx, now)

Spec == Init /\ [][Next]_vars
-----------------------------------------------------------------------------
(* Types, and the references between the maps: a subledger's ledger, an     *)
(* account's subledger and an entry's account exist (service.go:150, 196,   *)
(* 309).                                                                    *)
TypeOK ==
  /\ ledgers \subseteq LedgerId
  /\ DOMAIN subledgers \subseteq SubledgerId
  /\ \A s \in DOMAIN subledgers : subledgers[s] \in ledgers
  /\ DOMAIN accounts \subseteq AccountId
  /\ \A a \in DOMAIN accounts :
       accounts[a] \in [subledger: DOMAIN subledgers, type: AccountType]
  /\ transactions \in Seq([key: Key \cup {NoKey}, entries: Seq(Entry), bookingDate: Date,
                           valueDate: Date, status: {"Posted", "Reversed"}, reversalOf: Nat])
  /\ \A t \in DOMAIN transactions : \A i \in DOMAIN transactions[t].entries :
       transactions[t].entries[i].account \in DOMAIN accounts
  /\ DOMAIN idempotencyIndex \subseteq Key
  /\ \A k \in DOMAIN idempotencyIndex : idempotencyIndex[k] \in DOMAIN transactions

(* Every transaction on the books balances: those clients post, which       *)
(* validateBalance checks, and the reversals, which nothing checks          *)
(* (service.go:324, 503-510).                                               *)
DoubleEntry == \A t \in DOMAIN transactions : ValidateBalance(transactions[t].entries)

(* A transaction is Reversed exactly when one reversal names it, and only   *)
(* one ever does; the reversal undoes it entry by entry, on the same value  *)
(* date, also when the original is itself a reversal (service.go:487-531).  *)
ReversalLinks ==
  /\ \A t \in DOMAIN transactions :
       (transactions[t].status = "Reversed") <=>
         \E r \in DOMAIN transactions : transactions[r].reversalOf = t
  /\ \A r \in DOMAIN transactions : transactions[r].reversalOf # 0 =>
       LET original == transactions[transactions[r].reversalOf]
       IN  /\ transactions[r].reversalOf \in 1 .. r - 1
           /\ transactions[r].entries = Flip(original.entries)
           /\ transactions[r].valueDate = original.valueDate
           /\ transactions[r].key = NoKey
  /\ \A r1, r2 \in DOMAIN transactions :
       (transactions[r1].reversalOf = transactions[r2].reversalOf
          /\ transactions[r1].reversalOf # 0) => r1 = r2

(* A key is posted under at most once, whatever happens to the transaction  *)
(* later, and the index finds exactly that transaction (service.go:317-321, *)
(* 364-366).                                                                *)
IdempotencyExact ==
  /\ \A k \in DOMAIN idempotencyIndex : transactions[idempotencyIndex[k]].key = k
  /\ \A t \in DOMAIN transactions : transactions[t].key # NoKey =>
       /\ transactions[t].key \in DOMAIN idempotencyIndex
       /\ idempotencyIndex[transactions[t].key] = t

(* The accounting equation over the whole book: assets and expenses are     *)
(* what liabilities, equity and revenue are (service.go:19-21).             *)
BalanceSheet ==
  LET Holding(types) == SumFunction([a \in DOMAIN accounts |->
                          IF accounts[a].type \in types THEN BookBalance(a) ELSE 0])
  IN  Wrap(Holding({"Asset", "Expense"})) = Wrap(Holding({"Liability", "Equity", "Revenue"}))

(* The entries an audit event stands for. *)
Recorded(event) ==
  IF event.type = "transaction.posted" THEN transactions[event.entity].entries
  ELSE IF event.type = "transaction.reversed" THEN Flip(transactions[event.entity].entries)
  ELSE << >>

(* Replaying the audit log gives every account's book balance               *)
(* (service.go:604-605, 574-592).                                           *)
AuditReconciles ==
  \A a \in DOMAIN accounts :
    BookBalance(a) =
      Wrap(SumFunction([i \in DOMAIN auditLog |-> Impact(a, Recorded(auditLog[i]))]))
-----------------------------------------------------------------------------
(* What a reader of the audit log sees: the payload of a posted event is a  *)
(* pointer to the live transaction (service.go:368, 610-619).               *)
AuditView ==
  [i \in DOMAIN auditLog |->
    <<auditLog[i],
      IF auditLog[i].type = "transaction.posted" THEN transactions[auditLog[i].entity] ELSE << >>>>]

(* service.go:42-43 of the audit log: "Once appended, entries are never     *)
(* modified or removed."                                                    *)
AuditImmutable == [][\A i \in DOMAIN AuditView : AuditView'[i] = AuditView[i]]_vars
=============================================================================
