---------------------------- MODULE LedgerProofs ----------------------------
(***************************************************************************)
(* What the ledger guarantees for every chart of accounts, set of keys,    *)
(* requests and integer width.                                             *)
(***************************************************************************)
EXTENDS MCLedger, Sums, TLAPS, SequenceTheorems

Transaction == [key: Key \cup {NoKey}, entries: Seq(Entry), bookingDate: Date,
                valueDate: Date, status: {"Posted", "Reversed"}, reversalOf: Nat]

(* A flipped entry list is an entry list, over the same accounts. *)
LEMMA FlipType ==
  ASSUME NEW entries \in Seq(Entry)
  PROVE  /\ Flip(entries) \in Seq(Entry)
         /\ DOMAIN Flip(entries) = DOMAIN entries
         /\ \A i \in DOMAIN entries : Flip(entries)[i].account = entries[i].account
<1>1. PICK n \in Nat : entries \in [1 .. n -> Entry]
  BY SeqDef
<1>2. \A i \in 1 .. n : [entries[i] EXCEPT !.direction = Opposite(@)] \in Entry
  BY <1>1 DEF Entry, Direction, Opposite
<1>3. Flip(entries) \in [1 .. n -> Entry]
  BY <1>1, <1>2 DEF Flip
<1>4. \A i \in DOMAIN entries : Flip(entries)[i].account = entries[i].account
  BY <1>1 DEF Flip, Entry
<1> QED
  BY <1>1, <1>3, <1>4, SeqDef DEF Flip

(* Flipping swaps the two sides of an entry list. *)
LEMMA FlipSides ==
  ASSUME NEW entries \in Seq(Entry)
  PROVE  /\ Side(Flip(entries), "Debit") = Side(entries, "Credit")
         /\ Side(Flip(entries), "Credit") = Side(entries, "Debit")
<1>1. PICK n \in Nat : entries \in [1 .. n -> Entry]
  BY SeqDef
<1>2. \A i \in 1 .. n :
        /\ Flip(entries)[i].amount = entries[i].amount
        /\ Flip(entries)[i].direction = Opposite(entries[i].direction)
        /\ entries[i].direction \in Direction
  BY <1>1 DEF Flip, Entry
<1>3. DOMAIN Flip(entries) = 1 .. n /\ DOMAIN entries = 1 .. n
  BY <1>1 DEF Flip
<1> QED
  BY <1>2, <1>3 DEF Side, Opposite, Direction

(* The reversal of a balanced transaction is balanced. *)
LEMMA FlipBalanced ==
  ASSUME NEW entries \in Seq(Entry), ValidateBalance(entries)
  PROVE  ValidateBalance(Flip(entries))
BY FlipSides DEF ValidateBalance
-----------------------------------------------------------------------------
(* What one posting does to the list of transactions. *)
LEMMA AppendedTo ==
  ASSUME NEW S, NEW seq \in Seq(S), NEW e \in S
  PROVE  /\ Append(seq, e) \in Seq(S)
         /\ Len(Append(seq, e)) = Len(seq) + 1
         /\ DOMAIN Append(seq, e) = DOMAIN seq \cup {Len(seq) + 1}
         /\ \A i \in DOMAIN seq : Append(seq, e)[i] = seq[i]
         /\ Append(seq, e)[Len(seq) + 1] = e
         /\ DOMAIN seq = 1 .. Len(seq) /\ Len(seq) \in Nat
OBVIOUS

(* The stored transactions have their type one by one. *)
LEMMA StoredTransactions ==
  ASSUME TypeOK
  PROVE  /\ transactions \in Seq(Transaction)
         /\ \A t \in DOMAIN transactions : transactions[t] \in Transaction
<1>1. transactions \in Seq(Transaction)
  BY DEF TypeOK, Transaction
<1> QED
  BY <1>1, ElementOfSeq, LenProperties

(* The transactions after a successful PostTransaction. *)
LEMMA PostStep ==
  ASSUME TypeOK, NEW req \in Request, NEW now \in Date, PostTransaction(req, now)
  PROVE  /\ transactions' \in Seq(Transaction)
         /\ DOMAIN transactions' = DOMAIN transactions \cup {Len(transactions) + 1}
         /\ DOMAIN transactions = 1 .. Len(transactions) /\ Len(transactions) \in Nat
         /\ \A t \in DOMAIN transactions : transactions'[t] = transactions[t]
         /\ transactions'[Len(transactions) + 1].entries = req.entries
         /\ transactions'[Len(transactions) + 1].key = req.key
         /\ transactions'[Len(transactions) + 1].status = "Posted"
         /\ transactions'[Len(transactions) + 1].reversalOf = 0
         /\ req.entries \in Seq(Entry) /\ req.key \in Key \cup {NoKey}
<1> DEFINE bookingDate == IF req.bookingDate = NoDate THEN now ELSE req.bookingDate
           valueDate == IF req.valueDate = NoDate THEN bookingDate ELSE req.valueDate
           new == [key |-> req.key, entries |-> req.entries, bookingDate |-> bookingDate,
                   valueDate |-> valueDate, status |-> "Posted", reversalOf |-> 0]
<1>1. req \in [entries: Seq(Entry), key: Key \cup {NoKey},
               bookingDate: Date \cup {NoDate}, valueDate: Date \cup {NoDate}]
  BY RequestAssumption
<1>2. bookingDate \in Date /\ valueDate \in Date
  BY <1>1
<1>3. new \in Transaction
  BY <1>1, <1>2 DEF Transaction
<1>4. transactions \in Seq(Transaction)
  BY DEF TypeOK, Transaction
<1>5. transactions' = Append(transactions, new)
  BY DEF PostTransaction
<1> QED
  BY <1>1, <1>3, <1>4, <1>5, AppendedTo

(* The transactions after a successful ReverseTransaction. *)
LEMMA ReverseStep ==
  ASSUME TypeOK, NEW tx \in DOMAIN transactions, NEW now \in Date,
         ReverseTransaction(tx, now)
  PROVE  /\ transactions' \in Seq(Transaction)
         /\ DOMAIN transactions' = DOMAIN transactions \cup {Len(transactions) + 1}
         /\ DOMAIN transactions = 1 .. Len(transactions) /\ Len(transactions) \in Nat
         /\ \A t \in DOMAIN transactions :
              transactions'[t] = IF t = tx THEN [transactions[t] EXCEPT !.status = "Reversed"]
                                 ELSE transactions[t]
         /\ transactions'[Len(transactions) + 1] = Reversal(tx, now)
         /\ Reversal(tx, now) \in Transaction
<1> DEFINE marked == [transactions EXCEPT ![tx].status = "Reversed"]
<1>1. transactions \in Seq(Transaction)
  BY StoredTransactions
<1>2. transactions[tx] \in Transaction
  BY StoredTransactions
<1>3. [transactions[tx] EXCEPT !.status = "Reversed"] \in Transaction
  BY <1>2 DEF Transaction
<1>4. /\ marked \in Seq(Transaction)
      /\ Len(marked) = Len(transactions)
      /\ \A t \in DOMAIN transactions :
           marked[t] = IF t = tx THEN [transactions[t] EXCEPT !.status = "Reversed"]
                       ELSE transactions[t]
  BY <1>1, <1>3, ExceptSeq, LenProperties
<1>5. Reversal(tx, now) \in Transaction
  <2>1. Flip(transactions[tx].entries) \in Seq(Entry)
    BY <1>2, FlipType DEF Transaction
  <2>2. tx \in Nat
    BY <1>1, LenProperties
  <2> QED
    BY <1>2, <2>1, <2>2 DEF Reversal, Transaction
<1>6. transactions' = Append(marked, Reversal(tx, now))
  BY DEF ReverseTransaction
<1>7. DOMAIN marked = DOMAIN transactions
  BY <1>1, <1>4, LenProperties
<1> QED
  BY <1>1, <1>4, <1>5, <1>6, <1>7, AppendedTo
-----------------------------------------------------------------------------
(* The empty book is well typed. *)
LEMMA InitTypeOK == Init => TypeOK
BY DEF Init, TypeOK

(* Every step keeps the types and the references. *)
LEMMA NextTypeOK == TypeOK /\ [Next]_vars => TypeOK'
<1> SUFFICES ASSUME TypeOK, [Next]_vars PROVE TypeOK'
  OBVIOUS
<1>1. ASSUME NEW id \in LedgerId, CreateLedger(id) PROVE TypeOK'
  BY <1>1 DEF TypeOK, CreateLedger
<1>2. ASSUME NEW id \in SubledgerId, NEW ledger \in LedgerId, CreateSubledger(id, ledger)
      PROVE  TypeOK'
  BY <1>2 DEF TypeOK, CreateSubledger, Put
<1>3. ASSUME NEW id \in AccountId, NEW subledger \in SubledgerId, CreateAccount(id, subledger)
      PROVE  TypeOK'
  BY <1>3, TypeOfAssumption DEF TypeOK, CreateAccount, SubledgerExists, Put
<1>4. ASSUME NEW req \in Request, NEW now \in Date, PostTransaction(req, now)
      PROVE  TypeOK'
  <2>1. UNCHANGED <<ledgers, subledgers, accounts>>
    BY <1>4 DEF PostTransaction, chart
  <2>2. \A t \in DOMAIN transactions' : \A i \in DOMAIN transactions'[t].entries :
          transactions'[t].entries[i].account \in DOMAIN accounts
    BY <1>4, PostStep DEF PostTransaction, TypeOK
  <2>3. /\ DOMAIN idempotencyIndex' \subseteq Key
        /\ \A k \in DOMAIN idempotencyIndex' :
             idempotencyIndex'[k] \in DOMAIN transactions'
    BY <1>4, PostStep DEF PostTransaction, TypeOK, Put
  <2> QED
    BY <1>4, <2>1, <2>2, <2>3, PostStep DEF TypeOK, Transaction
<1>5. ASSUME NEW tx \in DOMAIN transactions, NEW now \in Date, ReverseTransaction(tx, now)
      PROVE  TypeOK'
  <2>1. UNCHANGED <<ledgers, subledgers, accounts, idempotencyIndex>>
    BY <1>5 DEF ReverseTransaction
  <2>2. transactions[tx] \in Transaction
    BY StoredTransactions
  <2>3. \A t \in DOMAIN transactions : transactions'[t].entries = transactions[t].entries
    BY <1>5, <2>2, ReverseStep DEF Transaction
  <2>4. \A i \in DOMAIN Flip(transactions[tx].entries) :
          Flip(transactions[tx].entries)[i].account \in DOMAIN accounts
    BY <1>5, <2>2, FlipType DEF Transaction, TypeOK
  <2>5. \A t \in DOMAIN transactions' : \A i \in DOMAIN transactions'[t].entries :
          transactions'[t].entries[i].account \in DOMAIN accounts
    <3>1. transactions'[Len(transactions) + 1].entries = Flip(transactions[tx].entries)
      <4>1. transactions'[Len(transactions) + 1] = Reversal(tx, now)
        BY <1>5, ReverseStep
      <4> QED
        BY <4>1 DEF Reversal
    <3>2. \A t \in DOMAIN transactions : \A i \in DOMAIN transactions'[t].entries :
            transactions'[t].entries[i].account \in DOMAIN accounts
      <4> TAKE t \in DOMAIN transactions
      <4>1. transactions'[t].entries = transactions[t].entries
        BY <2>3
      <4> QED
        BY <4>1 DEF TypeOK
    <3>3. DOMAIN transactions' = DOMAIN transactions \cup {Len(transactions) + 1}
      BY <1>5, ReverseStep
    <3> QED
      BY <2>4, <3>1, <3>2, <3>3
  <2> QED
    BY <1>5, <2>1, <2>5, ReverseStep DEF TypeOK, Transaction
<1>6. CASE UNCHANGED vars
  BY <1>6 DEF TypeOK, vars
<1> QED
  BY <1>1, <1>2, <1>3, <1>4, <1>5, <1>6 DEF Next

(* The book stays well-typed and its references stay resolvable. *)
THEOREM TypeCorrect == Spec => []TypeOK
BY InitTypeOK, NextTypeOK, PTL DEF Spec
-----------------------------------------------------------------------------
(* Steps other than a posting or a reversal keep the transactions and the   *)
(* index.                                                                   *)
ChartStep == UNCHANGED <<transactions, idempotencyIndex>>

(* What a step does to the transactions and the index. *)
LEMMA NextCases ==
  ASSUME [Next]_vars
  PROVE  \/ ChartStep
         \/ \E req \in Request, now \in Date : PostTransaction(req, now)
         \/ \E tx \in DOMAIN transactions, now \in Date : ReverseTransaction(tx, now)
BY DEF Next, vars, ChartStep, CreateLedger, CreateSubledger, CreateAccount

(* A posting balances because it was checked, a reversal because it is flipped. *)
LEMMA NextDoubleEntry == TypeOK /\ DoubleEntry /\ [Next]_vars => DoubleEntry'
<1> SUFFICES ASSUME TypeOK, DoubleEntry, [Next]_vars,
                    NEW t \in DOMAIN transactions'
             PROVE  ValidateBalance(transactions'[t].entries)
  BY DEF DoubleEntry, ValidateBalance, Side, Wrap
<1>1. CASE ChartStep
  BY <1>1 DEF ChartStep, DoubleEntry
<1>2. ASSUME NEW req \in Request, NEW now \in Date, PostTransaction(req, now)
      PROVE  ValidateBalance(transactions'[t].entries)
  <2>1. ValidateBalance(req.entries)
    BY <1>2 DEF PostTransaction
  <2> QED
    BY <1>2, <2>1, PostStep DEF DoubleEntry
<1>3. ASSUME NEW tx \in DOMAIN transactions, NEW now \in Date, ReverseTransaction(tx, now)
      PROVE  ValidateBalance(transactions'[t].entries)
  <2>1. transactions[tx].entries \in Seq(Entry)
    BY StoredTransactions DEF Transaction
  <2>2. ValidateBalance(Flip(transactions[tx].entries))
    BY <2>1, FlipBalanced DEF DoubleEntry
  <2>3. CASE t = Len(transactions) + 1
    <3>1. transactions'[t] = Reversal(tx, now)
      BY <1>3, <2>3, ReverseStep
    <3>2. transactions'[t].entries = Flip(transactions[tx].entries)
      BY <3>1 DEF Reversal
    <3> QED
      BY <2>2, <3>2
  <2>4. CASE t \in DOMAIN transactions
    <3>1. transactions'[t].entries = transactions[t].entries
      BY <1>3, <2>4, ReverseStep, StoredTransactions DEF Transaction
    <3> QED
      BY <2>4, <3>1 DEF DoubleEntry
  <2> QED
    BY <1>3, <2>3, <2>4, ReverseStep
<1> QED
  BY <1>1, <1>2, <1>3, NextCases

(* Every transaction the book ever holds balances, reversals included. *)
THEOREM DoubleEntryAlways == Spec => []DoubleEntry
<1>1. Init => DoubleEntry
  BY DEF Init, DoubleEntry
<1> QED
  BY <1>1, TypeCorrect, NextDoubleEntry, PTL DEF Spec
-----------------------------------------------------------------------------
(* A key enters the index only if it was unused. *)
LEMMA NextIdempotencyExact == TypeOK /\ IdempotencyExact /\ [Next]_vars => IdempotencyExact'
<1> SUFFICES ASSUME TypeOK, IdempotencyExact, [Next]_vars PROVE IdempotencyExact'
  OBVIOUS
<1>1. CASE ChartStep
  BY <1>1 DEF ChartStep, IdempotencyExact
<1>2. ASSUME NEW req \in Request, NEW now \in Date, PostTransaction(req, now)
      PROVE  IdempotencyExact'
  <2> DEFINE id == Len(transactions) + 1
  <2>0. id \notin DOMAIN transactions
    <3>1. DOMAIN transactions = 1 .. Len(transactions) /\ Len(transactions) \in Nat
      BY <1>2, PostStep
    <3> QED
      BY <3>1
  <2>1. /\ DOMAIN transactions' = DOMAIN transactions \cup {id}
        /\ \A t \in DOMAIN transactions : transactions'[t] = transactions[t]
        /\ transactions'[id].key = req.key
        /\ req.key \in Key \cup {NoKey}
    BY <1>2, PostStep
  <2>2. DOMAIN idempotencyIndex \subseteq Key
    BY DEF TypeOK
  <2>3. CASE req.key = NoKey
    <3>1. idempotencyIndex' = idempotencyIndex
      BY <1>2, <2>3 DEF PostTransaction
    <3> QED
      BY <2>0, <2>1, <2>3, <3>1 DEF IdempotencyExact, TypeOK
  <2>4. CASE req.key # NoKey
    <3>1. req.key \notin DOMAIN idempotencyIndex
      BY <1>2, <2>4 DEF PostTransaction, KeyUnused
    <3>2. idempotencyIndex' = Put(idempotencyIndex, req.key, id)
      BY <1>2, <2>4 DEF PostTransaction
    <3>3. /\ DOMAIN idempotencyIndex' = DOMAIN idempotencyIndex \cup {req.key}
          /\ idempotencyIndex'[req.key] = id
          /\ \A k \in DOMAIN idempotencyIndex : idempotencyIndex'[k] = idempotencyIndex[k]
      BY <3>1, <3>2 DEF Put
    <3> QED
      BY <2>0, <2>1, <2>4, <3>1, <3>3 DEF IdempotencyExact, TypeOK
  <2> QED
    BY <2>3, <2>4
<1>3. ASSUME NEW tx \in DOMAIN transactions, NEW now \in Date, ReverseTransaction(tx, now)
      PROVE  IdempotencyExact'
  <2>1. /\ idempotencyIndex' = idempotencyIndex
        /\ DOMAIN transactions' = DOMAIN transactions \cup {Len(transactions) + 1}
    BY <1>3, ReverseStep DEF ReverseTransaction
  <2>2. \A t \in DOMAIN transactions : transactions'[t].key = transactions[t].key
    BY <1>3, ReverseStep, StoredTransactions DEF Transaction
  <2>3. transactions'[Len(transactions) + 1].key = NoKey
    <3>1. transactions'[Len(transactions) + 1] = Reversal(tx, now)
      BY <1>3, ReverseStep
    <3> QED
      BY <3>1 DEF Reversal
  <2> QED
    BY <2>1, <2>2, <2>3 DEF IdempotencyExact, TypeOK
<1> QED
  BY <1>1, <1>2, <1>3, NextCases

(* No key is ever posted under twice, and the index is exact. *)
THEOREM IdempotencyAlways == Spec => []IdempotencyExact
<1>1. Init => IdempotencyExact
  BY DEF Init, IdempotencyExact
<1> QED
  BY <1>1, TypeCorrect, NextIdempotencyExact, PTL DEF Spec
-----------------------------------------------------------------------------
(* The three parts of ReversalLinks. *)
ReversedIffNamed ==
  \A t \in DOMAIN transactions :
    (transactions[t].status = "Reversed") <=>
      \E r \in DOMAIN transactions : transactions[r].reversalOf = t

Undoes(r, t) ==
  /\ t \in 1 .. r - 1
  /\ transactions[r].entries = Flip(transactions[t].entries)
  /\ transactions[r].valueDate = transactions[t].valueDate
  /\ transactions[r].key = NoKey

ReversalsUndo ==
  \A r \in DOMAIN transactions :
    transactions[r].reversalOf # 0 => Undoes(r, transactions[r].reversalOf)

NamedOnce ==
  \A r1, r2 \in DOMAIN transactions :
    (transactions[r1].reversalOf = transactions[r2].reversalOf
       /\ transactions[r1].reversalOf # 0) => r1 = r2

(* ReversalLinks, taken apart. *)
LEMMA ReversalLinksParts ==
  ReversalLinks <=> ReversedIffNamed /\ ReversalsUndo /\ NamedOnce
BY DEF ReversalLinks, ReversedIffNamed, ReversalsUndo, NamedOnce, Undoes

(* A posting reverses nothing and is not reversed. *)
LEMMA PostKeepsReversalLinks ==
  ASSUME TypeOK, ReversedIffNamed, ReversalsUndo, NamedOnce,
         NEW req \in Request, NEW now \in Date, PostTransaction(req, now)
  PROVE  ReversedIffNamed' /\ ReversalsUndo' /\ NamedOnce'
<1> DEFINE id == Len(transactions) + 1
<1>1. DOMAIN transactions = 1 .. Len(transactions) /\ Len(transactions) \in Nat
  BY PostStep
<1>2. /\ DOMAIN transactions' = DOMAIN transactions \cup {id}
      /\ \A t \in DOMAIN transactions : transactions'[t] = transactions[t]
      /\ transactions'[id].status = "Posted"
      /\ transactions'[id].reversalOf = 0
  BY PostStep
<1>3. \A r \in DOMAIN transactions :
        transactions[r].reversalOf # 0 => transactions[r].reversalOf \in DOMAIN transactions
  BY <1>1 DEF ReversalsUndo, Undoes
<1> HIDE DEF id
<1>4. id \notin DOMAIN transactions /\ id # 0
  BY <1>1 DEF id
<1>5. \A r \in DOMAIN transactions' : transactions'[r].reversalOf # id
  BY <1>2, <1>3, <1>4
<1>6. ReversedIffNamed'
  <2>1. ASSUME NEW t \in DOMAIN transactions
        PROVE  (\E r \in DOMAIN transactions' : transactions'[r].reversalOf = t)
                 <=> \E r \in DOMAIN transactions : transactions[r].reversalOf = t
    <3>1. t # 0
      BY <1>1
    <3> QED
      BY <1>2, <3>1
  <2> QED
    BY <1>2, <1>5, <2>1 DEF ReversedIffNamed
<1>7. ReversalsUndo'
  <2> SUFFICES ASSUME NEW r \in DOMAIN transactions', transactions'[r].reversalOf # 0
               PROVE  Undoes(r, transactions[r].reversalOf)' /\ r \in DOMAIN transactions
    BY <1>2 DEF ReversalsUndo, Undoes
  <2>1. r \in DOMAIN transactions /\ transactions'[r] = transactions[r]
    BY <1>2
  <2>2. transactions[r].reversalOf \in DOMAIN transactions
    BY <1>3, <2>1
  <2> QED
    BY <1>2, <2>1, <2>2 DEF ReversalsUndo, Undoes
<1>8. NamedOnce'
  BY <1>2 DEF NamedOnce
<1> QED
  BY <1>6, <1>7, <1>8

(* A reversal reverses one transaction, which was not reversed before. *)
LEMMA ReverseKeepsReversalLinks ==
  ASSUME TypeOK, ReversedIffNamed, ReversalsUndo, NamedOnce,
         NEW tx \in DOMAIN transactions, NEW now \in Date, ReverseTransaction(tx, now)
  PROVE  ReversedIffNamed' /\ ReversalsUndo' /\ NamedOnce'
<1> DEFINE id == Len(transactions) + 1
<1>1. DOMAIN transactions = 1 .. Len(transactions) /\ Len(transactions) \in Nat
  BY ReverseStep
<1>2. DOMAIN transactions' = DOMAIN transactions \cup {id}
  BY ReverseStep
<1>3. transactions'[id] = Reversal(tx, now)
  BY ReverseStep
<1>4. /\ transactions'[id].status = "Posted"
      /\ transactions'[id].reversalOf = tx
      /\ transactions'[id].entries = Flip(transactions[tx].entries)
      /\ transactions'[id].valueDate = transactions[tx].valueDate
      /\ transactions'[id].key = NoKey
  BY <1>3 DEF Reversal
<1>5. \A t \in DOMAIN transactions :
        /\ transactions'[t].entries = transactions[t].entries
        /\ transactions'[t].valueDate = transactions[t].valueDate
        /\ transactions'[t].key = transactions[t].key
        /\ transactions'[t].reversalOf = transactions[t].reversalOf
        /\ transactions'[t].status = IF t = tx THEN "Reversed" ELSE transactions[t].status
  <2>1. ASSUME NEW t \in DOMAIN transactions, t # tx
        PROVE  transactions'[t] = transactions[t]
    BY <2>1, ReverseStep
  <2>2. transactions'[tx] = [transactions[tx] EXCEPT !.status = "Reversed"]
    BY ReverseStep
  <2>3. transactions[tx] \in Transaction
    BY StoredTransactions
  <2>4. /\ transactions'[tx].entries = transactions[tx].entries
        /\ transactions'[tx].valueDate = transactions[tx].valueDate
        /\ transactions'[tx].key = transactions[tx].key
        /\ transactions'[tx].reversalOf = transactions[tx].reversalOf
        /\ transactions'[tx].status = "Reversed"
    BY <2>2, <2>3 DEF Transaction
  <2>5. QED BY <2>1, <2>4
<1>6. \A r \in DOMAIN transactions :
        transactions[r].reversalOf # 0 => transactions[r].reversalOf \in DOMAIN transactions
  BY <1>1 DEF ReversalsUndo, Undoes
<1>7. \A r \in DOMAIN transactions : transactions[r].reversalOf # tx
  BY DEF ReverseTransaction, CanReverse, ReversedIffNamed
<1> HIDE DEF id
<1>8. id \notin DOMAIN transactions /\ id # 0 /\ tx \in 1 .. id - 1
  BY <1>1 DEF id
<1>9. ReversedIffNamed'
  <2>1. \A r \in DOMAIN transactions' : transactions'[r].reversalOf # id
    BY <1>2, <1>4, <1>5, <1>6, <1>8
  <2>2. ASSUME NEW t \in DOMAIN transactions, t # tx
        PROVE  (\E r \in DOMAIN transactions' : transactions'[r].reversalOf = t)
                 <=> \E r \in DOMAIN transactions : transactions[r].reversalOf = t
    BY <1>2, <1>4, <1>5, <2>2
  <2>3. ASSUME NEW t \in DOMAIN transactions'
        PROVE  (transactions'[t].status = "Reversed") <=>
                 \E r \in DOMAIN transactions' : transactions'[r].reversalOf = t
    <3>1. CASE t = id
      BY <1>4, <2>1, <3>1
    <3>2. CASE t = tx
      BY <1>2, <1>4, <1>5, <3>2
    <3>3. CASE t \in DOMAIN transactions /\ t # tx
      BY <1>5, <2>2, <3>3 DEF ReversedIffNamed
    <3> QED
      BY <1>2, <3>1, <3>2, <3>3
  <2> QED
    BY <2>3 DEF ReversedIffNamed
<1>10. ReversalsUndo'
  <2>1. ASSUME NEW r \in DOMAIN transactions', transactions'[r].reversalOf # 0
        PROVE  Undoes(r, transactions[r].reversalOf)'
    <3>1. CASE r = id
      BY <1>4, <1>5, <1>8, <3>1 DEF Undoes
    <3>2. CASE r \in DOMAIN transactions
      <4>1. transactions[r].reversalOf \in DOMAIN transactions
        BY <1>5, <1>6, <2>1, <3>2
      <4>2. Undoes(r, transactions[r].reversalOf)
        BY <1>5, <2>1, <3>2 DEF ReversalsUndo
      <4> QED
        BY <1>5, <3>2, <4>1, <4>2 DEF Undoes
    <3> QED
      BY <1>2, <3>1, <3>2
  <2> QED
    BY <2>1 DEF ReversalsUndo, Undoes
<1>11. NamedOnce'
  BY <1>2, <1>4, <1>5, <1>7 DEF NamedOnce
<1> QED
  BY <1>9, <1>10, <1>11

(* Every step keeps the reversal links. *)
LEMMA NextReversalLinks == TypeOK /\ ReversalLinks /\ [Next]_vars => ReversalLinks'
<1> SUFFICES ASSUME TypeOK, ReversalLinks, [Next]_vars
             PROVE  ReversedIffNamed' /\ ReversalsUndo' /\ NamedOnce'
  BY DEF ReversalLinks, ReversedIffNamed, ReversalsUndo, NamedOnce, Undoes
<1>1. ReversedIffNamed /\ ReversalsUndo /\ NamedOnce
  BY ReversalLinksParts
<1>2. CASE ChartStep
  BY <1>1, <1>2 DEF ChartStep, ReversedIffNamed, ReversalsUndo, NamedOnce, Undoes
<1> QED
  BY <1>1, <1>2, NextCases, PostKeepsReversalLinks, ReverseKeepsReversalLinks

(* A transaction is undone at most once, exactly, and on its own value date. *)
THEOREM ReversalLinksAlways == Spec => []ReversalLinks
<1>1. Init => ReversalLinks
  BY DEF Init, ReversalLinks
<1> QED
  BY <1>1, TypeCorrect, NextReversalLinks, PTL DEF Spec

-----------------------------------------------------------------------------
(* Amounts wrap around: what two integers have in common that are stored as *)
(* the same amount.                                                         *)
Same(m, n) == \E k \in Int : m = n + (2 * HalfRange) * k

(* Quotient and remainder. *)
LEMMA Divided ==
  ASSUME NEW n \in Int, NEW d \in Nat \ {0}
  PROVE  n % d \in 0 .. d - 1 /\ n \div d \in Int /\ n = d * (n \div d) + (n % d)
OBVIOUS

LEMMA RemainderUnique ==
  ASSUME NEW q \in Int, NEW p \in Int, NEW d \in Nat \ {0},
         NEW r \in 0 .. d - 1, NEW s \in 0 .. d - 1, d * q + r = d * p + s
  PROVE  r = s
<1>1. ASSUME NEW x \in Int, NEW y \in Int, NEW u \in 0 .. d - 1, NEW v \in 0 .. d - 1,
             d * x + u = d * y + v
      PROVE  ~(x > y)
  <2>1. SUFFICES ASSUME x > y PROVE FALSE
    OBVIOUS
  <2>2. \A a, b \in Nat : a * b \in Nat
    OBVIOUS
  <2>3. x - y - 1 \in Nat
    BY <2>1
  <2>4. d * (x - y - 1) \in Nat
    BY <2>2, <2>3
  <2>5. d * (x - y - 1) = d * x - d * y - d
    OBVIOUS
  <2> QED
    BY <1>1, <2>4, <2>5
<1> QED
  BY <1>1

LEMMA WrapType ==
  ASSUME NEW n \in Int
  PROVE  Wrap(n) \in Int /\ Wrap(n) + HalfRange \in 0 .. 2 * HalfRange - 1
<1>1. n + HalfRange \in Int /\ 2 * HalfRange \in Nat \ {0}
  BY HalfRangeAssumption
<1>2. (n + HalfRange) % (2 * HalfRange) \in 0 .. 2 * HalfRange - 1
  BY <1>1, Divided
<1> QED
  BY <1>2, HalfRangeAssumption DEF Wrap

LEMMA WrapIsSame ==
  ASSUME NEW n \in Int
  PROVE  Same(Wrap(n), n)
<1> DEFINE d == 2 * HalfRange
           q == (n + HalfRange) \div d
           r == (n + HalfRange) % d
<1>1. n + HalfRange \in Int /\ d \in Nat \ {0}
  BY HalfRangeAssumption
<1> HIDE DEF d
<1>2. q \in Int /\ n + HalfRange = d * q + r /\ r \in 0 .. d - 1
  BY <1>1, Divided
<1>3. Wrap(n) = r - HalfRange
  BY DEF Wrap, d
<1> HIDE DEF q, r
<1>4. Wrap(n) = n + d * (-q)
  BY <1>1, <1>2, <1>3, HalfRangeAssumption
<1> QED
  BY <1>2, <1>4 DEF Same, d

(* Two integers wrap to the same amount when they differ by full ranges. *)
LEMMA SameWrap ==
  ASSUME NEW m \in Int, NEW n \in Int
  PROVE  Wrap(m) = Wrap(n) <=> Same(m, n)
<1> DEFINE d == 2 * HalfRange
<1>1. d \in Nat \ {0}
  BY HalfRangeAssumption
<1>2. PICK j \in Int : Wrap(m) = m + d * j
  BY WrapIsSame DEF Same
<1>3. PICK k \in Int : Wrap(n) = n + d * k
  BY WrapIsSame DEF Same
<1>4. /\ Wrap(m) \in Int /\ Wrap(m) + HalfRange \in 0 .. d - 1
      /\ Wrap(n) \in Int /\ Wrap(n) + HalfRange \in 0 .. d - 1
  BY WrapType
<1> HIDE DEF d
<1>5. ASSUME Wrap(m) = Wrap(n) PROVE Same(m, n)
  <2>1. m = n + d * (k - j)
    BY <1>1, <1>2, <1>3, <1>5
  <2> QED
    BY <2>1 DEF Same, d
<1>6. ASSUME Same(m, n) PROVE Wrap(m) = Wrap(n)
  <2>1. PICK i \in Int : m = n + d * i
    BY <1>6 DEF Same, d
  <2>2. d * k + (Wrap(m) + HalfRange) = d * (i + j) + (Wrap(n) + HalfRange)
    BY <1>1, <1>2, <1>3, <1>4, <2>1, HalfRangeAssumption
  <2>3. i + j \in Int
    OBVIOUS
  <2>4. Wrap(m) + HalfRange = Wrap(n) + HalfRange
    BY <1>1, <1>4, <2>2, <2>3, RemainderUnique
  <2> QED
    BY <1>4, <2>4, HalfRangeAssumption
<1> QED
  BY <1>5, <1>6

LEMMA WrapAgain ==
  ASSUME NEW n \in Int
  PROVE  Wrap(Wrap(n)) = Wrap(n)
BY WrapIsSame, WrapType, SameWrap

(* Sums and differences may be taken of the integers or of the amounts. *)
LEMMA WrapPlus ==
  ASSUME NEW m \in Int, NEW n \in Int, NEW k \in Int, NEW l \in Int,
         Wrap(m) = Wrap(n), Wrap(k) = Wrap(l)
  PROVE  Wrap(m + k) = Wrap(n + l) /\ Wrap(m - k) = Wrap(n - l)
<1> DEFINE d == 2 * HalfRange
<1>1. PICK i \in Int : m = n + d * i
  BY SameWrap DEF Same
<1>2. PICK j \in Int : k = l + d * j
  BY SameWrap DEF Same
<1>3. d \in Int
  BY HalfRangeAssumption
<1> HIDE DEF d
<1>4. /\ m + k = (n + l) + d * (i + j) /\ i + j \in Int
      /\ m - k = (n - l) + d * (i - j) /\ i - j \in Int
  BY <1>1, <1>2, <1>3
<1>5. Same(m + k, n + l) /\ Same(m - k, n - l)
  BY <1>4 DEF Same, d
<1> QED
  BY <1>5, SameWrap

LEMMA WrapMinus ==
  ASSUME NEW m \in Int, NEW n \in Int, Wrap(m) = Wrap(n)
  PROVE  Wrap(-m) = Wrap(-n)
<1>1. Wrap(0 - m) = Wrap(0 - n)
  BY WrapPlus
<1>2. 0 - m = -m /\ 0 - n = -n
  OBVIOUS
<1> QED
  BY <1>1, <1>2

LEMMA WrapZero == Wrap(0) = 0
<1>1. /\ (0 + HalfRange) % (2 * HalfRange) \in 0 .. 2 * HalfRange - 1
      /\ (0 + HalfRange) \div (2 * HalfRange) \in Int
      /\ 0 + HalfRange = (2 * HalfRange) * ((0 + HalfRange) \div (2 * HalfRange))
                           + ((0 + HalfRange) % (2 * HalfRange))
      /\ HalfRange \in 0 .. 2 * HalfRange - 1 /\ 2 * HalfRange \in Nat \ {0}
  BY Divided, HalfRangeAssumption
<1>2. (2 * HalfRange) * 0 + HalfRange
        = (2 * HalfRange) * ((0 + HalfRange) \div (2 * HalfRange))
            + ((0 + HalfRange) % (2 * HalfRange))
  BY <1>1, HalfRangeAssumption
<1>3. HalfRange = (0 + HalfRange) % (2 * HalfRange)
  BY <1>1, <1>2, RemainderUnique
<1> QED
  BY <1>3, HalfRangeAssumption DEF Wrap

(* A sum of terms that wrap to the same amounts wraps to the same amount. *)
LEMMA SumWraps ==
  ASSUME NEW S, IsFiniteSet(S), NEW f, NEW g, Ints(f, S), Ints(g, S),
         \A x \in S : Wrap(f[x]) = Wrap(g[x])
  PROVE  Wrap(SumFunctionOnSet(f, S)) = Wrap(SumFunctionOnSet(g, S))
<1> DEFINE F == {T \in SUBSET S : Wrap(SumFunctionOnSet(f, T)) = Wrap(SumFunctionOnSet(g, T))}
<1>1. {} \in F
  BY SumNone
<1>2. ASSUME NEW T \in SUBSET S, NEW x \in S, T \in F, x \notin T PROVE T \cup {x} \in F
  <2>1. IsFiniteSet(T) /\ Ints(f, T) /\ Ints(g, T) /\ f[x] \in Int /\ g[x] \in Int
    BY FS_Subset DEF Ints
  <2>2. PICK a \in Int, b \in Int :
          a = SumFunctionOnSet(f, T) /\ b = SumFunctionOnSet(g, T)
    BY <2>1, SumType
  <2>3. /\ SumFunctionOnSet(f, T \cup {x}) = a + f[x]
        /\ SumFunctionOnSet(g, T \cup {x}) = b + g[x]
    BY <1>2, <2>1, <2>2, SumAdds
  <2>4. Wrap(a) = Wrap(b) /\ Wrap(f[x]) = Wrap(g[x])
    BY <1>2, <2>2
  <2>5. Wrap(a + f[x]) = Wrap(b + g[x])
    BY <2>1, <2>4, WrapPlus
  <2> QED
    BY <2>3, <2>5
<1> HIDE DEF F
<1>3. S \in F
  BY <1>1, <1>2, SetInduction
<1> QED
  BY <1>3 DEF F

-----------------------------------------------------------------------------
(* What each entry does to an account of a type.                            *)
Effect(type, a, entries) ==
  [i \in DOMAIN entries |->
    IF entries[i].account # a THEN 0
    ELSE IF entries[i].direction = NormalBalance(type) THEN entries[i].amount
         ELSE -entries[i].amount]

LEMMA ImpactSum ==
  ASSUME NEW type, NEW a, NEW entries
  PROVE  ImpactOf(type, a, entries) = Wrap(SumFunctionOnSet(Effect(type, a, entries), DOMAIN entries))
BY Zenon DEF ImpactOf, Effect, SumFunction

LEMMA ImpactIs ==
  ASSUME NEW a, NEW entries
  PROVE  Impact(a, entries) = ImpactOf(accounts[a].type, a, entries)
BY DEF Impact

(* The entries, debits positive, and a balance, positive on the debit side. *)
Signed(entries) ==
  [i \in DOMAIN entries |->
    IF entries[i].direction = "Debit" THEN entries[i].amount ELSE -entries[i].amount]
DebitSide(type, n) == IF type \in Checked THEN n ELSE -n

LEMMA EntriesTyped ==
  ASSUME NEW entries \in Seq(Entry)
  PROVE  /\ IsFiniteSet(DOMAIN entries)
         /\ \A i \in DOMAIN entries :
              /\ entries[i].amount \in Int /\ entries[i].direction \in {"Debit", "Credit"}
              /\ entries[i].account \in AccountId
<1>1. \A i \in DOMAIN entries : entries[i] \in Entry
  BY ElementOfSeq, LenProperties
<1>2. DOMAIN entries = 1 .. Len(entries) /\ Len(entries) \in Nat
  BY LenProperties
<1>3. IsFiniteSet(DOMAIN entries)
  BY <1>2, FS_Interval
<1>4. \A e \in Entry : /\ e.amount \in Int /\ e.direction \in {"Debit", "Credit"}
                       /\ e.account \in AccountId
  BY HalfRangeAssumption DEF Entry, Amount, Direction
<1> QED
  BY <1>1, <1>3, <1>4

(* The impact on an account is that of its own entries, up to wrapping. *)
LEMMA ImpactSigned ==
  ASSUME NEW entries \in Seq(Entry), NEW type \in AccountType, NEW a
  PROVE  LET own == {i \in DOMAIN entries : entries[i].account = a}
         IN  /\ SumFunctionOnSet(Signed(entries), own) \in Int
             /\ ImpactOf(type, a, entries) \in Int
             /\ Wrap(DebitSide(type, ImpactOf(type, a, entries)))
                  = Wrap(SumFunctionOnSet(Signed(entries), own))
<1> DEFINE own == {i \in DOMAIN entries : entries[i].account = a}
           others == DOMAIN entries \ own
           f == Effect(type, a, entries)
           s == Signed(entries)
<1>1. /\ IsFiniteSet(own) /\ IsFiniteSet(others) /\ IsFiniteSet(DOMAIN entries)
      /\ own \cap others = {} /\ own \cup others = DOMAIN entries
      /\ own \subseteq DOMAIN entries /\ others \subseteq DOMAIN entries
  <2>1. IsFiniteSet(DOMAIN entries)
    BY EntriesTyped
  <2> QED
    BY <2>1, FS_Subset
<1>2. Ints(f, DOMAIN entries) /\ Ints(s, DOMAIN entries)
  BY EntriesTyped DEF Ints, Effect, Signed
<1>3. \A i \in others : f[i] = 0
  BY DEF Effect
<1>4. \A i \in own : f[i] = IF type \in Checked THEN s[i] ELSE -s[i]
  BY EntriesTyped DEF Effect, Signed, NormalBalance, Checked
<1>i. ImpactOf(type, a, entries) = Wrap(SumFunctionOnSet(f, DOMAIN entries))
  BY ImpactSum DEF f
<1> HIDE DEF own, others, f, s
<1>5. Ints(f, own) /\ Ints(f, others) /\ Ints(s, own)
  BY <1>1, <1>2 DEF Ints
<1>6. PICK n \in Int : n = SumFunctionOnSet(s, own)
  BY <1>1, <1>5, SumType
<1>7. PICK m \in Int : m = SumFunctionOnSet(f, own)
  BY <1>1, <1>5, SumType
<1>8. SumFunctionOnSet(f, DOMAIN entries) = m
  <2>1. SumFunctionOnSet(f, own \cup others)
          = SumFunctionOnSet(f, own) + SumFunctionOnSet(f, others)
    BY <1>1, <1>5, SumUnion
  <2>2. SumFunctionOnSet(f, others) = 0
    BY <1>1, <1>3, SumZero
  <2> QED
    BY <1>1, <1>7, <2>1, <2>2
<1>9. m = IF type \in Checked THEN n ELSE -n
  <2>1. CASE type \in Checked
    BY <1>1, <1>4, <1>6, <1>7, <2>1, SumSame
  <2>2. CASE type \notin Checked
    BY <1>1, <1>4, <1>5, <1>6, <1>7, <2>2, SumOpposite
  <2> QED
    BY <2>1, <2>2
<1>10. ImpactOf(type, a, entries) = Wrap(m) /\ Wrap(m) \in Int /\ Wrap(Wrap(m)) = Wrap(m)
  BY <1>i, <1>8, WrapType, WrapAgain
<1>11. Wrap(DebitSide(type, ImpactOf(type, a, entries))) = Wrap(n)
  <2>1. CASE type \in Checked
    BY <1>9, <1>10, <2>1 DEF DebitSide
  <2>2. CASE type \notin Checked
    <3>1. Wrap(-Wrap(m)) = Wrap(-m) /\ -m = n
      BY <1>9, <1>10, <2>2, WrapMinus
    <3> QED
      BY <1>10, <2>2, <3>1 DEF DebitSide
  <2> QED
    BY <2>1, <2>2
<1> QED
  BY <1>6, <1>10, <1>11 DEF own, s

(* Balanced entries move as much on the debit side of a book as on its      *)
(* credit side.                                                             *)
LEMMA BalancedImpacts ==
  ASSUME NEW entries \in Seq(Entry), ValidateBalance(entries),
         NEW S, IsFiniteSet(S), NEW types, \A a \in S : types[a] \in AccountType,
         \A i \in DOMAIN entries : entries[i].account \in S,
         NEW net, \A a \in S : net[a] = DebitSide(types[a], ImpactOf(types[a], a, entries))
  PROVE  Ints(net, S) /\ Wrap(SumFunctionOnSet(net, S)) = 0
<1> DEFINE D == DOMAIN entries
           s == Signed(entries)
           debits == Side(entries, "Debit")
           credits == Side(entries, "Credit")
           key == [i \in D |-> entries[i].account]
           own == [a \in S |-> SumFunctionOnSet(s, {i \in D : key[i] = a})]
<1>1. IsFiniteSet(D) /\ \A i \in D : key[i] \in S
  BY EntriesTyped
<1>2. Ints(s, D) /\ Ints(debits, D) /\ Ints(credits, D) /\ \A i \in D : debits[i] = s[i] + credits[i]
  BY EntriesTyped DEF Ints, Signed, Side
<1>3. \A a \in S : /\ own[a] \in Int /\ net[a] \in Int /\ Wrap(net[a]) = Wrap(own[a])
  <2> SUFFICES ASSUME NEW a \in S
               PROVE  own[a] \in Int /\ net[a] \in Int /\ Wrap(net[a]) = Wrap(own[a])
    OBVIOUS
  <2>1. own[a] = SumFunctionOnSet(s, {i \in DOMAIN entries : entries[i].account = a})
    <3>1. {i \in D : key[i] = a} = {i \in DOMAIN entries : entries[i].account = a}
      OBVIOUS
    <3>2. own[a] = SumFunctionOnSet(s, {i \in D : key[i] = a})
      BY Zenon
    <3> QED
      BY <3>1, <3>2
  <2>2. /\ SumFunctionOnSet(s, {i \in DOMAIN entries : entries[i].account = a}) \in Int
        /\ ImpactOf(types[a], a, entries) \in Int
        /\ Wrap(DebitSide(types[a], ImpactOf(types[a], a, entries)))
             = Wrap(SumFunctionOnSet(s, {i \in DOMAIN entries : entries[i].account = a}))
    BY ImpactSigned
  <2>3. net[a] = DebitSide(types[a], ImpactOf(types[a], a, entries))
    OBVIOUS
  <2>4. net[a] \in Int
    BY <2>2, <2>3 DEF DebitSide
  <2> HIDE DEF own, s
  <2> QED
    BY <2>1, <2>2, <2>3, <2>4
<1>4. SumFunctionOnSet(own, S) = SumFunctionOnSet(s, D)
  <2> HIDE DEF s, key, D
  <2>1. SumFunctionOnSet([a \in S |-> SumFunctionOnSet(s, {i \in D : key[i] = a})], S)
          = SumFunctionOnSet(s, D)
    BY <1>1, <1>2, SumGroups
  <2> QED
    BY <2>1
<1>v. Wrap(SumFunctionOnSet(debits, D)) = Wrap(SumFunctionOnSet(credits, D))
  <2>1. DOMAIN debits = D /\ DOMAIN credits = D
    BY DEF Side
  <2>2. Wrap(SumFunctionOnSet(debits, DOMAIN debits)) = Wrap(SumFunctionOnSet(credits, DOMAIN credits))
    BY Zenon DEF ValidateBalance, SumFunction
  <2> QED
    BY <2>1, <2>2, Zenon
<1> HIDE DEF D, s, debits, credits, own, key
<1>5. Ints(own, S) /\ Ints(net, S)
  BY <1>3 DEF Ints
<1>6. Wrap(SumFunctionOnSet(net, S)) = Wrap(SumFunctionOnSet(own, S))
  BY <1>3, <1>5, SumWraps
<1>7. SumFunctionOnSet(debits, D) = SumFunctionOnSet(s, D) + SumFunctionOnSet(credits, D)
  BY <1>1, <1>2, SumPlus
<1>8. PICK x \in Int, y \in Int, z \in Int :
        /\ x = SumFunctionOnSet(s, D) /\ y = SumFunctionOnSet(debits, D)
        /\ z = SumFunctionOnSet(credits, D)
  BY <1>1, <1>2, SumType
<1>9. x = y - z /\ Wrap(y) = Wrap(z) /\ z - z = 0
  BY <1>7, <1>8, <1>v
<1>10. Wrap(y - z) = Wrap(z - z)
  BY <1>9, WrapPlus
<1> QED
  BY <1>4, <1>5, <1>6, <1>8, <1>9, <1>10, WrapZero

-----------------------------------------------------------------------------
(* Replays: what lists of entries, one after the other, do to an account.   *)
Total(type, a, lists) ==
  SumFunctionOnSet([i \in DOMAIN lists |-> ImpactOf(type, a, lists[i])], DOMAIN lists)

(* The lists are indexed 1 .. n, and move money of accounts in S only.      *)
Lists(lists, n, S) ==
  /\ n \in Nat /\ DOMAIN lists = 1 .. n
  /\ \A i \in 1 .. n : /\ lists[i] \in Seq(Entry)
                       /\ \A j \in DOMAIN lists[i] : lists[i][j].account \in S

(* longer has one more list than lists. *)
Extends(lists, n, longer) ==
  DOMAIN longer = 1 .. n + 1 /\ \A i \in 1 .. n : longer[i] = lists[i]

LEMMA ListsExtend ==
  ASSUME NEW lists, NEW n, NEW S, Lists(lists, n, S), NEW longer, Extends(lists, n, longer),
         longer[n + 1] \in Seq(Entry),
         \A j \in DOMAIN longer[n + 1] : longer[n + 1][j].account \in S
  PROVE  Lists(longer, n + 1, S)
<1>1. n \in Nat
  BY DEF Lists
<1>2. n + 1 \in Nat /\ \A i \in 1 .. n + 1 : i \in 1 .. n \/ i = n + 1
  BY <1>1
<1>3. ASSUME NEW i \in 1 .. n + 1
      PROVE  longer[i] \in Seq(Entry) /\ \A j \in DOMAIN longer[i] : longer[i][j].account \in S
  <2>1. CASE i \in 1 .. n
    <3>1. longer[i] = lists[i]
      BY <2>1 DEF Extends
    <3> QED
      BY <2>1, <3>1 DEF Lists
  <2>2. CASE i = n + 1
    BY <2>2
  <2> QED
    BY <1>2, <2>1, <2>2
<1> QED
  BY <1>2, <1>3 DEF Lists, Extends

LEMMA NoEntries == << >> \in Seq(Entry) /\ DOMAIN << >> = {}
BY EmptySeq

LEMMA TotalType ==
  ASSUME NEW type \in AccountType, NEW a, NEW n, NEW S, NEW lists, Lists(lists, n, S)
  PROVE  Total(type, a, lists) \in Int
<1> DEFINE f == [i \in DOMAIN lists |-> ImpactOf(type, a, lists[i])]
<1>1. \A i \in DOMAIN lists : f[i] \in Int
  BY ImpactSigned DEF Lists
<1>2. IsFiniteSet(DOMAIN lists)
  BY FS_Interval DEF Lists
<1>3. Total(type, a, lists) = SumFunctionOnSet(f, DOMAIN lists)
  BY Zenon DEF Total
<1> HIDE DEF f
<1> QED
  BY <1>1, <1>2, <1>3, SumType DEF Ints

LEMMA TotalExtends ==
  ASSUME NEW type \in AccountType, NEW a, NEW n, NEW S, NEW lists, NEW longer,
         Lists(lists, n, S), Lists(longer, n + 1, S), Extends(lists, n, longer)
  PROVE  /\ Total(type, a, lists) \in Int /\ ImpactOf(type, a, longer[n + 1]) \in Int
         /\ Total(type, a, longer) = Total(type, a, lists) + ImpactOf(type, a, longer[n + 1])
<1> DEFINE f == [i \in DOMAIN lists |-> ImpactOf(type, a, lists[i])]
           g == [i \in DOMAIN longer |-> ImpactOf(type, a, longer[i])]
<1>1. \A i \in 1 .. n + 1 : g[i] \in Int /\ g[i] = ImpactOf(type, a, longer[i])
  BY ImpactSigned DEF Lists
<1>2. \A i \in 1 .. n : f[i] = g[i]
  BY DEF Lists, Extends
<1>3. /\ Total(type, a, lists) = SumFunctionOnSet(f, 1 .. n)
      /\ Total(type, a, longer) = SumFunctionOnSet(g, 1 .. n + 1)
  <2>1. DOMAIN lists = 1 .. n /\ DOMAIN longer = 1 .. n + 1
    BY DEF Lists
  <2>2. /\ Total(type, a, lists) = SumFunctionOnSet(f, DOMAIN lists)
        /\ Total(type, a, longer) = SumFunctionOnSet(g, DOMAIN longer)
    BY Zenon DEF Total
  <2> HIDE DEF f, g
  <2> QED
    BY <2>1, <2>2
<1> HIDE DEF f, g
<1>4. n \in Nat /\ IsFiniteSet(1 .. n) /\ n + 1 \notin 1 .. n /\ 1 .. n + 1 = (1 .. n) \cup {n + 1}
  <2>1. n \in Nat
    BY DEF Lists
  <2>2. IsFiniteSet(1 .. n)
    BY <2>1, FS_Interval
  <2>3. n + 1 \notin 1 .. n /\ 1 .. n + 1 = (1 .. n) \cup {n + 1}
    BY <2>1
  <2> QED
    BY <2>1, <2>2, <2>3
<1>5. Ints(g, 1 .. n) /\ g[n + 1] \in Int
  BY <1>1, <1>4 DEF Ints
<1>6. /\ SumFunctionOnSet(g, (1 .. n) \cup {n + 1}) = SumFunctionOnSet(g, 1 .. n) + g[n + 1]
      /\ SumFunctionOnSet(g, 1 .. n) \in Int
  BY <1>4, <1>5, SumAdds
<1>7. SumFunctionOnSet(f, 1 .. n) = SumFunctionOnSet(g, 1 .. n)
  BY <1>2, <1>4, SumSame
<1>8. g[n + 1] = ImpactOf(type, a, longer[n + 1])
  BY <1>1, <1>4
<1> QED
  BY <1>3, <1>4, <1>5, <1>6, <1>7, <1>8

(* Entries of other accounts do nothing to an account. *)
LEMMA ImpactNone ==
  ASSUME NEW type, NEW a, NEW entries \in Seq(Entry),
         \A i \in DOMAIN entries : entries[i].account # a
  PROVE  ImpactOf(type, a, entries) = 0
<1> DEFINE f == Effect(type, a, entries)
<1>1. \A i \in DOMAIN entries : f[i] = 0
  BY DEF Effect
<1>2. IsFiniteSet(DOMAIN entries)
  BY EntriesTyped
<1>3. ImpactOf(type, a, entries) = Wrap(SumFunctionOnSet(f, DOMAIN entries))
  BY ImpactSum DEF f
<1> HIDE DEF f
<1>4. SumFunctionOnSet(f, DOMAIN entries) = 0
  BY <1>1, <1>2, SumZero
<1> QED
  BY <1>3, <1>4, WrapZero

LEMMA TotalNone ==
  ASSUME NEW type, NEW n, NEW S, NEW lists, Lists(lists, n, S), NEW a, a \notin S
  PROVE  Total(type, a, lists) = 0
<1> DEFINE f == [i \in DOMAIN lists |-> ImpactOf(type, a, lists[i])]
<1>1. \A i \in DOMAIN lists : f[i] = 0
  BY ImpactNone DEF Lists
<1>2. IsFiniteSet(DOMAIN lists)
  BY FS_Interval DEF Lists
<1>3. Total(type, a, lists) = SumFunctionOnSet(f, DOMAIN lists)
  BY Zenon DEF Total
<1> HIDE DEF f
<1> QED
  BY <1>1, <1>2, <1>3, SumZero
-----------------------------------------------------------------------------
(* The balances of a chart of accounts, positive on the debit side.         *)
Net(chartOf, lists) ==
  [a \in DOMAIN chartOf |->
    DebitSide(chartOf[a].type, Wrap(Total(chartOf[a].type, a, lists)))]

NetSum(chartOf, lists) == SumFunctionOnSet(Net(chartOf, lists), DOMAIN chartOf)

ChartTyped(chartOf) ==
  IsFiniteSet(DOMAIN chartOf) /\ \A a \in DOMAIN chartOf : chartOf[a].type \in AccountType

LEMMA NetType ==
  ASSUME NEW chartOf, ChartTyped(chartOf), NEW n, NEW lists, Lists(lists, n, DOMAIN chartOf)
  PROVE  /\ \A a \in DOMAIN chartOf :
              Net(chartOf, lists)[a]
                = DebitSide(chartOf[a].type, Wrap(Total(chartOf[a].type, a, lists)))
         /\ Ints(Net(chartOf, lists), DOMAIN chartOf)
         /\ NetSum(chartOf, lists) \in Int
<1>1. \A a \in DOMAIN chartOf :
        Net(chartOf, lists)[a]
          = DebitSide(chartOf[a].type, Wrap(Total(chartOf[a].type, a, lists)))
  BY DEF Net
<1>2. \A a \in DOMAIN chartOf : Wrap(Total(chartOf[a].type, a, lists)) \in Int
  BY TotalType, WrapType DEF ChartTyped
<1>3. Ints(Net(chartOf, lists), DOMAIN chartOf)
  BY <1>1, <1>2 DEF Ints, DebitSide
<1> QED
  BY <1>1, <1>3, SumType DEF NetSum, ChartTyped

(* A balanced list of entries keeps the books balanced. *)
LEMMA NetExtends ==
  ASSUME NEW chartOf, ChartTyped(chartOf), NEW n, NEW lists, NEW longer,
         Lists(lists, n, DOMAIN chartOf), Lists(longer, n + 1, DOMAIN chartOf),
         Extends(lists, n, longer), ValidateBalance(longer[n + 1]),
         Wrap(NetSum(chartOf, lists)) = 0
  PROVE  Wrap(NetSum(chartOf, longer)) = 0
<1> DEFINE S == DOMAIN chartOf
           new == longer[n + 1]
           types == [a \in S |-> chartOf[a].type]
           impact == [a \in S |-> DebitSide(types[a], ImpactOf(types[a], a, new))]
           before == Net(chartOf, lists)
           after == Net(chartOf, longer)
           both == [a \in S |-> before[a] + impact[a]]
<1>1. /\ new \in Seq(Entry) /\ ValidateBalance(new) /\ IsFiniteSet(S)
      /\ \A i \in DOMAIN new : new[i].account \in S
  BY DEF Lists, ChartTyped
<1>2. \A a \in S : types[a] \in AccountType /\ types[a] = chartOf[a].type
  BY DEF ChartTyped
<1>3. \A a \in S : impact[a] = DebitSide(types[a], ImpactOf(types[a], a, new))
  OBVIOUS
<1> HIDE DEF new, types, impact
<1>4. Ints(impact, S) /\ Wrap(SumFunctionOnSet(impact, S)) = 0
  BY <1>1, <1>2, <1>3, BalancedImpacts
<1>5. /\ Ints(before, S) /\ SumFunctionOnSet(before, S) \in Int
      /\ Ints(after, S) /\ Wrap(SumFunctionOnSet(before, S)) = 0
  BY NetType DEF NetSum, Lists
<1>6. \A a \in S : both[a] = before[a] + impact[a]
  OBVIOUS
<1>7. \A a \in S : Wrap(after[a]) = Wrap(both[a])
  <2> SUFFICES ASSUME NEW a \in S PROVE Wrap(after[a]) = Wrap(both[a])
    OBVIOUS
  <2>1. PICK total \in Int, i \in Int :
          /\ total = Total(types[a], a, lists) /\ i = ImpactOf(types[a], a, new)
          /\ Total(types[a], a, longer) = total + i
    BY <1>2, TotalExtends DEF new
  <2>2. /\ before[a] = DebitSide(types[a], Wrap(total))
        /\ after[a] = DebitSide(types[a], Wrap(total + i))
        /\ impact[a] = DebitSide(types[a], i)
    <3>1. /\ before[a] = DebitSide(types[a], Wrap(Total(types[a], a, lists)))
          /\ after[a] = DebitSide(types[a], Wrap(Total(types[a], a, longer)))
      BY <1>2 DEF Net
    <3>2. impact[a] = DebitSide(types[a], ImpactOf(types[a], a, new))
      BY <1>3
    <3> HIDE DEF before, after
    <3> QED
      BY <2>1, <3>1, <3>2
  <2>3. /\ Wrap(total) \in Int /\ Wrap(Wrap(total)) = Wrap(total)
        /\ Wrap(total + i) \in Int /\ Wrap(Wrap(total + i)) = Wrap(total + i)
        /\ total + i \in Int
    BY <2>1, WrapType, WrapAgain
  <2>4. Wrap(Wrap(total) + i) = Wrap(total + i)
    BY <2>1, <2>3, WrapPlus
  <2>5. CASE types[a] \in Checked
    BY <1>6, <2>2, <2>3, <2>4, <2>5 DEF DebitSide
  <2>6. CASE types[a] \notin Checked
    <3>1. Wrap(-Wrap(total + i)) = Wrap(-(Wrap(total) + i))
      BY <2>1, <2>3, <2>4, WrapMinus
    <3>2. both[a] = -(Wrap(total) + i) /\ after[a] = -Wrap(total + i)
      BY <1>6, <2>1, <2>2, <2>3, <2>6 DEF DebitSide
    <3> QED
      BY <3>1, <3>2
  <2> QED
    BY <2>5, <2>6
<1> HIDE DEF before, after, both
<1>8. Ints(both, S)
  BY <1>4, <1>5, <1>6 DEF Ints
<1>9. Wrap(SumFunctionOnSet(after, S)) = Wrap(SumFunctionOnSet(both, S))
  BY <1>1, <1>5, <1>7, <1>8, SumWraps
<1>10. SumFunctionOnSet(both, S) = SumFunctionOnSet(before, S) + SumFunctionOnSet(impact, S)
  BY <1>1, <1>4, <1>5, <1>6, SumPlus
<1>11. PICK x \in Int, y \in Int : x = SumFunctionOnSet(before, S) /\ y = SumFunctionOnSet(impact, S)
  BY <1>1, <1>4, <1>5, SumType
<1>12. Wrap(x + y) = Wrap(0 + 0)
  BY <1>4, <1>5, <1>11, WrapPlus, WrapZero
<1>13. Wrap(SumFunctionOnSet(after, S)) = 0
  BY <1>9, <1>10, <1>11, <1>12, WrapZero
<1> QED
  BY <1>13 DEF NetSum, after

(* So does an account opened, which no entry names yet. *)
LEMMA NetOpens ==
  ASSUME NEW chartOf, ChartTyped(chartOf), NEW opened, ChartTyped(opened), NEW id,
         id \notin DOMAIN chartOf, DOMAIN opened = DOMAIN chartOf \cup {id},
         \A a \in DOMAIN chartOf : opened[a] = chartOf[a],
         NEW n, NEW lists, Lists(lists, n, DOMAIN chartOf)
  PROVE  NetSum(opened, lists) = NetSum(chartOf, lists)
<1> DEFINE S == DOMAIN chartOf
           before == Net(chartOf, lists)
           after == Net(opened, lists)
<1>1. Lists(lists, n, DOMAIN opened)
  BY DEF Lists
<1>2. Ints(after, S) /\ after[id] \in Int /\ IsFiniteSet(S)
  BY <1>1, NetType DEF Ints, ChartTyped
<1>3. after[id] = 0
  <2>1. Total(opened[id].type, id, lists) = 0
    BY TotalNone
  <2>2. after[id] = DebitSide(opened[id].type, Wrap(Total(opened[id].type, id, lists)))
    BY <1>1, NetType
  <2> QED
    BY <2>1, <2>2, WrapZero DEF DebitSide
<1>4. \A a \in S : after[a] = before[a]
  BY DEF Net
<1> HIDE DEF before, after
<1>5. SumFunctionOnSet(after, S \cup {id}) = SumFunctionOnSet(after, S) + after[id]
  BY <1>2, SumAdds
<1>6. SumFunctionOnSet(after, S) = SumFunctionOnSet(before, S)
  BY <1>2, <1>4, SumSame
<1>7. SumFunctionOnSet(after, S) \in Int
  BY <1>2, SumType
<1>8. SumFunctionOnSet(after, S \cup {id}) = SumFunctionOnSet(before, S)
  BY <1>3, <1>5, <1>6, <1>7
<1> QED
  BY <1>8 DEF NetSum, before, after

-----------------------------------------------------------------------------
(* The entries the transactions post, and those the audit log stands for.   *)
Posted(txs) == [t \in DOMAIN txs |-> txs[t].entries]

RecordedIn(txs, event) ==
  IF event.type = "transaction.posted" THEN txs[event.entity].entries
  ELSE IF event.type = "transaction.reversed" THEN Flip(txs[event.entity].entries)
  ELSE << >>

Replayed(txs, log) == [i \in DOMAIN log |-> RecordedIn(txs, log[i])]

Opening == {"ledger.created", "subledger.created", "account.created"}
Posting == {"transaction.posted", "transaction.reversed"}
AuditEvent == [type: Opening \cup Posting,
               entity: LedgerId \cup SubledgerId \cup AccountId \cup Nat, reversal: Nat]

(* The events about transactions name transactions that exist. *)
AuditTyped(log, txs) ==
  /\ log \in Seq(AuditEvent)
  /\ \A i \in DOMAIN log : log[i].type \in Posting => log[i].entity \in DOMAIN txs

(* The balance of an account is the replay of the transactions. *)
LEMMA BalanceIs ==
  ASSUME NEW a
  PROVE  BookBalance(a) = Wrap(Total(accounts[a].type, a, Posted(transactions)))
<1> DEFINE f == [t \in DOMAIN transactions |-> Impact(a, transactions[t].entries)]
           g == [t \in DOMAIN Posted(transactions) |->
                  ImpactOf(accounts[a].type, a, Posted(transactions)[t])]
<1>1. f = g
  BY ImpactIs DEF Posted
<1>2. DOMAIN f = DOMAIN transactions /\ DOMAIN Posted(transactions) = DOMAIN transactions
  BY DEF Posted
<1>3. BookBalance(a) = Wrap(SumFunctionOnSet(f, DOMAIN f))
  BY Zenon DEF BookBalance, SumFunction
<1>4. Total(accounts[a].type, a, Posted(transactions))
        = SumFunctionOnSet(g, DOMAIN Posted(transactions))
  BY Zenon DEF Total
<1> HIDE DEF f, g
<1> QED
  BY <1>1, <1>2, <1>3, <1>4

LEMMA ReplayIs ==
  ASSUME NEW a
  PROVE  Wrap(SumFunction([i \in DOMAIN auditLog |-> Impact(a, Recorded(auditLog[i]))]))
           = Wrap(Total(accounts[a].type, a, Replayed(transactions, auditLog)))
<1> DEFINE lists == Replayed(transactions, auditLog)
           f == [i \in DOMAIN auditLog |-> Impact(a, Recorded(auditLog[i]))]
           g == [i \in DOMAIN lists |-> ImpactOf(accounts[a].type, a, lists[i])]
<1>1. \A i \in DOMAIN auditLog : Recorded(auditLog[i]) = lists[i]
  BY DEF Recorded, Replayed, RecordedIn
<1>2. DOMAIN lists = DOMAIN auditLog /\ DOMAIN f = DOMAIN auditLog
  BY DEF Replayed
<1>3. f = g
  <2> HIDE DEF lists
  <2> QED
    BY <1>1, <1>2, ImpactIs
<1>4. SumFunction(f) = SumFunctionOnSet(f, DOMAIN f)
  BY Zenon DEF SumFunction
<1>5. Total(accounts[a].type, a, lists) = SumFunctionOnSet(g, DOMAIN lists)
  BY Zenon DEF Total
<1> HIDE DEF f, g, lists
<1>6. Wrap(SumFunction(f)) = Wrap(Total(accounts[a].type, a, lists))
  BY <1>2, <1>3, <1>4, <1>5
<1> QED
  BY <1>6 DEF f, lists

(* The inductive invariant: the chart is finite, the events name what       *)
(* exists, the books balance, and both replays agree.                       *)
Replays(chartOf, txs, log) ==
  \A a \in DOMAIN chartOf :
    Wrap(Total(chartOf[a].type, a, Posted(txs)))
      = Wrap(Total(chartOf[a].type, a, Replayed(txs, log)))

BookInv ==
  /\ TypeOK
  /\ DoubleEntry
  /\ IsFiniteSet(DOMAIN accounts)
  /\ AuditTyped(auditLog, transactions)
  /\ Wrap(NetSum(accounts, Posted(transactions))) = 0
  /\ Replays(accounts, transactions, auditLog)

LEMMA BookLists ==
  ASSUME BookInv
  PROVE  /\ ChartTyped(accounts)
         /\ Lists(Posted(transactions), Len(transactions), DOMAIN accounts)
         /\ Lists(Replayed(transactions, auditLog), Len(auditLog), DOMAIN accounts)
<1>1. ChartTyped(accounts)
  BY DEF BookInv, TypeOK, ChartTyped
<1>2. /\ Len(transactions) \in Nat /\ DOMAIN transactions = 1 .. Len(transactions)
      /\ \A t \in DOMAIN transactions :
           /\ transactions[t].entries \in Seq(Entry)
           /\ \A i \in DOMAIN transactions[t].entries :
                transactions[t].entries[i].account \in DOMAIN accounts
  <2>1. transactions \in Seq(Transaction) /\ \A t \in DOMAIN transactions : transactions[t] \in Transaction
    BY StoredTransactions DEF BookInv
  <2>2. \A t \in DOMAIN transactions : transactions[t].entries \in Seq(Entry)
    BY <2>1 DEF Transaction
  <2> QED
    BY <2>1, <2>2, LenProperties DEF BookInv, TypeOK
<1>3. Lists(Posted(transactions), Len(transactions), DOMAIN accounts)
  BY <1>2 DEF Lists, Posted
<1>4. Len(auditLog) \in Nat /\ DOMAIN auditLog = 1 .. Len(auditLog)
  BY LenProperties DEF BookInv, AuditTyped
<1>5. ASSUME NEW i \in DOMAIN auditLog
      PROVE  LET e == RecordedIn(transactions, auditLog[i])
             IN  e \in Seq(Entry) /\ \A j \in DOMAIN e : e[j].account \in DOMAIN accounts
  <2>1. CASE auditLog[i].type \in Posting
    <3>1. PICK t \in DOMAIN transactions : t = auditLog[i].entity
      BY <1>5, <2>1 DEF BookInv, AuditTyped
    <3>2. /\ Flip(transactions[t].entries) \in Seq(Entry)
          /\ DOMAIN Flip(transactions[t].entries) = DOMAIN transactions[t].entries
          /\ \A j \in DOMAIN transactions[t].entries :
               Flip(transactions[t].entries)[j].account = transactions[t].entries[j].account
      BY <1>2, FlipType
    <3>3. \/ RecordedIn(transactions, auditLog[i]) = transactions[t].entries
          \/ RecordedIn(transactions, auditLog[i]) = Flip(transactions[t].entries)
      BY <2>1, <3>1 DEF RecordedIn, Posting
    <3> QED
      BY <1>2, <3>2, <3>3
  <2>2. CASE auditLog[i].type \notin Posting
    <3>1. RecordedIn(transactions, auditLog[i]) = << >>
      BY <2>2 DEF RecordedIn, Posting
    <3> QED
      BY <3>1, EmptySeq
  <2> QED
    BY <2>1, <2>2
<1>6. Lists(Replayed(transactions, auditLog), Len(auditLog), DOMAIN accounts)
  BY <1>4, <1>5 DEF Lists, Replayed
<1> QED
  BY <1>1, <1>3, <1>6

(* One event more on the audit log. *)
LEMMA LogAppended ==
  ASSUME NEW log, NEW txs, AuditTyped(log, txs), NEW later, NEW event \in AuditEvent,
         DOMAIN txs \subseteq DOMAIN later,
         \A t \in DOMAIN txs : later[t].entries = txs[t].entries,
         event.type \in Posting => event.entity \in DOMAIN later
  PROVE  /\ AuditTyped(Append(log, event), later)
         /\ Len(Append(log, event)) = Len(log) + 1 /\ Len(log) \in Nat
         /\ Extends(Replayed(txs, log), Len(log), Replayed(later, Append(log, event)))
         /\ Replayed(later, Append(log, event))[Len(log) + 1] = RecordedIn(later, event)
<1>1. /\ Append(log, event) \in Seq(AuditEvent) /\ Len(Append(log, event)) = Len(log) + 1
      /\ DOMAIN Append(log, event) = 1 .. Len(log) + 1
      /\ \A i \in 1 .. Len(log) : Append(log, event)[i] = log[i]
      /\ Append(log, event)[Len(log) + 1] = event
      /\ DOMAIN log = 1 .. Len(log) /\ Len(log) \in Nat
  BY AppendedTo, LenProperties DEF AuditTyped
<1>2. \A i \in 1 .. Len(log) : RecordedIn(later, log[i]) = RecordedIn(txs, log[i])
  BY <1>1 DEF AuditTyped, RecordedIn, Posting
<1>3. AuditTyped(Append(log, event), later)
  <2> SUFFICES ASSUME NEW i \in 1 .. Len(log) + 1, Append(log, event)[i].type \in Posting
               PROVE  Append(log, event)[i].entity \in DOMAIN later
    BY <1>1 DEF AuditTyped
  <2>1. CASE i = Len(log) + 1
    BY <1>1, <2>1
  <2>2. CASE i \in 1 .. Len(log)
    BY <1>1, <2>2 DEF AuditTyped
  <2> QED
    BY <1>1, <2>1, <2>2
<1>4. /\ DOMAIN Replayed(later, Append(log, event)) = 1 .. Len(log) + 1
      /\ \A i \in 1 .. Len(log) + 1 :
           Replayed(later, Append(log, event))[i] = RecordedIn(later, Append(log, event)[i])
      /\ \A i \in 1 .. Len(log) : Replayed(txs, log)[i] = RecordedIn(txs, log[i])
  BY <1>1 DEF Replayed
<1>5. Len(log) + 1 \in 1 .. Len(log) + 1 /\ \A i \in 1 .. Len(log) : i \in 1 .. Len(log) + 1
  BY <1>1
<1> QED
  BY <1>1, <1>2, <1>3, <1>4, <1>5 DEF Extends


(* Opening a ledger, a subledger or an account moves no money. *)
LEMMA OpeningStep ==
  ASSUME BookInv, TypeOK', DoubleEntry', transactions' = transactions,
         NEW type \in Opening, NEW id \in LedgerId \cup SubledgerId \cup AccountId,
         auditLog' = Append(auditLog, Event(type, id)),
         \/ accounts' = accounts
         \/ \E a : /\ a \notin DOMAIN accounts /\ DOMAIN accounts' = DOMAIN accounts \cup {a}
                   /\ \A b \in DOMAIN accounts : accounts'[b] = accounts[b]
  PROVE  BookInv'
<1> DEFINE P == Posted(transactions)
           R == Replayed(transactions, auditLog)
           S == Replayed(transactions, auditLog')
           n == Len(auditLog)
<1>1. /\ ChartTyped(accounts) /\ Lists(P, Len(transactions), DOMAIN accounts)
      /\ Lists(R, n, DOMAIN accounts)
  BY BookLists
<1>2. /\ AuditTyped(auditLog', transactions)
      /\ n \in Nat /\ Extends(R, n, S) /\ S[n + 1] = << >>
  <2>1. /\ Event(type, id) \in AuditEvent /\ Event(type, id).type \notin Posting
        /\ RecordedIn(transactions, Event(type, id)) = << >>
    BY DEF Event, AuditEvent, Opening, Posting, RecordedIn
  <2>2. AuditTyped(auditLog, transactions)
    BY DEF BookInv
  <2> QED
    BY <2>1, <2>2, LogAppended
<1>3. /\ IsFiniteSet(DOMAIN accounts') /\ DOMAIN accounts \subseteq DOMAIN accounts'
      /\ \A a \in DOMAIN accounts : accounts'[a] = accounts[a]
  BY FS_AddElement DEF BookInv
<1>4. ChartTyped(accounts')
  BY <1>3 DEF ChartTyped, TypeOK
<1>5. /\ Lists(P, Len(transactions), DOMAIN accounts') /\ Lists(R, n, DOMAIN accounts')
      /\ Lists(S, n + 1, DOMAIN accounts')
  <2>1. Lists(P, Len(transactions), DOMAIN accounts') /\ Lists(R, n, DOMAIN accounts')
    BY <1>1, <1>3 DEF Lists
  <2> HIDE DEF P, R, S, n
  <2>2. S[n + 1] \in Seq(Entry) /\ DOMAIN S[n + 1] = {}
    BY <1>2, NoEntries
  <2>3. Lists(S, n + 1, DOMAIN accounts')
    BY <1>2, <2>1, <2>2, ListsExtend
  <2> QED
    BY <2>1, <2>3
<1> HIDE DEF P, R, S, n
<1>6. Wrap(NetSum(accounts', P)) = 0
  <2>1. Wrap(NetSum(accounts, P)) = 0
    BY DEF BookInv, P
  <2>2. CASE accounts' = accounts
    BY <2>1, <2>2
  <2>3. ASSUME NEW a, a \notin DOMAIN accounts, DOMAIN accounts' = DOMAIN accounts \cup {a}
        PROVE  NetSum(accounts', P) = NetSum(accounts, P)
    BY <1>1, <1>3, <1>4, <2>3, NetOpens
  <2> QED
    BY <2>1, <2>2, <2>3
<1>7. ASSUME NEW a \in DOMAIN accounts'
      PROVE  Wrap(Total(accounts'[a].type, a, P)) = Wrap(Total(accounts'[a].type, a, S))
  <2> DEFINE kind == accounts'[a].type
  <2>1. kind \in AccountType
    BY <1>4 DEF ChartTyped
  <2> HIDE DEF kind
  <2>2. ImpactOf(kind, a, << >>) = 0
    BY ImpactNone, NoEntries
  <2>3. Total(kind, a, S) = Total(kind, a, R)
    BY <1>2, <1>5, <2>1, <2>2, TotalExtends
  <2>4. Wrap(Total(kind, a, P)) = Wrap(Total(kind, a, R))
    <3>1. CASE a \in DOMAIN accounts
      BY <1>3, <3>1 DEF BookInv, Replays, kind, P, R
    <3>2. CASE a \notin DOMAIN accounts
      BY <1>1, <3>2, TotalNone
    <3> QED
      BY <3>1, <3>2
  <2> QED
    BY <2>3, <2>4 DEF kind
<1> QED
  BY <1>2, <1>3, <1>6, <1>7 DEF BookInv, Replays, P, S

(* A transaction posted, which its event stands for, moves the balances     *)
(* alike in both replays, and as much on either side.                       *)
LEMMA PostingStep ==
  ASSUME BookInv, TypeOK', DoubleEntry', accounts' = accounts,
         NEW event \in AuditEvent, event.entity \in DOMAIN transactions',
         auditLog' = Append(auditLog, event),
         DOMAIN transactions' = DOMAIN transactions \cup {Len(transactions) + 1},
         \A t \in DOMAIN transactions : transactions'[t].entries = transactions[t].entries,
         RecordedIn(transactions', event) = transactions'[Len(transactions) + 1].entries
  PROVE  BookInv'
<1> DEFINE P == Posted(transactions)
           Q == Posted(transactions')
           R == Replayed(transactions, auditLog)
           S == Replayed(transactions', auditLog')
           n == Len(transactions)
           m == Len(auditLog)
           new == transactions'[n + 1].entries
<1>1. /\ ChartTyped(accounts) /\ Lists(P, n, DOMAIN accounts) /\ Lists(R, m, DOMAIN accounts)
  BY BookLists
<1>2. n \in Nat /\ DOMAIN transactions = 1 .. n /\ n + 1 \in DOMAIN transactions'
  BY LenProperties, StoredTransactions DEF BookInv
<1>3. /\ new \in Seq(Entry) /\ ValidateBalance(new)
      /\ \A i \in DOMAIN new : new[i].account \in DOMAIN accounts
  <2>1. \A t \in DOMAIN transactions' : transactions'[t] \in Transaction
    <3>1. transactions' \in Seq(Transaction)
      BY DEF TypeOK, Transaction
    <3> QED
      BY <3>1, ElementOfSeq, LenProperties
  <2>2. transactions'[n + 1].entries \in Seq(Entry)
    BY <1>2, <2>1 DEF Transaction
  <2>3. \A i \in DOMAIN transactions'[n + 1].entries :
          transactions'[n + 1].entries[i].account \in DOMAIN accounts
    BY <1>2 DEF TypeOK
  <2>4. ValidateBalance(transactions'[n + 1].entries)
    BY <1>2 DEF DoubleEntry, ValidateBalance, Side, Wrap
  <2> QED
    BY <2>2, <2>3, <2>4
<1>4. /\ AuditTyped(auditLog', transactions')
      /\ m \in Nat /\ Extends(R, m, S) /\ S[m + 1] = new
  <2>1. AuditTyped(auditLog, transactions) /\ DOMAIN transactions \subseteq DOMAIN transactions'
    BY DEF BookInv
  <2> QED
    BY <2>1, LogAppended
<1>5. Extends(P, n, Q) /\ Q[n + 1] = new
  <2>1. DOMAIN Q = 1 .. n + 1
    BY <1>2 DEF Posted
  <2>2. \A i \in 1 .. n : Q[i] = P[i]
    BY <1>2 DEF Posted
  <2>3. Q[n + 1] = new
    BY <1>2 DEF Posted
  <2> QED
    BY <2>1, <2>2, <2>3 DEF Extends
<1> HIDE DEF P, Q, R, S, n, m, new
<1>6. Lists(Q, n + 1, DOMAIN accounts) /\ Lists(S, m + 1, DOMAIN accounts)
  BY <1>1, <1>3, <1>4, <1>5, ListsExtend
<1>7. Wrap(NetSum(accounts, Q)) = 0
  <2>1. Wrap(NetSum(accounts, P)) = 0
    BY DEF BookInv, P
  <2> QED
    BY <1>1, <1>3, <1>5, <1>6, <2>1, NetExtends
<1>8. ASSUME NEW a \in DOMAIN accounts
      PROVE  Wrap(Total(accounts[a].type, a, Q)) = Wrap(Total(accounts[a].type, a, S))
  <2> DEFINE kind == accounts[a].type
  <2>1. kind \in AccountType
    BY <1>1 DEF ChartTyped
  <2>2. Wrap(Total(kind, a, P)) = Wrap(Total(kind, a, R))
    BY DEF BookInv, Replays, P, R
  <2> HIDE DEF kind
  <2>3. PICK x \in Int, y \in Int, i \in Int :
          /\ x = Total(kind, a, P) /\ y = Total(kind, a, R) /\ i = ImpactOf(kind, a, new)
          /\ Total(kind, a, Q) = x + i
    BY <1>1, <1>5, <1>6, <2>1, TotalExtends, TotalType
  <2>4. Total(kind, a, S) = y + i
    BY <1>1, <1>4, <1>6, <2>1, <2>3, TotalExtends
  <2>5. Wrap(x + i) = Wrap(y + i)
    BY <2>2, <2>3, WrapPlus
  <2> QED
    BY <2>3, <2>4, <2>5 DEF kind
<1> QED
  BY <1>4, <1>7, <1>8 DEF BookInv, Replays, Q, S


LEMMA InitBookInv == Init => BookInv
<1> SUFFICES ASSUME Init PROVE BookInv
  OBVIOUS
<1>1. /\ TypeOK /\ DoubleEntry /\ DOMAIN accounts = {} /\ DOMAIN auditLog = {}
      /\ auditLog = << >>
  BY InitTypeOK DEF Init, DoubleEntry
<1>2. AuditTyped(auditLog, transactions)
  BY <1>1, EmptySeq DEF AuditTyped
<1>3. Wrap(NetSum(accounts, Posted(transactions))) = 0
  BY <1>1, SumNone, WrapZero DEF NetSum
<1>4. Replays(accounts, transactions, auditLog)
  BY <1>1 DEF Replays
<1> QED
  BY <1>1, <1>2, <1>3, <1>4, FS_EmptySet DEF BookInv

LEMMA NextBookInv == BookInv /\ TypeOK' /\ DoubleEntry' /\ [Next]_vars => BookInv'
<1> SUFFICES ASSUME BookInv, TypeOK', DoubleEntry', [Next]_vars PROVE BookInv'
  OBVIOUS
<1>0. TypeOK
  BY DEF BookInv
<1>1. ASSUME NEW id \in LedgerId, CreateLedger(id) PROVE BookInv'
  BY <1>1, OpeningStep DEF CreateLedger, Opening
<1>2. ASSUME NEW id \in SubledgerId, NEW ledger \in LedgerId, CreateSubledger(id, ledger)
      PROVE  BookInv'
  BY <1>2, OpeningStep DEF CreateSubledger, Opening
<1>3. ASSUME NEW id \in AccountId, NEW subledger \in SubledgerId, CreateAccount(id, subledger)
      PROVE  BookInv'
  <2>1. /\ id \notin DOMAIN accounts /\ DOMAIN accounts' = DOMAIN accounts \cup {id}
        /\ \A b \in DOMAIN accounts : accounts'[b] = accounts[b]
    BY <1>3 DEF CreateAccount, Put
  <2>2. transactions' = transactions /\ auditLog' = Append(auditLog, Event("account.created", id))
    BY <1>3 DEF CreateAccount
  <2> QED
    BY <2>1, <2>2, OpeningStep DEF Opening
<1>4. ASSUME NEW req \in Request, NEW now \in Date, PostTransaction(req, now)
      PROVE  BookInv'
  <2> DEFINE id == Len(transactions) + 1
             event == Event("transaction.posted", id)
  <2>1. /\ DOMAIN transactions' = DOMAIN transactions \cup {id} /\ Len(transactions) \in Nat
        /\ \A t \in DOMAIN transactions : transactions'[t] = transactions[t]
    BY <1>0, <1>4, PostStep
  <2>2. accounts' = accounts /\ auditLog' = Append(auditLog, event)
    BY <1>4 DEF PostTransaction, chart
  <2>3. event \in AuditEvent /\ event.entity = id /\ event.type = "transaction.posted"
    BY <2>1 DEF Event, AuditEvent, Posting
  <2>4. RecordedIn(transactions', event) = transactions'[id].entries
    BY <2>3 DEF RecordedIn
  <2> HIDE DEF event
  <2> QED
    BY <2>1, <2>2, <2>3, <2>4, PostingStep
<1>5. ASSUME NEW tx \in DOMAIN transactions, NEW now \in Date, ReverseTransaction(tx, now)
      PROVE  BookInv'
  <2> DEFINE id == Len(transactions) + 1
             event == [type |-> "transaction.reversed", entity |-> tx, reversal |-> id]
  <2>1. /\ DOMAIN transactions' = DOMAIN transactions \cup {id} /\ Len(transactions) \in Nat
        /\ DOMAIN transactions = 1 .. Len(transactions)
        /\ \A t \in DOMAIN transactions :
             transactions'[t] = IF t = tx THEN [transactions[t] EXCEPT !.status = "Reversed"]
                                ELSE transactions[t]
        /\ transactions'[id] = Reversal(tx, now)
    BY <1>0, <1>5, ReverseStep
  <2>2. accounts' = accounts /\ auditLog' = Append(auditLog, event)
    BY <1>5 DEF ReverseTransaction
  <2>3. event \in AuditEvent /\ event.entity = tx /\ event.type = "transaction.reversed"
    BY <2>1 DEF AuditEvent, Posting
  <2>4. \A t \in DOMAIN transactions : transactions'[t].entries = transactions[t].entries
    BY <1>0, <2>1, StoredTransactions DEF Transaction
  <2>5. transactions'[id].entries = Flip(transactions[tx].entries)
    BY <2>1 DEF Reversal
  <2>6. RecordedIn(transactions', event) = transactions'[id].entries
    BY <2>3, <2>4, <2>5 DEF RecordedIn
  <2> HIDE DEF event
  <2> QED
    BY <2>1, <2>2, <2>3, <2>4, <2>6, PostingStep
<1>6. CASE UNCHANGED vars
  <2>1. UNCHANGED <<accounts, transactions, auditLog>>
    BY <1>6 DEF vars
  <2> QED
    BY <2>1 DEF BookInv
<1> QED
  BY <1>1, <1>2, <1>3, <1>4, <1>5, <1>6 DEF Next

LEMMA BookAlways == Spec => []BookInv
<1>1. Spec => []TypeOK /\ []DoubleEntry
  BY TypeCorrect, DoubleEntryAlways, PTL
<1> QED
  BY <1>1, InitBookInv, NextBookInv, PTL DEF Spec

(* The accounting equation holds of the whole book after any postings and   *)
(* reversals, for any integer width, wrapped sums included.                 *)
THEOREM BalanceSheetAlways == Spec => []BalanceSheet
<1>1. BookInv => BalanceSheet
  <2> SUFFICES ASSUME BookInv PROVE BalanceSheet
    OBVIOUS
  <2> DEFINE S == DOMAIN accounts
             D == {"Asset", "Expense"}
             C == {"Liability", "Equity", "Revenue"}
             debits == [a \in S |-> IF accounts[a].type \in D THEN BookBalance(a) ELSE 0]
             credits == [a \in S |-> IF accounts[a].type \in C THEN BookBalance(a) ELSE 0]
             net == Net(accounts, Posted(transactions))
  <2>1. /\ ChartTyped(accounts)
        /\ Lists(Posted(transactions), Len(transactions), DOMAIN accounts)
        /\ Wrap(NetSum(accounts, Posted(transactions))) = 0
    BY BookLists DEF BookInv
  <2>2. \A a \in S : /\ BookBalance(a) \in Int
                     /\ net[a] = DebitSide(accounts[a].type, BookBalance(a))
    BY <2>1, BalanceIs, NetType, TotalType, WrapType DEF ChartTyped
  <2>3. /\ \A a \in S : accounts[a].type \in D <=> accounts[a].type \notin C
        /\ \A a \in S : accounts[a].type \in D <=> accounts[a].type \in Checked
    BY <2>1 DEF ChartTyped, AccountType, Checked
  <2>4. Ints(debits, S) /\ Ints(credits, S) /\ Ints(net, S) /\ IsFiniteSet(S)
    BY <2>1, <2>2, NetType DEF Ints, ChartTyped
  <2>5. \A a \in S : debits[a] = net[a] + credits[a]
    BY <2>2, <2>3 DEF DebitSide
  <2>6. /\ SumFunction(debits) = SumFunctionOnSet(debits, DOMAIN debits) /\ DOMAIN debits = S
        /\ SumFunction(credits) = SumFunctionOnSet(credits, DOMAIN credits) /\ DOMAIN credits = S
    BY Zenon DEF SumFunction
  <2>7. BalanceSheet <=> Wrap(SumFunction(debits)) = Wrap(SumFunction(credits))
    BY Zenon DEF BalanceSheet
  <2> HIDE DEF debits, credits, net
  <2>8. SumFunctionOnSet(debits, S) = SumFunctionOnSet(net, S) + SumFunctionOnSet(credits, S)
    BY <2>4, <2>5, SumPlus
  <2>9. PICK x \in Int, y \in Int : x = SumFunctionOnSet(net, S) /\ y = SumFunctionOnSet(credits, S)
    BY <2>4, SumType
  <2>10. Wrap(x) = Wrap(0)
    BY <2>1, <2>9, WrapZero DEF NetSum, net
  <2>11. Wrap(x + y) = Wrap(0 + y)
    BY <2>9, <2>10, WrapPlus
  <2>12. 0 + y = y
    BY <2>9
  <2> QED
    BY <2>6, <2>7, <2>8, <2>9, <2>11, <2>12
<1> QED
  BY <1>1, BookAlways, PTL

(* Replaying the audit log gives every account's book balance, for any      *)
(* number of postings, reversals and reversals of reversals.                *)
THEOREM AuditReconcilesAlways == Spec => []AuditReconciles
<1>1. BookInv => AuditReconciles
  <2> SUFFICES ASSUME BookInv, NEW a \in DOMAIN accounts
               PROVE  BookBalance(a) = Wrap(SumFunction(
                        [i \in DOMAIN auditLog |-> Impact(a, Recorded(auditLog[i]))]))
    BY Zenon DEF AuditReconciles
  <2> QED
    BY BalanceIs, ReplayIs DEF BookInv, Replays
<1> QED
  BY <1>1, BookAlways, PTL

-----------------------------------------------------------------------------
(* The book as a journal.  An account has the type that was chosen for its  *)
(* ID, so what entries do to it does not depend on whether it is open yet.  *)
TypesGiven == \A a \in DOMAIN accounts : accounts[a].type = TypeOf[a]

JournalInv == BookInv /\ TypesGiven

LEMMA JournalAlways == Spec => []JournalInv
<1>1. Init => TypesGiven
  BY DEF Init, TypesGiven
<1>2. TypesGiven /\ [Next]_vars => TypesGiven'
  <2> SUFFICES ASSUME TypesGiven, [Next]_vars PROVE TypesGiven'
    OBVIOUS
  <2>1. CASE accounts' = accounts
    BY <2>1 DEF TypesGiven
  <2>2. ASSUME NEW id \in AccountId, NEW subledger \in SubledgerId, CreateAccount(id, subledger)
        PROVE  TypesGiven'
    BY <2>2 DEF TypesGiven, CreateAccount, Put
  <2> QED
    BY <2>1, <2>2 DEF Next, vars, chart, CreateLedger, CreateSubledger, PostTransaction,
       ReverseTransaction
<1> QED
  BY <1>1, <1>2, BookAlways, PTL DEF Spec, JournalInv

MoveIn(entries) == [a \in AccountId |-> ImpactOf(TypeOf[a], a, entries)]
BalancesIn(txs) == [a \in AccountId |-> Wrap(Total(TypeOf[a], a, Posted(txs)))]
MovesIn(txs) ==
  [t \in DOMAIN txs |->
    [effect |-> MoveIn(txs[t].entries), undone |-> txs[t].status = "Reversed"]]

LEMMA TypeGiven == \A a \in AccountId : TypeOf[a] \in AccountType
BY TypeOfAssumption

(* What the refinement mapping makes of the state. *)
JournalTypes == [a \in DOMAIN accounts |-> accounts[a].type]
JournalBalance == [a \in AccountId |-> IF a \in DOMAIN accounts THEN BookBalance(a) ELSE 0]
JournalMoves ==
  [t \in DOMAIN transactions |->
    [effect |-> ImpactOn(t), undone |-> transactions[t].status = "Reversed"]]

Mapping ==
  /\ Lists(Posted(transactions), Len(transactions), DOMAIN accounts)
  /\ DOMAIN transactions = 1 .. Len(transactions) /\ Len(transactions) \in Nat
  /\ JournalTypes = [a \in DOMAIN accounts |-> TypeOf[a]]
  /\ JournalBalance = BalancesIn(transactions)
  /\ JournalMoves = MovesIn(transactions)

LEMMA Mapped ==
  ASSUME JournalInv
  PROVE  Mapping
<1>1. /\ Lists(Posted(transactions), Len(transactions), DOMAIN accounts)
      /\ DOMAIN transactions = 1 .. Len(transactions) /\ Len(transactions) \in Nat
  BY BookLists DEF JournalInv, Posted, Lists
<1>2. ASSUME NEW a \in AccountId
      PROVE  (IF a \in DOMAIN accounts THEN BookBalance(a) ELSE 0)
               = Wrap(Total(TypeOf[a], a, Posted(transactions)))
  <2>1. CASE a \in DOMAIN accounts
    BY <2>1, BalanceIs DEF JournalInv, TypesGiven
  <2>2. CASE a \notin DOMAIN accounts
    BY <1>1, <2>2, TotalNone, WrapZero
  <2> QED
    BY <2>1, <2>2
<1>3. ASSUME NEW t \in DOMAIN transactions
      PROVE  ImpactOn(t) = MoveIn(transactions[t].entries)
  <2>1. /\ transactions[t].entries \in Seq(Entry)
        /\ \A j \in DOMAIN transactions[t].entries :
             transactions[t].entries[j].account \in DOMAIN accounts
    <3>1. Posted(transactions)[t] = transactions[t].entries
      BY DEF Posted
    <3> QED
      BY <1>1, <3>1 DEF Lists
  <2>2. ASSUME NEW a \in AccountId
        PROVE  (IF a \in DOMAIN accounts THEN Impact(a, transactions[t].entries) ELSE 0)
                 = ImpactOf(TypeOf[a], a, transactions[t].entries)
    <3>1. CASE a \in DOMAIN accounts
      BY <3>1, ImpactIs DEF JournalInv, TypesGiven
    <3>2. CASE a \notin DOMAIN accounts
      BY <2>1, <3>2, ImpactNone
    <3> QED
      BY <3>1, <3>2
  <2> QED
    BY <2>2 DEF ImpactOn, MoveIn
<1>4. JournalTypes = [a \in DOMAIN accounts |-> TypeOf[a]]
  BY DEF JournalInv, TypesGiven, JournalTypes
<1>5. JournalBalance = BalancesIn(transactions)
  BY <1>2 DEF BalancesIn, JournalBalance
<1>6. JournalMoves = MovesIn(transactions)
  BY <1>3 DEF MovesIn, JournalMoves
<1> QED
  BY <1>1, <1>4, <1>5, <1>6 DEF Mapping

(* The amounts of a journal wrap as the book's do, and its sums are the     *)
(* book's.                                                                  *)
LEMMA SameWrapping == \A n : Book!Wrap(n) = Wrap(n)
BY DEF Book!Wrap, Wrap

LEMMA SameSums == ASSUME NEW f PROVE Book!SumFunction(f) = SumFunction(f)
BY Zenon DEF Book!SumFunction, Book!SumFunctionOnSet, Book!FoldFunctionOnSet, Book!MapThenFoldSet,
   SumFunction, SumFunctionOnSet, FoldFunctionOnSet, MapThenFoldSet


LEMMA BalancedIs ==
  ASSUME NEW delta, NEW D, D = {a \in DOMAIN accounts : accounts[a].type \in Checked}
  PROVE  Book!Balanced(delta) <=>
           Wrap(SumFunction([a \in D |-> delta[a]]))
             = Wrap(SumFunction([a \in DOMAIN accounts \ D |-> delta[a]]))
<1> DEFINE T == [a \in DOMAIN accounts |-> accounts[a].type]
           E == {a \in DOMAIN T : T[a] \in Checked}
<1>1. Book!Balanced(delta) <=>
        Book!Wrap(Book!SumFunction([a \in E |-> delta[a]]))
          = Book!Wrap(Book!SumFunction([a \in DOMAIN T \ E |-> delta[a]]))
  BY DEF Book!Balanced
<1>2. DOMAIN T = DOMAIN accounts /\ E = D
  OBVIOUS
<1> HIDE DEF T, E
<1> QED
  BY <1>1, <1>2, SameWrapping, SameSums

(* The impact of balanced entries is a balanced move. *)
LEMMA MoveBalanced ==
  ASSUME JournalInv, NEW entries \in Seq(Entry), ValidateBalance(entries),
         \A i \in DOMAIN entries : entries[i].account \in DOMAIN accounts
  PROVE  Book!Balanced(MoveIn(entries))
<1> DEFINE S == DOMAIN accounts
           D == {a \in S : accounts[a].type \in Checked}
           C == S \ D
           delta == MoveIn(entries)
           net == [a \in S |-> DebitSide(TypeOf[a], ImpactOf(TypeOf[a], a, entries))]
           onD == [a \in D |-> delta[a]]
           onC == [a \in C |-> delta[a]]
<1>1. /\ IsFiniteSet(S) /\ S \subseteq AccountId
      /\ \A a \in S : TypeOf[a] \in AccountType /\ accounts[a].type = TypeOf[a]
  BY TypeGiven DEF JournalInv, BookInv, TypeOK, TypesGiven
<1>2. /\ IsFiniteSet(D) /\ IsFiniteSet(C) /\ D \cap C = {} /\ D \cup C = S
      /\ D \subseteq S /\ C \subseteq S
  <2>1. IsFiniteSet(D) /\ IsFiniteSet(C)
    <3>1. D \subseteq S /\ C \subseteq S
      OBVIOUS
    <3> QED
      BY <1>1, <3>1, FS_Subset
  <2> QED
    BY <2>1
<1>3. Ints(net, S) /\ Wrap(SumFunctionOnSet(net, S)) = 0
  <2>1. \A a \in S : net[a] = DebitSide(TypeOf[a], ImpactOf(TypeOf[a], a, entries))
    OBVIOUS
  <2> HIDE DEF net
  <2> QED
    BY <1>1, <2>1, BalancedImpacts
<1>4. \A a \in S : delta[a] = ImpactOf(TypeOf[a], a, entries) /\ delta[a] \in Int
  BY <1>1, ImpactSigned DEF MoveIn
<1>5. /\ \A a \in D : net[a] = onD[a] /\ onD[a] \in Int
      /\ \A a \in C : onC[a] \in Int /\ net[a] = -onC[a]
  BY <1>1, <1>4 DEF DebitSide
<1>6. /\ SumFunction(onD) = SumFunctionOnSet(onD, D)
      /\ SumFunction(onC) = SumFunctionOnSet(onC, C)
  <2>1. DOMAIN onD = D /\ DOMAIN onC = C
    OBVIOUS
  <2>2. /\ SumFunction(onD) = SumFunctionOnSet(onD, DOMAIN onD)
        /\ SumFunction(onC) = SumFunctionOnSet(onC, DOMAIN onC)
    BY Zenon DEF SumFunction
  <2> HIDE DEF onD, onC
  <2> QED
    BY <2>1, <2>2
<1>7. Book!Balanced(delta) <=> Wrap(SumFunction(onD)) = Wrap(SumFunction(onC))
  BY BalancedIs
<1> HIDE DEF S, D, C, delta, net, onD, onC
<1>8. Ints(net, D) /\ Ints(net, C) /\ Ints(onD, D) /\ Ints(onC, C)
  BY <1>2, <1>3, <1>5 DEF Ints
<1>9. SumFunctionOnSet(net, D \cup C) = SumFunctionOnSet(net, D) + SumFunctionOnSet(net, C)
  BY <1>2, <1>8, SumUnion
<1>10. PICK x \in Int, y \in Int : x = SumFunctionOnSet(onD, D) /\ y = SumFunctionOnSet(onC, C)
  BY <1>2, <1>8, SumType
<1>11. SumFunctionOnSet(net, D) = x /\ SumFunctionOnSet(net, C) = -y
  BY <1>2, <1>5, <1>8, <1>10, SumSame, SumOpposite
<1>12. Wrap(x - y) = Wrap(0) /\ (x - y) + y = x /\ 0 + y = y /\ x - y \in Int
  <2>1. SumFunctionOnSet(net, S) = x + (-y)
    BY <1>2, <1>9, <1>11
  <2>2. x + (-y) = x - y /\ (x - y) + y = x /\ 0 + y = y /\ x - y \in Int
    BY <1>10
  <2>3. Wrap(x - y) = 0
    BY <1>3, <2>1, <2>2
  <2> QED
    BY <2>2, <2>3, WrapZero
<1>13. Wrap((x - y) + y) = Wrap(0 + y)
  BY <1>10, <1>12, WrapPlus
<1>14. Wrap(SumFunction(onD)) = Wrap(SumFunction(onC))
  BY <1>6, <1>10, <1>12, <1>13
<1> QED
  BY <1>7, <1>14 DEF delta

(* A posting adds its move to the balances. *)
LEMMA MoveAdds ==
  ASSUME NEW txs, NEW later, NEW n, NEW S, NEW T, Lists(Posted(txs), n, S), Lists(Posted(later), n + 1, T),
         S \subseteq T, Extends(Posted(txs), n, Posted(later)), NEW entries, Posted(later)[n + 1] = entries
  PROVE  /\ BalancesIn(later) = [a \in AccountId |-> Wrap(BalancesIn(txs)[a] + MoveIn(entries)[a])]
         /\ \A a \in AccountId : BalancesIn(txs)[a] \in Int /\ MoveIn(entries)[a] \in Int
<1>1. Lists(Posted(txs), n, T)
  BY DEF Lists
<1>2. ASSUME NEW a \in AccountId
      PROVE  /\ BalancesIn(txs)[a] \in Int /\ MoveIn(entries)[a] \in Int
             /\ BalancesIn(later)[a] = Wrap(BalancesIn(txs)[a] + MoveIn(entries)[a])
  <2>1. PICK total \in Int, i \in Int :
          /\ total = Total(TypeOf[a], a, Posted(txs)) /\ i = ImpactOf(TypeOf[a], a, entries)
          /\ Total(TypeOf[a], a, Posted(later)) = total + i
    BY <1>1, TypeGiven, TotalExtends
  <2>2. Wrap(total) \in Int /\ Wrap(Wrap(total)) = Wrap(total)
    BY <2>1, WrapType, WrapAgain
  <2>3. Wrap(Wrap(total) + i) = Wrap(total + i)
    BY <2>1, <2>2, WrapPlus
  <2>4. /\ BalancesIn(txs)[a] = Wrap(total) /\ BalancesIn(later)[a] = Wrap(total + i)
        /\ MoveIn(entries)[a] = i
    BY <2>1 DEF BalancesIn, MoveIn
  <2> QED
    BY <2>1, <2>2, <2>3, <2>4
<1>3. DOMAIN BalancesIn(later) = AccountId /\ BalancesIn(later) = [a \in AccountId |-> BalancesIn(later)[a]]
  BY DEF BalancesIn
<1> QED
  BY <1>2, <1>3


(* Flipped entries do the opposite. *)
LEMMA FlipOpposite ==
  ASSUME NEW entries \in Seq(Entry), NEW type, NEW a
  PROVE  /\ ImpactOf(type, a, Flip(entries)) = Wrap(-ImpactOf(type, a, entries))
         /\ ImpactOf(type, a, entries) \in Int
<1> DEFINE D == DOMAIN entries
           f == Effect(type, a, entries)
           g == Effect(type, a, Flip(entries))
<1>1. IsFiniteSet(D) /\ Ints(f, D) /\ DOMAIN Flip(entries) = D
  BY EntriesTyped, FlipType DEF Ints, Effect
<1>2. \A i \in D : /\ Flip(entries)[i].account = entries[i].account
                   /\ Flip(entries)[i].amount = entries[i].amount
                   /\ Flip(entries)[i].direction = Opposite(entries[i].direction)
  <2>1. \A i \in D : entries[i] \in Entry
    BY ElementOfSeq, LenProperties
  <2>2. \A e \in Entry : LET u == [e EXCEPT !.direction = Opposite(@)]
                         IN  /\ u.account = e.account /\ u.amount = e.amount
                             /\ u.direction = Opposite(e.direction)
    BY DEF Entry
  <2>3. \A i \in D : Flip(entries)[i] = [entries[i] EXCEPT !.direction = Opposite(@)]
    BY DEF Flip
  <2> QED
    BY <2>1, <2>2, <2>3
<1>3. \A i \in D : g[i] = -f[i]
  BY <1>1, <1>2, EntriesTyped DEF Effect, Opposite, NormalBalance
<1>4. /\ ImpactOf(type, a, entries) = Wrap(SumFunctionOnSet(f, D))
      /\ ImpactOf(type, a, Flip(entries)) = Wrap(SumFunctionOnSet(g, D))
  BY <1>1, ImpactSum
<1> HIDE DEF f, g, D
<1>5. SumFunctionOnSet(g, D) = -SumFunctionOnSet(f, D)
  BY <1>1, <1>3, SumOpposite
<1>6. PICK n \in Int : n = SumFunctionOnSet(f, D)
  BY <1>1, SumType
<1>7. Wrap(n) \in Int /\ Wrap(-Wrap(n)) = Wrap(-n)
  BY <1>6, WrapType, WrapAgain, WrapMinus
<1> QED
  BY <1>4, <1>5, <1>6, <1>7
-----------------------------------------------------------------------------
(* The moves of a journal. *)
MoveMade == [effect: [AccountId -> Int], undone: BOOLEAN]

LEMMA MovesTyped ==
  ASSUME NEW n, NEW S, NEW txs, Lists(Posted(txs), n, S), DOMAIN txs = 1 .. n, n \in Nat
  PROVE  MovesIn(txs) \in Seq(MoveMade) /\ Len(MovesIn(txs)) = n /\ DOMAIN MovesIn(txs) = 1 .. n
<1>1. ASSUME NEW t \in 1 .. n PROVE MoveIn(txs[t].entries) \in [AccountId -> Int]
  <2>1. txs[t].entries \in Seq(Entry)
    BY DEF Lists, Posted
  <2> QED
    BY <2>1, TypeGiven, ImpactSigned DEF MoveIn
<1>2. \A t \in 1 .. n : (txs[t].status = "Reversed") \in BOOLEAN
  OBVIOUS
<1>3. \A t \in 1 .. n : [effect |-> MoveIn(txs[t].entries), undone |-> txs[t].status = "Reversed"]
                          \in MoveMade
  BY <1>1, <1>2 DEF MoveMade
<1>4. MovesIn(txs) \in [1 .. n -> MoveMade]
  BY <1>3 DEF MovesIn
<1> QED
  BY <1>4, SeqDef, LenProperties

(* A sequence that has one element more than another. *)
LEMMA OneMore ==
  ASSUME NEW X, NEW n \in Nat, NEW s \in Seq(X), NEW f \in Seq(X), Len(s) = n, Len(f) = n + 1,
         \A i \in 1 .. n : f[i] = s[i]
  PROVE  f = Append(s, f[n + 1])
<1>1. f[n + 1] \in X
  BY ElementOfSeq
<1>2. /\ Append(s, f[n + 1]) \in Seq(X) /\ Len(Append(s, f[n + 1])) = n + 1
      /\ \A i \in 1 .. n : Append(s, f[n + 1])[i] = s[i]
      /\ Append(s, f[n + 1])[n + 1] = f[n + 1]
  BY <1>1, AppendProperties
<1>3. \A i \in 1 .. n + 1 : i \in 1 .. n \/ i = n + 1
  OBVIOUS
<1>4. \A i \in 1 .. Len(f) : f[i] = Append(s, f[n + 1])[i]
  BY <1>2, <1>3
<1> QED
  BY <1>2, <1>4, SeqEqual

-----------------------------------------------------------------------------
(* The steps of the journal, in terms of the mapping. *)
LEMMA JournalSteps ==
  ASSUME NEW delta, NEW m
  PROVE  /\ Book!Moved(delta) = [a \in AccountId |-> Wrap(JournalBalance[a] + delta[a])]
         /\ Book!Make(delta) <=>
              /\ Book!Balanced(delta)
              /\ \A a \in DOMAIN JournalTypes :
                   (JournalTypes[a] \in Checked /\ delta[a] < 0) => Book!Moved(delta)[a] >= 0
              /\ JournalBalance' = Book!Moved(delta)
              /\ JournalMoves' = Append(JournalMoves, [effect |-> delta, undone |-> FALSE])
              /\ JournalTypes' = JournalTypes
         /\ Book!Undo(m) <=>
              LET inverse == [a \in AccountId |-> Wrap(-JournalMoves[m].effect[a])]
              IN  /\ ~JournalMoves[m].undone
                  /\ JournalBalance' = Book!Moved(inverse)
                  /\ JournalMoves' = Append([JournalMoves EXCEPT ![m].undone = TRUE],
                                            [effect |-> inverse, undone |-> FALSE])
                  /\ JournalTypes' = JournalTypes
         /\ Book!Open <=>
              /\ DOMAIN JournalTypes \subseteq DOMAIN JournalTypes' /\ JournalTypes # JournalTypes'
              /\ \A a \in DOMAIN JournalTypes : JournalTypes'[a] = JournalTypes[a]
              /\ JournalBalance' = JournalBalance /\ JournalMoves' = JournalMoves
<1> USE DEF JournalTypes, JournalBalance, JournalMoves
<1>1. Book!Moved(delta) = [a \in AccountId |-> Wrap(JournalBalance[a] + delta[a])]
  BY SameWrapping DEF Book!Moved
<1>2. Book!Make(delta) <=>
        /\ Book!Balanced(delta)
        /\ \A a \in DOMAIN JournalTypes :
             (JournalTypes[a] \in Checked /\ delta[a] < 0) => Book!Moved(delta)[a] >= 0
        /\ JournalBalance' = Book!Moved(delta)
        /\ JournalMoves' = Append(JournalMoves, [effect |-> delta, undone |-> FALSE])
        /\ JournalTypes' = JournalTypes
  BY DEF Book!Make
<1>3. Book!Undo(m) <=>
        LET inverse == [a \in AccountId |-> Wrap(-JournalMoves[m].effect[a])]
        IN  /\ ~JournalMoves[m].undone
            /\ JournalBalance' = Book!Moved(inverse)
            /\ JournalMoves' = Append([JournalMoves EXCEPT ![m].undone = TRUE],
                                      [effect |-> inverse, undone |-> FALSE])
            /\ JournalTypes' = JournalTypes
  <2> DEFINE inverse == [a \in AccountId |-> Book!Wrap(-JournalMoves[m].effect[a])]
  <2>1. Book!Undo(m) <=>
          /\ ~JournalMoves[m].undone
          /\ JournalBalance' = Book!Moved(inverse)
          /\ JournalMoves' = Append([JournalMoves EXCEPT ![m].undone = TRUE],
                                    [effect |-> inverse, undone |-> FALSE])
          /\ JournalTypes' = JournalTypes
    BY DEF Book!Undo
  <2>2. inverse = [a \in AccountId |-> Wrap(-JournalMoves[m].effect[a])]
    BY SameWrapping
  <2> HIDE DEF inverse, JournalTypes, JournalBalance, JournalMoves
  <2> QED
    BY <2>1, <2>2
<1>4. Book!Open <=>
        /\ DOMAIN JournalTypes \subseteq DOMAIN JournalTypes' /\ JournalTypes # JournalTypes'
        /\ \A a \in DOMAIN JournalTypes : JournalTypes'[a] = JournalTypes[a]
        /\ JournalBalance' = JournalBalance /\ JournalMoves' = JournalMoves
  BY DEF Book!Open
<1> QED
  BY <1>1, <1>2, <1>3, <1>4


(* Opening an account is the journal's Open, and any other opening nothing  *)
(* to it.                                                                   *)
LEMMA OpensJournal ==
  ASSUME Mapping, Mapping', transactions' = transactions,
         NEW a, a \notin DOMAIN accounts, DOMAIN accounts' = DOMAIN accounts \cup {a}
  PROVE  Book!Open
<1>1. JournalBalance' = JournalBalance /\ JournalMoves' = JournalMoves
  BY DEF Mapping, BalancesIn, MovesIn, Posted
<1>2. /\ JournalTypes = [b \in DOMAIN accounts |-> TypeOf[b]]
      /\ JournalTypes' = [b \in DOMAIN accounts \cup {a} |-> TypeOf[b]]
  BY DEF Mapping
<1>3. /\ DOMAIN JournalTypes = DOMAIN accounts
      /\ DOMAIN JournalTypes' = DOMAIN accounts \cup {a}
      /\ \A b \in DOMAIN JournalTypes : JournalTypes'[b] = JournalTypes[b]
  BY <1>2
<1>4. JournalTypes # JournalTypes'
  BY <1>3
<1> QED
  BY <1>1, <1>3, <1>4, JournalSteps

(* A posting is the move of its impact. *)
LEMMA PostIsMake ==
  ASSUME JournalInv, Mapping, Mapping', NEW req \in Request, NEW now \in Date,
         PostTransaction(req, now)
  PROVE  Book!Make(MoveOf(req))
<1> DEFINE n == Len(transactions)
           entries == req.entries
           delta == MoveIn(entries)
<1>0. TypeOK /\ TypesGiven /\ MoveOf(req) = delta
  BY DEF JournalInv, BookInv, MoveOf, MoveIn
<1>1. /\ DOMAIN transactions' = DOMAIN transactions \cup {n + 1} /\ n \in Nat
      /\ \A t \in DOMAIN transactions : transactions'[t] = transactions[t]
      /\ transactions'[n + 1].entries = entries /\ transactions'[n + 1].status = "Posted"
      /\ entries \in Seq(Entry)
  BY <1>0, PostStep
<1>2. /\ accounts' = accounts /\ ValidateBalance(entries) /\ CheckSufficientBalance(entries)
      /\ \A i \in DOMAIN entries : entries[i].account \in DOMAIN accounts
  BY DEF PostTransaction, chart
<1>3. /\ DOMAIN transactions = 1 .. n /\ DOMAIN transactions' = 1 .. n + 1
      /\ Len(transactions') = n + 1
      /\ Lists(Posted(transactions), n, DOMAIN accounts)
      /\ Lists(Posted(transactions'), n + 1, DOMAIN accounts)
  <2>1. DOMAIN transactions = 1 .. n
    BY DEF Mapping
  <2>2. DOMAIN transactions' = 1 .. Len(transactions') /\ Len(transactions') \in Nat
    BY DEF Mapping
  <2>3. DOMAIN transactions' = 1 .. n + 1
    BY <1>1, <2>1
  <2>4. Len(transactions') = n + 1
    BY <1>1, <2>2, <2>3
  <2> QED
    BY <1>2, <2>1, <2>3, <2>4 DEF Mapping
<1>4. /\ Extends(Posted(transactions), n, Posted(transactions'))
      /\ Posted(transactions')[n + 1] = entries
  BY <1>1, <1>3 DEF Extends, Posted
<1> HIDE DEF n, entries, delta
<1>5. /\ BalancesIn(transactions') = [a \in AccountId |-> Wrap(BalancesIn(transactions)[a] + delta[a])]
      /\ \A a \in AccountId : BalancesIn(transactions)[a] \in Int /\ delta[a] \in Int
  BY <1>3, <1>4, MoveAdds DEF delta
<1>6. JournalBalance' = Book!Moved(delta) /\ Book!Moved(delta) = BalancesIn(transactions')
  BY <1>5, JournalSteps DEF Mapping
<1>7. JournalMoves' = Append(JournalMoves, [effect |-> delta, undone |-> FALSE])
  <2>1. /\ MovesIn(transactions) \in Seq(MoveMade) /\ Len(MovesIn(transactions)) = n
        /\ MovesIn(transactions') \in Seq(MoveMade) /\ Len(MovesIn(transactions')) = n + 1
    BY <1>1, <1>3, MovesTyped
  <2>2. \A t \in 1 .. n : MovesIn(transactions')[t] = MovesIn(transactions)[t]
    BY <1>1, <1>3 DEF MovesIn
  <2>3. MovesIn(transactions')[n + 1] = [effect |-> delta, undone |-> FALSE]
    <3>1. n + 1 \in DOMAIN transactions'
      BY <1>1
    <3>2. MovesIn(transactions')[n + 1]
            = [effect |-> MoveIn(transactions'[n + 1].entries),
               undone |-> transactions'[n + 1].status = "Reversed"]
      BY <3>1 DEF MovesIn
    <3>3. (transactions'[n + 1].status = "Reversed") = FALSE
      BY <1>1
    <3> QED
      BY <1>1, <3>2, <3>3 DEF delta
  <2> QED
    BY <1>1, <2>1, <2>2, <2>3, OneMore DEF Mapping
<1>8. JournalTypes' = JournalTypes
  BY <1>2 DEF Mapping
<1>9. Book!Balanced(delta)
  BY <1>1, <1>2, MoveBalanced DEF delta
<1>10. ASSUME NEW a \in DOMAIN JournalTypes, JournalTypes[a] \in Checked, delta[a] < 0
       PROVE  Book!Moved(delta)[a] >= 0
  <2>1. /\ a \in DOMAIN accounts /\ a \in AccountId
        /\ accounts[a].type \in Checked /\ accounts[a].type = TypeOf[a]
    BY <1>0, <1>10 DEF Mapping, TypesGiven, TypeOK
  <2>2. delta[a] = ImpactOf(TypeOf[a], a, entries)
    BY <2>1 DEF delta, MoveIn
  <2>3. Impact(a, entries) = delta[a]
    BY <2>1, <2>2, ImpactIs
  <2>4. a \in {entries[i].account : i \in DOMAIN entries}
    <3>1. SUFFICES ASSUME \A i \in DOMAIN entries : entries[i].account # a PROVE FALSE
      OBVIOUS
    <3>2. ImpactOf(TypeOf[a], a, entries) = 0
      BY <1>1, <3>1, ImpactNone
    <3> QED
      BY <1>10, <2>2, <3>2
  <2>5. Wrap(BookBalance(a) + delta[a]) >= 0
    BY <1>2, <1>10, <2>1, <2>3, <2>4 DEF CheckSufficientBalance
  <2>6. BookBalance(a) = BalancesIn(transactions)[a]
    BY <2>1, BalanceIs DEF BalancesIn
  <2> QED
    BY <1>5, <1>6, <2>1, <2>5, <2>6
<1>11. Book!Make(delta)
  BY <1>6, <1>7, <1>8, <1>9, <1>10, JournalSteps
<1> QED
  BY <1>0, <1>11


LEMMA MoveUndone ==
  ASSUME NEW e, NEW u, NEW v, NEW move, move = [effect |-> e, undone |-> u]
  PROVE  /\ move.effect = e /\ move.undone = u
         /\ [move EXCEPT !.undone = v] = [effect |-> e, undone |-> v]
OBVIOUS

(* A reversal is the undoing of the move it reverses. *)
LEMMA ReverseIsUndo ==
  ASSUME JournalInv, Mapping, Mapping', NEW tx \in DOMAIN transactions, NEW now \in Date,
         ReverseTransaction(tx, now)
  PROVE  Book!Undo(tx)
<1> DEFINE n == Len(transactions)
           entries == transactions[tx].entries
           flipped == Flip(entries)
           inverse == [a \in AccountId |-> Wrap(-MoveIn(entries)[a])]
           made == MovesIn(transactions)
           later == MovesIn(transactions')
           marked == [made EXCEPT ![tx].undone = TRUE]
<1>0. TypeOK
  BY DEF JournalInv, BookInv
<1>1. /\ DOMAIN transactions' = DOMAIN transactions \cup {n + 1} /\ n \in Nat
      /\ DOMAIN transactions = 1 .. n
      /\ \A t \in DOMAIN transactions :
           transactions'[t] = IF t = tx THEN [transactions[t] EXCEPT !.status = "Reversed"]
                              ELSE transactions[t]
      /\ transactions'[n + 1].entries = flipped /\ transactions'[n + 1].status = "Posted"
  <2>1. /\ DOMAIN transactions' = DOMAIN transactions \cup {n + 1} /\ n \in Nat
        /\ DOMAIN transactions = 1 .. n
        /\ \A t \in DOMAIN transactions :
             transactions'[t] = IF t = tx THEN [transactions[t] EXCEPT !.status = "Reversed"]
                                ELSE transactions[t]
        /\ transactions'[n + 1] = Reversal(tx, now)
    BY <1>0, ReverseStep
  <2>2. Reversal(tx, now).entries = flipped /\ Reversal(tx, now).status = "Posted"
    BY DEF Reversal
  <2> HIDE DEF n, flipped, entries
  <2> QED
    BY <2>1, <2>2
<1>2. \A t \in DOMAIN transactions :
        /\ transactions'[t].entries = transactions[t].entries
        /\ t # tx => transactions'[t].status = transactions[t].status
        /\ t = tx => transactions'[t].status = "Reversed"
  BY <1>0, <1>1, StoredTransactions DEF Transaction
<1>3. accounts' = accounts /\ transactions[tx].status # "Reversed"
  BY DEF ReverseTransaction, CanReverse
<1>4. /\ DOMAIN transactions' = 1 .. n + 1 /\ Len(transactions') = n + 1
      /\ Lists(Posted(transactions), n, DOMAIN accounts)
      /\ Lists(Posted(transactions'), n + 1, DOMAIN accounts)
  <2>1. DOMAIN transactions' = 1 .. Len(transactions') /\ Len(transactions') \in Nat
    BY DEF Mapping
  <2>2. DOMAIN transactions' = 1 .. n + 1
    BY <1>1
  <2>3. Len(transactions') = n + 1
    BY <1>1, <2>1, <2>2
  <2> QED
    BY <1>3, <2>2, <2>3 DEF Mapping
<1>5. /\ Extends(Posted(transactions), n, Posted(transactions'))
      /\ Posted(transactions')[n + 1] = flipped
  BY <1>1, <1>2, <1>4 DEF Extends, Posted
<1>6. entries \in Seq(Entry) /\ flipped \in Seq(Entry)
  BY <1>0, StoredTransactions, FlipType DEF Transaction
<1>7. MoveIn(flipped) = inverse
  <2>1. ASSUME NEW a \in AccountId
        PROVE  ImpactOf(TypeOf[a], a, flipped) = Wrap(-ImpactOf(TypeOf[a], a, entries))
    BY <1>6, FlipOpposite
  <2> HIDE DEF flipped, entries
  <2> QED
    BY <2>1 DEF MoveIn
<1> HIDE DEF n, entries, flipped, inverse, made, later, marked
<1>8. BalancesIn(transactions') = [a \in AccountId |-> Wrap(BalancesIn(transactions)[a] + inverse[a])]
  <2>1. BalancesIn(transactions')
          = [a \in AccountId |-> Wrap(BalancesIn(transactions)[a] + MoveIn(flipped)[a])]
    BY <1>4, <1>5, MoveAdds
  <2> QED
    BY <1>7, <2>1
<1>9. JournalBalance' = Book!Moved(inverse)
  BY <1>8, JournalSteps DEF Mapping
<1>10. /\ made \in Seq(MoveMade) /\ Len(made) = n /\ DOMAIN made = 1 .. n
       /\ later \in Seq(MoveMade) /\ Len(later) = n + 1
  BY <1>1, <1>4, MovesTyped DEF made, later
<1>11. \A t \in 1 .. n : made[t] = [effect |-> MoveIn(transactions[t].entries),
                                    undone |-> transactions[t].status = "Reversed"]
  BY <1>1 DEF made, MovesIn
<1>12. \A t \in 1 .. n + 1 : later[t] = [effect |-> MoveIn(transactions'[t].entries),
                                         undone |-> transactions'[t].status = "Reversed"]
  BY <1>4 DEF later, MovesIn
<1>13. /\ marked \in Seq(MoveMade) /\ Len(marked) = n
       /\ \A t \in 1 .. n : marked[t] = IF t = tx THEN [made[t] EXCEPT !.undone = TRUE] ELSE made[t]
  <2>1. made[tx] \in MoveMade
    BY <1>1, <1>10, ElementOfSeq
  <2> DEFINE done == [made[tx] EXCEPT !.undone = TRUE]
  <2>2. done \in MoveMade
    BY <2>1 DEF MoveMade
  <2>3. marked = [made EXCEPT ![tx] = done]
    BY DEF marked
  <2> HIDE DEF done
  <2>4. tx \in 1 .. Len(made)
    BY <1>1, <1>10
  <2>5. /\ marked \in Seq(MoveMade) /\ Len(marked) = n
        /\ \A t \in 1 .. n : marked[t] = IF t = tx THEN done ELSE made[t]
    BY <1>10, <2>2, <2>3, <2>4, ExceptSeq
  <2> QED
    BY <2>5 DEF done
<1>t. tx \in 1 .. n
  BY <1>1
<1>14. \A t \in 1 .. n : later[t] = marked[t]
  <2> SUFFICES ASSUME NEW t \in 1 .. n PROVE later[t] = marked[t]
    OBVIOUS
  <2>1. t \in 1 .. n + 1 /\ t \in DOMAIN transactions
    BY <1>1
  <2>2. CASE t = tx
    <3>1. later[t] = [effect |-> MoveIn(transactions[t].entries), undone |-> TRUE]
      BY <1>2, <1>12, <2>1, <2>2
    <3>2. marked[t] = [made[t] EXCEPT !.undone = TRUE]
      BY <1>13, <2>2
    <3>3. made[t] = [effect |-> MoveIn(transactions[t].entries),
                     undone |-> transactions[t].status = "Reversed"]
      BY <1>11
    <3> DEFINE e == MoveIn(transactions[t].entries)
               u == transactions[t].status = "Reversed"
    <3>5. made[t] = [effect |-> e, undone |-> u]
      BY <3>3
    <3> HIDE DEF e, u
    <3>6. [made[t] EXCEPT !.undone = TRUE] = [effect |-> e, undone |-> TRUE]
      <4>1. ASSUME NEW v PROVE [made[t] EXCEPT !.undone = v] = [effect |-> e, undone |-> v]
        BY <3>5, MoveUndone
      <4> QED
        BY <4>1, Zenon
    <3>4. marked[t] = [effect |-> e, undone |-> TRUE]
      BY <3>2, <3>6
    <3> QED
      BY <3>1, <3>4 DEF e
  <2>3. CASE t # tx
    <3>1. marked[t] = made[t]
      BY <1>13, <2>3
    <3>2. made[t] = [effect |-> MoveIn(transactions[t].entries),
                     undone |-> transactions[t].status = "Reversed"]
      BY <1>11
    <3>3. later[t] = [effect |-> MoveIn(transactions'[t].entries),
                      undone |-> transactions'[t].status = "Reversed"]
      BY <1>12, <2>1
    <3>4. /\ transactions'[t].entries = transactions[t].entries
          /\ transactions'[t].status = transactions[t].status
      BY <1>2, <2>1, <2>3
    <3> QED
      BY <3>1, <3>2, <3>3, <3>4
  <2> QED
    BY <2>2, <2>3
<1>15. later[n + 1] = [effect |-> inverse, undone |-> FALSE]
  <2>1. n + 1 \in 1 .. n + 1
    BY <1>1
  <2>2. (transactions'[n + 1].status = "Reversed") = FALSE
    BY <1>1
  <2> QED
    BY <1>1, <1>7, <1>12, <2>1, <2>2
<1>16. later = Append(marked, [effect |-> inverse, undone |-> FALSE])
  BY <1>1, <1>10, <1>13, <1>14, <1>15, OneMore
<1>17. /\ JournalMoves = made /\ JournalMoves' = later /\ JournalTypes' = JournalTypes
  BY <1>3 DEF Mapping, made, later
<1>18. /\ ~JournalMoves[tx].undone
       /\ inverse = [a \in AccountId |-> Wrap(-JournalMoves[tx].effect[a])]
  <2>0. made[tx] = [effect |-> MoveIn(entries), undone |-> transactions[tx].status = "Reversed"]
    BY <1>t, <1>11 DEF entries
  <2>1. made[tx].effect = MoveIn(entries) /\ ~made[tx].undone
    <3>1. /\ made[tx].effect = MoveIn(entries)
          /\ made[tx].undone = (transactions[tx].status = "Reversed")
      BY <2>0, MoveUndone
    <3> QED
      BY <1>3, <3>1
  <2>2. JournalMoves[tx].effect = MoveIn(entries) /\ ~JournalMoves[tx].undone
    BY <1>17, <2>1
  <2> QED
    BY <2>2 DEF inverse
<1>19. JournalMoves' = Append([JournalMoves EXCEPT ![tx].undone = TRUE],
                              [effect |-> inverse, undone |-> FALSE])
  BY <1>16, <1>17 DEF marked
<1> QED
  BY <1>9, <1>17, <1>18, <1>19, JournalSteps

(* The empty book is an empty journal. *)
LEMMA OpensEmpty == Init => Book!Init
<1> SUFFICES ASSUME Init PROVE Book!Init
  OBVIOUS
<1>1. accounts = << >> /\ transactions = << >> /\ DOMAIN accounts = {} /\ DOMAIN transactions = {}
  BY DEF Init
<1>2. [a \in DOMAIN accounts |-> accounts[a].type] = << >>
  BY <1>1
<1>3. [a \in AccountId |-> IF a \in DOMAIN accounts THEN BookBalance(a) ELSE 0]
        = [a \in AccountId |-> 0]
  BY <1>1
<1>4. [t \in DOMAIN transactions |->
        [effect |-> ImpactOn(t), undone |-> transactions[t].status = "Reversed"]] = << >>
  BY <1>1
<1> QED
  BY <1>2, <1>3, <1>4 DEF Book!Init

(* A step that touches neither accounts nor transactions is a stutter. *)
LEMMA JournalUnmoved ==
  ASSUME Mapping, Mapping', DOMAIN accounts' = DOMAIN accounts, transactions' = transactions
  PROVE  UNCHANGED Book!vars
<1>1. JournalTypes' = JournalTypes /\ JournalBalance' = JournalBalance /\ JournalMoves' = JournalMoves
  BY DEF Mapping
<1> QED
  BY <1>1 DEF Book!vars, JournalTypes, JournalBalance, JournalMoves

LEMMA JournalMove ==
  ASSUME JournalInv, Mapping, Mapping', [Next]_vars
  PROVE  [Book!Next]_(Book!vars)
<1>1. ASSUME NEW id \in LedgerId, CreateLedger(id) PROVE UNCHANGED Book!vars
  BY <1>1, JournalUnmoved DEF CreateLedger
<1>2. ASSUME NEW id \in SubledgerId, NEW ledger \in LedgerId, CreateSubledger(id, ledger)
      PROVE  UNCHANGED Book!vars
  BY <1>2, JournalUnmoved DEF CreateSubledger
<1>3. ASSUME NEW id \in AccountId, NEW subledger \in SubledgerId, CreateAccount(id, subledger)
      PROVE  Book!Open
  BY <1>3, OpensJournal DEF CreateAccount, Put
<1>4. ASSUME NEW req \in Request, NEW now \in Date, PostTransaction(req, now)
      PROVE  \E delta \in {MoveOf(r) : r \in Request} : Book!Make(delta)
  BY <1>4, PostIsMake
<1>5. ASSUME NEW tx \in DOMAIN transactions, NEW now \in Date, ReverseTransaction(tx, now)
      PROVE  \E m \in DOMAIN JournalMoves : Book!Undo(m)
  <2>1. DOMAIN JournalMoves = DOMAIN transactions
    BY DEF JournalMoves
  <2> QED
    BY <1>5, <2>1, ReverseIsUndo
<1>6. CASE UNCHANGED vars
  BY <1>6, JournalUnmoved DEF vars
<1>7. Book!Next <=> \/ Book!Open
                    \/ \E delta \in {MoveOf(r) : r \in Request} : Book!Make(delta)
                    \/ \E m \in DOMAIN JournalMoves : Book!Undo(m)
  BY DEF Book!Next, JournalMoves
<1> QED
  BY <1>1, <1>2, <1>3, <1>4, <1>5, <1>6, <1>7 DEF Next

(* The book, with its keys, entries, flips and replays, behaves as a        *)
(* journal of balanced moves: an account has the type it was opened with,   *)
(* its balance moves only by a balanced move that does not overdraw an      *)
(* Asset or Expense account, or by undoing a move not undone before.        *)
THEOREM BookImplementsJournal == Spec => ImplementsJournal
<1>1. JournalInv => Mapping
  BY Mapped
<1>2. JournalInv /\ Mapping /\ Mapping' /\ [Next]_vars => [Book!Next]_(Book!vars)
  BY JournalMove
<1>3. Spec => Book!Init
  BY OpensEmpty DEF Spec
<1> QED
  BY <1>1, <1>2, <1>3, JournalAlways, PTL DEF Spec, ImplementsJournal, Book!Spec

=============================================================================
