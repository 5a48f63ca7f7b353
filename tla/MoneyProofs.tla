---------------------------- MODULE MoneyProofs -----------------------------
(***************************************************************************)
(* Theorems about the sums of the payment network, for any finite number   *)
(* of banks and accounts and any number of payments and cycles.            *)
(***************************************************************************)
EXTENDS PaymentProofs, PaymentLedger, Sums

(* The value of the payments S of the list P. *)
Worth(P, S) == SumFunctionOnSet([n \in S |-> P[n].amount], S)

(* Bank b's net positions in the cycles H of the list C. *)
NetSum(C, b, H) == SumFunctionOnSet([c \in DOMAIN C |-> C[c].net[b]], H)

(* The keys books are posted under. *)
Keys ==
  (Participant \cup {CentralBank})
    \X {"debit", "credit", "settle", "reserve", "return-debit", "return-credit", "return-settle"}
    \X Nat

(* What TypeOK says of the books, but that reserves are not negative. *)
BooksTyped ==
  /\ customer \in [Account -> Int] /\ suspense \in [Participant -> Int]
  /\ reserve \in [Participant -> Int]
  /\ cbReserve \in [Participant -> Int] /\ cbAssets \in Nat
  /\ posted \subseteq Keys

NetsTyped == \A c \in DOMAIN cycles : cycles[c].net \in [Participant -> Int]

AmountsPositive == \A n \in DOMAIN payments : payments[n].amount \in Int /\ payments[n].amount > 0

(* A payment is accepted by the call that initiates it. *)
NoneInitiated == \A n \in DOMAIN payments : payments[n].status # "Initiated"

(* The records that no sum enters. *)
ControlTyped ==
  /\ participants \subseteq Participant
  /\ status \in [Account -> AccountStatus]
  /\ \A a \in Account : status[a] # "None" => BankOf[a] \in participants
  /\ endToEndIndex \subseteq EndToEnd

(* Settlement starts at the central bank, with a closed cycle that has      *)
(* something to settle.                                                     *)
SettleKeysInv ==
  /\ \A k \in posted : k[2] = "settle" =>
       /\ k[1] = CentralBank /\ k[3] \in DOMAIN cycles
       /\ cycles[k[3]].status # "Open" /\ Netted(k[3]) # {}
  /\ \A k \in posted : k[2] = "reserve" => <<CentralBank, "settle", k[3]>> \in posted

(* What a closed cycle's net positions are. *)
ClosedNets ==
  \A c \in DOMAIN cycles : cycles[c].status = "Closed" =>
    cycles[c].net = [b \in Participant |-> NetPosition(Members(c), b)]

FundsInv ==
  MoneyInv /\ BooksTyped /\ NetsTyped /\ AmountsPositive /\ NoneInitiated /\ ControlTyped
    /\ SettleKeysInv /\ ClosedNets /\ NetsSumToZero
-----------------------------------------------------------------------------
(* The payments of a list make a finite set, and a positive value. *)
LEMMA WorthIsNat ==
  ASSUME NEW P, NEW S, IsFiniteSet(S), \A n \in S : P[n].amount \in Int /\ P[n].amount > 0
  PROVE  Worth(P, S) \in Nat
  <1> DEFINE f == [n \in S |-> P[n].amount]
  <1>1. \A n \in S : f[n] \in Nat
    OBVIOUS
  <1>2. Worth(P, S) = SumFunctionOnSet(f, S)
    BY DEF Worth
  <1> HIDE DEF f
  <1>3. QED BY <1>1, <1>2, SumNat

(* Payments told apart into two sets. *)
LEMMA WorthOfBoth ==
  ASSUME NEW P, NEW A, NEW B, IsFiniteSet(A), IsFiniteSet(B), A \cap B = {},
         \A n \in A \cup B : P[n].amount \in Int
  PROVE  Worth(P, A \cup B) = Worth(P, A) + Worth(P, B)
  <1> DEFINE f(S) == [n \in S |-> P[n].amount]
             g == f(A \cup B)
  <1>1. /\ \A n \in A : g[n] = f(A)[n] /\ g[n] \in Int
        /\ \A n \in B : g[n] = f(B)[n] /\ g[n] \in Int
    OBVIOUS
  <1>2. /\ Worth(P, A \cup B) = SumFunctionOnSet(g, A \cup B)
        /\ Worth(P, A) = SumFunctionOnSet(f(A), A) /\ Worth(P, B) = SumFunctionOnSet(f(B), B)
    BY DEF Worth
  <1> HIDE DEF f, g
  <1>3. SumFunctionOnSet(g, A) = SumFunctionOnSet(f(A), A)
          /\ SumFunctionOnSet(g, B) = SumFunctionOnSet(f(B), B)
    BY <1>1, SumSame
  <1>4. Ints(g, A) /\ Ints(g, B)
    BY <1>1 DEF Ints
  <1>5. SumFunctionOnSet(g, A \cup B) = SumFunctionOnSet(g, A) + SumFunctionOnSet(g, B)
    BY <1>4, SumUnion
  <1>6. QED BY <1>2, <1>3, <1>5

LEMMA WorthOfOne ==
  ASSUME NEW P, NEW n, P[n].amount \in Int
  PROVE  Worth(P, {n}) = P[n].amount
  <1> DEFINE f == [m \in {n} |-> P[m].amount]
  <1>1. f[n] = P[n].amount /\ Worth(P, {n}) = SumFunctionOnSet(f, {n})
    BY DEF Worth
  <1> HIDE DEF f
  <1>2. QED BY <1>1, SumOne

LEMMA WorthOfNone ==
  ASSUME NEW P
  PROVE  Worth(P, {}) = 0
  BY SumNone DEF Worth

(* The value is that of the amounts: lists that agree on those of S agree.  *)
LEMMA WorthSame ==
  ASSUME NEW P, NEW Q, NEW S, \A n \in S : P[n].amount = Q[n].amount
  PROVE  Worth(P, S) = Worth(Q, S)
  BY DEF Worth

(* Payments told apart by the bank, or the account, that `key` gives them.  *)
LEMMA WorthByKey ==
  ASSUME NEW P, NEW S, IsFiniteSet(S), \A n \in S : P[n].amount \in Int,
         NEW K, IsFiniteSet(K), NEW key, \A n \in S : key[n] \in K
  PROVE  SumFunctionOnSet([k \in K |-> Worth(P, {n \in S : key[n] = k})], K) = Worth(P, S)
  <1> DEFINE f == [n \in S |-> P[n].amount]
             part(k) == {n \in S : key[n] = k}
             g == [k \in K |-> Worth(P, part(k))]
             h == [k \in K |-> SumFunctionOnSet(f, part(k))]
  <1>1. Ints(f, S) /\ Worth(P, S) = SumFunctionOnSet(f, S)
    BY DEF Ints, Worth
  <1>2. ASSUME NEW k \in K PROVE g[k] = h[k]
    <2> DEFINE e == [n \in part(k) |-> P[n].amount]
    <2>1. \A n \in part(k) : e[n] = f[n]
      OBVIOUS
    <2>2. IsFiniteSet(part(k))
      BY FS_Subset
    <2>3. Worth(P, part(k)) = SumFunctionOnSet(e, part(k))
      BY DEF Worth
    <2> HIDE DEF e, f, part
    <2>4. Worth(P, part(k)) = SumFunctionOnSet(f, part(k))
      BY <2>1, <2>2, <2>3, SumSame
    <2>5. QED BY <2>4
  <1>3. SumFunctionOnSet(h, K) = SumFunctionOnSet(f, S)
    <2> HIDE DEF f
    <2>1. QED BY <1>1, SumGroups
  <1>4. g = h
    BY <1>2
  <1>5. QED BY <1>1, <1>3, <1>4
-----------------------------------------------------------------------------
(* What a step does to the payments: those in S become `to`. *)
Marks(S, to) ==
  /\ DOMAIN payments' = DOMAIN payments
  /\ \A n \in DOMAIN payments :
       /\ payments'[n].debtor = payments[n].debtor
       /\ payments'[n].creditor = payments[n].creditor
       /\ payments'[n].amount = payments[n].amount
       /\ payments'[n].status = IF n \in S THEN to ELSE payments[n].status

(* What a step does to the cycles: c's record changes to this. *)
CycleBecomes(c, st, S, net) ==
  /\ DOMAIN cycles' = DOMAIN cycles
  /\ cycles'[c].status = st /\ cycles'[c].payments = S /\ cycles'[c].net = net
  /\ \A d \in DOMAIN cycles \ {c} : cycles'[d] = cycles[d]

LEMMA CycleSet ==
  ASSUME Shape, NEW c \in DOMAIN cycles, NEW st, NEW S, NEW net,
         cycles' = WithCycle(c, st, S, net)
  PROVE  CycleBecomes(c, st, S, net)
  <1>1. PICK Nets : cycles[c] \in CycleRecord(Nets)
    BY Records
  <1> DEFINE r == [cycles[c] EXCEPT !.status = st, !.payments = S, !.net = net]
  <1>2. r.status = st /\ r.payments = S /\ r.net = net
    BY <1>1 DEF CycleRecord
  <1>3. cycles' = [cycles EXCEPT ![c] = r]
    BY DEF WithCycle
  <1> HIDE DEF r
  <1>4. QED BY <1>2, <1>3 DEF CycleBecomes

LEMMA OpenEffects ==
  ASSUME MoneyInv, NEW scheme \in Scheme, OpenCycle(scheme)
  PROVE  \E c : /\ DOMAIN cycles' = DOMAIN cycles \cup {c} /\ c \notin DOMAIN cycles
                /\ cycles'[c].status = "Open" /\ cycles'[c].payments = {}
                /\ cycles'[c].net = [b \in Participant |-> 0]
                /\ \A d \in DOMAIN cycles : cycles'[d] = cycles[d]
  <1> DEFINE c == Len(cycles) + 1
             net0 == [b \in Participant |-> 0]
             new == [scheme |-> scheme, status |-> "Open", payments |-> {}, net |-> net0]
  <1>1. PICK Nets : cycles \in Seq(CycleRecord(Nets))
    BY Records DEF MoneyInv, LifecycleInv
  <1> DEFINE More == Nets \cup {net0}
  <1>2. cycles \in Seq(CycleRecord(More))
    <2>1. CycleRecord(Nets) \subseteq CycleRecord(More)
      BY DEF CycleRecord
    <2>2. QED BY <1>1, <2>1, SeqMonotonic
  <1>3. new \in CycleRecord(More) /\ cycles' = Append(cycles, new)
    BY DEF CycleRecord, OpenCycle
  <1>4. new.status = "Open" /\ new.payments = {} /\ new.net = net0
    OBVIOUS
  <1> HIDE DEF More, new, c
  <1>5. /\ DOMAIN cycles' = DOMAIN cycles \cup {c} /\ c \notin DOMAIN cycles
        /\ cycles'[c] = new /\ \A d \in DOMAIN cycles : cycles'[d] = cycles[d]
    BY <1>2, <1>3, Appended DEF c
  <1>6. QED BY <1>4, <1>5

LEMMA CloseEffects ==
  ASSUME MoneyInv, NEW c \in DOMAIN cycles, CloseCycle(c)
  PROVE  /\ cycles[c].status = "Open"
         /\ CycleBecomes(c, "Closed", Members(c), [b \in Participant |-> NetPosition(Members(c), b)])
         /\ Marks(Members(c), "Cleared") /\ Members(c) \subseteq DOMAIN payments
         /\ \A n \in Members(c) : payments[n].status = "Accepted"
  <1> DEFINE net == [b \in Participant |-> NetPosition(Members(c), b)]
  <1>1. Shape /\ Members(c) \subseteq DOMAIN payments
    BY DEF MoneyInv, LifecycleInv, PaymentsFollowCycle
  <1>2. /\ cycles[c].status = "Open" /\ payments' = Mark(Members(c), "Cleared")
        /\ \A n \in Members(c) : Transition(payments[n].status, "Cleared")
        /\ cycles' = [cycles EXCEPT ![c].status = "Closed", ![c].net = net]
    BY DEF CloseCycle
  <1>3. \A n \in Members(c) : payments[n].status = "Accepted"
    BY <1>2 DEF Transition
  <1> HIDE DEF net
  <1>4. cycles' = WithCycle(c, "Closed", Members(c), net)
    BY <1>1, <1>2, CycleFields DEF Members
  <1>5. CycleBecomes(c, "Closed", Members(c), net)
    BY <1>1, <1>4, CycleSet
  <1>6. Marks(Members(c), "Cleared")
    BY <1>1, <1>2, MarkedParties DEF Marks
  <1>7. QED BY <1>1, <1>2, <1>3, <1>5, <1>6 DEF net

LEMMA SettleEffects ==
  ASSUME MoneyInv, NEW c \in DOMAIN cycles, SettleInFull(c)
  PROVE  /\ cycles[c].status = "Closed"
         /\ CycleBecomes(c, "Settled", Members(c), cycles[c].net)
         /\ Marks(Members(c), "Settled") /\ Members(c) \subseteq DOMAIN payments
         /\ \A n \in Members(c) : payments[n].status = "Cleared"
  <1>1. Shape /\ Members(c) \subseteq DOMAIN payments
    BY DEF MoneyInv, LifecycleInv, PaymentsFollowCycle
  <1>2. /\ cycles[c].status = "Closed" /\ payments' = Mark(Members(c), "Settled")
        /\ \A n \in Members(c) : Transition(payments[n].status, "Settled")
        /\ cycles' = [cycles EXCEPT ![c].status = "Settled"]
    BY DEF SettleInFull, CanSettle
  <1>3. \A n \in Members(c) : payments[n].status = "Cleared"
    BY <1>2 DEF Transition
  <1>4. cycles' = WithCycle(c, "Settled", Members(c), cycles[c].net)
    BY <1>1, <1>2, CycleFields DEF Members
  <1>5. CycleBecomes(c, "Settled", Members(c), cycles[c].net)
    BY <1>1, <1>4, CycleSet
  <1>6. Marks(Members(c), "Settled")
    BY <1>1, <1>2, MarkedParties DEF Marks
  <1>7. QED BY <1>1, <1>2, <1>3, <1>5, <1>6

LEMMA RejectEffects ==
  ASSUME MoneyInv, NoneInitiated, NEW n \in DOMAIN payments, RejectPayment(n)
  PROVE  /\ payments[n].status = "Accepted" /\ Marks({n}, "Rejected")
         /\ \E c \in DOMAIN cycles :
              /\ cycles[c].status = "Open"
              /\ CycleBecomes(c, "Open", Members(c) \ {n}, cycles[c].net)
  <1>1. PICK c : c = payments[n].cycle
    OBVIOUS
  <1>2. Shape /\ c \in DOMAIN cycles
    BY <1>1 DEF MoneyInv, LifecycleInv, PaymentsFollowCycle
  <1>3. /\ payments[n].status \in {"Initiated", "Accepted"} /\ payments' = Mark({n}, "Rejected")
        /\ cycles' = [cycles EXCEPT ![c].payments = Members(c) \ {n}]
    BY <1>1 DEF RejectPayment, RemoveFromCycle
  <1>4. cycles[c].status = CycleStatusFor(payments[n].status)
    BY <1>1, <1>3 DEF MoneyInv, LifecycleInv, PaymentsFollowCycle
  <1>5. payments[n].status = "Accepted" /\ cycles[c].status = "Open"
    BY <1>3, <1>4 DEF CycleStatusFor, NoneInitiated
  <1>6. cycles' = WithCycle(c, "Open", Members(c) \ {n}, cycles[c].net)
    BY <1>2, <1>3, <1>5, CycleFields
  <1>7. CycleBecomes(c, "Open", Members(c) \ {n}, cycles[c].net)
    BY <1>2, <1>6, CycleSet
  <1>8. Marks({n}, "Rejected")
    BY <1>2, <1>3, MarkedParties DEF Marks
  <1>9. QED BY <1>2, <1>5, <1>7, <1>8

Initiates ==
  \E scheme \in Scheme, debtor, creditor \in Account, amount \in Sum,
     endToEnd \in EndToEnd \cup {NoEndToEnd}, mandate \in Nat :
    InitiatePayment(scheme, debtor, creditor, amount, mandate, endToEnd)

(* What the step that initiates payment n in cycle c does. *)
Initiated(n, c, debtor, creditor, amount) ==
  /\ DOMAIN payments' = DOMAIN payments \cup {n} /\ n \notin DOMAIN payments
  /\ \A m \in DOMAIN payments : payments'[m] = payments[m]
  /\ payments'[n].debtor = debtor /\ payments'[n].creditor = creditor
  /\ payments'[n].amount = amount /\ payments'[n].status = "Accepted"
  /\ cycles[c].status = "Open"
  /\ CycleBecomes(c, "Open", Members(c) \cup {n}, cycles[c].net)
  /\ amount > 0 /\ CheckWithdrawal(debtor, amount)
  /\ customer' = [customer EXCEPT ![debtor] = @ - amount]
  /\ suspense' = [suspense EXCEPT ![BankOf[debtor]] = @ + amount]
  /\ posted' = posted \cup {<<BankOf[debtor], "debit", n>>}
  /\ UNCHANGED <<reserve, cbReserve, cbAssets>>

LEMMA InitiateEffects ==
  ASSUME MoneyInv, Initiates
  PROVE  \E n \in Nat, c \in DOMAIN cycles, debtor, creditor \in Account, amount \in Sum :
           Initiated(n, c, debtor, creditor, amount)
  <1>0. PICK scheme \in Scheme, debtor \in Account, creditor \in Account, amount \in Sum,
             endToEnd \in EndToEnd \cup {NoEndToEnd}, mandate \in Nat :
          InitiatePayment(scheme, debtor, creditor, amount, mandate, endToEnd)
    BY DEF Initiates
  <1>1. PICK n, c : n = Len(payments) + 1 /\ c = openCycle[scheme]
    OBVIOUS
  <1> DEFINE p == [scheme |-> scheme, debtor |-> debtor, creditor |-> creditor, amount |-> amount,
                   mandate |-> mandate, endToEnd |-> endToEnd, status |-> "Accepted", cycle |-> c]
  <1>2. /\ c # 0 /\ payments' = Append(payments, p)
        /\ cycles' = [cycles EXCEPT ![c].payments = Members(c) \cup {n}]
        /\ amount > 0 /\ CheckWithdrawal(debtor, amount)
        /\ customer' = [customer EXCEPT ![debtor] = @ - amount]
        /\ suspense' = [suspense EXCEPT ![BankOf[debtor]] = @ + amount]
        /\ posted' = posted \cup {<<BankOf[debtor], "debit", n>>}
        /\ UNCHANGED <<reserve, cbReserve, cbAssets>>
    BY <1>0, <1>1 DEF InitiatePayment, Members, Validate
  <1>3. Shape /\ c \in DOMAIN cycles /\ cycles[c].status = "Open" /\ c \in Nat
    <2>1. Shape /\ c \in DOMAIN cycles /\ cycles[c].status = "Open"
      BY <1>1, <1>2 DEF MoneyInv, LifecycleInv, OpenCycleIndex
    <2>2. QED BY <2>1, Records
  <1>4. p \in PaymentRecord /\ payments \in Seq(PaymentRecord)
    BY <1>3 DEF PaymentRecord, PaymentStatus, Shape
  <1>5. p.debtor = debtor /\ p.creditor = creditor /\ p.amount = amount /\ p.status = "Accepted"
    OBVIOUS
  <1> HIDE DEF p
  <1>6. /\ DOMAIN payments' = DOMAIN payments \cup {n} /\ n \notin DOMAIN payments /\ n \in Nat
        /\ \A m \in DOMAIN payments : payments'[m] = payments[m]
        /\ payments'[n] = p
    BY <1>1, <1>2, <1>4, Appended
  <1>7. cycles' = WithCycle(c, "Open", Members(c) \cup {n}, cycles[c].net)
    BY <1>2, <1>3, CycleFields
  <1>8. CycleBecomes(c, "Open", Members(c) \cup {n}, cycles[c].net)
    BY <1>3, <1>7, CycleSet
  <1>9. Initiated(n, c, debtor, creditor, amount)
    BY <1>2, <1>3, <1>5, <1>6, <1>8 DEF Initiated
  <1>10. QED BY <1>3, <1>6, <1>9

LEMMA ReturnEffects ==
  ASSUME MoneyInv, NEW n \in DOMAIN payments, ReturnInFull(n)
  PROVE  payments[n].status = "Settled" /\ Marks({n}, "Returned") /\ cycles' = cycles
  <1>1. payments[n].status = "Settled" /\ payments' = Mark({n}, "Returned") /\ cycles' = cycles
    BY DEF ReturnInFull, CanReturn
  <1>2. Marks({n}, "Returned")
    BY <1>1, MarkedParties DEF Marks, MoneyInv, LifecycleInv
  <1>3. QED BY <1>1, <1>2
-----------------------------------------------------------------------------
(* What the sums of the network's own payments are. *)
LEMMA Totals ==
  ASSUME Shape, AmountsPositive, NEW S \in SUBSET DOMAIN payments
  PROVE  IsFiniteSet(S) /\ Total(S) = Worth(payments, S) /\ Total(S) \in Nat
  <1>1. PICK m \in Nat : DOMAIN payments = 1 .. m
    BY LenProperties DEF Shape
  <1>2. IsFiniteSet(S)
    BY <1>1, FS_Interval, FS_Subset
  <1>3. Total(S) = Worth(payments, S)
    BY DEF Total, Worth
  <1>4. Worth(payments, S) \in Nat
    BY <1>2, WorthIsNat DEF AmountsPositive
  <1>5. QED BY <1>2, <1>3, <1>4

(* The net positions of payments are integers, and cancel: what one bank is *)
(* owed another owes.                                                       *)
LEMMA NetsCancel ==
  ASSUME Shape, AmountsPositive, NEW S \in SUBSET DOMAIN payments
  PROVE  LET net == [b \in Participant |-> NetPosition(S, b)]
         IN  net \in [Participant -> Int] /\ SumFunctionOnSet(net, Participant) = 0
  <1> DEFINE owed == [b \in Participant |-> Worth(payments, {n \in S : CreditorBank(payments[n]) = b})]
             owes == [b \in Participant |-> Worth(payments, {n \in S : DebtorBank(payments[n]) = b})]
             net == [b \in Participant |-> NetPosition(S, b)]
             payee == [n \in S |-> CreditorBank(payments[n])]
             payer == [n \in S |-> DebtorBank(payments[n])]
  <1>1. \A b \in Participant :
          owed[b] \in Nat /\ owes[b] \in Nat /\ net[b] = owed[b] - owes[b]
    <2> TAKE b \in Participant
    <2> DEFINE to == {n \in S : CreditorBank(payments[n]) = b}
               from == {n \in S : DebtorBank(payments[n]) = b}
    <2>1. to \in SUBSET DOMAIN payments /\ from \in SUBSET DOMAIN payments
      OBVIOUS
    <2>2. net[b] = Total(to) - Total(from) /\ owed[b] = Worth(payments, to)
            /\ owes[b] = Worth(payments, from)
      BY DEF NetPosition
    <2> HIDE DEF to, from, net, owed, owes
    <2>3. QED BY <2>1, <2>2, Totals
  <1>2. \A n \in S : payee[n] \in Participant /\ payer[n] \in Participant
    BY Parties, AccountAssumption DEF CreditorBank, DebtorBank
  <1>3. IsFiniteSet(S) /\ IsFiniteSet(Participant) /\ Worth(payments, S) \in Nat
    BY Totals, AccountAssumption
  <1>4. \A n \in S : payments[n].amount \in Int
    BY DEF AmountsPositive
  <1>5. owed = [b \in Participant |-> Worth(payments, {n \in S : payee[n] = b})]
    OBVIOUS
  <1>6. owes = [b \in Participant |-> Worth(payments, {n \in S : payer[n] = b})]
    OBVIOUS
  <1> HIDE DEF owed, owes, net, payee, payer
  <1>7. SumFunctionOnSet(owed, Participant) = Worth(payments, S)
    BY <1>2, <1>3, <1>4, <1>5, WorthByKey
  <1>8. SumFunctionOnSet(owes, Participant) = Worth(payments, S)
    BY <1>2, <1>3, <1>4, <1>6, WorthByKey
  <1>9. Ints(net, Participant) /\ Ints(owes, Participant)
          /\ \A b \in Participant : owed[b] = net[b] + owes[b]
    BY <1>1 DEF Ints
  <1>10. SumFunctionOnSet(owed, Participant)
           = SumFunctionOnSet(net, Participant) + SumFunctionOnSet(owes, Participant)
    BY <1>3, <1>9, SumPlus
  <1>11. SumFunctionOnSet(net, Participant) \in Int
    BY <1>3, <1>9, SumType
  <1>12. SumFunctionOnSet(net, Participant) = 0
    BY <1>3, <1>7, <1>8, <1>10, <1>11
  <1>13. net \in [Participant -> Int]
    BY <1>9 DEF net, Ints
  <1>14. QED BY <1>12, <1>13 DEF net
-----------------------------------------------------------------------------
(* The steps, those that move no money and change no payment and no cycle   *)
(* taken together.                                                          *)
LEMMA Steps ==
  ASSUME MandatesTyped, [Next]_vars
  PROVE  \/ UNCHANGED <<books, customer, payments, cycles>>
         \/ \E a \in Account, amount \in Sum : Deposit(a, amount)
         \/ \E scheme \in Scheme : OpenCycle(scheme)
         \/ \E c \in DOMAIN cycles : CloseCycle(c)
         \/ \E c \in DOMAIN cycles : SettleInFull(c)
         \/ \E c \in DOMAIN cycles : SettlePartly(c)
         \/ Initiates
         \/ \E n \in DOMAIN payments : RejectPayment(n)
         \/ \E n \in DOMAIN payments : ReturnInFull(n)
         \/ \E n \in DOMAIN payments : ReturnPartly(n)
  <1>1. CASE UNCHANGED vars
    BY <1>1 DEF vars, deposits, network
  <1>2. CASE \/ \E b \in Participant : AddParticipant(b)
             \/ \E a \in Account : OpenAccount(a)
             \/ \E a \in Managed, to \in AccountStatus : ChangeStatus(a, to)
             \/ \E a \in Managed : Close(a)
    BY <1>2 DEF AddParticipant, OpenAccount, ChangeStatus, Close, deposits, network
  <1>3. CASE \/ \E debtor, creditor \in Account, max \in MandateMax :
                  CreateMandate(debtor, creditor, max)
             \/ \E m \in DOMAIN mandates : RevokeMandate(m)
    BY <1>3 DEF CreateMandate, RevokeMandate, deposits
  <1>4. ASSUME NEW scheme \in Scheme, NEW debtor \in Account, NEW creditor \in Account,
               NEW amount \in Sum, NEW endToEnd \in EndToEnd \cup {NoEndToEnd},
               NEW mandate \in MandateChoice(scheme),
               InitiatePayment(scheme, debtor, creditor, amount, mandate, endToEnd)
        PROVE  Initiates
    <2>1. Len(mandates) \in Nat
      BY LenProperties DEF MandatesTyped
    <2>2. mandate \in Nat
      BY <2>1 DEF MandateChoice
    <2>3. QED BY <1>4, <2>2 DEF Initiates
  <1>5. QED BY <1>1, <1>2, <1>3, <1>4 DEF Next, SettleCycle, ReturnPayment

LEMMA NextAmounts ==
  ASSUME MoneyInv, AmountsPositive, NoneInitiated, [Next]_vars
  PROVE  AmountsPositive' /\ NoneInitiated'
  <1>1. ASSUME NEW S, NEW to, to # "Initiated", Marks(S, to)
        PROVE  AmountsPositive' /\ NoneInitiated'
    BY <1>1 DEF Marks, AmountsPositive, NoneInitiated
  <1>2. CASE payments' = payments
    BY <1>2 DEF AmountsPositive, NoneInitiated
  <1>3. CASE \/ UNCHANGED <<books, customer, payments, cycles>>
             \/ \E a \in Account, amount \in Sum : Deposit(a, amount)
             \/ \E scheme \in Scheme : OpenCycle(scheme)
             \/ \E c \in DOMAIN cycles : SettlePartly(c)
             \/ \E n \in DOMAIN payments : ReturnPartly(n)
    BY <1>2, <1>3 DEF Deposit, OpenCycle, SettlePartly, ReturnPartly, network
  <1>4. ASSUME NEW c \in DOMAIN cycles, CloseCycle(c) PROVE AmountsPositive' /\ NoneInitiated'
    BY <1>1, <1>4, CloseEffects
  <1>5. ASSUME NEW c \in DOMAIN cycles, SettleInFull(c) PROVE AmountsPositive' /\ NoneInitiated'
    BY <1>1, <1>5, SettleEffects
  <1>6. ASSUME NEW n \in DOMAIN payments, RejectPayment(n) PROVE AmountsPositive' /\ NoneInitiated'
    BY <1>1, <1>6, RejectEffects
  <1>7. ASSUME NEW n \in DOMAIN payments, ReturnInFull(n) PROVE AmountsPositive' /\ NoneInitiated'
    BY <1>1, <1>7, ReturnEffects
  <1>8. CASE Initiates
    <2>1. PICK n \in Nat, c \in DOMAIN cycles, debtor \in Account, creditor \in Account,
               amount \in Sum : Initiated(n, c, debtor, creditor, amount)
      BY <1>8, InitiateEffects
    <2>2. amount \in Int
      BY InputAssumption
    <2>3. AmountsPositive'
      BY <2>1, <2>2 DEF Initiated, AmountsPositive
    <2>4. NoneInitiated'
      BY <2>1 DEF Initiated, NoneInitiated
    <2>5. QED BY <2>3, <2>4
  <1>9. QED BY <1>3, <1>4, <1>5, <1>6, <1>7, <1>8, Steps DEF MoneyInv

(* A cycle keeps the net positions it was closed with. *)
LEMMA NextNets ==
  ASSUME MoneyInv, AmountsPositive, NoneInitiated, NetsTyped, NetsSumToZero, [Next]_vars
  PROVE  NetsTyped' /\ NetsSumToZero'
  <1> DEFINE Cancel(net) == net \in [Participant -> Int] /\ SumFunctionOnSet(net, Participant) = 0
  <1>0. SUFFICES \A c \in DOMAIN cycles' : Cancel(cycles'[c].net)
    BY DEF NetsTyped, NetsSumToZero, SumOver
  <1>1. \A c \in DOMAIN cycles : Cancel(cycles[c].net)
    BY DEF NetsTyped, NetsSumToZero, SumOver
  <1> HIDE DEF Cancel
  <1>2. CASE cycles' = cycles
    BY <1>1, <1>2
  <1>3. ASSUME NEW c \in DOMAIN cycles, NEW st, NEW S, NEW net, Cancel(net),
               CycleBecomes(c, st, S, net)
        PROVE  \A d \in DOMAIN cycles' : Cancel(cycles'[d].net)
    BY <1>1, <1>3 DEF CycleBecomes
  <1>4. CASE \/ UNCHANGED <<books, customer, payments, cycles>>
             \/ \E a \in Account, amount \in Sum : Deposit(a, amount)
             \/ \E c \in DOMAIN cycles : SettlePartly(c)
             \/ \E n \in DOMAIN payments : ReturnPartly(n)
             \/ \E n \in DOMAIN payments : ReturnInFull(n)
    BY <1>2, <1>4 DEF Deposit, SettlePartly, ReturnPartly, ReturnInFull, network
  <1>5. ASSUME NEW scheme \in Scheme, OpenCycle(scheme)
        PROVE  \A d \in DOMAIN cycles' : Cancel(cycles'[d].net)
    <2> DEFINE zero == [b \in Participant |-> 0]
    <2>1. zero \in [Participant -> Int] /\ \A b \in Participant : zero[b] = 0
      OBVIOUS
    <2> HIDE DEF zero
    <2>2. Cancel(zero)
      BY <2>1, SumZero, AccountAssumption DEF Cancel
    <2>3. PICK c : /\ DOMAIN cycles' = DOMAIN cycles \cup {c} /\ cycles'[c].net = zero
                   /\ \A d \in DOMAIN cycles : cycles'[d] = cycles[d]
      BY <1>5, OpenEffects DEF zero
    <2>4. QED BY <1>1, <2>2, <2>3
  <1>6. ASSUME NEW c \in DOMAIN cycles, CloseCycle(c)
        PROVE  \A d \in DOMAIN cycles' : Cancel(cycles'[d].net)
    <2> DEFINE net == [b \in Participant |-> NetPosition(Members(c), b)]
    <2>1. Members(c) \subseteq DOMAIN payments /\ CycleBecomes(c, "Closed", Members(c), net)
      BY <1>6, CloseEffects
    <2>2. Cancel(net)
      BY <2>1, NetsCancel DEF Cancel, MoneyInv, LifecycleInv
    <2> HIDE DEF net
    <2>3. QED BY <1>3, <2>1, <2>2
  <1>7. ASSUME NEW c \in DOMAIN cycles, SettleInFull(c)
        PROVE  \A d \in DOMAIN cycles' : Cancel(cycles'[d].net)
    BY <1>1, <1>3, <1>7, SettleEffects
  <1>8. ASSUME NEW n \in DOMAIN payments, RejectPayment(n)
        PROVE  \A d \in DOMAIN cycles' : Cancel(cycles'[d].net)
    BY <1>1, <1>3, <1>8, RejectEffects
  <1>9. CASE Initiates
    <2>1. PICK n \in Nat, c \in DOMAIN cycles :
            CycleBecomes(c, "Open", Members(c) \cup {n}, cycles[c].net)
      BY <1>9, InitiateEffects DEF Initiated
    <2>2. QED BY <1>1, <1>3, <2>1
  <1>10. QED BY <1>4, <1>5, <1>6, <1>7, <1>8, <1>9, Steps DEF MoneyInv
-----------------------------------------------------------------------------
(* What payment n moves, and where. *)
LEMMA PaymentTyped ==
  ASSUME Shape, AmountsPositive, NEW n \in DOMAIN payments
  PROVE  /\ payments[n].debtor \in Account /\ payments[n].creditor \in Account
         /\ payments[n].amount \in Int /\ payments[n].amount > 0 /\ n \in Nat
         /\ DebtorBank(payments[n]) \in Participant /\ CreditorBank(payments[n]) \in Participant
         /\ DebtorBank(payments[n]) = BankOf[payments[n].debtor]
         /\ CreditorBank(payments[n]) = BankOf[payments[n].creditor]
  <1>1. payments[n].debtor \in Account /\ payments[n].creditor \in Account
    BY Parties
  <1>2. n \in Nat
    BY Records
  <1>3. QED BY <1>1, <1>2, AccountAssumption DEF AmountsPositive, DebtorBank, CreditorBank

(* A settlement that goes through keeps the books typed: no bank's reserve  *)
(* follows its net position below zero.                                     *)
LEMMA SettleInFullTyped ==
  ASSUME MoneyInv, AmountsPositive, BooksTyped, NetsTyped, NEW c \in DOMAIN cycles, SettleInFull(c)
  PROVE  BooksTyped'
  <1>1. Shape /\ Members(c) \subseteq DOMAIN payments /\ c \in Nat
    BY Records DEF MoneyInv, LifecycleInv, PaymentsFollowCycle
  <1>2. cycles[c].net \in [Participant -> Int]
    BY DEF NetsTyped
  <1>3. \A b : ReleasedBy(c, b) \in Nat
    <2> TAKE b
    <2> DEFINE S == {n \in Members(c) : CreditorBank(payments[n]) = b}
    <2>1. S \in SUBSET DOMAIN payments /\ ReleasedBy(c, b) = Total(S)
      BY <1>1 DEF ReleasedBy
    <2> HIDE DEF S
    <2>2. QED BY <1>1, <2>1, Totals
  <1>4. \A a : CreditedTo(c, a) \in Nat
    <2> TAKE a
    <2> DEFINE S == {n \in Members(c) : payments[n].creditor = a}
    <2>1. S \in SUBSET DOMAIN payments /\ CreditedTo(c, a) = Total(S)
      BY <1>1 DEF CreditedTo
    <2> HIDE DEF S
    <2>2. QED BY <1>1, <2>1, Totals
  <1>5. customer' \in [Account -> Int]
    BY <1>4 DEF SettleInFull, BooksTyped
  <1>6. suspense' \in [Participant -> Int]
    BY <1>2, <1>3 DEF SettleInFull, BooksTyped, MirrorSuspense, Mirror
  <1>7. cbReserve' \in [Participant -> Int] /\ cbAssets' \in Nat
    BY <1>2 DEF SettleInFull, BooksTyped, MoveReserves
  <1>8. reserve' \in [Participant -> Int]
    BY <1>2 DEF SettleInFull, BooksTyped, Mirror
  <1>9. posted' \subseteq Keys
    <2> DEFINE credits == {<<CreditorBank(payments[n]), "credit", n>> : n \in Members(c)}
    <2>1. credits \subseteq Keys
      BY <1>1, PaymentTyped DEF Keys
    <2>2. SettleKeys(c, Netted(c)) \subseteq Keys
      BY <1>1 DEF SettleKeys, Netted, Keys
    <2>3. posted' = posted \cup SettleKeys(c, Netted(c)) \cup credits
      BY DEF SettleInFull
    <2> HIDE DEF credits
    <2>4. QED BY <2>1, <2>2, <2>3 DEF BooksTyped
  <1>10. QED BY <1>5, <1>6, <1>7, <1>8, <1>9 DEF BooksTyped

(* So does one that stops half way. *)
LEMMA SettlePartlyTyped ==
  ASSUME MoneyInv, BooksTyped, NetsTyped, NEW c \in DOMAIN cycles, SettlePartly(c)
  PROVE  BooksTyped'
  <1>1. c \in Nat /\ cycles[c].net \in [Participant -> Int]
    BY Records DEF MoneyInv, LifecycleInv, NetsTyped
  <1>2. PICK done \in SUBSET {b \in Netted(c) : CanMirror(c, b)} :
          /\ reserve' = Mirror(reserve, c, done)
          /\ suspense' = MirrorSuspense(suspense, c, done)
          /\ posted' = posted \cup SettleKeys(c, done)
    BY DEF SettlePartly
  <1>3. done \subseteq Participant
    BY <1>2 DEF Netted
  <1>4. reserve \in [Participant -> Int] /\ suspense \in [Participant -> Int]
    BY DEF BooksTyped
  <1>5. reserve' \in [Participant -> Int]
    BY <1>1, <1>2, <1>4 DEF Mirror
  <1>6. suspense' \in [Participant -> Int]
    BY <1>1, <1>2, <1>4 DEF MirrorSuspense, Mirror
  <1>7. posted' \subseteq Keys
    BY <1>1, <1>2, <1>3 DEF SettleKeys, Keys, BooksTyped
  <1>8. /\ customer' = customer /\ cbAssets' = cbAssets
        /\ cbReserve' \in [Participant -> Int]
    BY <1>1 DEF SettlePartly, deposits, MoveReserves, BooksTyped
  <1>9. QED BY <1>5, <1>6, <1>7, <1>8 DEF BooksTyped

(* So does a return. *)
LEMMA ReturnTyped ==
  ASSUME Shape, AmountsPositive, BooksTyped, NEW n \in DOMAIN payments,
         ReturnInFull(n) \/ ReturnPartly(n)
  PROVE  BooksTyped'
  <1>1. PICK x, d, e, k, l : /\ x = payments[n].amount /\ d = payments[n].debtor
                             /\ e = payments[n].creditor
                             /\ k = DebtorBank(payments[n]) /\ l = CreditorBank(payments[n])
    OBVIOUS
  <1>2. x \in Int /\ x > 0 /\ d \in Account /\ e \in Account /\ k \in Participant
          /\ l \in Participant /\ n \in Nat
    BY <1>1, PaymentTyped
  <1>3. Refund(payments[n]) = [reserve EXCEPT ![k] = @ + x]
    BY <1>1 DEF Refund
  <1>4. reserve \in [Participant -> Int]
    BY DEF BooksTyped
  <1>5. CASE ReturnInFull(n)
    <2>1. reserve' = [[reserve EXCEPT ![k] = @ + x] EXCEPT ![l] = @ - x]
      BY <1>1, <1>3, <1>5 DEF ReturnInFull
    <2>2. reserve' \in [Participant -> Int]
      BY <1>2, <1>4, <2>1
    <2>3. /\ customer' = [[customer EXCEPT ![d] = @ + x] EXCEPT ![e] = @ - x]
          /\ cbReserve' = [[cbReserve EXCEPT ![l] = @ - x] EXCEPT ![k] = @ + x]
          /\ suspense' = suspense /\ cbAssets' = cbAssets
          /\ posted' = posted \cup {<<k, "return-debit", n>>, <<l, "return-credit", n>>,
                                    <<CentralBank, "return-settle", n>>}
      BY <1>1, <1>5 DEF ReturnInFull
    <2>4. posted' \subseteq Keys
      BY <1>2, <2>3 DEF Keys, BooksTyped
    <2>5. customer' \in [Account -> Int] /\ cbReserve' \in [Participant -> Int]
      BY <1>2, <2>3 DEF BooksTyped
    <2>6. QED BY <2>2, <2>3, <2>4, <2>5 DEF BooksTyped
  <1>6. CASE ReturnPartly(n)
    <2>1. /\ reserve' = [reserve EXCEPT ![k] = @ + x]
          /\ customer' = [customer EXCEPT ![d] = @ + x]
          /\ suspense' = suspense /\ cbAssets' = cbAssets /\ cbReserve' = cbReserve
          /\ posted' = posted \cup {<<k, "return-debit", n>>}
      BY <1>1, <1>3, <1>6 DEF ReturnPartly
    <2>2. posted' \subseteq Keys
      BY <1>2, <2>1 DEF Keys, BooksTyped
    <2>3. reserve' \in [Participant -> Int] /\ customer' \in [Account -> Int]
      BY <1>2, <1>4, <2>1 DEF BooksTyped
    <2>4. QED BY <2>1, <2>2, <2>3 DEF BooksTyped
  <1>7. QED BY <1>5, <1>6

LEMMA NextBooksTyped ==
  ASSUME MoneyInv, AmountsPositive, BooksTyped, NetsTyped, [Next]_vars
  PROVE  BooksTyped'
  <1>1. Shape
    BY DEF MoneyInv, LifecycleInv
  <1>2. CASE \/ UNCHANGED <<books, customer, payments, cycles>>
             \/ \E scheme \in Scheme : OpenCycle(scheme)
             \/ \E c \in DOMAIN cycles : CloseCycle(c)
    BY <1>2 DEF OpenCycle, CloseCycle, books, deposits, BooksTyped
  <1>3. ASSUME NEW a \in Account, NEW amount \in Sum, Deposit(a, amount) PROVE BooksTyped'
    <2>1. amount \in Int /\ amount > 0 /\ BankOf[a] \in Participant
      BY <1>3, InputAssumption, AccountAssumption DEF Deposit
    <2>2. /\ reserve' = [reserve EXCEPT ![BankOf[a]] = @ + amount]
          /\ customer' = [customer EXCEPT ![a] = @ + amount]
          /\ cbAssets' = cbAssets + amount
          /\ cbReserve' = [cbReserve EXCEPT ![BankOf[a]] = @ + amount]
          /\ suspense' = suspense /\ posted' = posted
      BY <1>3 DEF Deposit
    <2>3. QED BY <2>1, <2>2 DEF BooksTyped
  <1>4. CASE \E c \in DOMAIN cycles : SettleInFull(c)
    BY <1>4, SettleInFullTyped
  <1>5. CASE \E c \in DOMAIN cycles : SettlePartly(c)
    BY <1>5, SettlePartlyTyped
  <1>6. CASE Initiates
    <2>1. PICK n \in Nat, c \in DOMAIN cycles, debtor \in Account, creditor \in Account,
               amount \in Sum : Initiated(n, c, debtor, creditor, amount)
      BY <1>6, InitiateEffects
    <2>2. amount \in Int /\ BankOf[debtor] \in Participant
      BY InputAssumption, AccountAssumption
    <2>3. posted' \subseteq Keys
      BY <2>1, <2>2 DEF Initiated, Keys, BooksTyped
    <2>4. customer' \in [Account -> Int] /\ suspense' \in [Participant -> Int]
      BY <2>1, <2>2 DEF Initiated, BooksTyped
    <2>5. QED BY <2>1, <2>3, <2>4 DEF Initiated, BooksTyped
  <1>7. ASSUME NEW n \in DOMAIN payments, RejectPayment(n) PROVE BooksTyped'
    <2>1. /\ customer' = [customer EXCEPT ![payments[n].debtor] = @ + payments[n].amount]
          /\ suspense' = [suspense EXCEPT ![DebtorBank(payments[n])] = @ - payments[n].amount]
          /\ UNCHANGED <<reserve, cbReserve, cbAssets, posted>>
      BY <1>7 DEF RejectPayment
    <2>2. PICK x, d, k : /\ x = payments[n].amount /\ d = payments[n].debtor
                         /\ k = DebtorBank(payments[n])
      OBVIOUS
    <2>3. x \in Int /\ d \in Account /\ k \in Participant
      BY <1>1, <2>2, PaymentTyped
    <2>4. QED BY <2>1, <2>2, <2>3 DEF BooksTyped
  <1>8. CASE \E n \in DOMAIN payments : ReturnInFull(n) \/ ReturnPartly(n)
    BY <1>1, <1>8, ReturnTyped
  <1>9. QED BY <1>2, <1>3, <1>4, <1>5, <1>6, <1>7, <1>8, Steps DEF MoneyInv
-----------------------------------------------------------------------------
StaysShut(c) ==
  cycles[c].status # "Open" => cycles'[c].status # "Open" /\ cycles'[c].net = cycles[c].net

(* A cycle listed stays listed, and once closed does not open again and     *)
(* keeps its net positions.                                                 *)
LEMMA CyclesStay ==
  ASSUME MoneyInv, NoneInitiated, [Next]_vars
  PROVE  \A c \in DOMAIN cycles : c \in DOMAIN cycles' /\ StaysShut(c)
  <1>1. CASE cycles' = cycles
    BY <1>1 DEF StaysShut
  <1>2. CASE \/ UNCHANGED <<books, customer, payments, cycles>>
             \/ \E a \in Account, amount \in Sum : Deposit(a, amount)
             \/ \E c \in DOMAIN cycles : SettlePartly(c)
             \/ \E n \in DOMAIN payments : ReturnPartly(n)
             \/ \E n \in DOMAIN payments : ReturnInFull(n)
    BY <1>1, <1>2 DEF Deposit, SettlePartly, ReturnPartly, ReturnInFull, network
  <1>3. ASSUME NEW scheme \in Scheme, OpenCycle(scheme)
        PROVE  \A c \in DOMAIN cycles : c \in DOMAIN cycles' /\ StaysShut(c)
    BY <1>3, OpenEffects DEF StaysShut
  <1>4. ASSUME NEW d \in DOMAIN cycles, NEW st, NEW S, NEW net, CycleBecomes(d, st, S, net),
               cycles[d].status # "Open" => st # "Open" /\ net = cycles[d].net
        PROVE  \A c \in DOMAIN cycles : c \in DOMAIN cycles' /\ StaysShut(c)
    BY <1>4 DEF CycleBecomes, StaysShut
  <1>5. ASSUME NEW d \in DOMAIN cycles, CloseCycle(d)
        PROVE  \A c \in DOMAIN cycles : c \in DOMAIN cycles' /\ StaysShut(c)
    <2>1. PICK net : cycles[d].status = "Open" /\ CycleBecomes(d, "Closed", Members(d), net)
      BY <1>5, CloseEffects
    <2>2. QED BY <1>4, <2>1
  <1>6. CASE \E c \in DOMAIN cycles : SettleInFull(c)
    BY <1>4, <1>6, SettleEffects
  <1>7. CASE \E n \in DOMAIN payments : RejectPayment(n)
    BY <1>4, <1>7, RejectEffects
  <1>8. CASE Initiates
    <2>1. PICK n \in Nat, c \in DOMAIN cycles :
            cycles[c].status = "Open" /\ CycleBecomes(c, "Open", Members(c) \cup {n}, cycles[c].net)
      BY <1>8, InitiateEffects DEF Initiated
    <2>2. QED BY <1>4, <2>1
  <1>9. QED BY <1>2, <1>3, <1>5, <1>6, <1>7, <1>8, Steps DEF MoneyInv

LEMMA NextSettleKeys ==
  ASSUME MoneyInv, NoneInitiated, SettleKeysInv, [Next]_vars
  PROVE  SettleKeysInv'
  <1>0. \A c \in DOMAIN cycles :
          cycles[c].status # "Open" /\ Netted(c) # {} => Netted(c)' # {}
    BY CyclesStay DEF StaysShut, Netted
  <1>1. ASSUME \A k \in posted' : k \in posted \/ k[2] \in PaymentLegs, posted \subseteq posted'
        PROVE  SettleKeysInv'
    BY <1>0, <1>1, CyclesStay DEF SettleKeysInv, PaymentLegs, StaysShut
  <1>2. ASSUME NEW c \in DOMAIN cycles, CanSettle(c), NEW S \in SUBSET Netted(c), NEW credits,
               \A k \in credits : k[2] = "credit",
               posted' = posted \cup SettleKeys(c, S) \cup credits
        PROVE  SettleKeysInv'
    <2>1. cycles[c].status # "Open"
      BY <1>2 DEF CanSettle
    <2>2. \A k \in SettleKeys(c, S) :
            /\ k[3] = c /\ k[2] \in {"settle", "reserve"}
            /\ k[2] = "settle" => k[1] = CentralBank
            /\ Netted(c) # {}
            /\ <<CentralBank, "settle", c>> \in posted'
      BY <1>2 DEF SettleKeys
    <2>3. ASSUME NEW k \in posted', k[2] = "settle"
          PROVE  /\ k[1] = CentralBank /\ k[3] \in DOMAIN cycles'
                 /\ cycles'[k[3]].status # "Open" /\ Netted(k[3])' # {}
      <3>1. /\ k[1] = CentralBank /\ k[3] \in DOMAIN cycles
            /\ cycles[k[3]].status # "Open" /\ Netted(k[3]) # {}
        BY <1>2, <2>1, <2>2, <2>3 DEF SettleKeysInv
      <3>2. QED BY <1>0, <3>1, CyclesStay DEF StaysShut
    <2>4. \A k \in posted' : k[2] = "reserve" => <<CentralBank, "settle", k[3]>> \in posted'
      BY <1>2, <2>2 DEF SettleKeysInv
    <2>5. QED BY <2>3, <2>4 DEF SettleKeysInv
  <1>3. CASE posted' = posted
    BY <1>1, <1>3
  <1>4. CASE \/ UNCHANGED <<books, customer, payments, cycles>>
             \/ \E a \in Account, amount \in Sum : Deposit(a, amount)
             \/ \E scheme \in Scheme : OpenCycle(scheme)
             \/ \E c \in DOMAIN cycles : CloseCycle(c)
             \/ \E n \in DOMAIN payments : RejectPayment(n)
    BY <1>3, <1>4 DEF Deposit, OpenCycle, CloseCycle, RejectPayment, books
  <1>5. ASSUME NEW c \in DOMAIN cycles, SettleInFull(c) PROVE SettleKeysInv'
    <2> DEFINE credits == {<<CreditorBank(payments[n]), "credit", n>> : n \in Members(c)}
    <2>1. \A k \in credits : k[2] = "credit"
      OBVIOUS
    <2>2. CanSettle(c) /\ posted' = posted \cup SettleKeys(c, Netted(c)) \cup credits
      BY <1>5 DEF SettleInFull
    <2> HIDE DEF credits
    <2>3. QED BY <1>2, <2>1, <2>2
  <1>6. ASSUME NEW c \in DOMAIN cycles, SettlePartly(c) PROVE SettleKeysInv'
    <2>1. PICK done \in SUBSET {b \in Netted(c) : CanMirror(c, b)} :
            posted' = posted \cup SettleKeys(c, done)
      BY <1>6 DEF SettlePartly
    <2>2. PICK none : none = {}
      OBVIOUS
    <2>3. CanSettle(c) /\ done \in SUBSET Netted(c)
      BY <1>6, <2>1 DEF SettlePartly
    <2>4. posted' = posted \cup SettleKeys(c, done) \cup none /\ \A k \in none : k[2] = "credit"
      BY <2>1, <2>2
    <2>5. QED BY <1>2, <2>3, <2>4
  <1>7. CASE Initiates
    <2>1. PICK b, n : posted' = posted \cup {<<b, "debit", n>>}
      BY <1>7, InitiateEffects DEF Initiated
    <2>2. QED BY <1>1, <2>1 DEF PaymentLegs
  <1>8. ASSUME NEW n \in DOMAIN payments, ReturnInFull(n) PROVE SettleKeysInv'
    <2>1. PICK b, d : posted' = posted \cup {<<b, "return-debit", n>>, <<d, "return-credit", n>>,
                                             <<CentralBank, "return-settle", n>>}
      BY <1>8 DEF ReturnInFull
    <2>2. QED BY <1>1, <2>1 DEF PaymentLegs
  <1>9. ASSUME NEW n \in DOMAIN payments, ReturnPartly(n) PROVE SettleKeysInv'
    <2>1. PICK b : posted' = posted \cup {<<b, "return-debit", n>>}
      BY <1>9 DEF ReturnPartly
    <2>2. QED BY <1>1, <2>1 DEF PaymentLegs
  <1>10. QED BY <1>4, <1>5, <1>6, <1>7, <1>8, <1>9, Steps DEF MoneyInv

(* Nothing joins or leaves a closed cycle, so its net positions stay those  *)
(* of its payments.                                                         *)
LEMMA NextClosedNets ==
  ASSUME MoneyInv, AmountsPositive, NoneInitiated, ClosedNets, [Next]_vars
  PROVE  ClosedNets'
  <1> DEFINE Net(P, S) ==
               [b \in Participant |->
                  Worth(P, {n \in S : BankOf[P[n].creditor] = b})
                    - Worth(P, {n \in S : BankOf[P[n].debtor] = b})]
  <1>1. \A S : [b \in Participant |-> NetPosition(S, b)] = Net(payments, S)
    BY DEF NetPosition, Total, Worth, CreditorBank, DebtorBank
  <1>2. ClosedNets' <=> \A c \in DOMAIN cycles' : cycles'[c].status = "Closed" =>
                         cycles'[c].net = Net(payments', cycles'[c].payments)
    BY DEF ClosedNets, NetPosition, Total, Worth, CreditorBank, DebtorBank, Members
  <1>3. \A c \in DOMAIN cycles : cycles[c].status = "Closed" =>
          cycles[c].net = Net(payments, cycles[c].payments)
    BY <1>1 DEF ClosedNets, Members
  <1>4. ASSUME NEW S, \A n \in S : /\ payments'[n].debtor = payments[n].debtor
                                   /\ payments'[n].creditor = payments[n].creditor
                                   /\ payments'[n].amount = payments[n].amount
        PROVE  Net(payments', S) = Net(payments, S)
    <2>1. ASSUME NEW b \in Participant
          PROVE  /\ Worth(payments', {n \in S : BankOf[payments'[n].creditor] = b})
                       = Worth(payments, {n \in S : BankOf[payments[n].creditor] = b})
                 /\ Worth(payments', {n \in S : BankOf[payments'[n].debtor] = b})
                       = Worth(payments, {n \in S : BankOf[payments[n].debtor] = b})
      <3>1. /\ {n \in S : BankOf[payments'[n].creditor] = b}
                  = {n \in S : BankOf[payments[n].creditor] = b}
            /\ {n \in S : BankOf[payments'[n].debtor] = b}
                  = {n \in S : BankOf[payments[n].debtor] = b}
        BY <1>4
      <3> DEFINE to == {n \in S : BankOf[payments[n].creditor] = b}
                 from == {n \in S : BankOf[payments[n].debtor] = b}
      <3>2. \A n \in to \cup from : payments'[n].amount = payments[n].amount
        BY <1>4
      <3> HIDE DEF to, from
      <3>3. Worth(payments', to) = Worth(payments, to)
              /\ Worth(payments', from) = Worth(payments, from)
        BY <3>2, WorthSame
      <3>4. QED BY <3>1, <3>3 DEF to, from
    <2>2. QED BY <2>1
  <1>5. \A c \in DOMAIN cycles : cycles[c].payments \subseteq DOMAIN payments
    BY DEF MoneyInv, LifecycleInv, PaymentsFollowCycle, Members
  <1> HIDE DEF Net
  <1>6. ASSUME \A n \in DOMAIN payments : /\ payments'[n].debtor = payments[n].debtor
                                          /\ payments'[n].creditor = payments[n].creditor
                                          /\ payments'[n].amount = payments[n].amount
        PROVE  \A c \in DOMAIN cycles :
                 Net(payments', cycles[c].payments) = Net(payments, cycles[c].payments)
    BY <1>4, <1>5, <1>6
  <1>7. CASE payments' = payments /\ cycles' = cycles
    BY <1>2, <1>3, <1>7
  <1>8. CASE \/ UNCHANGED <<books, customer, payments, cycles>>
             \/ \E a \in Account, amount \in Sum : Deposit(a, amount)
             \/ \E c \in DOMAIN cycles : SettlePartly(c)
             \/ \E n \in DOMAIN payments : ReturnPartly(n)
    BY <1>7, <1>8 DEF Deposit, SettlePartly, ReturnPartly, network
  <1>9. ASSUME NEW scheme \in Scheme, OpenCycle(scheme) PROVE ClosedNets'
    <2>1. payments' = payments
      BY <1>9 DEF OpenCycle
    <2>2. QED BY <1>2, <1>3, <1>9, <2>1, OpenEffects
  <1>10. ASSUME NEW c \in DOMAIN cycles, CloseCycle(c) PROVE ClosedNets'
    <2>1. CycleBecomes(c, "Closed", cycles[c].payments, Net(payments, cycles[c].payments))
            /\ Marks(Members(c), "Cleared")
      BY <1>1, <1>10, CloseEffects DEF Members
    <2>2. QED BY <1>2, <1>3, <1>6, <2>1 DEF CycleBecomes, Marks
  <1>11. ASSUME NEW c \in DOMAIN cycles, SettleInFull(c) PROVE ClosedNets'
    <2>1. CycleBecomes(c, "Settled", cycles[c].payments, cycles[c].net) /\ Marks(Members(c), "Settled")
      BY <1>11, SettleEffects DEF Members
    <2>2. QED BY <1>2, <1>3, <1>6, <2>1 DEF CycleBecomes, Marks
  <1>12. CASE Initiates
    <2>1. PICK n \in Nat, c \in DOMAIN cycles :
            /\ n \notin DOMAIN payments /\ \A m \in DOMAIN payments : payments'[m] = payments[m]
            /\ CycleBecomes(c, "Open", Members(c) \cup {n}, cycles[c].net)
      BY <1>12, InitiateEffects DEF Initiated
    <2>2. QED BY <1>2, <1>3, <1>6, <2>1 DEF CycleBecomes
  <1>13. ASSUME NEW n \in DOMAIN payments, RejectPayment(n) PROVE ClosedNets'
    <2>1. PICK c \in DOMAIN cycles : CycleBecomes(c, "Open", Members(c) \ {n}, cycles[c].net)
      BY <1>13, RejectEffects
    <2>2. Marks({n}, "Rejected")
      BY <1>13, RejectEffects
    <2>3. QED BY <1>2, <1>3, <1>6, <2>1, <2>2 DEF CycleBecomes, Marks
  <1>14. ASSUME NEW n \in DOMAIN payments, ReturnInFull(n) PROVE ClosedNets'
    BY <1>2, <1>3, <1>6, <1>14, ReturnEffects DEF Marks
  <1>15. QED BY <1>8, <1>9, <1>10, <1>11, <1>12, <1>13, <1>14, Steps DEF MoneyInv

LEMMA NextControl ==
  ASSUME ControlTyped, [Next]_vars
  PROVE  ControlTyped'
  <1>1. CASE UNCHANGED <<participants, status, endToEndIndex>>
    BY <1>1 DEF ControlTyped
  <1>2. ASSUME NEW b \in Participant, AddParticipant(b) PROVE ControlTyped'
    BY <1>2 DEF AddParticipant, deposits, ControlTyped
  <1>3. ASSUME NEW a \in Account, OpenAccount(a) PROVE ControlTyped'
    BY <1>3 DEF OpenAccount, network, ControlTyped, AccountStatus
  <1>4. ASSUME NEW a \in Managed, NEW to \in AccountStatus, ChangeStatus(a, to) PROVE ControlTyped'
    <2>1. status[a] # "None"
      BY <1>4 DEF ChangeStatus, StatusEdge
    <2>2. QED BY <1>4, <2>1, AccountAssumption DEF ChangeStatus, network, ControlTyped
  <1>5. ASSUME NEW a \in Managed, Close(a) PROVE ControlTyped'
    BY <1>5, AccountAssumption DEF Close, network, ControlTyped, AccountStatus
  <1>6. CASE \/ UNCHANGED vars
             \/ \E a \in Account, amount \in Sum : Deposit(a, amount)
             \/ \E debtor, creditor \in Account, max \in MandateMax :
                  CreateMandate(debtor, creditor, max)
             \/ \E m \in DOMAIN mandates : RevokeMandate(m)
             \/ \E scheme \in Scheme : OpenCycle(scheme)
             \/ \E c \in DOMAIN cycles : CloseCycle(c)
    BY <1>1, <1>6 DEF vars, Deposit, CreateMandate, RevokeMandate, OpenCycle, CloseCycle,
       deposits, network
  <1>7. CASE \/ \E c \in DOMAIN cycles : SettleCycle(c)
             \/ \E n \in DOMAIN payments : RejectPayment(n)
             \/ \E n \in DOMAIN payments \cap Returnable : ReturnPayment(n)
    BY <1>1, <1>7 DEF SettleCycle, SettleInFull, SettlePartly, RejectPayment, ReturnPayment,
       ReturnInFull, ReturnPartly, deposits, network
  <1>8. ASSUME NEW scheme \in Scheme, NEW debtor \in Account, NEW creditor \in Account,
               NEW amount \in Sum, NEW endToEnd \in EndToEnd \cup {NoEndToEnd},
               NEW mandate \in MandateChoice(scheme),
               InitiatePayment(scheme, debtor, creditor, amount, mandate, endToEnd)
        PROVE  ControlTyped'
    BY <1>8 DEF InitiatePayment, ControlTyped
  <1>9. QED BY <1>2, <1>3, <1>4, <1>5, <1>6, <1>7, <1>8 DEF Next

LEMMA InitFunds == Init => FundsInv
  <1> SUFFICES ASSUME Init PROVE FundsInv
    OBVIOUS
  <1>1. MoneyInv
    BY InitLifecycle DEF Init, MoneyInv, LegsInv, LegsKnown
  <1>2. BooksTyped /\ ControlTyped
    BY DEF Init, BooksTyped, ControlTyped, AccountStatus
  <1>3. DOMAIN payments = {} /\ DOMAIN cycles = {} /\ posted = {}
    BY DEF Init
  <1>4. NetsTyped /\ AmountsPositive /\ NoneInitiated /\ SettleKeysInv /\ ClosedNets /\ NetsSumToZero
    BY <1>3 DEF NetsTyped, AmountsPositive, NoneInitiated, SettleKeysInv, ClosedNets, NetsSumToZero
  <1>5. QED BY <1>1, <1>2, <1>4 DEF FundsInv

LEMMA NextFunds == FundsInv /\ [Next]_vars => FundsInv'
  <1> SUFFICES ASSUME FundsInv, [Next]_vars PROVE FundsInv'
    OBVIOUS
  <1>1. MoneyInv'
    BY NextLegs, NextLifecycle, NextMandatesTyped DEF FundsInv, MoneyInv
  <1>2. AmountsPositive' /\ NoneInitiated'
    BY NextAmounts DEF FundsInv
  <1>3. BooksTyped'
    BY NextBooksTyped DEF FundsInv
  <1>4. NetsTyped' /\ NetsSumToZero'
    BY NextNets DEF FundsInv
  <1>5. SettleKeysInv' /\ ClosedNets' /\ ControlTyped'
    BY NextSettleKeys, NextClosedNets, NextControl DEF FundsInv
  <1>6. QED BY <1>1, <1>2, <1>3, <1>4, <1>5 DEF FundsInv

(* What the network computes and posts rests on this: books, keys and net   *)
(* positions are typed, a payment moves a positive amount, no settlement    *)
(* begins before its cycle has closed, and a closed cycle's net positions   *)
(* are those of the payments it lists (system.go:261-417).                  *)
THEOREM FundsInvariant == Spec => []FundsInv
  BY InitFunds, NextFunds, PTL DEF Spec

(* No bank's reserve is below zero. *)
Covered == reserve \in [Participant -> Nat]

(* No reserve follows a net position below zero, nor does a return take one *)
(* there.                                                                   *)
LEMMA NextCovered ==
  ASSUME FundsInv, Covered, [Next]_vars
  PROVE  Covered'
  <1>1. Shape /\ AmountsPositive /\ NetsTyped
    BY DEF FundsInv, MoneyInv, LifecycleInv
  <1>2. CASE \/ UNCHANGED <<books, customer, payments, cycles>>
             \/ \E scheme \in Scheme : OpenCycle(scheme)
             \/ \E c \in DOMAIN cycles : CloseCycle(c)
             \/ \E n \in DOMAIN payments : RejectPayment(n)
    BY <1>2 DEF OpenCycle, CloseCycle, RejectPayment, books, Covered
  <1>3. ASSUME NEW a \in Account, NEW amount \in Sum, Deposit(a, amount) PROVE Covered'
    <2>1. amount \in Int /\ amount > 0 /\ BankOf[a] \in Participant
      BY <1>3, InputAssumption, AccountAssumption DEF Deposit
    <2>2. reserve' = [reserve EXCEPT ![BankOf[a]] = @ + amount]
      BY <1>3 DEF Deposit
    <2>3. QED BY <2>1, <2>2 DEF Covered
  <1>4. ASSUME NEW c \in DOMAIN cycles, NEW done, reserve' = Mirror(reserve, c, done),
               \A b \in done : ReserveCovers(b, reserve, cycles[c].net[b])
        PROVE  Covered'
    <2>1. cycles[c].net \in [Participant -> Int]
      BY <1>1 DEF NetsTyped
    <2>2. QED BY <1>4, <2>1 DEF Mirror, ReserveCovers, Covered
  <1>5. ASSUME NEW c \in DOMAIN cycles, SettleInFull(c) PROVE Covered'
    BY <1>4, <1>5 DEF SettleInFull, CanMirror
  <1>6. ASSUME NEW c \in DOMAIN cycles, SettlePartly(c) PROVE Covered'
    <2>1. PICK done \in SUBSET {b \in Netted(c) : CanMirror(c, b)} : reserve' = Mirror(reserve, c, done)
      BY <1>6 DEF SettlePartly
    <2>2. \A b \in done : ReserveCovers(b, reserve, cycles[c].net[b])
      BY <2>1 DEF CanMirror
    <2>3. QED BY <1>4, <2>1, <2>2
  <1>7. CASE Initiates
    BY <1>7, InitiateEffects DEF Initiated, FundsInv, Covered
  <1>8. ASSUME NEW n \in DOMAIN payments, ReturnInFull(n) \/ ReturnPartly(n) PROVE Covered'
    <2>1. PICK x, k, l : /\ x = payments[n].amount
                         /\ k = DebtorBank(payments[n]) /\ l = CreditorBank(payments[n])
      OBVIOUS
    <2>2. x \in Int /\ x > 0 /\ k \in Participant /\ l \in Participant
      BY <1>1, <2>1, PaymentTyped
    <2>3. CASE ReturnInFull(n)
      <3>1. /\ ReserveCovers(l, [reserve EXCEPT ![k] = @ + x], -x)
            /\ reserve' = [[reserve EXCEPT ![k] = @ + x] EXCEPT ![l] = @ - x]
        BY <2>1, <2>3 DEF ReturnInFull, Refund
      <3>2. QED BY <2>2, <3>1 DEF ReserveCovers, Covered
    <2>4. CASE ReturnPartly(n)
      <3>1. reserve' = [reserve EXCEPT ![k] = @ + x]
        BY <2>1, <2>4 DEF ReturnPartly, Refund
      <3>2. QED BY <2>2, <3>1 DEF Covered
    <2>5. QED BY <1>8, <2>3, <2>4
  <1>9. QED BY <1>2, <1>3, <1>5, <1>6, <1>7, <1>8, Steps DEF FundsInv, MoneyInv

(* Every record and every balance has its type, and no bank's reserve, an   *)
(* Asset, goes below zero: no settlement and no return takes one there      *)
(* (service.go:410-437).                                                    *)
THEOREM TypesAlways == Spec => []TypeOK
  <1>1. FundsInv /\ Covered => TypeOK
    <2> SUFFICES ASSUME FundsInv, Covered PROVE TypeOK
      OBVIOUS
    <2>1. Shape /\ MandatesTyped
      BY DEF FundsInv, MoneyInv, LifecycleInv
    <2>2. ControlTypeOK
      BY <2>1 DEF FundsInv, ControlTyped, ControlTypeOK, Shape, MandatesTyped, MandateRecord,
         PaymentRecord
    <2> DEFINE R == [scheme: Scheme, status: {"Open", "Closed", "Settled"},
                     payments: SUBSET (DOMAIN payments), net: [Participant -> Int]]
    <2>3. PICK Nets : /\ cycles \in Seq(CycleRecord(Nets))
                      /\ \A c \in DOMAIN cycles : cycles[c] \in CycleRecord(Nets)
      BY <2>1, Records
    <2>4. ASSUME NEW c \in DOMAIN cycles PROVE cycles[c] \in R
      <3>1. cycles[c] \in CycleRecord(Nets)
        BY <2>3
      <3>2. cycles[c].payments \subseteq DOMAIN payments
        BY DEF FundsInv, MoneyInv, LifecycleInv, PaymentsFollowCycle, Members
      <3>3. cycles[c].net \in [Participant -> Int]
        BY DEF FundsInv, NetsTyped
      <3>4. QED BY <3>1, <3>2, <3>3 DEF CycleRecord
    <2> HIDE DEF R
    <2>5. cycles \in Seq(R)
      <3>1. PICK m \in Nat : cycles \in [1 .. m -> CycleRecord(Nets)]
        BY <2>3, SeqDef
      <3>2. cycles \in [1 .. m -> R]
        BY <2>4, <3>1
      <3>3. QED BY <3>2, SeqDef
    <2>6. QED BY <2>2, <2>5 DEF R, FundsInv, BooksTyped, Covered, TypeOK, Keys
  <1>2. Init => Covered
    BY DEF Init, Covered
  <1>3. QED BY FundsInvariant, <1>1, <1>2, NextCovered, PTL DEF Spec

(* The net positions of every cycle sum to zero, on-us payments and         *)
(* opposite flows included: settlement creates no money and destroys none   *)
(* (system.go:299-309, 329).                                                *)
THEOREM NetsSumToZeroAlways == Spec => []NetsSumToZero
  <1>1. FundsInv => NetsSumToZero
    BY DEF FundsInv
  <1>2. QED BY FundsInvariant, <1>1, PTL
-----------------------------------------------------------------------------
(* The steps that take money from an account: a payment its debtor can      *)
(* afford, and the return of one it received.                               *)
LEMMA NextOverdrawn ==
  ASSUME FundsInv, [Next]_vars, NEW a \in Account,
         customer'[a] < customer[a], customer'[a] + Limit[a] < 0
  PROVE  \E n \in DOMAIN payments : /\ payments[n].creditor = a
                                    /\ payments[n].status = "Settled"
                                    /\ payments'[n].status = "Returned"
  <1>1. MoneyInv /\ Shape /\ AmountsPositive /\ customer \in [Account -> Int] /\ Limit[a] \in Int
    BY AccountAssumption DEF FundsInv, MoneyInv, LifecycleInv, BooksTyped
  <1>2. customer' # customer
    BY <1>1
  <1>3. ASSUME \/ UNCHANGED <<books, customer, payments, cycles>>
               \/ \E scheme \in Scheme : OpenCycle(scheme)
               \/ \E c \in DOMAIN cycles : CloseCycle(c)
               \/ \E c \in DOMAIN cycles : SettlePartly(c)
        PROVE  FALSE
    BY <1>2, <1>3 DEF OpenCycle, CloseCycle, SettlePartly, deposits
  <1>4. ASSUME NEW b \in Account, NEW amount \in Sum, Deposit(b, amount) PROVE FALSE
    <2>1. customer' = [customer EXCEPT ![b] = @ + amount] /\ amount \in Int /\ amount > 0
      BY <1>4, InputAssumption DEF Deposit
    <2>2. QED BY <1>1, <2>1
  <1>5. ASSUME NEW c \in DOMAIN cycles, SettleInFull(c) PROVE FALSE
    <2> DEFINE S == {n \in Members(c) : payments[n].creditor = a}
    <2>1. S \in SUBSET DOMAIN payments /\ CreditedTo(c, a) = Total(S)
            /\ customer'[a] = customer[a] + CreditedTo(c, a)
      BY <1>5, SettleEffects DEF SettleInFull, CreditedTo, FundsInv
    <2> HIDE DEF S
    <2>2. CreditedTo(c, a) \in Nat
      BY <1>1, <2>1, Totals
    <2>3. QED BY <1>1, <2>1, <2>2
  <1>6. ASSUME Initiates PROVE FALSE
    <2>1. PICK n \in Nat, c \in DOMAIN cycles, debtor \in Account, creditor \in Account,
               amount \in Sum : Initiated(n, c, debtor, creditor, amount)
      BY <1>1, <1>6, InitiateEffects
    <2>2. /\ customer' = [customer EXCEPT ![debtor] = @ - amount]
          /\ customer[debtor] + Limit[debtor] - amount >= 0
          /\ amount \in Int /\ Limit[debtor] \in Int
      BY <2>1, InputAssumption, AccountAssumption DEF Initiated, CheckWithdrawal
    <2>3. QED BY <1>1, <2>2
  <1>7. ASSUME NEW n \in DOMAIN payments, RejectPayment(n) \/ ReturnPartly(n) PROVE FALSE
    <2>1. customer' = [customer EXCEPT ![payments[n].debtor] = @ + payments[n].amount]
      BY <1>7 DEF RejectPayment, ReturnPartly
    <2>2. PICK x, d : x = payments[n].amount /\ d = payments[n].debtor
      OBVIOUS
    <2>3. x \in Int /\ x > 0 /\ d \in Account
      BY <1>1, <2>2, PaymentTyped
    <2>4. QED BY <1>1, <2>1, <2>2, <2>3
  <1>8. ASSUME NEW n \in DOMAIN payments, ReturnInFull(n)
        PROVE  /\ payments[n].creditor = a /\ payments[n].status = "Settled"
               /\ payments'[n].status = "Returned"
    <2>1. payments[n].status = "Settled" /\ payments'[n].status = "Returned"
      BY <1>1, <1>8, ReturnEffects DEF Marks
    <2>2. customer' = [[customer EXCEPT ![payments[n].debtor] = @ + payments[n].amount]
                         EXCEPT ![payments[n].creditor] = @ - payments[n].amount]
      BY <1>8 DEF ReturnInFull
    <2>3. PICK x, d, e : /\ x = payments[n].amount /\ d = payments[n].debtor
                         /\ e = payments[n].creditor
      OBVIOUS
    <2>4. x \in Int /\ x > 0 /\ d \in Account /\ e \in Account
      BY <1>1, <2>3, PaymentTyped
    <2>5. e = a
      BY <1>1, <2>2, <2>3, <2>4
    <2>6. QED BY <2>1, <2>3, <2>5
  <1>9. QED BY <1>3, <1>4, <1>5, <1>6, <1>7, <1>8, Steps DEF FundsInv, MoneyInv

(* Only the return of a payment it received takes an account below its      *)
(* overdraft limit (system.go:498-521, 611-620).                            *)
THEOREM OverdrawnOnlyByReturnAlways == Spec => OverdrawnOnlyByReturn
  <1> DEFINE Allowed ==
               \A a \in Account :
                 (customer'[a] < customer[a] /\ customer'[a] + Limit[a] < 0) =>
                   \E n \in DOMAIN payments : /\ payments[n].creditor = a
                                              /\ payments[n].status = "Settled"
                                              /\ payments'[n].status = "Returned"
  <1>1. FundsInv /\ [Next]_vars => Allowed
    BY NextOverdrawn
  <1>2. OverdrawnOnlyByReturn <=> [][Allowed]_vars
    BY DEF OverdrawnOnlyByReturn
  <1> HIDE DEF Allowed
  <1>3. FundsInv /\ [Next]_vars => [Allowed]_vars
    BY <1>1
  <1>4. QED BY FundsInvariant, <1>2, <1>3, PTL DEF Spec
-----------------------------------------------------------------------------
(* The payments of P sent by bank b's customers and still on their way. *)
OnTheWay(P, b) ==
  {n \in DOMAIN P : DebtorBank(P[n]) = b /\ P[n].status \in {"Accepted", "Cleared"}}

(* The cycles of C whose settlement stopped half way, K being the keys      *)
(* posted under; those that bank b has mirrored, and those it has not.      *)
HaltedIn(C, K) == {c \in DOMAIN C : C[c].status = "Closed" /\ <<CentralBank, "settle", c>> \in K}
Mirrored(C, K, b) == {c \in HaltedIn(C, K) : <<b, "reserve", c>> \in K}
Unmirrored(C, K, b) == {c \in HaltedIn(C, K) : <<b, "reserve", c>> \notin K}

LEMMA SuspenseIs ==
  /\ SuspenseExact <=>
       \A b \in Participant :
         suspense[b] = Worth(payments, OnTheWay(payments, b))
                         + NetSum(cycles, b, Mirrored(cycles, posted, b))
  /\ SuspenseExact' <=>
       \A b \in Participant :
         suspense'[b] = Worth(payments', OnTheWay(payments', b))
                          + NetSum(cycles', b, Mirrored(cycles', posted', b))
  <1>1. \A b : /\ Mirrored(cycles, posted, b)
                     = {c \in DOMAIN cycles : Halted(c) /\ ~Unused(b, "reserve", c)}
               /\ Mirrored(cycles', posted', b)
                     = {c \in DOMAIN cycles : Halted(c) /\ ~Unused(b, "reserve", c)}'
    BY DEF Mirrored, HaltedIn, Halted, Unused
  <1>2. QED BY <1>1 DEF SuspenseExact, InFlight, OnTheWay, NetSum, SumOver, Total, Worth, DebtorBank

LEMMA NetSumSame ==
  ASSUME NEW C, NEW D, NEW b, NEW H, IsFiniteSet(H), H \subseteq DOMAIN C, H \subseteq DOMAIN D,
         \A c \in H : C[c].net[b] = D[c].net[b]
  PROVE  NetSum(C, b, H) = NetSum(D, b, H)
  <1> DEFINE f == [c \in DOMAIN C |-> C[c].net[b]]
             g == [c \in DOMAIN D |-> D[c].net[b]]
  <1>1. \A c \in H : f[c] = g[c]
    OBVIOUS
  <1>2. NetSum(C, b, H) = SumFunctionOnSet(f, H) /\ NetSum(D, b, H) = SumFunctionOnSet(g, H)
    BY DEF NetSum
  <1> HIDE DEF f, g
  <1>3. QED BY <1>1, <1>2, SumSame

(* One more cycle adds its net position. *)
LEMMA NetSumAdds ==
  ASSUME NEW C, NEW b, NEW H, IsFiniteSet(H), H \subseteq DOMAIN C, NEW c \in DOMAIN C, c \notin H,
         \A d \in DOMAIN C : C[d].net[b] \in Int
  PROVE  /\ NetSum(C, b, H \cup {c}) = NetSum(C, b, H) + C[c].net[b]
         /\ NetSum(C, b, H) \in Int
  <1> DEFINE f == [d \in DOMAIN C |-> C[d].net[b]]
  <1>1. Ints(f, H) /\ f[c] = C[c].net[b] /\ f[c] \in Int
    BY DEF Ints
  <1>2. \A S : NetSum(C, b, S) = SumFunctionOnSet(f, S)
    BY DEF NetSum
  <1> HIDE DEF f
  <1>3. SumFunctionOnSet(f, H \cup {c}) = SumFunctionOnSet(f, H) + f[c]
          /\ SumFunctionOnSet(f, H) \in Int
    BY <1>1, SumAdds
  <1>4. QED BY <1>1, <1>2, <1>3

LEMMA NetSumType ==
  ASSUME NEW C, NEW b, NEW H, IsFiniteSet(H), H \subseteq DOMAIN C,
         \A d \in DOMAIN C : C[d].net[b] \in Int
  PROVE  NetSum(C, b, H) \in Int
  <1> DEFINE f == [c \in DOMAIN C |-> C[c].net[b]]
  <1>1. Ints(f, H) /\ NetSum(C, b, H) = SumFunctionOnSet(f, H)
    BY DEF Ints, NetSum
  <1> HIDE DEF f
  <1>2. QED BY <1>1, SumType

LEMMA HaltedFinite ==
  ASSUME FundsInv
  PROVE  IsFiniteSet(HaltedIn(cycles, posted))
           /\ \A S \in SUBSET HaltedIn(cycles, posted) : IsFiniteSet(S)
  <1>1. PICK Nets : cycles \in Seq(CycleRecord(Nets))
    BY Records DEF FundsInv, MoneyInv, LifecycleInv
  <1>2. PICK m \in Nat : DOMAIN cycles = 1 .. m
    BY <1>1, LenProperties
  <1>3. HaltedIn(cycles, posted) \subseteq 1 .. m /\ IsFiniteSet(1 .. m)
    BY <1>2, FS_Interval DEF HaltedIn
  <1>4. IsFiniteSet(HaltedIn(cycles, posted))
    BY <1>3, FS_Subset
  <1>5. QED BY <1>4, FS_Subset

(* The step stops no settlement half way and takes none further. *)
HaltsStay ==
  /\ DOMAIN cycles \subseteq DOMAIN cycles'
  /\ HaltedIn(cycles', posted') = HaltedIn(cycles, posted)
  /\ \A c \in HaltedIn(cycles, posted) :
       /\ cycles'[c].net = cycles[c].net
       /\ \A b \in Participant : <<b, "reserve", c>> \in posted' <=> <<b, "reserve", c>> \in posted

LEMMA WhenHaltsStay ==
  ASSUME FundsInv, [Next]_vars, \A c \in DOMAIN cycles : ~SettlePartly(c)
  PROVE  HaltsStay
  <1>0. MoneyInv /\ NoneInitiated
    BY DEF FundsInv
  <1>1. \A c \in DOMAIN cycles : <<CentralBank, "settle", c>> \in posted =>
          cycles[c].status # "Open" /\ Netted(c) # {}
    <2> TAKE c \in DOMAIN cycles
    <2>1. <<CentralBank, "settle", c>>[2] = "settle" /\ <<CentralBank, "settle", c>>[3] = c
      OBVIOUS
    <2>2. QED BY <2>1 DEF FundsInv, SettleKeysInv
  <1>2. \A c : <<CentralBank, "settle", c>> \in posted => c \in DOMAIN cycles
    <2> TAKE c
    <2>1. <<CentralBank, "settle", c>>[2] = "settle" /\ <<CentralBank, "settle", c>>[3] = c
      OBVIOUS
    <2>2. QED BY <2>1 DEF FundsInv, SettleKeysInv
  <1>3. ASSUME cycles' = cycles,
               \A b, c : /\ <<b, "settle", c>> \in posted' <=> <<b, "settle", c>> \in posted
                         /\ <<b, "reserve", c>> \in posted' <=> <<b, "reserve", c>> \in posted
        PROVE  HaltsStay
    BY <1>3 DEF HaltsStay, HaltedIn
  <1>4. CASE \/ UNCHANGED <<books, customer, payments, cycles>>
             \/ \E a \in Account, amount \in Sum : Deposit(a, amount)
    BY <1>3, <1>4 DEF Deposit, books, network
  <1>5. ASSUME NEW n \in DOMAIN payments, ReturnInFull(n) \/ ReturnPartly(n) PROVE HaltsStay
    BY <1>3, <1>5 DEF ReturnInFull, ReturnPartly, network
  <1>6. ASSUME NEW scheme \in Scheme, OpenCycle(scheme) PROVE HaltsStay
    <2>1. posted' = posted
      BY <1>6 DEF OpenCycle, books
    <2>2. PICK c : /\ DOMAIN cycles' = DOMAIN cycles \cup {c} /\ cycles'[c].status = "Open"
                   /\ \A d \in DOMAIN cycles : cycles'[d] = cycles[d]
      BY <1>0, <1>6, OpenEffects
    <2>3. QED BY <2>1, <2>2 DEF HaltsStay, HaltedIn
  <1>7. ASSUME NEW c \in DOMAIN cycles, NEW st, NEW S, NEW net, CycleBecomes(c, st, S, net),
               cycles[c].status = "Open",
               \A b, d : /\ <<b, "settle", d>> \in posted' <=> <<b, "settle", d>> \in posted
                         /\ <<b, "reserve", d>> \in posted' <=> <<b, "reserve", d>> \in posted
        PROVE  HaltsStay
    <2>1. <<CentralBank, "settle", c>> \notin posted'
      BY <1>1, <1>7
    <2>2. QED BY <1>7, <2>1 DEF CycleBecomes, HaltsStay, HaltedIn
  <1>8. ASSUME NEW c \in DOMAIN cycles, CloseCycle(c) PROVE HaltsStay
    <2>1. PICK net : cycles[c].status = "Open" /\ CycleBecomes(c, "Closed", Members(c), net)
      BY <1>0, <1>8, CloseEffects
    <2>2. posted' = posted
      BY <1>8 DEF CloseCycle, books
    <2>3. QED BY <1>7, <2>1, <2>2
  <1>9. ASSUME NEW n \in DOMAIN payments, RejectPayment(n) PROVE HaltsStay
    <2>1. posted' = posted
      BY <1>9 DEF RejectPayment
    <2>2. QED BY <1>0, <1>7, <1>9, <2>1, RejectEffects
  <1>10. CASE Initiates
    <2>1. PICK n \in Nat, c \in DOMAIN cycles, debtor \in Account :
            /\ cycles[c].status = "Open" /\ CycleBecomes(c, "Open", Members(c) \cup {n}, cycles[c].net)
            /\ posted' = posted \cup {<<BankOf[debtor], "debit", n>>}
      BY <1>0, <1>10, InitiateEffects DEF Initiated
    <2>2. QED BY <1>7, <2>1
  <1>11. ASSUME NEW c \in DOMAIN cycles, SettleInFull(c) PROVE HaltsStay
    <2> DEFINE credits == {<<CreditorBank(payments[n]), "credit", n>> : n \in Members(c)}
    <2>1. CycleBecomes(c, "Settled", Members(c), cycles[c].net)
      BY <1>0, <1>11, SettleEffects
    <2>2. <<CentralBank, "settle", c>> \notin posted
      BY <1>1, <1>11 DEF SettleInFull, CanSettle, Unused
    <2>3. posted' = posted \cup SettleKeys(c, Netted(c)) \cup credits
      BY <1>11 DEF SettleInFull
    <2>4. ASSUME NEW d, d # c
          PROVE  /\ \A b : (<<b, "settle", d>> \in posted') <=> (<<b, "settle", d>> \in posted)
                 /\ \A b : (<<b, "reserve", d>> \in posted') <=> (<<b, "reserve", d>> \in posted)
      BY <2>3, <2>4 DEF SettleKeys
    <2> HIDE DEF credits
    <2>5. /\ DOMAIN cycles' = DOMAIN cycles /\ cycles'[c].status = "Settled"
          /\ \A d \in DOMAIN cycles \ {c} : cycles'[d] = cycles[d]
      BY <2>1 DEF CycleBecomes
    <2>6. c \notin HaltedIn(cycles', posted') /\ c \notin HaltedIn(cycles, posted)
      BY <2>2, <2>5 DEF HaltedIn
    <2>7. ASSUME NEW d \in DOMAIN cycles \ {c}
          PROVE  d \in HaltedIn(cycles', posted') <=> d \in HaltedIn(cycles, posted)
      <3>1. <<CentralBank, "settle", d>> \in posted' <=> <<CentralBank, "settle", d>> \in posted
        BY <2>4, d # c
      <3>2. cycles'[d] = cycles[d] /\ d \in DOMAIN cycles'
        BY <2>5
      <3>3. QED BY <3>1, <3>2 DEF HaltedIn
    <2>8. /\ HaltedIn(cycles', posted') \subseteq DOMAIN cycles
          /\ HaltedIn(cycles, posted) \subseteq DOMAIN cycles \ {c}
      BY <2>5, <2>6 DEF HaltedIn
    <2>9. HaltedIn(cycles', posted') = HaltedIn(cycles, posted)
      BY <2>6, <2>7, <2>8
    <2>10. ASSUME NEW d \in HaltedIn(cycles, posted)
           PROVE  /\ cycles'[d].net = cycles[d].net
                  /\ \A b \in Participant :
                       <<b, "reserve", d>> \in posted' <=> <<b, "reserve", d>> \in posted
      <3>1. d \in DOMAIN cycles \ {c}
        BY <2>8
      <3>2. cycles'[d].net = cycles[d].net
        BY <2>5, <3>1
      <3>3. d # c
        BY <3>1
      <3>4. \A b : (<<b, "reserve", d>> \in posted') <=> (<<b, "reserve", d>> \in posted)
        BY <2>4, <3>3
      <3>5. QED BY <3>2, <3>4
    <2>11. QED BY <2>5, <2>9, <2>10 DEF HaltsStay
  <1>12. QED BY <1>0, <1>4, <1>5, <1>6, <1>8, <1>9, <1>10, <1>11, Steps DEF MoneyInv

(* Then the halted cycles' net positions sum to what they did. *)
LEMMA HaltedSumsStay ==
  ASSUME FundsInv, HaltsStay, NEW b \in Participant
  PROVE  /\ NetSum(cycles', b, Mirrored(cycles', posted', b))
               = NetSum(cycles, b, Mirrored(cycles, posted, b))
         /\ NetSum(cycles', b, Unmirrored(cycles', posted', b))
               = NetSum(cycles, b, Unmirrored(cycles, posted, b))
  <1>1. Mirrored(cycles', posted', b) = Mirrored(cycles, posted, b)
          /\ Unmirrored(cycles', posted', b) = Unmirrored(cycles, posted, b)
    BY DEF HaltsStay, Mirrored, Unmirrored
  <1>2. \A S \in SUBSET HaltedIn(cycles, posted) : NetSum(cycles', b, S) = NetSum(cycles, b, S)
    <2> TAKE S \in SUBSET HaltedIn(cycles, posted)
    <2>1. S \subseteq DOMAIN cycles /\ S \subseteq DOMAIN cycles' /\ IsFiniteSet(S)
      BY HaltedFinite DEF HaltedIn, HaltsStay
    <2>2. \A c \in S : cycles'[c].net[b] = cycles[c].net[b]
      BY DEF HaltsStay
    <2>3. QED BY <2>1, <2>2, NetSumSame
  <1>3. Mirrored(cycles, posted, b) \in SUBSET HaltedIn(cycles, posted)
          /\ Unmirrored(cycles, posted, b) \in SUBSET HaltedIn(cycles, posted)
    BY DEF Mirrored, Unmirrored
  <1>4. QED BY <1>1, <1>2, <1>3
-----------------------------------------------------------------------------
LEMMA WayIsSet ==
  ASSUME NEW b
  PROVE  OnTheWay(payments, b) \in SUBSET DOMAIN payments
  BY DEF OnTheWay

(* A step that marks payments leaves the value of any of them alone. *)
LEMMA WorthMarked ==
  ASSUME NEW S, NEW to, Marks(S, to), NEW T \in SUBSET DOMAIN payments
  PROVE  Worth(payments', T) = Worth(payments, T)
  <1>1. \A n \in T : payments'[n].amount = payments[n].amount
    BY DEF Marks
  <1>2. QED BY <1>1, WorthSame

(* Marking payments that stay on their way, or were not, changes nothing    *)
(* that is on its way.                                                      *)
LEMMA WayUnmoved ==
  ASSUME NEW S, NEW to, Marks(S, to), NEW b,
         \A n \in S : payments[n].status \in {"Accepted", "Cleared"} <=> to \in {"Accepted", "Cleared"}
  PROVE  Worth(payments', OnTheWay(payments', b)) = Worth(payments, OnTheWay(payments, b))
  <1>1. OnTheWay(payments', b) = OnTheWay(payments, b)
    BY DEF OnTheWay, Marks, DebtorBank
  <1>2. QED BY <1>1, WorthMarked, WayIsSet

(* Marking payments that leave takes their value from what is on its way.   *)
LEMMA WayLeft ==
  ASSUME Shape, AmountsPositive, NEW S \in SUBSET DOMAIN payments, NEW to, Marks(S, to), NEW b,
         \A n \in S : payments[n].status \in {"Accepted", "Cleared"}, to \notin {"Accepted", "Cleared"}
  PROVE  LET gone == {n \in S : DebtorBank(payments[n]) = b}
         IN  /\ Worth(payments', OnTheWay(payments', b))
                   = Worth(payments, OnTheWay(payments, b)) - Worth(payments, gone)
             /\ Worth(payments, OnTheWay(payments, b)) \in Int /\ Worth(payments, gone) \in Int
  <1> DEFINE gone == {n \in S : DebtorBank(payments[n]) = b}
             before == OnTheWay(payments, b)
             after == OnTheWay(payments', b)
  <1>1. before = after \cup gone /\ after \cap gone = {} /\ before \in SUBSET DOMAIN payments
    BY DEF OnTheWay, Marks, DebtorBank
  <1>2. after \in SUBSET DOMAIN payments /\ gone \in SUBSET DOMAIN payments
    BY <1>1
  <1> HIDE DEF gone, before, after
  <1>3. /\ IsFiniteSet(after) /\ IsFiniteSet(gone)
        /\ Worth(payments, before) \in Int /\ Worth(payments, gone) \in Int
        /\ Worth(payments, after) \in Int
    BY <1>1, <1>2, Totals
  <1>4. \A n \in after \cup gone : payments[n].amount \in Int
    BY <1>2 DEF AmountsPositive
  <1>5. Worth(payments, before) = Worth(payments, after) + Worth(payments, gone)
    BY <1>1, <1>3, <1>4, WorthOfBoth
  <1>6. Worth(payments', after) = Worth(payments, after)
    BY <1>2, WorthMarked
  <1>7. QED BY <1>3, <1>5, <1>6 DEF gone, before, after

(* A payment initiated adds its amount to what is on its way from its       *)
(* debtor's bank.                                                           *)
LEMMA WayJoined ==
  ASSUME Shape, AmountsPositive, NEW n, NEW c, NEW debtor, NEW creditor, NEW amount \in Int,
         Initiated(n, c, debtor, creditor, amount), NEW b
  PROVE  /\ Worth(payments', OnTheWay(payments', b))
               = Worth(payments, OnTheWay(payments, b))
                   + (IF BankOf[debtor] = b THEN amount ELSE 0)
         /\ Worth(payments, OnTheWay(payments, b)) \in Int
  <1> DEFINE before == OnTheWay(payments, b)
             after == OnTheWay(payments', b)
  <1>1. before \in SUBSET DOMAIN payments /\ n \notin before
    BY WayIsSet DEF Initiated
  <1>2. after = IF BankOf[debtor] = b THEN before \cup {n} ELSE before
    BY DEF OnTheWay, Initiated, DebtorBank
  <1>3. /\ \A m \in before : payments'[m].amount = payments[m].amount /\ payments'[m].amount \in Int
        /\ payments'[n].amount = amount
    BY <1>1 DEF Initiated, AmountsPositive
  <1> HIDE DEF before, after
  <1>4. IsFiniteSet(before) /\ Worth(payments, before) \in Int
    BY <1>1, Totals
  <1>5. Worth(payments', before) = Worth(payments, before)
    BY <1>3, WorthSame
  <1>6. Worth(payments', {n}) = amount /\ IsFiniteSet({n})
    BY <1>3, WorthOfOne, FS_Singleton
  <1>7. Worth(payments', before \cup {n}) = Worth(payments', before) + Worth(payments', {n})
    BY <1>1, <1>3, <1>4, <1>6, WorthOfBoth
  <1>8. QED BY <1>2, <1>4, <1>5, <1>6, <1>7 DEF before, after
-----------------------------------------------------------------------------
(* What a settlement of cycle c that stops half way leaves: c is halted,    *)
(* and the banks `done` have mirrored it.                                   *)
HaltsOneMore(c, done) ==
  /\ c \in DOMAIN cycles /\ cycles' = cycles /\ payments' = payments
  /\ \A b \in Participant :
       /\ c \notin Mirrored(cycles, posted, b) /\ c \notin Unmirrored(cycles, posted, b)
       /\ Mirrored(cycles', posted', b)
            = Mirrored(cycles, posted, b) \cup (IF b \in done THEN {c} ELSE {})
       /\ Unmirrored(cycles', posted', b)
            = Unmirrored(cycles, posted, b) \cup (IF b \in done THEN {} ELSE {c})

LEMMA SettlePartlyEffects ==
  ASSUME FundsInv, NEW c \in DOMAIN cycles, SettlePartly(c)
  PROVE  \E done \in SUBSET Participant :
           /\ HaltsOneMore(c, done)
           /\ reserve' = Mirror(reserve, c, done) /\ suspense' = Mirror(suspense, c, done)
           /\ cbReserve' = MoveReserves(c)
           /\ \A n, b : (<<b, "return-debit", n>> \in posted') <=> (<<b, "return-debit", n>> \in posted)
  <1>1. PICK done \in SUBSET {b \in Netted(c) : CanMirror(c, b)} :
          /\ reserve' = Mirror(reserve, c, done)
          /\ suspense' = MirrorSuspense(suspense, c, done)
          /\ posted' = posted \cup SettleKeys(c, done)
    BY DEF SettlePartly
  <1>2. /\ cycles' = cycles /\ payments' = payments /\ cbReserve' = MoveReserves(c)
        /\ cycles[c].status = "Closed" /\ Netted(c) # {} /\ <<CentralBank, "settle", c>> \notin posted
    BY DEF SettlePartly, CanSettle, Unused, network
  <1>3. \A b : <<b, "reserve", c>> \notin posted
    <2> TAKE b
    <2>1. <<b, "reserve", c>>[2] = "reserve" /\ <<b, "reserve", c>>[3] = c
      OBVIOUS
    <2>2. QED BY <1>2, <2>1 DEF FundsInv, SettleKeysInv
  <1>4. SettleKeys(c, done) = {<<CentralBank, "settle", c>>} \cup {<<b, "reserve", c>> : b \in done}
    BY <1>2 DEF SettleKeys
  <1>5. /\ \A d : (<<CentralBank, "settle", d>> \in posted') <=> (<<CentralBank, "settle", d>> \in posted \/ d = c)
        /\ \A b, d : (<<b, "reserve", d>> \in posted')
                       <=> (<<b, "reserve", d>> \in posted \/ (d = c /\ b \in done))
        /\ \A n, b : (<<b, "return-debit", n>> \in posted') <=> (<<b, "return-debit", n>> \in posted)
    BY <1>1, <1>4
  <1>6. /\ HaltedIn(cycles', posted') = HaltedIn(cycles, posted) \cup {c}
        /\ c \notin HaltedIn(cycles, posted)
    BY <1>2, <1>5 DEF HaltedIn
  <1>7. ASSUME NEW b \in Participant
        PROVE  /\ c \notin Mirrored(cycles, posted, b) /\ c \notin Unmirrored(cycles, posted, b)
               /\ Mirrored(cycles', posted', b)
                    = Mirrored(cycles, posted, b) \cup (IF b \in done THEN {c} ELSE {})
               /\ Unmirrored(cycles', posted', b)
                    = Unmirrored(cycles, posted, b) \cup (IF b \in done THEN {} ELSE {c})
    <2>1. \A d \in HaltedIn(cycles, posted) :
            d # c /\ ((<<b, "reserve", d>> \in posted') <=> (<<b, "reserve", d>> \in posted))
      BY <1>5, <1>6
    <2>2. (<<b, "reserve", c>> \in posted') <=> (b \in done)
      BY <1>3, <1>5
    <2>3. QED BY <1>6, <2>1, <2>2 DEF Mirrored, Unmirrored
  <1>8. HaltsOneMore(c, done)
    BY <1>2, <1>7 DEF HaltsOneMore
  <1>9. done \in SUBSET Participant
    BY <1>1 DEF Netted
  <1>10. QED BY <1>1, <1>2, <1>5, <1>8, <1>9 DEF MirrorSuspense

LEMMA HaltedSumsMove ==
  ASSUME FundsInv, NEW c, NEW done, HaltsOneMore(c, done), NEW b \in Participant
  PROVE  /\ NetSum(cycles', b, Mirrored(cycles', posted', b))
               = NetSum(cycles, b, Mirrored(cycles, posted, b))
                   + (IF b \in done THEN cycles[c].net[b] ELSE 0)
         /\ NetSum(cycles', b, Unmirrored(cycles', posted', b))
               = NetSum(cycles, b, Unmirrored(cycles, posted, b))
                   + (IF b \in done THEN 0 ELSE cycles[c].net[b])
         /\ NetSum(cycles, b, Mirrored(cycles, posted, b)) \in Int
         /\ NetSum(cycles, b, Unmirrored(cycles, posted, b)) \in Int
         /\ cycles[c].net[b] \in Int
  <1> DEFINE M == Mirrored(cycles, posted, b)
             U == Unmirrored(cycles, posted, b)
  <1>1. /\ IsFiniteSet(M) /\ IsFiniteSet(U) /\ M \subseteq DOMAIN cycles /\ U \subseteq DOMAIN cycles
    <2>1. M \in SUBSET HaltedIn(cycles, posted) /\ U \in SUBSET HaltedIn(cycles, posted)
      BY DEF Mirrored, Unmirrored
    <2>2. QED BY <2>1, HaltedFinite DEF HaltedIn
  <1>2. /\ c \in DOMAIN cycles /\ cycles' = cycles /\ c \notin M /\ c \notin U
        /\ Mirrored(cycles', posted', b) = M \cup (IF b \in done THEN {c} ELSE {})
        /\ Unmirrored(cycles', posted', b) = U \cup (IF b \in done THEN {} ELSE {c})
    BY DEF HaltsOneMore
  <1>3. \A d \in DOMAIN cycles : cycles[d].net[b] \in Int
    BY DEF FundsInv, NetsTyped
  <1> HIDE DEF M, U
  <1>4. /\ NetSum(cycles, b, M \cup {c}) = NetSum(cycles, b, M) + cycles[c].net[b]
        /\ NetSum(cycles, b, M) \in Int
    BY <1>1, <1>2, <1>3, NetSumAdds
  <1>5. /\ NetSum(cycles, b, U \cup {c}) = NetSum(cycles, b, U) + cycles[c].net[b]
        /\ NetSum(cycles, b, U) \in Int
    BY <1>1, <1>2, <1>3, NetSumAdds
  <1>6. M \cup {} = M /\ U \cup {} = U /\ cycles[c].net[b] \in Int
    BY <1>2, <1>3
  <1>7. CASE b \in done
    <2>1. Mirrored(cycles', posted', b) = M \cup {c} /\ Unmirrored(cycles', posted', b) = U
      BY <1>2, <1>6, <1>7
    <2>2. QED BY <1>2, <1>4, <1>5, <1>6, <1>7, <2>1 DEF M, U
  <1>8. CASE b \notin done
    <2>1. Mirrored(cycles', posted', b) = M /\ Unmirrored(cycles', posted', b) = U \cup {c}
      BY <1>2, <1>6, <1>8
    <2>2. QED BY <1>2, <1>4, <1>5, <1>6, <1>8, <2>1 DEF M, U
  <1>9. QED BY <1>7, <1>8
-----------------------------------------------------------------------------
(* Bank b's suspense holds what SuspenseExact says, and d more. *)
Explained(b, d) ==
  suspense[b] - d = Worth(payments, OnTheWay(payments, b)) + NetSum(cycles, b, Mirrored(cycles, posted, b))

LEMMA NextSuspense ==
  ASSUME FundsInv, [Next]_vars, NEW b \in Participant, NEW d \in Int, Explained(b, d)
  PROVE  Explained(b, d)'
  <1>1. /\ MoneyInv /\ Shape /\ AmountsPositive /\ NoneInitiated
        /\ suspense \in [Participant -> Int]
    BY DEF FundsInv, MoneyInv, LifecycleInv, BooksTyped
  <1>2. PICK way, net : /\ way = Worth(payments, OnTheWay(payments, b))
                        /\ net = NetSum(cycles, b, Mirrored(cycles, posted, b))
    OBVIOUS
  <1>3. suspense[b] - d = way + net /\ suspense[b] \in Int
    BY <1>1, <1>2 DEF Explained
  <1>4. net \in Int
    <2>1. /\ IsFiniteSet(Mirrored(cycles, posted, b)) /\ Mirrored(cycles, posted, b) \subseteq DOMAIN cycles
      BY HaltedFinite DEF Mirrored, HaltedIn
    <2>2. QED BY <1>2, <2>1, NetSumType DEF FundsInv, NetsTyped
  <1>5. way \in Int
    BY <1>1, <1>2, Totals, WayIsSet
  <1>6. ASSUME NEW x \in Int, suspense'[b] = suspense[b] + x, HaltsStay,
               Worth(payments', OnTheWay(payments', b)) = way + x
        PROVE  Explained(b, d)'
    <2>1. NetSum(cycles', b, Mirrored(cycles', posted', b)) = net
      BY <1>2, <1>6, HaltedSumsStay
    <2>2. QED BY <1>3, <1>4, <1>5, <1>6, <2>1 DEF Explained
  <1>7. ASSUME suspense' = suspense, HaltsStay,
               Worth(payments', OnTheWay(payments', b)) = way
        PROVE  Explained(b, d)'
    BY <1>3, <1>4, <1>5, <1>6, <1>7
  <1>8. CASE \A c \in DOMAIN cycles : ~SettlePartly(c)
    <2>0. HaltsStay
      BY <1>8, WhenHaltsStay
    <2>1. CASE \/ UNCHANGED <<books, customer, payments, cycles>>
               \/ \E a \in Account, amount \in Sum : Deposit(a, amount)
               \/ \E scheme \in Scheme : OpenCycle(scheme)
               \/ \E n \in DOMAIN payments : ReturnPartly(n)
      <3>1. suspense' = suspense /\ payments' = payments
        BY <2>1 DEF Deposit, OpenCycle, ReturnPartly, books, network
      <3>2. QED BY <1>2, <1>7, <2>0, <3>1
    <2>2. ASSUME NEW c \in DOMAIN cycles, CloseCycle(c) PROVE Explained(b, d)'
      <3>1. Marks(Members(c), "Cleared") /\ \A n \in Members(c) : payments[n].status = "Accepted"
        BY <1>1, <2>2, CloseEffects
      <3>2. suspense' = suspense
        BY <2>2 DEF CloseCycle, books
      <3>3. \A n \in Members(c) :
              payments[n].status \in {"Accepted", "Cleared"} <=> "Cleared" \in {"Accepted", "Cleared"}
        BY <3>1
      <3>4. QED BY <1>2, <1>7, <2>0, <3>1, <3>2, <3>3, WayUnmoved
    <2>3. ASSUME NEW n \in DOMAIN payments, ReturnInFull(n) PROVE Explained(b, d)'
      <3>1. Marks({n}, "Returned") /\ payments[n].status = "Settled"
        BY <1>1, <2>3, ReturnEffects
      <3>2. suspense' = suspense
        BY <2>3 DEF ReturnInFull
      <3>3. \A m \in {n} :
              payments[m].status \in {"Accepted", "Cleared"} <=> "Returned" \in {"Accepted", "Cleared"}
        BY <3>1
      <3>4. QED BY <1>2, <1>7, <2>0, <3>1, <3>2, <3>3, WayUnmoved
    <2>4. ASSUME NEW n \in DOMAIN payments, RejectPayment(n) PROVE Explained(b, d)'
      <3>1. Marks({n}, "Rejected") /\ payments[n].status = "Accepted"
        BY <1>1, <2>4, RejectEffects
      <3>2. PICK x, k : x = payments[n].amount /\ k = DebtorBank(payments[n])
        OBVIOUS
      <3>3. x \in Int /\ suspense' = [suspense EXCEPT ![k] = @ - x]
        BY <2>4, <3>2 DEF RejectPayment, FundsInv, AmountsPositive
      <3> DEFINE gone == {m \in {n} : DebtorBank(payments[m]) = b}
      <3>4. Worth(payments', OnTheWay(payments', b)) = way - Worth(payments, gone)
        <4>1. \A m \in {n} : payments[m].status \in {"Accepted", "Cleared"}
          BY <3>1
        <4>2. {n} \in SUBSET DOMAIN payments
          OBVIOUS
        <4>3. QED BY <1>1, <1>2, <3>1, <4>1, <4>2, WayLeft
      <3>5. gone = IF k = b THEN {n} ELSE {}
        BY <3>2
      <3>6. Worth(payments, {n}) = x /\ Worth(payments, {}) = 0
        BY <3>2, <3>3, WorthOfOne, WorthOfNone
      <3> HIDE DEF gone
      <3>7. Worth(payments, gone) = (IF k = b THEN x ELSE 0)
        BY <3>5, <3>6
      <3>8. suspense'[b] = suspense[b] + (IF k = b THEN -x ELSE 0)
        BY <1>1, <3>3
      <3>9. QED BY <1>5, <1>6, <2>0, <3>3, <3>4, <3>7, <3>8
    <2>5. CASE Initiates
      <3>1. PICK n \in Nat, c \in DOMAIN cycles, debtor \in Account, creditor \in Account,
                 amount \in Sum : Initiated(n, c, debtor, creditor, amount)
        BY <1>1, <2>5, InitiateEffects
      <3>2. amount \in Int
        BY InputAssumption
      <3>3. suspense'[b] = suspense[b] + (IF BankOf[debtor] = b THEN amount ELSE 0)
        BY <1>1, <3>1, <3>2 DEF Initiated
      <3>4. Worth(payments', OnTheWay(payments', b))
              = way + (IF BankOf[debtor] = b THEN amount ELSE 0)
        BY <1>1, <1>2, <3>1, <3>2, WayJoined
      <3>5. QED BY <1>6, <2>0, <3>2, <3>3, <3>4
    <2>6. ASSUME NEW c \in DOMAIN cycles, SettleInFull(c) PROVE Explained(b, d)'
      <3> DEFINE from == {n \in Members(c) : DebtorBank(payments[n]) = b}
                 to == {n \in Members(c) : CreditorBank(payments[n]) = b}
      <3>1. /\ cycles[c].status = "Closed" /\ Marks(Members(c), "Settled")
            /\ Members(c) \in SUBSET DOMAIN payments
            /\ \A n \in Members(c) : payments[n].status \in {"Accepted", "Cleared"}
        BY <1>1, <2>6, SettleEffects
      <3>2. cycles[c].net[b] = Total(to) - Total(from)
        BY <3>1 DEF FundsInv, ClosedNets, NetPosition
      <3>3. /\ from \in SUBSET DOMAIN payments /\ to \in SUBSET DOMAIN payments
            /\ ReleasedBy(c, b) = Total(to)
        BY <3>1 DEF ReleasedBy
      <3>4. Worth(payments', OnTheWay(payments', b)) = way - Worth(payments, from)
        <4>1. "Settled" \notin {"Accepted", "Cleared"}
          OBVIOUS
        <4>2. QED BY <1>1, <1>2, <3>1, <4>1, WayLeft
      <3> HIDE DEF from, to
      <3>5. Total(from) = Worth(payments, from) /\ Total(from) \in Int /\ Total(to) \in Int
        BY <1>1, <3>3, Totals
      <3>6. suspense'[b] = suspense[b] + cycles[c].net[b] - ReleasedBy(c, b)
        <4>1. PICK x, y : x = cycles[c].net[b] /\ y = ReleasedBy(c, b)
          OBVIOUS
        <4>2. x \in Int /\ y \in Int /\ suspense[b] \in Int
          BY <1>1, <3>2, <3>3, <3>5, <4>1
        <4>3. /\ suspense' = [k \in Participant |-> MirrorSuspense(suspense, c, Netted(c))[k] - ReleasedBy(c, k)]
              /\ b \in Netted(c) <=> x # 0
          BY <2>6, <4>1 DEF SettleInFull, Netted
        <4>4. /\ suspense'[b] = MirrorSuspense(suspense, c, Netted(c))[b] - y
              /\ MirrorSuspense(suspense, c, Netted(c))[b] = IF x # 0 THEN suspense[b] + x ELSE suspense[b]
          BY <4>1, <4>3 DEF MirrorSuspense, Mirror
        <4>5. QED BY <4>1, <4>2, <4>4
      <3>7. PICK x \in Int : x = -Total(from)
        BY <3>5
      <3>8. suspense'[b] = suspense[b] + x
        BY <1>1, <3>2, <3>3, <3>5, <3>6, <3>7
      <3>9. QED BY <1>5, <1>6, <2>0, <3>4, <3>5, <3>7, <3>8
    <2>7. QED BY <1>8, <2>1, <2>2, <2>3, <2>4, <2>5, <2>6, Steps DEF MoneyInv, FundsInv
  <1>9. ASSUME NEW c \in DOMAIN cycles, SettlePartly(c) PROVE Explained(b, d)'
    <2>1. PICK done \in SUBSET Participant :
            HaltsOneMore(c, done) /\ suspense' = Mirror(suspense, c, done)
      BY <1>9, SettlePartlyEffects
    <2>2. PICK x : x = cycles[c].net[b]
      OBVIOUS
    <2>3. /\ NetSum(cycles', b, Mirrored(cycles', posted', b)) = net + (IF b \in done THEN x ELSE 0)
          /\ x \in Int
      BY <1>2, <2>1, <2>2, HaltedSumsMove
    <2>4. suspense'[b] = suspense[b] + (IF b \in done THEN x ELSE 0)
      BY <1>1, <2>1, <2>2, <2>3 DEF Mirror
    <2>5. Worth(payments', OnTheWay(payments', b)) = way
      BY <1>2, <2>1 DEF HaltsOneMore
    <2>6. QED BY <1>3, <1>4, <1>5, <2>3, <2>4, <2>5 DEF Explained
  <1>10. QED BY <1>8, <1>9

(* A bank's suspense holds the money of the payments its customers sent and *)
(* that are neither settled nor rejected, plus the net positions of the     *)
(* cycles it has mirrored but that stopped half way: whatever is initiated, *)
(* rejected, settled, halted or returned, no payment's money is lost there  *)
(* or left behind (participant.go:22-24, system.go:358-388).                *)
THEOREM SuspenseExactAlways == Spec => []SuspenseExact
  <1>1. FundsInv => (SuspenseExact <=> \A b \in Participant : Explained(b, 0))
    BY SuspenseIs DEF Explained, FundsInv, BooksTyped
  <1>2. FundsInv' => (SuspenseExact' <=> \A b \in Participant : Explained(b, 0)')
    BY SuspenseIs DEF Explained, FundsInv, BooksTyped
  <1>3. Init => SuspenseExact
    <2> SUFFICES ASSUME Init, NEW b \in Participant PROVE Explained(b, 0)
      BY <1>1, InitFunds
    <2>1. DOMAIN payments = {} /\ DOMAIN cycles = {} /\ suspense[b] = 0
      BY DEF Init
    <2>2. OnTheWay(payments, b) = {} /\ Mirrored(cycles, posted, b) = {}
      BY <2>1 DEF OnTheWay, Mirrored, HaltedIn
    <2>3. Worth(payments, {}) = 0 /\ NetSum(cycles, b, {}) = 0
      BY WorthOfNone, SumNone DEF NetSum
    <2>4. QED BY <2>1, <2>2, <2>3 DEF Explained
  <1>4. FundsInv /\ SuspenseExact /\ [Next]_vars => SuspenseExact'
    BY <1>1, <1>2, NextFunds, NextSuspense
  <1>5. QED BY FundsInvariant, <1>3, <1>4, PTL DEF Spec
-----------------------------------------------------------------------------
(* The payments of P sent by bank b's customers whose refund is posted (K   *)
(* being the keys posted under) but whose return did not settle.            *)
RefundedIn(P, K, b) ==
  {n \in DOMAIN P : /\ DebtorBank(P[n]) = b /\ <<b, "return-debit", n>> \in K
                    /\ P[n].status # "Returned"}

(* Bank b's reserve differs from its account at the central bank by what    *)
(* MirrorExact says, and d more.                                            *)
Mirrors(b, d) ==
  reserve[b] - d - cbReserve[b] =
    Worth(payments, RefundedIn(payments, posted, b)) - NetSum(cycles, b, Unmirrored(cycles, posted, b))

LEMMA MirrorIs ==
  /\ FundsInv => (MirrorExact <=> \A b \in Participant : Mirrors(b, 0))
  /\ FundsInv' => (MirrorExact' <=> \A b \in Participant : Mirrors(b, 0)')
  <1>1. \A b : /\ Unmirrored(cycles, posted, b)
                     = {c \in DOMAIN cycles : Halted(c) /\ Unused(b, "reserve", c)}
               /\ Unmirrored(cycles', posted', b)
                     = {c \in DOMAIN cycles : Halted(c) /\ Unused(b, "reserve", c)}'
    BY DEF Unmirrored, HaltedIn, Halted, Unused
  <1>2. \A b : /\ RefundedIn(payments, posted, b)
                     = {n \in DOMAIN payments : /\ DebtorBank(payments[n]) = b
                                                /\ ~Unused(b, "return-debit", n)
                                                /\ payments[n].status # "Returned"}
               /\ RefundedIn(payments', posted', b)
                     = {n \in DOMAIN payments : /\ DebtorBank(payments[n]) = b
                                                /\ ~Unused(b, "return-debit", n)
                                                /\ payments[n].status # "Returned"}'
    BY DEF RefundedIn, Unused, DebtorBank
  <1>3. (FundsInv => \A b \in Participant : reserve[b] - 0 = reserve[b])
          /\ (FundsInv' => \A b \in Participant : reserve'[b] - 0 = reserve'[b])
    BY DEF FundsInv, BooksTyped
  <1>4. QED BY <1>1, <1>2, <1>3 DEF MirrorExact, Mirrors, NetSum, SumOver, Total, Worth

(* The step posts under no key of a refund. *)
NoRefund == \A b, n : (<<b, "return-debit", n>> \in posted') <=> (<<b, "return-debit", n>> \in posted)

(* Marking payments other than those refunded leaves these as they were.    *)
LEMMA RefundedMarked ==
  ASSUME NEW S, NEW to, Marks(S, to), NoRefund, NEW b,
         \A n \in S : payments[n].status = "Returned" <=> to = "Returned"
  PROVE  Worth(payments', RefundedIn(payments', posted', b)) = Worth(payments, RefundedIn(payments, posted, b))
  <1>1. RefundedIn(payments', posted', b) = RefundedIn(payments, posted, b)
    BY DEF RefundedIn, Marks, DebtorBank, NoRefund
  <1>2. RefundedIn(payments, posted, b) \in SUBSET DOMAIN payments
    BY DEF RefundedIn
  <1>3. QED BY <1>1, <1>2, WorthMarked

LEMMA SettleInFullKeys ==
  ASSUME NEW c, SettleInFull(c)
  PROVE  NoRefund
  <1> DEFINE credits == {<<CreditorBank(payments[n]), "credit", n>> : n \in Members(c)}
  <1>1. posted' = posted \cup SettleKeys(c, Netted(c)) \cup credits
    BY DEF SettleInFull
  <1>2. ASSUME NEW b, NEW n
        PROVE  <<b, "return-debit", n>> \notin credits /\ <<b, "return-debit", n>> \notin SettleKeys(c, Netted(c))
    BY DEF SettleKeys
  <1> HIDE DEF credits
  <1>3. QED BY <1>1, <1>2 DEF NoRefund

LEMMA NextMirror ==
  ASSUME FundsInv, [Next]_vars, NEW b \in Participant, NEW d \in Int, Mirrors(b, d)
  PROVE  Mirrors(b, d)'
  <1>1. /\ MoneyInv /\ Shape /\ AmountsPositive /\ NoneInitiated
        /\ reserve \in [Participant -> Int] /\ cbReserve \in [Participant -> Int]
    BY DEF FundsInv, MoneyInv, LifecycleInv, BooksTyped
  <1> DEFINE R == RefundedIn(payments, posted, b)
             R2 == RefundedIn(payments', posted', b)
  <1>2. PICK owed, net : /\ owed = Worth(payments, R)
                         /\ net = NetSum(cycles, b, Unmirrored(cycles, posted, b))
    OBVIOUS
  <1>3. reserve[b] - d - cbReserve[b] = owed - net
    BY <1>2 DEF Mirrors
  <1>4. net \in Int
    <2>1. /\ IsFiniteSet(Unmirrored(cycles, posted, b))
          /\ Unmirrored(cycles, posted, b) \subseteq DOMAIN cycles
      BY HaltedFinite DEF Unmirrored, HaltedIn
    <2>2. QED BY <1>2, <2>1, NetSumType DEF FundsInv, NetsTyped
  <1>5. R \in SUBSET DOMAIN payments
    BY DEF RefundedIn
  <1> HIDE DEF R
  <1>6. owed \in Int /\ IsFiniteSet(R)
    BY <1>1, <1>2, <1>5, Totals
  <1>7. Mirrors(b, d)' <=> reserve'[b] - d - cbReserve'[b] =
                          Worth(payments', R2) - NetSum(cycles', b, Unmirrored(cycles', posted', b))
    BY DEF Mirrors
  <1> HIDE DEF R2
  <1>8. ASSUME HaltsStay, Worth(payments', R2) = owed,
               NEW x \in Int, reserve'[b] = reserve[b] + x, cbReserve'[b] = cbReserve[b] + x
        PROVE  Mirrors(b, d)'
    <2>1. NetSum(cycles', b, Unmirrored(cycles', posted', b)) = net
      BY <1>2, <1>8, HaltedSumsStay
    <2>2. reserve[b] \in Int /\ cbReserve[b] \in Int
      BY <1>1
    <2>3. QED BY <1>3, <1>4, <1>6, <1>7, <1>8, <2>1, <2>2
  <1>9. ASSUME HaltsStay, Worth(payments', R2) = owed, UNCHANGED <<reserve, cbReserve>>
        PROVE  Mirrors(b, d)'
    <2>1. reserve'[b] = reserve[b] + 0 /\ cbReserve'[b] = cbReserve[b] + 0
      BY <1>1, <1>9
    <2>2. QED BY <1>8, <1>9, <2>1
  <1>10. ASSUME payments' = payments, NoRefund PROVE Worth(payments', R2) = owed
    BY <1>2, <1>10 DEF R, R2, RefundedIn, NoRefund
  <1>11. ASSUME NEW S, NEW to, Marks(S, to), NoRefund,
                \A n \in S : payments[n].status = "Returned" <=> to = "Returned"
         PROVE  Worth(payments', R2) = owed
    BY <1>2, <1>11, RefundedMarked DEF R, R2
  <1>12. ASSUME posted' = posted PROVE NoRefund
    BY <1>12 DEF NoRefund
  <1>13. CASE \A c \in DOMAIN cycles : ~SettlePartly(c)
    <2>0. HaltsStay
      BY <1>13, WhenHaltsStay
    <2>1. CASE \/ UNCHANGED <<books, customer, payments, cycles>>
               \/ \E scheme \in Scheme : OpenCycle(scheme)
      <3>1. UNCHANGED <<reserve, cbReserve, payments, posted>>
        BY <2>1 DEF OpenCycle, books
      <3>2. QED BY <1>9, <1>10, <1>12, <2>0, <3>1
    <2>2. ASSUME NEW a \in Account, NEW amount \in Sum, Deposit(a, amount) PROVE Mirrors(b, d)'
      <3>1. payments' = payments /\ posted' = posted /\ amount \in Int
        BY <2>2, InputAssumption DEF Deposit, network
      <3>2. /\ reserve'[b] = reserve[b] + (IF BankOf[a] = b THEN amount ELSE 0)
            /\ cbReserve'[b] = cbReserve[b] + (IF BankOf[a] = b THEN amount ELSE 0)
        BY <1>1, <2>2, <3>1 DEF Deposit
      <3>3. QED BY <1>8, <1>10, <1>12, <2>0, <3>1, <3>2
    <2>3. ASSUME NEW c \in DOMAIN cycles, CloseCycle(c) PROVE Mirrors(b, d)'
      <3>1. Marks(Members(c), "Cleared") /\ \A n \in Members(c) : payments[n].status = "Accepted"
        BY <1>1, <2>3, CloseEffects
      <3>2. UNCHANGED <<reserve, cbReserve, posted>>
        BY <2>3 DEF CloseCycle, books
      <3>3. \A n \in Members(c) : payments[n].status = "Returned" <=> "Cleared" = "Returned"
        BY <3>1
      <3>4. QED BY <1>9, <1>11, <1>12, <2>0, <3>1, <3>2, <3>3
    <2>4. ASSUME NEW n \in DOMAIN payments, RejectPayment(n) PROVE Mirrors(b, d)'
      <3>1. Marks({n}, "Rejected") /\ payments[n].status = "Accepted"
        BY <1>1, <2>4, RejectEffects
      <3>2. UNCHANGED <<reserve, cbReserve, posted>>
        BY <2>4 DEF RejectPayment
      <3>3. \A m \in {n} : payments[m].status = "Returned" <=> "Rejected" = "Returned"
        BY <3>1
      <3>4. QED BY <1>9, <1>11, <1>12, <2>0, <3>1, <3>2, <3>3
    <2>5. CASE Initiates
      <3>1. PICK n \in Nat, c \in DOMAIN cycles, debtor \in Account, creditor \in Account,
                 amount \in Sum : Initiated(n, c, debtor, creditor, amount)
        BY <1>1, <2>5, InitiateEffects
      <3>2. /\ DOMAIN payments' = DOMAIN payments \cup {n} /\ n \notin DOMAIN payments
            /\ \A m \in DOMAIN payments : payments'[m] = payments[m]
            /\ posted' = posted \cup {<<BankOf[debtor], "debit", n>>}
            /\ UNCHANGED <<reserve, cbReserve>>
        BY <3>1 DEF Initiated
      <3>3. NoRefund
        BY <3>2 DEF NoRefund
      <3>4. <<b, "return-debit", n>> \notin posted
        <4>1. <<b, "return-debit", n>>[2] = "return-debit" /\ <<b, "return-debit", n>>[3] = n
          OBVIOUS
        <4>2. QED BY <1>1, <3>2, <4>1 DEF MoneyInv, LegsInv, LegsKnown, PaymentLegs
      <3>5. R2 = R
        BY <3>2, <3>3, <3>4 DEF R, R2, RefundedIn, NoRefund, DebtorBank
      <3>6. \A m \in R : payments[m].amount = payments'[m].amount
        BY <1>5, <3>2
      <3>7. Worth(payments', R2) = owed
        BY <1>2, <3>5, <3>6, WorthSame
      <3>8. QED BY <1>9, <2>0, <3>2, <3>7
    <2>6. ASSUME NEW c \in DOMAIN cycles, SettleInFull(c) PROVE Mirrors(b, d)'
      <3>1. /\ Marks(Members(c), "Settled")
            /\ \A n \in Members(c) : payments[n].status = "Cleared"
        BY <1>1, <2>6, SettleEffects
      <3>2. PICK x : x = cycles[c].net[b]
        OBVIOUS
      <3>3. x \in Int
        BY <3>2 DEF FundsInv, NetsTyped
      <3>4. reserve' = Mirror(reserve, c, Netted(c)) /\ cbReserve' = MoveReserves(c)
        BY <2>6 DEF SettleInFull
      <3>5. cbReserve'[b] = cbReserve[b] + x
        BY <3>2, <3>4 DEF MoveReserves
      <3>6. reserve'[b] = IF x # 0 THEN reserve[b] + x ELSE reserve[b]
        BY <3>2, <3>4 DEF Mirror, Netted
      <3>7. reserve'[b] = reserve[b] + x
        BY <1>1, <3>3, <3>6
      <3>8. \A n \in Members(c) : payments[n].status = "Returned" <=> "Settled" = "Returned"
        BY <3>1
      <3>9. Worth(payments', R2) = owed
        BY <1>11, <2>6, <3>1, <3>8, SettleInFullKeys
      <3>10. QED BY <1>8, <2>0, <3>3, <3>5, <3>7, <3>9
    <2>7. ASSUME NEW n \in DOMAIN payments, ReturnInFull(n) PROVE Mirrors(b, d)'
      <3>1. Marks({n}, "Returned") /\ <<DebtorBank(payments[n]), "return-debit", n>> \notin posted
        BY <1>1, <2>7, ReturnEffects DEF ReturnInFull, CanReturn, Unused
      <3>2. PICK x, k, l : x = payments[n].amount /\ k = DebtorBank(payments[n])
                             /\ l = CreditorBank(payments[n])
        OBVIOUS
      <3>3. x \in Int /\ k \in Participant /\ l \in Participant
        BY <1>1, <3>2, PaymentTyped
      <3>4. /\ reserve' = [[reserve EXCEPT ![k] = @ + x] EXCEPT ![l] = @ - x]
            /\ cbReserve' = [[cbReserve EXCEPT ![l] = @ - x] EXCEPT ![k] = @ + x]
            /\ posted' = posted \cup {<<k, "return-debit", n>>, <<l, "return-credit", n>>,
                                      <<CentralBank, "return-settle", n>>}
        BY <2>7, <3>2 DEF ReturnInFull, Refund
      <3>5. \A m \in DOMAIN payments : m # n =>
              ((<<b, "return-debit", m>> \in posted') <=> (<<b, "return-debit", m>> \in posted))
        BY <3>4
      <3>6. R2 = R
        <4>1. n \notin R2
          BY <3>1 DEF R2, RefundedIn, Marks
        <4>2. n \notin R
          BY <3>1 DEF R, RefundedIn
        <4>3. \A m \in DOMAIN payments : m # n => (m \in R2 <=> m \in R)
          BY <3>1, <3>5 DEF R, R2, RefundedIn, Marks, DebtorBank
        <4>4. R2 \subseteq DOMAIN payments
          BY <3>1 DEF R2, RefundedIn, Marks
        <4>5. QED BY <1>5, <4>1, <4>2, <4>3, <4>4
      <3>7. Worth(payments', R2) = owed
        BY <1>2, <1>5, <3>1, <3>6, WorthMarked
      <3>8. PICK y \in Int : y = (IF k = b THEN x ELSE 0) - (IF l = b THEN x ELSE 0)
        <4>1. (IF k = b THEN x ELSE 0) \in Int /\ (IF l = b THEN x ELSE 0) \in Int
          BY <3>3
        <4>2. QED BY <4>1
      <3>9. reserve'[b] = reserve[b] + y /\ cbReserve'[b] = cbReserve[b] + y
        BY <1>1, <3>3, <3>4, <3>8
      <3>10. QED BY <1>8, <2>0, <3>7, <3>9
    <2>8. ASSUME NEW n \in DOMAIN payments, ReturnPartly(n) PROVE Mirrors(b, d)'
      <3>1. /\ payments[n].status = "Settled" /\ <<DebtorBank(payments[n]), "return-debit", n>> \notin posted
            /\ payments' = payments /\ cbReserve' = cbReserve
        BY <2>8 DEF ReturnPartly, CanReturn, Unused, network
      <3>2. PICK x, k : x = payments[n].amount /\ k = DebtorBank(payments[n])
        OBVIOUS
      <3>3. x \in Int /\ k \in Participant
        BY <1>1, <3>2, PaymentTyped
      <3>4. /\ reserve' = [reserve EXCEPT ![k] = @ + x]
            /\ posted' = posted \cup {<<k, "return-debit", n>>}
        BY <2>8, <3>2 DEF ReturnPartly, Refund
      <3>5. R2 = IF k = b THEN R \cup {n} ELSE R
        BY <3>1, <3>2, <3>4 DEF R, R2, RefundedIn
      <3>6. n \notin R \/ k # b
        BY <3>1, <3>2 DEF R, RefundedIn
      <3>7. k = b => Worth(payments, R \cup {n}) = Worth(payments, R) + Worth(payments, {n})
        <4>1. IsFiniteSet({n}) /\ \A m \in R \cup {n} : payments[m].amount \in Int
          BY <1>1, <1>5, FS_Singleton DEF AmountsPositive
        <4>2. QED BY <1>6, <3>6, <4>1, WorthOfBoth
      <3>8. Worth(payments, {n}) = x
        BY <3>2, <3>3, WorthOfOne
      <3>9. Worth(payments', R2) = owed + (IF k = b THEN x ELSE 0)
        BY <1>2, <1>6, <3>1, <3>5, <3>7, <3>8
      <3>10. reserve'[b] = reserve[b] + (IF k = b THEN x ELSE 0) /\ cbReserve'[b] = cbReserve[b]
        BY <1>1, <3>1, <3>3, <3>4
      <3>11. NetSum(cycles', b, Unmirrored(cycles', posted', b)) = net
        BY <1>2, <2>0, HaltedSumsStay
      <3>12. reserve[b] \in Int /\ cbReserve[b] \in Int
        BY <1>1
      <3>13. QED BY <1>3, <1>4, <1>6, <1>7, <3>3, <3>9, <3>10, <3>11, <3>12
    <2>9. QED BY <1>13, <2>1, <2>2, <2>3, <2>4, <2>5, <2>6, <2>7, <2>8, Steps DEF MoneyInv, FundsInv
  <1>14. ASSUME NEW c \in DOMAIN cycles, SettlePartly(c) PROVE Mirrors(b, d)'
    <2>1. PICK done \in SUBSET Participant :
            /\ HaltsOneMore(c, done) /\ reserve' = Mirror(reserve, c, done)
            /\ cbReserve' = MoveReserves(c) /\ NoRefund
      BY <1>14, SettlePartlyEffects DEF NoRefund
    <2>2. PICK x : x = cycles[c].net[b]
      OBVIOUS
    <2>3. /\ NetSum(cycles', b, Unmirrored(cycles', posted', b)) = net + (IF b \in done THEN 0 ELSE x)
          /\ x \in Int
      BY <1>2, <2>1, <2>2, HaltedSumsMove
    <2>4. /\ reserve'[b] = reserve[b] + (IF b \in done THEN x ELSE 0)
          /\ cbReserve'[b] = cbReserve[b] + x
      BY <1>1, <2>1, <2>2, <2>3 DEF Mirror, MoveReserves
    <2>5. Worth(payments', R2) = owed
      BY <1>10, <2>1 DEF HaltsOneMore
    <2>6. reserve[b] \in Int /\ cbReserve[b] \in Int
      BY <1>1
    <2>7. CASE b \in done
      <3>1. NetSum(cycles', b, Unmirrored(cycles', posted', b)) = net
        BY <1>4, <2>3, <2>7
      <3>2. reserve'[b] = reserve[b] + x /\ cbReserve'[b] = cbReserve[b] + x
        BY <2>4, <2>7
      <3>3. QED BY <1>3, <1>4, <1>6, <1>7, <2>3, <2>5, <2>6, <3>1, <3>2
    <2>8. CASE b \notin done
      <3>1. NetSum(cycles', b, Unmirrored(cycles', posted', b)) = net + x
        BY <2>3, <2>8
      <3>2. reserve'[b] = reserve[b] /\ cbReserve'[b] = cbReserve[b] + x
        BY <2>4, <2>6, <2>8
      <3>3. PICK p \in Int, q \in Int : p = reserve[b] /\ q = cbReserve[b]
        BY <2>6
      <3>4. p - d - q = owed - net
        BY <1>3, <3>3
      <3>5. p - d - (q + x) = owed - (net + x)
        BY <1>4, <1>6, <2>3, <3>4
      <3>6. QED BY <1>7, <2>5, <3>1, <3>2, <3>3, <3>5
    <2>9. QED BY <2>7, <2>8
  <1>15. QED BY <1>13, <1>14

(* A bank's own record of its reserve mirrors its account at the central    *)
(* bank, but for the refunds of returns that did not settle and the net     *)
(* positions of halted cycles it did not mirror: no other difference ever   *)
(* arises (participant.go:25-27, system.go:340-388, 595-636).               *)
THEOREM MirrorExactAlways == Spec => []MirrorExact
  <1>1. Init => MirrorExact
    <2> SUFFICES ASSUME Init, NEW b \in Participant PROVE Mirrors(b, 0)
      BY MirrorIs, InitFunds
    <2>1. DOMAIN payments = {} /\ DOMAIN cycles = {} /\ reserve[b] = 0 /\ cbReserve[b] = 0
      BY DEF Init
    <2>2. RefundedIn(payments, posted, b) = {} /\ Unmirrored(cycles, posted, b) = {}
      BY <2>1 DEF RefundedIn, Unmirrored, HaltedIn
    <2>3. Worth(payments, {}) = 0 /\ NetSum(cycles, b, {}) = 0
      BY WorthOfNone, SumNone DEF NetSum
    <2>4. QED BY <2>1, <2>2, <2>3 DEF Mirrors
  <1>2. FundsInv /\ MirrorExact /\ [Next]_vars => MirrorExact'
    BY MirrorIs, NextFunds, NextMirror
  <1>3. QED BY FundsInvariant, <1>1, <1>2, PTL DEF Spec
-----------------------------------------------------------------------------
(* What the customers of bank b hold, f giving the balance of an account.   *)
Held(f, b) == SumFunctionOnSet(f, AccountsAt(b))

LEMMA HeldIsInt ==
  ASSUME NEW f \in [Account -> Int], NEW b
  PROVE  Held(f, b) \in Int /\ IsFiniteSet(AccountsAt(b)) /\ Ints(f, AccountsAt(b))
  <1>1. AccountsAt(b) \subseteq Account
    BY DEF AccountsAt
  <1>2. IsFiniteSet(AccountsAt(b))
    BY <1>1, AccountAssumption, FS_Subset
  <1>3. Ints(f, AccountsAt(b))
    BY <1>1 DEF Ints
  <1>4. QED BY <1>2, <1>3, SumType DEF Held

(* A movement of one account is a movement of what its bank's customers     *)
(* hold.                                                                    *)
AccountMoves(f, g, a, x) ==
  /\ f \in [Account -> Int] /\ a \in Account /\ x \in Int
  /\ g[a] = f[a] + x /\ \A c \in Account \ {a} : g[c] = f[c]

LEMMA HeldMoves ==
  ASSUME NEW f, NEW g, NEW a, NEW x, AccountMoves(f, g, a, x), NEW b
  PROVE  Held(g, b) = Held(f, b) + (IF BankOf[a] = b THEN x ELSE 0)
  <1>1. /\ IsFiniteSet(AccountsAt(b)) /\ Ints(f, AccountsAt(b))
        /\ Held(f, b) \in Int /\ AccountsAt(b) \subseteq Account
    BY HeldIsInt DEF AccountsAt, AccountMoves
  <1>2. g[a] = f[a] + x /\ \A c \in Account \ {a} : g[c] = f[c]
    BY DEF AccountMoves
  <1>3. a \in Account /\ x \in Int /\ f[a] \in Int /\ g[a] \in Int /\ g[a] - f[a] = x
    BY <1>2 DEF AccountMoves
  <1>4. CASE BankOf[a] = b
    <2>1. a \in AccountsAt(b) /\ \A c \in AccountsAt(b) \ {a} : g[c] = f[c]
      BY <1>1, <1>2, <1>3, <1>4 DEF AccountsAt
    <2>2. SumFunctionOnSet(g, AccountsAt(b)) = SumFunctionOnSet(f, AccountsAt(b)) + (g[a] - f[a])
      BY <1>1, <1>3, <2>1, SumChanged
    <2>3. QED BY <1>3, <1>4, <2>2 DEF Held
  <1>5. CASE BankOf[a] # b
    <2>1. \A c \in AccountsAt(b) : g[c] = f[c]
      BY <1>1, <1>2, <1>5 DEF AccountsAt
    <2>2. Held(g, b) = Held(f, b)
      BY <1>1, <2>1, SumSame DEF Held
    <2>3. QED BY <1>1, <1>5, <2>2
  <1>6. QED BY <1>4, <1>5

(* What a settlement credits to the accounts of bank b is what b releases   *)
(* from suspense.                                                           *)
LEMMA CreditsAreReleased ==
  ASSUME MoneyInv, AmountsPositive, NEW c \in DOMAIN cycles, NEW b
  PROVE  Held([a \in Account |-> CreditedTo(c, a)], b) = ReleasedBy(c, b)
           /\ \A a : CreditedTo(c, a) \in Int
  <1> DEFINE S == {n \in Members(c) : CreditorBank(payments[n]) = b}
             key == [n \in S |-> payments[n].creditor]
             K == AccountsAt(b)
             f == [a \in Account |-> CreditedTo(c, a)]
             g == [a \in K |-> Worth(payments, {n \in S : key[n] = a})]
  <1>1. Shape /\ Members(c) \subseteq DOMAIN payments
    BY DEF MoneyInv, LifecycleInv, PaymentsFollowCycle
  <1>2. IsFiniteSet(K) /\ K \subseteq Account
    <2>1. K \subseteq Account
      BY DEF AccountsAt
    <2>2. QED BY <2>1, AccountAssumption, FS_Subset
  <1>3. S \in SUBSET DOMAIN payments /\ \A n \in S : payments[n].amount \in Int
    BY <1>1 DEF AmountsPositive
  <1>4. \A n \in S : key[n] \in K
    BY <1>1, Parties DEF CreditorBank, AccountsAt
  <1>5. ASSUME NEW a PROVE CreditedTo(c, a) \in Int
    <2> DEFINE T == {n \in Members(c) : payments[n].creditor = a}
    <2>1. T \in SUBSET DOMAIN payments /\ CreditedTo(c, a) = Total(T)
      BY <1>1 DEF CreditedTo
    <2> HIDE DEF T
    <2>2. QED BY <1>1, <2>1, Totals
  <1>6. ASSUME NEW a \in K PROVE f[a] = g[a]
    <2> DEFINE T == {n \in Members(c) : payments[n].creditor = a}
    <2>1. T \in SUBSET DOMAIN payments /\ CreditedTo(c, a) = Total(T)
      BY <1>1 DEF CreditedTo
    <2>2. T = {n \in S : key[n] = a}
      BY <1>6 DEF CreditorBank, AccountsAt
    <2> HIDE DEF T
    <2>3. Total(T) = Worth(payments, T)
      BY <1>1, <2>1, Totals
    <2>4. QED BY <1>2, <2>1, <2>2, <2>3
  <1>7. ReleasedBy(c, b) = Total(S)
    BY DEF ReleasedBy
  <1> HIDE DEF S, f, key, K
  <1>8. IsFiniteSet(S) /\ Total(S) = Worth(payments, S)
    BY <1>1, <1>3, Totals
  <1>9. SumFunctionOnSet(g, K) = Worth(payments, S)
    BY <1>2, <1>3, <1>4, <1>8, WorthByKey
  <1> HIDE DEF g
  <1>10. SumFunctionOnSet(f, K) = SumFunctionOnSet(g, K)
    BY <1>2, <1>6, SumSame
  <1>11. QED BY <1>5, <1>7, <1>8, <1>9, <1>10 DEF f, K, Held

(* Taking x is adding -x. *)
LEMMA Taking ==
  ASSUME NEW S, NEW f \in [S -> Int], NEW a \in S, NEW x \in Int, NEW y \in Int, y = -x
  PROVE  /\ [f EXCEPT ![a] = @ - x] = [f EXCEPT ![a] = @ + y]
         /\ [f EXCEPT ![a] = @ + x] = [f EXCEPT ![a] = @ - y]
         /\ [f EXCEPT ![a] = @ + x] \in [S -> Int] /\ [f EXCEPT ![a] = @ + y] \in [S -> Int]
  <1>1. PICK v \in Int : v = f[a]
    OBVIOUS
  <1>2. v - x = v + y /\ v + x = v - y /\ v + x \in Int /\ v + y \in Int
    OBVIOUS
  <1>3. QED BY <1>1, <1>2

(* The accounting equation of bank b's book. *)
Balanced(b) == reserve[b] = suspense[b] + Held(customer, b)

LEMMA NextBankBalances ==
  ASSUME FundsInv, [Next]_vars, NEW b \in Participant, Balanced(b)
  PROVE  Balanced(b)'
  <1>1. /\ MoneyInv /\ Shape /\ AmountsPositive
        /\ reserve \in [Participant -> Int] /\ suspense \in [Participant -> Int]
        /\ customer \in [Account -> Int]
    BY DEF FundsInv, MoneyInv, LifecycleInv, BooksTyped
  <1>2. reserve[b] = suspense[b] + Held(customer, b) /\ Held(customer, b) \in Int
    BY <1>1, HeldIsInt DEF Balanced
  <1>3. Balanced(b)' <=> reserve'[b] = suspense'[b] + Held(customer', b)
    BY DEF Balanced, Held, AccountsAt
  <1>4. ASSUME NEW y \in Int, NEW z \in Int,
               reserve'[b] = reserve[b] + y, suspense'[b] = suspense[b] + z,
               Held(customer', b) = Held(customer, b) + (y - z)
        PROVE  Balanced(b)'
    <2>1. reserve[b] \in Int /\ suspense[b] \in Int
      BY <1>1
    <2>2. QED BY <1>2, <1>3, <1>4, <2>1
  <1>5. CASE \/ UNCHANGED <<books, customer, payments, cycles>>
             \/ \E scheme \in Scheme : OpenCycle(scheme)
             \/ \E c \in DOMAIN cycles : CloseCycle(c)
    <2>1. UNCHANGED <<reserve, suspense, customer>>
      BY <1>5 DEF OpenCycle, CloseCycle, books, deposits
    <2>2. QED BY <1>2, <1>3, <2>1
  <1>6. ASSUME NEW a \in Account, NEW x \in Int, customer' = [customer EXCEPT ![a] = @ + x],
               \/ /\ reserve' = [reserve EXCEPT ![BankOf[a]] = @ + x] /\ suspense' = suspense
               \/ /\ suspense' = [suspense EXCEPT ![BankOf[a]] = @ - x] /\ reserve' = reserve
        PROVE  Balanced(b)'
    <2>1. PICK m \in Int : m = (IF BankOf[a] = b THEN x ELSE 0)
      OBVIOUS
    <2>2. Held(customer', b) = Held(customer, b) + m
      <3>1. Held(customer', b) = Held(customer, b) + (IF BankOf[a] = b THEN x ELSE 0)
        <4>1. AccountMoves(customer, customer', a, x)
          BY <1>1, <1>6 DEF AccountMoves
        <4>2. QED BY <4>1, HeldMoves
      <3>2. QED BY <1>6, <2>1, <3>1
    <2>3. \/ reserve'[b] = reserve[b] + m /\ suspense'[b] = suspense[b]
          \/ reserve'[b] = reserve[b] /\ suspense'[b] = suspense[b] - m
      BY <1>1, <1>6, <2>1
    <2>4. reserve[b] \in Int /\ suspense[b] \in Int
      BY <1>1
    <2>5. QED BY <1>2, <1>3, <2>1, <2>2, <2>3, <2>4
  <1>7. ASSUME NEW a \in Account, NEW amount \in Sum, Deposit(a, amount) PROVE Balanced(b)'
    <2>1. /\ customer' = [customer EXCEPT ![a] = @ + amount] /\ amount \in Int
          /\ reserve' = [reserve EXCEPT ![BankOf[a]] = @ + amount] /\ suspense' = suspense
      BY <1>7, InputAssumption DEF Deposit
    <2>2. QED BY <1>6, <2>1
  <1>8. CASE Initiates
    <2>1. PICK n \in Nat, c \in DOMAIN cycles, debtor \in Account, creditor \in Account,
               amount \in Sum : Initiated(n, c, debtor, creditor, amount)
      BY <1>1, <1>8, InitiateEffects
    <2>2. PICK x \in Int : x = -amount
      BY InputAssumption
    <2>3. /\ customer' = [customer EXCEPT ![debtor] = @ - amount]
          /\ suspense' = [suspense EXCEPT ![BankOf[debtor]] = @ + amount]
          /\ reserve' = reserve
      BY <2>1 DEF Initiated
    <2>4. /\ customer' = [customer EXCEPT ![debtor] = @ + x]
          /\ suspense' = [suspense EXCEPT ![BankOf[debtor]] = @ - x]
      <3>1. amount \in Int /\ BankOf[debtor] \in Participant
        BY InputAssumption, AccountAssumption
      <3>2. [customer EXCEPT ![debtor] = @ - amount] = [customer EXCEPT ![debtor] = @ + x]
        BY <1>1, <2>2, <3>1, Taking
      <3>3. PICK k \in Participant : k = BankOf[debtor]
        BY <3>1
      <3>4. [suspense EXCEPT ![k] = @ + amount] = [suspense EXCEPT ![k] = @ - x]
        <4>1. PICK v \in Int : v = suspense[k]
          BY <1>1
        <4>2. v + amount = v - x
          BY <2>2, <3>1
        <4>3. QED BY <4>1, <4>2
      <3>5. QED BY <2>3, <3>2, <3>3, <3>4
    <2>5. QED BY <1>6, <2>3, <2>4
  <1>9. ASSUME NEW n \in DOMAIN payments, RejectPayment(n) \/ ReturnPartly(n) PROVE Balanced(b)'
    <2>1. PICK x, d : x = payments[n].amount /\ d = payments[n].debtor
      OBVIOUS
    <2>2. x \in Int /\ d \in Account /\ DebtorBank(payments[n]) = BankOf[d]
      BY <1>1, <2>1, PaymentTyped
    <2>3. /\ customer' = [customer EXCEPT ![d] = @ + x]
          /\ \/ reserve' = [reserve EXCEPT ![BankOf[d]] = @ + x] /\ suspense' = suspense
             \/ suspense' = [suspense EXCEPT ![BankOf[d]] = @ - x] /\ reserve' = reserve
      BY <1>9, <2>1, <2>2 DEF RejectPayment, ReturnPartly, Refund
    <2>4. QED BY <1>6, <2>2, <2>3
  <1>10. ASSUME NEW n \in DOMAIN payments, ReturnInFull(n) PROVE Balanced(b)'
    <2>1. PICK x, d, e : x = payments[n].amount /\ d = payments[n].debtor /\ e = payments[n].creditor
      OBVIOUS
    <2>2. PICK k, l : k = BankOf[d] /\ l = BankOf[e]
      OBVIOUS
    <2>3. /\ x \in Int /\ d \in Account /\ e \in Account /\ k \in Participant /\ l \in Participant
          /\ DebtorBank(payments[n]) = k /\ CreditorBank(payments[n]) = l
      BY <1>1, <2>1, <2>2, PaymentTyped
    <2>4. /\ customer' = [[customer EXCEPT ![d] = @ + x] EXCEPT ![e] = @ - x]
          /\ reserve' = [[reserve EXCEPT ![k] = @ + x] EXCEPT ![l] = @ - x]
          /\ suspense' = suspense
      BY <1>10, <2>1, <2>3 DEF ReturnInFull, Refund
    <2>5. PICK mid : mid = [customer EXCEPT ![d] = @ + x]
      OBVIOUS
    <2>6. PICK y \in Int : y = -x
      BY <2>3
    <2>7. mid \in [Account -> Int] /\ customer' = [mid EXCEPT ![e] = @ + y]
      <3>1. mid \in [Account -> Int]
        BY <1>1, <2>3, <2>5, <2>6, Taking
      <3>2. [mid EXCEPT ![e] = @ - x] = [mid EXCEPT ![e] = @ + y]
        BY <2>3, <2>6, <3>1, Taking
      <3>3. QED BY <2>4, <2>5, <3>1, <3>2
    <2>8. Held(mid, b) = Held(customer, b) + (IF k = b THEN x ELSE 0)
      <3>1. Held(mid, b) = Held(customer, b) + (IF BankOf[d] = b THEN x ELSE 0)
        <4>1. AccountMoves(customer, mid, d, x)
          BY <1>1, <2>3, <2>5 DEF AccountMoves
        <4>2. QED BY <4>1, HeldMoves
      <3>2. QED BY <2>2, <3>1
    <2>9. Held(customer', b) = Held(mid, b) + (IF l = b THEN y ELSE 0)
      <3>1. Held(customer', b) = Held(mid, b) + (IF BankOf[e] = b THEN y ELSE 0)
        <4>1. AccountMoves(mid, customer', e, y)
          BY <2>3, <2>6, <2>7 DEF AccountMoves
        <4>2. QED BY <4>1, HeldMoves
      <3>2. QED BY <2>2, <3>1
    <2>10. PICK u, v : u = (IF k = b THEN x ELSE 0) /\ v = (IF l = b THEN y ELSE 0)
      OBVIOUS
    <2>11. u \in Int /\ v \in Int
      BY <2>3, <2>6, <2>10
    <2>12. reserve'[b] = reserve[b] + (u + v) /\ suspense'[b] = suspense[b] + 0
      BY <1>1, <2>3, <2>4, <2>6, <2>10
    <2>13. Held(customer', b) = Held(customer, b) + ((u + v) - 0)
      BY <1>2, <2>8, <2>9, <2>10, <2>11
    <2>14. PICK t \in Int : t = u + v
      BY <2>11
    <2>15. QED BY <1>4, <2>12, <2>13, <2>14
  <1>11. ASSUME NEW c \in DOMAIN cycles, SettleInFull(c) PROVE Balanced(b)'
    <2> DEFINE credited == [a \in Account |-> CreditedTo(c, a)]
    <2>1. PICK x, y : x = cycles[c].net[b] /\ y = ReleasedBy(c, b)
      OBVIOUS
    <2>2. Held(credited, b) = y /\ \A a \in Account : credited[a] \in Int
      BY <1>1, <2>1, CreditsAreReleased
    <2>3. \A a \in Account : customer'[a] = customer[a] + credited[a]
      BY <1>11 DEF SettleInFull
    <2> HIDE DEF credited
    <2>4. /\ AccountsAt(b) \subseteq Account /\ IsFiniteSet(AccountsAt(b))
          /\ Ints(customer, AccountsAt(b)) /\ Ints(credited, AccountsAt(b))
      <3>1. AccountsAt(b) \subseteq Account
        BY DEF AccountsAt
      <3>2. QED BY <1>1, <2>2, <3>1, HeldIsInt DEF Ints
    <2>5. \A a \in AccountsAt(b) : customer'[a] = customer[a] + credited[a]
      BY <2>3, <2>4
    <2>6. Held(customer', b) = Held(customer, b) + Held(credited, b)
      BY <2>4, <2>5, SumPlus DEF Held
    <2>7. y \in Int
      BY <2>2, <2>4, SumType DEF Held
    <2>8. x \in Int /\ reserve[b] \in Int /\ suspense[b] \in Int
      BY <1>1, <2>1 DEF FundsInv, NetsTyped
    <2>9. /\ suspense' = [k \in Participant |-> MirrorSuspense(suspense, c, Netted(c))[k] - ReleasedBy(c, k)]
          /\ reserve' = Mirror(reserve, c, Netted(c))
          /\ b \in Netted(c) <=> x # 0
      BY <1>11, <2>1 DEF SettleInFull, Netted
    <2>10. /\ suspense'[b] = (IF x # 0 THEN suspense[b] + x ELSE suspense[b]) - y
           /\ reserve'[b] = IF x # 0 THEN reserve[b] + x ELSE reserve[b]
      BY <2>1, <2>9 DEF MirrorSuspense, Mirror
    <2>11. suspense'[b] = suspense[b] + (x - y) /\ reserve'[b] = reserve[b] + x
      BY <2>7, <2>8, <2>10
    <2>12. QED BY <1>2, <1>3, <2>2, <2>6, <2>7, <2>8, <2>11
  <1>12. ASSUME NEW c \in DOMAIN cycles, SettlePartly(c) PROVE Balanced(b)'
    <2>1. PICK done : reserve' = Mirror(reserve, c, done) /\ suspense' = Mirror(suspense, c, done)
      BY <1>12, SettlePartlyEffects
    <2>2. PICK x : x = cycles[c].net[b]
      OBVIOUS
    <2>3. x \in Int /\ customer' = customer /\ reserve[b] \in Int /\ suspense[b] \in Int
      BY <1>1, <1>12, <2>2 DEF FundsInv, NetsTyped, SettlePartly, deposits
    <2>4. \/ reserve'[b] = reserve[b] + x /\ suspense'[b] = suspense[b] + x
          \/ reserve'[b] = reserve[b] /\ suspense'[b] = suspense[b]
      BY <2>1, <2>2 DEF Mirror
    <2>5. QED BY <1>2, <1>3, <2>3, <2>4
  <1>13. QED BY <1>5, <1>7, <1>8, <1>9, <1>10, <1>11, <1>12, Steps DEF MoneyInv, FundsInv

(* The accounting equation of the central bank's book. *)
CentralBalanced == cbAssets = SumFunctionOnSet(cbReserve, Participant)

LEMMA NextCentralBalances ==
  ASSUME FundsInv, [Next]_vars, CentralBalanced
  PROVE  CentralBalanced'
  <1>1. /\ MoneyInv /\ Shape /\ AmountsPositive /\ cbAssets \in Int
        /\ cbReserve \in [Participant -> Int] /\ IsFiniteSet(Participant)
    BY AccountAssumption DEF FundsInv, MoneyInv, LifecycleInv, BooksTyped
  <1>2. CentralBalanced' <=> cbAssets' = SumFunctionOnSet(cbReserve', Participant)
    BY DEF CentralBalanced
  <1>3. cbAssets = SumFunctionOnSet(cbReserve, Participant)
    BY DEF CentralBalanced
  <1>4. CASE \/ UNCHANGED <<books, customer, payments, cycles>>
             \/ \E scheme \in Scheme : OpenCycle(scheme)
             \/ \E c \in DOMAIN cycles : CloseCycle(c)
             \/ \E n \in DOMAIN payments : RejectPayment(n)
             \/ \E n \in DOMAIN payments : ReturnPartly(n)
    <2>1. UNCHANGED <<cbReserve, cbAssets>>
      BY <1>4 DEF OpenCycle, CloseCycle, RejectPayment, ReturnPartly, books
    <2>2. QED BY <1>2, <1>3, <2>1
  <1>5. CASE Initiates
    <2>1. UNCHANGED <<cbReserve, cbAssets>>
      BY <1>1, <1>5, InitiateEffects DEF Initiated
    <2>2. QED BY <1>2, <1>3, <2>1
  <1>6. ASSUME NEW f \in [Participant -> Int], NEW k \in Participant, NEW x \in Int
        PROVE  /\ SumFunctionOnSet([f EXCEPT ![k] = @ + x], Participant)
                    = SumFunctionOnSet(f, Participant) + x
               /\ SumFunctionOnSet(f, Participant) \in Int
    <2> DEFINE g == [f EXCEPT ![k] = @ + x]
    <2>1. /\ g[k] = f[k] + x /\ f[k] \in Int /\ g[k] \in Int
          /\ \A j \in Participant \ {k} : g[j] = f[j]
      OBVIOUS
    <2>2. Ints(f, Participant)
      BY DEF Ints
    <2> HIDE DEF g
    <2>3. SumFunctionOnSet(g, Participant) = SumFunctionOnSet(f, Participant) + (g[k] - f[k])
      BY <1>1, <2>1, <2>2, SumChanged
    <2>4. SumFunctionOnSet(f, Participant) \in Int
      BY <1>1, <2>2, SumType
    <2>5. QED BY <2>1, <2>3, <2>4 DEF g
  <1>7. ASSUME NEW a \in Account, NEW amount \in Sum, Deposit(a, amount) PROVE CentralBalanced'
    <2>1. /\ cbReserve' = [cbReserve EXCEPT ![BankOf[a]] = @ + amount]
          /\ cbAssets' = cbAssets + amount /\ BankOf[a] \in Participant /\ amount \in Int
      BY <1>7, InputAssumption, AccountAssumption DEF Deposit
    <2>2. QED BY <1>1, <1>2, <1>3, <1>6, <2>1
  <1>8. ASSUME NEW c \in DOMAIN cycles, cbReserve' = MoveReserves(c), cbAssets' = cbAssets
        PROVE  CentralBalanced'
    <2>1. PICK net : net = cycles[c].net
      OBVIOUS
    <2>2. /\ Ints(net, Participant) /\ SumFunctionOnSet(net, Participant) = 0
          /\ Ints(cbReserve, Participant)
      BY <1>1, <2>1 DEF FundsInv, NetsTyped, NetsSumToZero, SumOver, Ints
    <2>3. \A k \in Participant : cbReserve'[k] = cbReserve[k] + net[k]
      BY <1>8, <2>1 DEF MoveReserves
    <2>4. SumFunctionOnSet(cbReserve', Participant)
            = SumFunctionOnSet(cbReserve, Participant) + SumFunctionOnSet(net, Participant)
      BY <1>1, <2>2, <2>3, SumPlus
    <2>5. QED BY <1>1, <1>2, <1>3, <1>8, <2>2, <2>4
  <1>9. CASE \E c \in DOMAIN cycles : SettleInFull(c) \/ SettlePartly(c)
    BY <1>8, <1>9 DEF SettleInFull, SettlePartly
  <1>10. ASSUME NEW n \in DOMAIN payments, ReturnInFull(n) PROVE CentralBalanced'
    <2>1. PICK x, k, l : /\ x = payments[n].amount /\ k = DebtorBank(payments[n])
                         /\ l = CreditorBank(payments[n])
      OBVIOUS
    <2>2. x \in Int /\ k \in Participant /\ l \in Participant
      BY <1>1, <2>1, PaymentTyped
    <2>3. PICK y \in Int : y = -x
      BY <2>2
    <2>4. PICK mid : mid = [cbReserve EXCEPT ![l] = @ + y]
      OBVIOUS
    <2>5. /\ mid \in [Participant -> Int] /\ cbReserve' = [mid EXCEPT ![k] = @ + x]
          /\ cbAssets' = cbAssets
      <3>1. /\ cbReserve' = [[cbReserve EXCEPT ![l] = @ - x] EXCEPT ![k] = @ + x]
            /\ cbAssets' = cbAssets
        BY <1>10, <2>1 DEF ReturnInFull
      <3>2. mid = [cbReserve EXCEPT ![l] = @ - x] /\ mid \in [Participant -> Int]
        BY <1>1, <2>2, <2>3, <2>4, Taking
      <3>3. QED BY <3>1, <3>2
    <2>6. SumFunctionOnSet(mid, Participant) = SumFunctionOnSet(cbReserve, Participant) + y
      BY <1>1, <1>6, <2>2, <2>4
    <2>7. SumFunctionOnSet(cbReserve', Participant) = SumFunctionOnSet(mid, Participant) + x
      BY <1>6, <2>2, <2>5
    <2>8. QED BY <1>1, <1>2, <1>3, <2>2, <2>3, <2>5, <2>6, <2>7
  <1>11. QED BY <1>4, <1>5, <1>7, <1>9, <1>10, Steps DEF MoneyInv, FundsInv

(* Every book keeps the accounting equation, after a run that failed half   *)
(* way too: a bank's reserve is what it owes its customers and its          *)
(* suspense, and the central bank's assets are the banks' reserves          *)
(* (system.go:340-417, 595-636).                                            *)
THEOREM BooksBalanceAlways == Spec => []BooksBalance
  <1>1. BooksBalance <=> (\A b \in Participant : Balanced(b)) /\ CentralBalanced
    BY DEF BooksBalance, Balanced, CentralBalanced, Held, SumOver
  <1>2. BooksBalance' <=> (\A b \in Participant : Balanced(b)') /\ CentralBalanced'
    BY DEF BooksBalance, Balanced, CentralBalanced, Held, SumOver
  <1>3. Init => BooksBalance
    <2> SUFFICES ASSUME Init PROVE (\A b \in Participant : Balanced(b)) /\ CentralBalanced
      BY <1>1
    <2>1. ASSUME NEW b \in Participant PROVE Balanced(b)
      <3>1. reserve[b] = 0 /\ suspense[b] = 0 /\ customer \in [Account -> Int]
              /\ \A a \in Account : customer[a] = 0
        BY DEF Init
      <3>2. IsFiniteSet(AccountsAt(b)) /\ \A a \in AccountsAt(b) : customer[a] = 0
        BY <3>1, HeldIsInt DEF AccountsAt
      <3>3. Held(customer, b) = 0
        BY <3>2, SumZero DEF Held
      <3>4. QED BY <3>1, <3>3 DEF Balanced
    <2>2. CentralBalanced
      <3>1. cbAssets = 0 /\ \A b \in Participant : cbReserve[b] = 0
        BY DEF Init
      <3>2. QED BY <3>1, SumZero, AccountAssumption DEF CentralBalanced
    <2>3. QED BY <2>1, <2>2
  <1>4. FundsInv /\ BooksBalance /\ [Next]_vars => BooksBalance'
    BY <1>1, <1>2, NextBankBalances, NextCentralBalances
  <1>5. QED BY FundsInvariant, <1>3, <1>4, PTL DEF Spec

-----------------------------------------------------------------------------
(* The network under its operators' reversals by hand (PaymentLedger).      *)

(* A debit is posted at the bank of its payment's debtor. *)
DebitsAtHome == \A k \in posted : k[2] = "debit" => k[1] = DebtorBank(payments[k[3]])

(* Every leg posted has a chain. *)
ChainsTyped == reversals \in [posted -> Nat]

LedgerInv == FundsInv /\ DebitsAtHome /\ ChainsTyped

(* The legs in bank b's book. *)
LegsAt(b) == {k \in posted : k[1] = b}

(* What the chain behind leg k, which moved x, contradicts the network's    *)
(* records by.                                                              *)
ByHand(k, x) ==
  IF TakenForInForce(k) /\ ~InForce(k) THEN -x
  ELSE IF ~TakenForInForce(k) /\ InForce(k) THEN x
  ELSE 0

HandSum(b, f) == SumFunctionOnSet([k \in LegsAt(b) |-> ByHand(k, f[k])], LegsAt(b))

SuspenseEffects(b) == [k \in LegsAt(b) |-> ToSuspense(k)]
ReserveEffects(b) == [k \in LegsAt(b) |-> ToReserve(k)]

(* A step of the network posts legs and removes none, and leaves what those *)
(* posted are about alone; no debit it posts is of a rejected payment.      *)
LegsGrow ==
  /\ posted \subseteq posted'
  /\ \A n \in DOMAIN payments :
       /\ n \in DOMAIN payments'
       /\ payments'[n].debtor = payments[n].debtor /\ payments'[n].creditor = payments[n].creditor
       /\ payments'[n].amount = payments[n].amount
       /\ payments[n].status = "Rejected" => payments'[n].status = "Rejected"
  /\ \A k \in posted' \ posted : k[2] = "debit" =>
       /\ k[1] = DebtorBank(payments'[k[3]])
       /\ payments'[k[3]].status # "Rejected"

LEMMA NextLegsGrow ==
  ASSUME FundsInv, [Next]_vars
  PROVE  LegsGrow
  <1>1. MoneyInv /\ NoneInitiated
    BY DEF FundsInv
  <1> DEFINE Kept == \A n \in DOMAIN payments :
               /\ n \in DOMAIN payments'
               /\ payments'[n].debtor = payments[n].debtor
               /\ payments'[n].creditor = payments[n].creditor
               /\ payments'[n].amount = payments[n].amount
               /\ payments[n].status = "Rejected" => payments'[n].status = "Rejected"
  <1>2. ASSUME NEW new, posted' = posted \cup new, \A k \in new : k[2] # "debit", Kept
        PROVE  LegsGrow
    BY <1>2 DEF LegsGrow
  <1>3. ASSUME posted' = posted, Kept PROVE LegsGrow
    BY <1>3 DEF LegsGrow
  <1>4. ASSUME payments' = payments PROVE Kept
    BY <1>4
  <1>5. ASSUME NEW S, NEW to, Marks(S, to), \A n \in S : payments[n].status # "Rejected" PROVE Kept
    BY <1>5 DEF Marks
  <1> HIDE DEF Kept
  <1>6. CASE \/ UNCHANGED <<books, customer, payments, cycles>>
             \/ \E a \in Account, amount \in Sum : Deposit(a, amount)
             \/ \E scheme \in Scheme : OpenCycle(scheme)
    BY <1>3, <1>4, <1>6 DEF Deposit, OpenCycle, books, network
  <1>7. ASSUME NEW c \in DOMAIN cycles, CloseCycle(c) PROVE LegsGrow
    <2>1. Marks(Members(c), "Cleared") /\ \A n \in Members(c) : payments[n].status # "Rejected"
      BY <1>1, <1>7, CloseEffects
    <2>2. posted' = posted
      BY <1>7 DEF CloseCycle, books
    <2>3. QED BY <1>3, <1>5, <2>1, <2>2
  <1>8. ASSUME NEW c \in DOMAIN cycles, SettleInFull(c) PROVE LegsGrow
    <2> DEFINE credits == {<<CreditorBank(payments[n]), "credit", n>> : n \in Members(c)}
               new == SettleKeys(c, Netted(c)) \cup credits
    <2>1. Marks(Members(c), "Settled") /\ \A n \in Members(c) : payments[n].status # "Rejected"
      BY <1>1, <1>8, SettleEffects
    <2>2. posted' = posted \cup new
      BY <1>8 DEF SettleInFull
    <2>3. \A k \in new : k[2] # "debit"
      <3>1. \A k \in credits : k[2] = "credit"
        OBVIOUS
      <3>2. \A k \in SettleKeys(c, Netted(c)) : k[2] \in {"settle", "reserve"}
        BY DEF SettleKeys
      <3>3. QED BY <3>1, <3>2
    <2> HIDE DEF new
    <2>4. QED BY <1>2, <1>5, <2>1, <2>2, <2>3
  <1>9. ASSUME NEW c \in DOMAIN cycles, SettlePartly(c) PROVE LegsGrow
    <2>1. PICK done : posted' = posted \cup SettleKeys(c, done)
      BY <1>9 DEF SettlePartly
    <2>2. \A k \in SettleKeys(c, done) : k[2] # "debit"
      BY DEF SettleKeys
    <2>3. payments' = payments
      BY <1>9 DEF SettlePartly, network
    <2>4. QED BY <1>2, <1>4, <2>1, <2>2, <2>3
  <1>10. ASSUME NEW n \in DOMAIN payments, RejectPayment(n) PROVE LegsGrow
    <2>1. Marks({n}, "Rejected") /\ \A m \in {n} : payments[m].status # "Rejected"
      BY <1>1, <1>10, RejectEffects
    <2>2. posted' = posted
      BY <1>10 DEF RejectPayment
    <2>3. QED BY <1>3, <1>5, <2>1, <2>2
  <1>11. ASSUME NEW n \in DOMAIN payments, ReturnInFull(n) PROVE LegsGrow
    <2>1. Marks({n}, "Returned") /\ \A m \in {n} : payments[m].status # "Rejected"
      BY <1>1, <1>11, ReturnEffects
    <2>2. PICK b, d : posted' = posted \cup {<<b, "return-debit", n>>, <<d, "return-credit", n>>,
                                             <<CentralBank, "return-settle", n>>}
      BY <1>11 DEF ReturnInFull
    <2>3. PICK new : new = {<<b, "return-debit", n>>, <<d, "return-credit", n>>,
                            <<CentralBank, "return-settle", n>>}
      OBVIOUS
    <2>4. posted' = posted \cup new /\ \A k \in new : k[2] # "debit"
      BY <2>2, <2>3
    <2>5. QED BY <1>2, <1>5, <2>1, <2>4
  <1>12. ASSUME NEW n \in DOMAIN payments, ReturnPartly(n) PROVE LegsGrow
    <2>1. PICK b : posted' = posted \cup {<<b, "return-debit", n>>}
      BY <1>12 DEF ReturnPartly
    <2>2. payments' = payments
      BY <1>12 DEF ReturnPartly, network
    <2>3. PICK new : new = {<<b, "return-debit", n>>}
      OBVIOUS
    <2>4. posted' = posted \cup new /\ \A k \in new : k[2] # "debit"
      BY <2>1, <2>3
    <2>5. QED BY <1>2, <1>4, <2>2, <2>4
  <1>13. CASE Initiates
    <2>1. PICK n \in Nat, c \in DOMAIN cycles, debtor \in Account, creditor \in Account,
               amount \in Sum : Initiated(n, c, debtor, creditor, amount)
      BY <1>1, <1>13, InitiateEffects
    <2>2. /\ DOMAIN payments' = DOMAIN payments \cup {n}
          /\ \A m \in DOMAIN payments : payments'[m] = payments[m]
          /\ payments'[n].debtor = debtor /\ payments'[n].status = "Accepted"
          /\ posted' = posted \cup {<<BankOf[debtor], "debit", n>>}
      BY <2>1 DEF Initiated
    <2>3. \A k \in posted' \ posted : k[1] = BankOf[debtor] /\ k[3] = n
      BY <2>2
    <2>4. QED BY <2>2, <2>3 DEF LegsGrow, DebtorBank
  <1>14. QED BY <1>1, <1>6, <1>7, <1>8, <1>9, <1>10, <1>11, <1>12, <1>13, Steps DEF MoneyInv


(* A leg's number is that of a payment or of a cycle, so a book's legs are  *)
(* finitely many,                                                           *)
BooksFinite == \A b : IsFiniteSet(LegsAt(b))

LEMMA LegsFinite == FundsInv => BooksFinite
  <1> SUFFICES ASSUME FundsInv, NEW b PROVE IsFiniteSet(LegsAt(b))
    BY DEF BooksFinite
  <1>1. PICK m \in Nat : DOMAIN payments = 1 .. m
    BY LenProperties DEF FundsInv, MoneyInv, LifecycleInv, Shape
  <1>2. PICK Nets : cycles \in Seq(CycleRecord(Nets))
    BY Records DEF FundsInv, MoneyInv, LifecycleInv
  <1>3. PICK l \in Nat : DOMAIN cycles = 1 .. l
    BY <1>2, LenProperties
  <1> DEFINE Legs == {"debit", "credit", "settle", "reserve",
                      "return-debit", "return-credit", "return-settle"}
             N == (1 .. m) \cup (1 .. l)
             T == {<<b, p[1], p[2]>> : p \in Legs \X N}
             key == [p \in Legs \X N |-> <<b, p[1], p[2]>>]
  <1>4. LegsAt(b) \subseteq T
    <2>1. ASSUME NEW k \in posted, k[1] = b PROVE k \in T
      <3>1. k \in Keys
        BY DEF FundsInv, BooksTyped
      <3>2. k[2] \in Legs /\ k = <<k[1], k[2], k[3]>>
        BY <3>1 DEF Keys
      <3>3. k[3] \in N
        <4>1. CASE k[2] \in PaymentLegs
          BY <1>1, <4>1 DEF FundsInv, MoneyInv, LegsInv, LegsKnown
        <4>2. CASE k[2] = "settle"
          BY <1>3, <4>2 DEF FundsInv, SettleKeysInv
        <4>3. CASE k[2] = "reserve"
          <5>1. PICK s : s = <<CentralBank, "settle", k[3]>>
            OBVIOUS
          <5>2. s \in posted /\ s[2] = "settle" /\ s[3] = k[3]
            BY <4>3, <5>1 DEF FundsInv, SettleKeysInv
          <5>3. k[3] \in DOMAIN cycles
            BY <5>2 DEF FundsInv, SettleKeysInv
          <5>4. QED BY <1>3, <5>3
        <4>4. QED BY <3>2, <4>1, <4>2, <4>3 DEF PaymentLegs
      <3>4. PICK p \in Legs \X N : p[1] = k[2] /\ p[2] = k[3]
        <4>1. <<k[2], k[3]>> \in Legs \X N
          BY <3>2, <3>3
        <4>2. <<k[2], k[3]>>[1] = k[2] /\ <<k[2], k[3]>>[2] = k[3]
          OBVIOUS
        <4>3. QED BY <4>1, <4>2
      <3>5. k = <<b, p[1], p[2]>>
        BY <2>1, <3>2, <3>4
      <3>6. QED BY <3>5
    <2>2. QED BY <2>1 DEF LegsAt
  <1>5. IsFiniteSet(Legs)
    <2> DEFINE f == [i \in 1 .. 7 |-> CASE i = 1 -> "debit" [] i = 2 -> "credit" [] i = 3 -> "settle"
                       [] i = 4 -> "reserve" [] i = 5 -> "return-debit" [] i = 6 -> "return-credit"
                       [] OTHER -> "return-settle"]
    <2>1. f \in Surjection(1 .. 7, Legs)
      <3>1. f \in [1 .. 7 -> Legs]
        OBVIOUS
      <3>2. f[1] = "debit" /\ f[2] = "credit" /\ f[3] = "settle" /\ f[4] = "reserve"
              /\ f[5] = "return-debit" /\ f[6] = "return-credit" /\ f[7] = "return-settle"
        OBVIOUS
      <3> HIDE DEF f
      <3>3. \A x \in Legs : \E i \in 1 .. 7 : f[i] = x
        BY <3>2
      <3>4. QED BY <3>1, <3>3 DEF Surjection
    <2>2. IsFiniteSet(1 .. 7)
      <3>1. 1 \in Int /\ 7 \in Int
        OBVIOUS
      <3>2. QED BY <3>1, FS_Interval
    <2> HIDE DEF f, Legs
    <2>3. QED BY <2>1, <2>2, FS_Surjection
  <1>6. IsFiniteSet(N)
    <2>1. IsFiniteSet(1 .. m) /\ IsFiniteSet(1 .. l)
      BY FS_Interval
    <2>2. QED BY <2>1, FS_Union
  <1>7. IsFiniteSet(Legs \X N)
    <2> HIDE DEF Legs, N
    <2>1. QED BY <1>5, <1>6, FS_Product
  <1>8. key \in Surjection(Legs \X N, T)
    <2> HIDE DEF Legs, N
    <2>1. QED BY DEF Surjection
  <1> HIDE DEF Legs, N, key, T
  <1>9. IsFiniteSet(T)
    BY <1>7, <1>8, FS_Surjection
  <1>10. QED BY <1>4, <1>9, FS_Subset

(* and what each did is known. *)
LEMMA EffectsTyped ==
  FundsInv => \A b \in Participant :
                Ints(SuspenseEffects(b), LegsAt(b)) /\ Ints(ReserveEffects(b), LegsAt(b))
  <1> SUFFICES ASSUME FundsInv, NEW b \in Participant, NEW k \in posted, k[1] = b
               PROVE  ToSuspense(k) \in Int /\ ToReserve(k) \in Int
    BY DEF Ints, SuspenseEffects, ReserveEffects, LegsAt
  <1>1. CASE k[2] \in PaymentLegs
    <2>1. k[3] \in DOMAIN payments
      BY <1>1 DEF FundsInv, MoneyInv, LegsInv, LegsKnown
    <2>2. PICK x \in Int : x = payments[k[3]].amount
      BY <2>1 DEF FundsInv, AmountsPositive
    <2>3. -x \in Int /\ k[2] # "reserve"
      BY <1>1 DEF PaymentLegs
    <2>4. QED BY <2>2, <2>3 DEF ToSuspense, ToReserve
  <1>2. CASE k[2] = "reserve"
    <2>1. PICK s : s = <<CentralBank, "settle", k[3]>>
      OBVIOUS
    <2>2. s \in posted /\ s[2] = "settle" /\ s[3] = k[3]
      BY <1>2, <2>1 DEF FundsInv, SettleKeysInv
    <2>3. k[3] \in DOMAIN cycles
      BY <2>2 DEF FundsInv, SettleKeysInv
    <2>4. cycles[k[3]].net[k[1]] \in Int
      BY <2>3 DEF FundsInv, NetsTyped
    <2>5. QED BY <1>2, <2>4 DEF ToSuspense, ToReserve
  <1>3. CASE k[2] \notin PaymentLegs /\ k[2] # "reserve"
    BY <1>3 DEF ToSuspense, ToReserve, PaymentLegs
  <1>4. QED BY <1>1, <1>2, <1>3

(* The sums of PaymentLedger, leg by leg. *)
LEMMA HandSums ==
  LedgerInv => \A b \in Participant :
    /\ MovedByHand(b, ToSuspense) = HandSum(b, SuspenseEffects(b))
    /\ MovedByHand(b, ToReserve) = HandSum(b, ReserveEffects(b))
  <1> SUFFICES ASSUME LedgerInv, NEW b \in Participant
               PROVE  /\ MovedByHand(b, ToSuspense) = HandSum(b, SuspenseEffects(b))
                      /\ MovedByHand(b, ToReserve) = HandSum(b, ReserveEffects(b))
    OBVIOUS
  <1> DEFINE undone == {k \in posted : k[1] = b /\ TakenForInForce(k) /\ ~InForce(k)}
             redone == {k \in posted : k[1] = b /\ ~TakenForInForce(k) /\ InForce(k)}
             sum(e, S) == SumFunctionOnSet([k \in S |-> e[k]], S)
  <1>0. IsFiniteSet(LegsAt(b)) /\ undone \in SUBSET LegsAt(b) /\ redone \in SUBSET LegsAt(b)
          /\ redone \cap undone = {}
    BY LegsFinite DEF LedgerInv, LegsAt, BooksFinite
  <1>1. ASSUME NEW e, Ints(e, LegsAt(b))
        PROVE  HandSum(b, e) = sum(e, redone) - sum(e, undone)
    <2> DEFINE f == [k \in LegsAt(b) |-> ByHand(k, e[k])]
    <2>1. \A k \in LegsAt(b) : f[k] = IF k \in redone THEN e[k] ELSE IF k \in undone THEN -e[k] ELSE 0
      BY DEF ByHand, LegsAt
    <2>2. IsFiniteSet(redone) /\ IsFiniteSet(undone)
      BY <1>0, FS_Subset
    <2> HIDE DEF f, undone, redone
    <2>3. SumFunctionOnSet(f, LegsAt(b)) = SumFunctionOnSet(e, redone) - SumFunctionOnSet(e, undone)
      BY <1>0, <1>1, <2>1, SumDifference
    <2>4. \A S \in SUBSET LegsAt(b) : IsFiniteSet(S) => SumFunctionOnSet(e, S) = sum(e, S)
      <3> SUFFICES ASSUME NEW S \in SUBSET LegsAt(b), IsFiniteSet(S)
                   PROVE  SumFunctionOnSet(e, S) = sum(e, S)
        OBVIOUS
      <3> DEFINE h == [k \in S |-> e[k]]
      <3>1. \A k \in S : e[k] = h[k]
        OBVIOUS
      <3> HIDE DEF h
      <3>2. SumFunctionOnSet(e, S) = SumFunctionOnSet(h, S)
        BY <3>1, SumSame
      <3>3. QED BY <3>2 DEF h
    <2>5. HandSum(b, e) = SumFunctionOnSet(f, LegsAt(b))
      BY DEF HandSum, f
    <2>6. QED BY <1>0, <2>2, <2>3, <2>4, <2>5
  <1>2. \A S \in SUBSET LegsAt(b) :
          /\ sum(SuspenseEffects(b), S) = SumFunctionOnSet([k \in S |-> ToSuspense(k)], S)
          /\ sum(ReserveEffects(b), S) = SumFunctionOnSet([k \in S |-> ToReserve(k)], S)
    <2> SUFFICES ASSUME NEW S \in SUBSET LegsAt(b)
                 PROVE  /\ [k \in S |-> SuspenseEffects(b)[k]] = [k \in S |-> ToSuspense(k)]
                        /\ [k \in S |-> ReserveEffects(b)[k]] = [k \in S |-> ToReserve(k)]
      OBVIOUS
    <2>1. QED BY DEF SuspenseEffects, ReserveEffects
  <1>3. /\ MovedByHand(b, ToSuspense) = sum(SuspenseEffects(b), redone) - sum(SuspenseEffects(b), undone)
        /\ MovedByHand(b, ToReserve) = sum(ReserveEffects(b), redone) - sum(ReserveEffects(b), undone)
    BY <1>0, <1>2, Zenon DEF MovedByHand
  <1>4. Ints(SuspenseEffects(b), LegsAt(b)) /\ Ints(ReserveEffects(b), LegsAt(b))
    BY EffectsTyped DEF LedgerInv
  <1> HIDE DEF sum, undone, redone
  <1>5. QED BY <1>1, <1>3, <1>4


(* A call of the network leaves the legs posted what they were, and the     *)
(* difference reversals by hand have made.                                  *)
LEMMA NextHandSums ==
  ASSUME LedgerInv, LedgerInv', CallNetwork, NEW b \in Participant
  PROVE  /\ HandSum(b, SuspenseEffects(b))' = HandSum(b, SuspenseEffects(b))
         /\ HandSum(b, ReserveEffects(b))' = HandSum(b, ReserveEffects(b))
  <1> DEFINE rejected == {n \in DOMAIN payments : /\ payments[n].status # "Rejected"
                                                  /\ payments'[n].status = "Rejected"}
  <1>1. /\ [Next]_vars
        /\ \A n \in rejected : reversals[DebitLeg(n)] = 0
        /\ reversals' = [k \in posted' |->
             IF k \notin DOMAIN reversals THEN 0
             ELSE IF k \in {DebitLeg(n) : n \in rejected} THEN reversals[k] + 1
             ELSE reversals[k]]
    BY DEF CallNetwork, CanReject
  <1>2. LegsGrow /\ FundsInv /\ FundsInv' /\ DebitsAtHome /\ reversals \in [posted -> Nat]
    BY <1>1, NextLegsGrow DEF LedgerInv, ChainsTyped
  <1>3. posted \subseteq posted' /\ LegsAt(b) \subseteq LegsAt(b)'
    BY <1>2 DEF LegsGrow, LegsAt
  <1>4. \A k \in posted : k[2] \in PaymentLegs =>
          /\ k[3] \in DOMAIN payments /\ k[3] \in DOMAIN payments'
          /\ payments'[k[3]].debtor = payments[k[3]].debtor
          /\ payments'[k[3]].amount = payments[k[3]].amount
          /\ payments[k[3]].status = "Rejected" => payments'[k[3]].status = "Rejected"
    BY <1>2 DEF LegsGrow, FundsInv, MoneyInv, LegsInv, LegsKnown
  <1>5. \A k \in posted : k[2] = "reserve" => cycles'[k[3]].net = cycles[k[3]].net
    <2> SUFFICES ASSUME NEW k \in posted, k[2] = "reserve" PROVE cycles'[k[3]].net = cycles[k[3]].net
      OBVIOUS
    <2>1. PICK s : s = <<CentralBank, "settle", k[3]>>
      OBVIOUS
    <2>2. s \in posted /\ s[2] = "settle" /\ s[3] = k[3]
      BY <1>2, <2>1 DEF FundsInv, SettleKeysInv
    <2>3. k[3] \in DOMAIN cycles /\ cycles[k[3]].status # "Open"
      BY <1>2, <2>2 DEF FundsInv, SettleKeysInv
    <2>4. QED BY <1>1, <1>2, <2>3, CyclesStay DEF FundsInv, StaysShut
  <1>6. \A k \in posted : ToSuspense(k)' = ToSuspense(k) /\ ToReserve(k)' = ToReserve(k)
    BY <1>4, <1>5 DEF ToSuspense, ToReserve, PaymentLegs
  (* A leg posted before contradicts the records as much as it did, *)
  <1>7. ASSUME NEW k \in posted, NEW x \in Int
        PROVE  ByHand(k, x)' = ByHand(k, x)
    <2>1. reversals[k] \in Nat /\ k \in posted' /\ k \in DOMAIN reversals
      BY <1>2, <1>3
    <2>2. k[2] = "debit" => k[2] \in PaymentLegs
      BY DEF PaymentLegs
    <2>3. CASE k \in {DebitLeg(n) : n \in rejected}
      <3>1. PICK n \in rejected : k = DebitLeg(n)
        BY <2>3
      <3>2. k[2] = "debit" /\ k[3] = n
        BY <3>1 DEF DebitLeg
      <3>3. reversals[k] = 0 /\ reversals'[k] = 1
        BY <1>1, <2>1, <2>3, <3>1
      <3>4. TakenForInForce(k) /\ ~TakenForInForce(k)'
        BY <3>2 DEF TakenForInForce
      <3>5. InForce(k) /\ ~InForce(k)'
        BY <3>3 DEF InForce
      <3>6. QED BY <3>4, <3>5 DEF ByHand
    <2>4. CASE k \notin {DebitLeg(n) : n \in rejected}
      <3>1. reversals'[k] = reversals[k]
        BY <1>1, <2>1, <2>4
      <3>2. TakenForInForce(k)' <=> TakenForInForce(k)
        <4>1. CASE k[2] # "debit"
          BY <4>1 DEF TakenForInForce
        <4>2. CASE k[2] = "debit"
          <5>1. k[1] = DebtorBank(payments[k[3]]) /\ k \in Keys
            BY <1>2, <4>2 DEF DebitsAtHome, FundsInv, BooksTyped
          <5>2. k = <<k[1], k[2], k[3]>>
            BY <5>1 DEF Keys
          <5>3. k = DebitLeg(k[3])
            BY <4>2, <5>1, <5>2 DEF DebitLeg
          <5>4. k[3] \notin rejected
            BY <2>4, <5>3
          <5>5. payments[k[3]].status = "Rejected" <=> payments'[k[3]].status = "Rejected"
            BY <1>4, <2>2, <4>2, <5>4
          <5>6. QED BY <5>5 DEF TakenForInForce
        <4>3. QED BY <4>1, <4>2
      <3>3. QED BY <3>1, <3>2 DEF ByHand, InForce
    <2>5. QED BY <2>3, <2>4
  (* and one just posted does not. *)
  <1>8. ASSUME NEW k \in posted' \ posted, NEW x
        PROVE  ByHand(k, x)' = 0
    <2>1. reversals'[k] = 0
      BY <1>1, <1>2
    <2>2. TakenForInForce(k)'
      BY <1>2 DEF TakenForInForce, LegsGrow
    <2>3. InForce(k)'
      BY <2>1 DEF InForce
    <2>4. QED BY <2>2, <2>3 DEF ByHand
  <1>9. ASSUME NEW e, NEW e2, Ints(e, LegsAt(b)), \A k \in LegsAt(b) : e2[k] = e[k]
        PROVE  SumFunctionOnSet([k \in LegsAt(b)' |-> ByHand(k, e2[k])'], LegsAt(b)')
                 = SumFunctionOnSet([k \in LegsAt(b) |-> ByHand(k, e[k])], LegsAt(b))
    <2> DEFINE f == [k \in LegsAt(b) |-> ByHand(k, e[k])]
               g == [k \in LegsAt(b)' |-> ByHand(k, e2[k])']
    <2>1. IsFiniteSet(LegsAt(b)') /\ IsFiniteSet(LegsAt(b))
      <3>1. FundsInv' => BooksFinite'
        BY LegsFinite, PTL
      <3>2. QED BY <1>2, <3>1, LegsFinite DEF BooksFinite
    <2>2. \A k \in LegsAt(b) : k \in posted /\ f[k] \in Int /\ f[k] = g[k]
      <3> SUFFICES ASSUME NEW k \in LegsAt(b) PROVE k \in posted /\ f[k] \in Int /\ f[k] = g[k]
        OBVIOUS
      <3>1. k \in posted /\ k \in LegsAt(b)' /\ e[k] \in Int /\ e2[k] = e[k]
        BY <1>3, <1>9 DEF LegsAt, Ints
      <3>2. PICK x \in Int : x = e[k]
        BY <3>1
      <3>3. ByHand(k, x)' = ByHand(k, x)
        BY <1>7, <3>1
      <3>4. f[k] = ByHand(k, x) /\ g[k] = ByHand(k, x)'
        BY <3>1, <3>2
      <3>5. ByHand(k, x) \in Int
        BY DEF ByHand
      <3>6. QED BY <3>1, <3>3, <3>4, <3>5
    <2>3. \A k \in LegsAt(b)' \ LegsAt(b) : g[k] = 0
      <3> SUFFICES ASSUME NEW k \in LegsAt(b)' \ LegsAt(b) PROVE g[k] = 0
        OBVIOUS
      <3>1. k \in posted' \ posted
        BY DEF LegsAt
      <3>2. QED BY <1>8, <3>1
    <2> HIDE DEF f, g
    <2>4. Ints(g, LegsAt(b))
      BY <2>2 DEF Ints
    <2>5. SumFunctionOnSet(g, LegsAt(b)') = SumFunctionOnSet(g, LegsAt(b))
      <3>1. PICK L, M : L = LegsAt(b)' /\ M = LegsAt(b)
        OBVIOUS
      <3>2. IsFiniteSet(L) /\ M \in SUBSET L /\ Ints(g, M) /\ \A k \in L \ M : g[k] = 0
        BY <1>3, <2>1, <2>3, <2>4, <3>1
      <3>3. SumFunctionOnSet(g, L) = SumFunctionOnSet(g, M)
        BY <3>2, SumPart
      <3>4. QED BY <3>1, <3>3
    <2>6. SumFunctionOnSet(f, LegsAt(b)) = SumFunctionOnSet(g, LegsAt(b))
      BY <2>1, <2>2, SumSame
    <2>7. QED BY <2>5, <2>6 DEF f, g
  <1>10. PICK s, r, s2, r2 : /\ s = SuspenseEffects(b) /\ s2 = SuspenseEffects(b)'
                             /\ r = ReserveEffects(b) /\ r2 = ReserveEffects(b)'
    OBVIOUS
  <1>11. Ints(s, LegsAt(b)) /\ Ints(r, LegsAt(b))
    BY <1>2, <1>10, EffectsTyped
  <1>12. \A k \in LegsAt(b) : s2[k] = s[k] /\ r2[k] = r[k]
    <2> SUFFICES ASSUME NEW k \in LegsAt(b) PROVE s2[k] = s[k] /\ r2[k] = r[k]
      OBVIOUS
    <2>1. k \in posted /\ k \in LegsAt(b)'
      BY <1>3 DEF LegsAt
    <2>2. s2[k] = ToSuspense(k)' /\ r2[k] = ToReserve(k)'
      BY <1>10, <2>1 DEF SuspenseEffects, ReserveEffects
    <2>3. s[k] = ToSuspense(k) /\ r[k] = ToReserve(k)
      BY <1>10 DEF SuspenseEffects, ReserveEffects
    <2>4. QED BY <1>6, <2>1, <2>2, <2>3
  <1>13. /\ HandSum(b, SuspenseEffects(b))' =
              SumFunctionOnSet([k \in LegsAt(b)' |-> ByHand(k, s2[k])'], LegsAt(b)')
         /\ HandSum(b, SuspenseEffects(b)) = SumFunctionOnSet([k \in LegsAt(b) |-> ByHand(k, s[k])], LegsAt(b))
         /\ HandSum(b, ReserveEffects(b))' =
              SumFunctionOnSet([k \in LegsAt(b)' |-> ByHand(k, r2[k])'], LegsAt(b)')
         /\ HandSum(b, ReserveEffects(b)) = SumFunctionOnSet([k \in LegsAt(b) |-> ByHand(k, r[k])], LegsAt(b))
    BY <1>10, Zenon DEF HandSum, ByHand, TakenForInForce, InForce
  <1>14. QED BY <1>9, <1>11, <1>12, <1>13


(* A reversal by hand moves at its leg's bank what the chain behind the leg *)
(* now contradicts the records by, and nothing else.                        *)
LEMMA ReversalMoves ==
  ASSUME LedgerInv, NEW leg \in posted, ReverseByHand(leg), NEW b \in Participant
  PROVE  /\ suspense'[b] - HandSum(b, SuspenseEffects(b))' = suspense[b] - HandSum(b, SuspenseEffects(b))
         /\ reserve'[b] - HandSum(b, ReserveEffects(b))' = reserve[b] - HandSum(b, ReserveEffects(b))
  <1>1. /\ suspense' = [suspense EXCEPT ![leg[1]] = @ + Flipped(leg) * ToSuspense(leg)]
        /\ reserve' = [reserve EXCEPT ![leg[1]] = @ + Flipped(leg) * ToReserve(leg)]
        /\ reversals' = [reversals EXCEPT ![leg] = @ + 1]
        /\ posted' = posted /\ payments' = payments /\ cycles' = cycles
    BY DEF ReverseByHand, network
  <1>2. /\ suspense \in [Participant -> Int] /\ reserve \in [Participant -> Int]
        /\ reversals \in [posted -> Nat] /\ IsFiniteSet(LegsAt(b))
        /\ Ints(SuspenseEffects(b), LegsAt(b)) /\ Ints(ReserveEffects(b), LegsAt(b))
    BY LegsFinite, EffectsTyped DEF LedgerInv, FundsInv, BooksTyped, ChainsTyped, BooksFinite
  <1>3. \A k, x : k # leg => ByHand(k, x)' = ByHand(k, x)
    <2> SUFFICES ASSUME NEW k, NEW x, k # leg PROVE ByHand(k, x)' = ByHand(k, x)
      OBVIOUS
    <2>1. reversals'[k] = reversals[k]
      BY <1>1
    <2>2. QED BY <1>1, <2>1 DEF ByHand, TakenForInForce, InForce
  <1>4. ASSUME NEW x \in Int
        PROVE  /\ ByHand(leg, x) \in Int /\ ByHand(leg, x)' \in Int
               /\ Flipped(leg) * x = ByHand(leg, x)' - ByHand(leg, x)
    <2>1. reversals[leg] \in Nat /\ reversals'[leg] = reversals[leg] + 1
      BY <1>1, <1>2
    <2>2. PICK n \in Nat : n = reversals[leg]
      BY <2>1
    <2>3. n % 2 = 0 <=> (n + 1) % 2 # 0
      OBVIOUS
    <2>4. InForce(leg)' <=> ~InForce(leg)
      BY <2>1, <2>2, <2>3 DEF InForce
    <2>5. TakenForInForce(leg)' <=> TakenForInForce(leg)
      BY <1>1 DEF TakenForInForce
    <2>6. Flipped(leg) = IF InForce(leg) THEN -1 ELSE 1
      BY DEF Flipped
    <2>7. (-1) * x = -x /\ 1 * x = x /\ x - 0 = x /\ -x - 0 = -x /\ 0 - x = -x /\ 0 - (-x) = x
      OBVIOUS
    <2>8. CASE InForce(leg)
      BY <2>4, <2>5, <2>6, <2>7, <2>8 DEF ByHand
    <2>9. CASE ~InForce(leg)
      BY <2>4, <2>5, <2>6, <2>7, <2>9 DEF ByHand
    <2>10. QED BY <2>8, <2>9
  <1>5. ASSUME NEW e, Ints(e, LegsAt(b))
        PROVE  /\ SumFunctionOnSet([k \in LegsAt(b) |-> ByHand(k, e[k])'], LegsAt(b))
                    = HandSum(b, e) + (IF leg[1] = b THEN Flipped(leg) * e[leg] ELSE 0)
               /\ HandSum(b, e) \in Int
               /\ leg[1] = b => Flipped(leg) * e[leg] \in Int
    <2> DEFINE f == [k \in LegsAt(b) |-> ByHand(k, e[k])]
               g == [k \in LegsAt(b) |-> ByHand(k, e[k])']
    <2>1. Ints(f, LegsAt(b))
      BY <1>5 DEF Ints, ByHand
    <2>2. \A k \in LegsAt(b) \ {leg} : g[k] = f[k]
      BY <1>3
    <2>3. leg \in LegsAt(b) <=> leg[1] = b
      BY DEF LegsAt
    <2>4. leg[1] = b => /\ f[leg] \in Int /\ g[leg] \in Int
                        /\ Flipped(leg) * e[leg] = g[leg] - f[leg]
      <3> SUFFICES ASSUME leg[1] = b
                   PROVE  f[leg] \in Int /\ g[leg] \in Int /\ Flipped(leg) * e[leg] = g[leg] - f[leg]
        OBVIOUS
      <3>1. leg \in LegsAt(b)
        BY <2>3
      <3>2. PICK x \in Int : x = e[leg]
        BY <1>5, <3>1 DEF Ints
      <3>3. f[leg] = ByHand(leg, x) /\ g[leg] = ByHand(leg, x)'
        BY <3>1, <3>2
      <3>4. QED BY <1>4, <3>2, <3>3
    <2>5. HandSum(b, e) = SumFunctionOnSet(f, LegsAt(b))
      BY DEF HandSum
    <2> HIDE DEF f, g
    <2>6. SumFunctionOnSet(f, LegsAt(b)) \in Int
      BY <1>2, <2>1, SumType
    <2>7. CASE leg[1] = b
      <3>1. SumFunctionOnSet(g, LegsAt(b)) = SumFunctionOnSet(f, LegsAt(b)) + (g[leg] - f[leg])
        BY <1>2, <2>1, <2>2, <2>3, <2>4, <2>7, SumChanged
      <3>2. Flipped(leg) * e[leg] \in Int
        BY <2>4, <2>7
      <3>3. QED BY <2>4, <2>5, <2>6, <2>7, <3>1, <3>2 DEF g
    <2>8. CASE leg[1] # b
      <3>1. \A k \in LegsAt(b) : g[k] = f[k]
        BY <2>2, <2>3, <2>8
      <3>2. SumFunctionOnSet(g, LegsAt(b)) = SumFunctionOnSet(f, LegsAt(b))
        BY <1>2, <3>1, SumSame
      <3>3. QED BY <2>5, <2>6, <2>8, <3>2 DEF g
    <2>9. QED BY <2>7, <2>8
  <1>6. LegsAt(b)' = LegsAt(b)
    BY <1>1 DEF LegsAt
  <1>7. SuspenseEffects(b)' = SuspenseEffects(b) /\ ReserveEffects(b)' = ReserveEffects(b)
    BY <1>1, <1>6 DEF SuspenseEffects, ReserveEffects, ToSuspense, ToReserve
  <1>8. PICK s, r : s = SuspenseEffects(b) /\ r = ReserveEffects(b)
    OBVIOUS
  <1>9. /\ HandSum(b, SuspenseEffects(b))' = SumFunctionOnSet([k \in LegsAt(b) |-> ByHand(k, s[k])'], LegsAt(b))
        /\ HandSum(b, ReserveEffects(b))' = SumFunctionOnSet([k \in LegsAt(b) |-> ByHand(k, r[k])'], LegsAt(b))
    BY <1>6, <1>7, <1>8, Zenon DEF HandSum, ByHand, TakenForInForce, InForce
  <1>10. leg[1] = b => s[leg] = ToSuspense(leg) /\ r[leg] = ToReserve(leg)
    BY <1>8 DEF SuspenseEffects, ReserveEffects, LegsAt
  <1>11. suspense[b] \in Int /\ reserve[b] \in Int
    BY <1>2
  <1>12. ASSUME NEW f \in [Participant -> Int], NEW f2, NEW x, f2 = [f EXCEPT ![leg[1]] = @ + x],
                leg[1] = b => x \in Int, NEW h \in Int, NEW h2, h2 = h + (IF leg[1] = b THEN x ELSE 0)
         PROVE  f2[b] - h2 = f[b] - h
    <2>1. CASE leg[1] = b
      BY <1>12, <2>1
    <2>2. CASE leg[1] # b
      BY <1>12, <2>2
    <2>3. QED BY <2>1, <2>2
  <1>13. ASSUME NEW f \in [Participant -> Int], NEW f2, NEW e, Ints(e, LegsAt(b)), NEW x,
                leg[1] = b => e[leg] = x, f2 = [f EXCEPT ![leg[1]] = @ + Flipped(leg) * x]
         PROVE  f2[b] - SumFunctionOnSet([k \in LegsAt(b) |-> ByHand(k, e[k])'], LegsAt(b))
                  = f[b] - HandSum(b, e)
    <2>1. PICK h, h2, y : /\ h = HandSum(b, e) /\ y = Flipped(leg) * x
                          /\ h2 = SumFunctionOnSet([k \in LegsAt(b) |-> ByHand(k, e[k])'], LegsAt(b))
      OBVIOUS
    <2>2. h \in Int /\ (leg[1] = b => y \in Int) /\ h2 = h + (IF leg[1] = b THEN y ELSE 0)
      BY <1>5, <1>13, <2>1
    <2>3. f2[b] - h2 = f[b] - h
      BY <1>12, <1>13, <2>1, <2>2
    <2>4. QED BY <2>1, <2>3
  <1>14. Ints(s, LegsAt(b)) /\ Ints(r, LegsAt(b))
    BY <1>2, <1>8
  <1>15. suspense'[b] - HandSum(b, SuspenseEffects(b))' = suspense[b] - HandSum(b, SuspenseEffects(b))
    <2>1. PICK x, f, f2 : x = ToSuspense(leg) /\ f = suspense /\ f2 = suspense'
      OBVIOUS
    <2>2. /\ f \in [Participant -> Int] /\ (leg[1] = b => s[leg] = x)
          /\ f2 = [f EXCEPT ![leg[1]] = @ + Flipped(leg) * x]
      BY <1>1, <1>2, <1>10, <2>1
    <2>3. f2[b] - SumFunctionOnSet([k \in LegsAt(b) |-> ByHand(k, s[k])'], LegsAt(b))
            = f[b] - HandSum(b, s)
      BY <1>13, <1>14, <2>2
    <2>4. QED BY <1>8, <1>9, <2>1, <2>3, Zenon
  <1>16. reserve'[b] - HandSum(b, ReserveEffects(b))' = reserve[b] - HandSum(b, ReserveEffects(b))
    <2>1. PICK x, f, f2 : x = ToReserve(leg) /\ f = reserve /\ f2 = reserve'
      OBVIOUS
    <2>2. /\ f \in [Participant -> Int] /\ (leg[1] = b => r[leg] = x)
          /\ f2 = [f EXCEPT ![leg[1]] = @ + Flipped(leg) * x]
      BY <1>1, <1>2, <1>10, <2>1
    <2>3. f2[b] - SumFunctionOnSet([k \in LegsAt(b) |-> ByHand(k, r[k])'], LegsAt(b))
            = f[b] - HandSum(b, r)
      BY <1>13, <1>14, <2>2
    <2>4. QED BY <1>8, <1>9, <2>1, <2>3, Zenon
  <1>17. QED BY <1>15, <1>16


LEMMA InitLedger == LedgerInit => LedgerInv
  <1> SUFFICES ASSUME LedgerInit PROVE LedgerInv
    OBVIOUS
  <1>1. posted = {} /\ reversals = << >>
    BY DEF LedgerInit, Init
  <1>2. QED BY <1>1, InitFunds DEF LedgerInit, LedgerInv, DebitsAtHome, ChainsTyped

LEMMA NextLedger == LedgerInv /\ [LedgerNext]_ledgerVars => LedgerInv'
  <1> SUFFICES ASSUME LedgerInv, [LedgerNext]_ledgerVars PROVE LedgerInv'
    OBVIOUS
  <1>1. FundsInv /\ DebitsAtHome /\ reversals \in [posted -> Nat]
    BY DEF LedgerInv, ChainsTyped
  <1>2. CASE CallNetwork
    <2>1. [Next]_vars /\ LegsGrow
      BY <1>1, <1>2, NextLegsGrow DEF CallNetwork
    <2>2. FundsInv'
      BY <1>1, <2>1, NextFunds
    <2>3. DebitsAtHome'
      <3> SUFFICES ASSUME NEW k \in posted', k[2] = "debit"
                   PROVE  k[1] = DebtorBank(payments'[k[3]])
        BY DEF DebitsAtHome, DebtorBank
      <3>1. CASE k \in posted
        <4>1. k[1] = DebtorBank(payments[k[3]]) /\ k[3] \in DOMAIN payments
          BY <1>1, <3>1 DEF DebitsAtHome, FundsInv, MoneyInv, LegsInv, LegsKnown, PaymentLegs
        <4>2. QED BY <2>1, <4>1 DEF LegsGrow, DebtorBank
      <3>2. CASE k \notin posted
        BY <2>1, <3>2 DEF LegsGrow
      <3>3. QED BY <3>1, <3>2
    <2>4. ChainsTyped'
      <3> DEFINE rejected == {n \in DOMAIN payments : /\ payments[n].status # "Rejected"
                                                      /\ payments'[n].status = "Rejected"}
                 chain(k) == IF k \notin DOMAIN reversals THEN 0
                             ELSE IF k \in {DebitLeg(n) : n \in rejected} THEN reversals[k] + 1
                             ELSE reversals[k]
      <3>1. reversals' = [k \in posted' |-> chain(k)]
        BY <1>2 DEF CallNetwork
      <3>2. \A k : chain(k) \in Nat
        BY <1>1
      <3> HIDE DEF chain
      <3>3. QED BY <3>1, <3>2 DEF ChainsTyped
    <2>5. QED BY <2>2, <2>3, <2>4 DEF LedgerInv
  <1>3. ASSUME NEW leg \in posted, ReverseByHand(leg) PROVE LedgerInv'
    <2>1. /\ suspense' = [suspense EXCEPT ![leg[1]] = @ + Flipped(leg) * ToSuspense(leg)]
          /\ reserve' = [reserve EXCEPT ![leg[1]] = @ + Flipped(leg) * ToReserve(leg)]
          /\ customer' = [a \in Account |-> customer[a] + Flipped(leg) * ToCustomer(leg, a)]
          /\ reversals' = [reversals EXCEPT ![leg] = @ + 1]
          /\ UNCHANGED <<status, cbReserve, cbAssets, posted, participants, mandates, cycles,
                         payments, openCycle, endToEndIndex>>
          /\ leg[1] # CentralBank
      BY <1>3 DEF ReverseByHand, network
    <2>2. Flipped(leg) \in Int
      BY DEF Flipped
    <2>3. leg[1] \in Participant
      BY <1>1, <2>1 DEF FundsInv, BooksTyped, Keys
    <2>4. ToSuspense(leg) \in Int /\ ToReserve(leg) \in Int
      <3>1. leg \in LegsAt(leg[1])
        BY DEF LegsAt
      <3>2. Ints(SuspenseEffects(leg[1]), LegsAt(leg[1])) /\ Ints(ReserveEffects(leg[1]), LegsAt(leg[1]))
        BY <1>1, <2>3, EffectsTyped
      <3>3. QED BY <3>1, <3>2 DEF Ints, SuspenseEffects, ReserveEffects
    <2>5. \A a \in Account : ToCustomer(leg, a) \in Int
      <3>1. CASE leg[2] \in PaymentLegs
        <4>1. leg[3] \in DOMAIN payments
          BY <1>1, <3>1 DEF FundsInv, MoneyInv, LegsInv, LegsKnown
        <4>2. PICK x \in Int : x = payments[leg[3]].amount
          BY <1>1, <4>1 DEF FundsInv, AmountsPositive
        <4>3. -x \in Int
          OBVIOUS
        <4>4. QED BY <4>2, <4>3 DEF ToCustomer
      <3>2. CASE leg[2] \notin PaymentLegs
        BY <3>2 DEF ToCustomer, PaymentLegs
      <3>3. QED BY <3>1, <3>2
    <2>6. \A x, y \in Int : x * y \in Int
      OBVIOUS
    <2>7. BooksTyped'
      <3>1. suspense' \in [Participant -> Int]
        <4>1. PICK x \in Int : x = Flipped(leg) * ToSuspense(leg)
          BY <2>2, <2>4, <2>6
        <4>2. QED BY <1>1, <2>1, <2>3, <4>1 DEF FundsInv, BooksTyped
      <3>2. reserve' \in [Participant -> Int]
        <4>1. PICK x \in Int : x = Flipped(leg) * ToReserve(leg)
          BY <2>2, <2>4, <2>6
        <4>2. QED BY <1>1, <2>1, <2>3, <4>1 DEF FundsInv, BooksTyped
      <3>3. customer' \in [Account -> Int]
        <4>1. \A a \in Account : Flipped(leg) * ToCustomer(leg, a) \in Int
          BY <2>2, <2>5, <2>6
        <4>2. \A a \in Account : customer[a] + Flipped(leg) * ToCustomer(leg, a) \in Int
          BY <1>1, <4>1 DEF FundsInv, BooksTyped
        <4>3. QED BY <2>1, <4>2
      <3>4. QED BY <1>1, <2>1, <3>1, <3>2, <3>3 DEF FundsInv, BooksTyped
    <2>8. MoneyInv'
      <3>1. LegsInv' /\ MandatesTyped'
        BY <1>1, <2>1 DEF FundsInv, MoneyInv, LegsInv, LegsKnown, LegsOf, Has, DebtorBank, MandatesTyped
      <3>2. Shape' /\ OpenCycleIndex'
        BY <1>1, <2>1 DEF FundsInv, MoneyInv, LifecycleInv, Shape, CycleList, OpenCycleIndex
      <3>3. PaymentsFollowCycle'
        BY <1>1, <2>1 DEF FundsInv, MoneyInv, LifecycleInv, PaymentsFollowCycle, Members
      <3>4. EndToEndOnce'
        BY <1>1, <2>1 DEF FundsInv, MoneyInv, LifecycleInv, EndToEndOnce
      <3>5. QED BY <3>1, <3>2, <3>3, <3>4 DEF MoneyInv, LifecycleInv
    <2>9. /\ NetsTyped' /\ AmountsPositive' /\ NoneInitiated' /\ ControlTyped' /\ SettleKeysInv'
          /\ ClosedNets' /\ NetsSumToZero'
      BY <1>1, <2>1 DEF FundsInv, NetsTyped, AmountsPositive, NoneInitiated, ControlTyped,
         SettleKeysInv, Netted, ClosedNets, NetPosition, Total, Members, NetsSumToZero
    <2>10. DebitsAtHome' /\ ChainsTyped'
      BY <1>1, <2>1 DEF DebitsAtHome, ChainsTyped
    <2>11. QED BY <2>7, <2>8, <2>9, <2>10 DEF LedgerInv, FundsInv
  <1>4. CASE UNCHANGED ledgerVars
    <2>1. UNCHANGED vars /\ reversals' = reversals /\ posted' = posted /\ payments' = payments
      BY <1>4 DEF ledgerVars, vars, books, network
    <2>2. FundsInv'
      BY <1>1, <2>1, NextFunds
    <2>3. QED BY <1>1, <2>1, <2>2 DEF LedgerInv, DebitsAtHome, ChainsTyped
  <1>5. QED BY <1>2, <1>3, <1>4 DEF LedgerNext

LEMMA LedgerInvariant == LedgerSpec => []LedgerInv
  BY InitLedger, NextLedger, PTL DEF LedgerSpec


(* PaymentLedger's two claims in terms of Payment's. *)
SuspenseShifted == \A b \in Participant : Explained(b, HandSum(b, SuspenseEffects(b)))
ReserveShifted == \A b \in Participant : Mirrors(b, HandSum(b, ReserveEffects(b)))

LEMMA TracedIs ==
  LedgerInv =>
    (SuspenseTraced <=> SuspenseShifted) /\ (ReserveTraced <=> ReserveShifted)
  <1> SUFFICES ASSUME LedgerInv
               PROVE  (SuspenseTraced <=> SuspenseShifted) /\ (ReserveTraced <=> ReserveShifted)
    OBVIOUS
  <1>1. \A b : /\ Mirrored(cycles, posted, b)
                     = {c \in DOMAIN cycles : Halted(c) /\ ~Unused(b, "reserve", c)}
               /\ Unmirrored(cycles, posted, b)
                     = {c \in DOMAIN cycles : Halted(c) /\ Unused(b, "reserve", c)}
    BY DEF Mirrored, Unmirrored, HaltedIn, Halted, Unused
  <1>2. \A b : RefundedIn(payments, posted, b)
                 = {n \in DOMAIN payments : /\ DebtorBank(payments[n]) = b
                                            /\ ~Unused(b, "return-debit", n)
                                            /\ payments[n].status # "Returned"}
    BY DEF RefundedIn, Unused
  <1>3. \A b : /\ InFlight(b) = Worth(payments, OnTheWay(payments, b))
               /\ \A S : Total(S) = Worth(payments, S)
               /\ \A S : SumOver([c \in DOMAIN cycles |-> cycles[c].net[b]], S) = NetSum(cycles, b, S)
    BY DEF InFlight, Total, Worth, OnTheWay, SumOver, NetSum
  <1>4. \A b \in Participant :
          /\ MovedByHand(b, ToSuspense) = HandSum(b, SuspenseEffects(b))
          /\ MovedByHand(b, ToReserve) = HandSum(b, ReserveEffects(b))
    BY HandSums
  <1>5. SuspenseTraced <=> SuspenseShifted
    BY <1>1, <1>3, <1>4 DEF SuspenseTraced, SuspenseShifted, Explained
  <1>6. ReserveTraced <=> ReserveShifted
    BY <1>1, <1>2, <1>3, <1>4 DEF ReserveTraced, ReserveShifted, Mirrors
  <1>7. QED BY <1>5, <1>6

(* Nothing is moved by hand before the first leg. *)
LEMMA InitTraced ==
  ASSUME LedgerInit
  PROVE  SuspenseTraced /\ ReserveTraced
  <1>1. Init /\ LedgerInv /\ posted = {} /\ DOMAIN payments = {} /\ DOMAIN cycles = {}
    BY InitLedger DEF LedgerInit, Init
  <1> SUFFICES ASSUME NEW b \in Participant
               PROVE  /\ Explained(b, HandSum(b, SuspenseEffects(b)))
                      /\ Mirrors(b, HandSum(b, ReserveEffects(b)))
    BY <1>1, TracedIs DEF SuspenseShifted, ReserveShifted
  <1>2. \A f : HandSum(b, f) = 0
    <2>1. LegsAt(b) = {}
      BY <1>1 DEF LegsAt
    <2>2. QED BY <2>1, SumNone DEF HandSum
  <1>3. suspense[b] = 0 /\ reserve[b] = 0 /\ cbReserve[b] = 0
    BY <1>1 DEF Init
  <1>4. /\ OnTheWay(payments, b) = {} /\ RefundedIn(payments, posted, b) = {}
        /\ Mirrored(cycles, posted, b) = {} /\ Unmirrored(cycles, posted, b) = {}
    BY <1>1 DEF OnTheWay, RefundedIn, Mirrored, Unmirrored, HaltedIn
  <1>5. Worth(payments, {}) = 0 /\ NetSum(cycles, b, {}) = 0
    BY WorthOfNone, SumNone DEF NetSum
  <1>6. QED BY <1>2, <1>3, <1>4, <1>5 DEF Explained, Mirrors

LEMMA NextTraced ==
  ASSUME LedgerInv, LedgerInv', [LedgerNext]_ledgerVars, NEW b \in Participant
  PROVE  /\ Explained(b, HandSum(b, SuspenseEffects(b))) => Explained(b, HandSum(b, SuspenseEffects(b)))'
         /\ Mirrors(b, HandSum(b, ReserveEffects(b))) => Mirrors(b, HandSum(b, ReserveEffects(b)))'
  <1>1. CASE CallNetwork
    <2>1. PICK s, r : s = HandSum(b, SuspenseEffects(b)) /\ r = HandSum(b, ReserveEffects(b))
      OBVIOUS
    <2>2. s = HandSum(b, SuspenseEffects(b))' /\ r = HandSum(b, ReserveEffects(b))'
      BY <1>1, <2>1, NextHandSums
    <2>3. s \in Int /\ r \in Int /\ FundsInv /\ [Next]_vars
      <3>1. FundsInv /\ [Next]_vars
        BY <1>1 DEF LedgerInv, CallNetwork
      <3>2. ASSUME NEW e, Ints(e, LegsAt(b)) PROVE HandSum(b, e) \in Int
        <4> DEFINE f == [k \in LegsAt(b) |-> ByHand(k, e[k])]
        <4>1. Ints(f, LegsAt(b)) /\ IsFiniteSet(LegsAt(b))
          BY <3>1, <3>2, LegsFinite DEF Ints, ByHand, BooksFinite
        <4>2. HandSum(b, e) = SumFunctionOnSet(f, LegsAt(b))
          BY DEF HandSum
        <4> HIDE DEF f
        <4>3. QED BY <4>1, <4>2, SumType
      <3>3. QED BY <2>1, <3>1, <3>2, EffectsTyped
    <2>4. Explained(b, s) => Explained(b, s)'
      BY <2>3, NextSuspense
    <2>5. Mirrors(b, r) => Mirrors(b, r)'
      BY <2>3, NextMirror
    <2>6. /\ Explained(b, s)' <=> Explained(b, HandSum(b, SuspenseEffects(b)))'
          /\ Mirrors(b, r)' <=> Mirrors(b, HandSum(b, ReserveEffects(b)))'
      BY <2>2 DEF Explained, Mirrors
    <2>7. QED BY <2>1, <2>4, <2>5, <2>6
  <1>2. ASSUME NEW leg \in posted, ReverseByHand(leg)
        PROVE  /\ Explained(b, HandSum(b, SuspenseEffects(b))) => Explained(b, HandSum(b, SuspenseEffects(b)))'
               /\ Mirrors(b, HandSum(b, ReserveEffects(b))) => Mirrors(b, HandSum(b, ReserveEffects(b)))'
    <2>1. /\ suspense'[b] - HandSum(b, SuspenseEffects(b))' = suspense[b] - HandSum(b, SuspenseEffects(b))
          /\ reserve'[b] - HandSum(b, ReserveEffects(b))' = reserve[b] - HandSum(b, ReserveEffects(b))
      BY <1>2, ReversalMoves
    <2>2. payments' = payments /\ cycles' = cycles /\ posted' = posted /\ cbReserve' = cbReserve
      BY <1>2 DEF ReverseByHand, network
    <2>3. /\ Worth(payments', OnTheWay(payments', b)) = Worth(payments, OnTheWay(payments, b))
          /\ Mirrored(cycles', posted', b) = Mirrored(cycles, posted, b)
          /\ Unmirrored(cycles', posted', b) = Unmirrored(cycles, posted, b)
          /\ RefundedIn(payments', posted', b) = RefundedIn(payments, posted, b)
      BY <2>2
    <2>4. Explained(b, HandSum(b, SuspenseEffects(b))) => Explained(b, HandSum(b, SuspenseEffects(b)))'
      BY <2>1, <2>2, <2>3 DEF Explained
    <2>5. Mirrors(b, HandSum(b, ReserveEffects(b))) => Mirrors(b, HandSum(b, ReserveEffects(b)))'
      BY <2>1, <2>2, <2>3 DEF Mirrors
    <2>6. QED BY <2>4, <2>5
  <1>3. CASE UNCHANGED ledgerVars
    <2>1. UNCHANGED <<suspense, reserve, cbReserve, payments, cycles, posted, reversals>>
      BY <1>3 DEF ledgerVars, vars, books, network
    <2>2. LegsAt(b)' = LegsAt(b)
      BY <2>1 DEF LegsAt
    <2>3. SuspenseEffects(b)' = SuspenseEffects(b) /\ ReserveEffects(b)' = ReserveEffects(b)
      BY <2>1, <2>2 DEF SuspenseEffects, ReserveEffects, ToSuspense, ToReserve
    <2>4. /\ HandSum(b, SuspenseEffects(b))' = HandSum(b, SuspenseEffects(b))
          /\ HandSum(b, ReserveEffects(b))' = HandSum(b, ReserveEffects(b))
      BY <2>1, <2>2, <2>3, Zenon DEF HandSum, ByHand, TakenForInForce, InForce
    <2>5. QED BY <2>1, <2>4 DEF Explained, Mirrors
  <1>4. QED BY <1>1, <1>2, <1>3 DEF LedgerNext

(* Reversals by hand, in any order with rejections, settlements that stop   *)
(* half way and returns, shift a bank's suspense by exactly the legs whose  *)
(* chain contradicts the network's records: none is undone both by hand     *)
(* and by the network, and none for nothing (system.go:554-558,             *)
(* service.go:495).                                                         *)
THEOREM SuspenseTracedAlways == LedgerSpec => []SuspenseTraced
  <1>1. LedgerInv /\ LedgerInv' /\ SuspenseShifted /\ [LedgerNext]_ledgerVars => SuspenseShifted'
    BY NextTraced DEF SuspenseShifted
  <1>2. LedgerInv => (SuspenseTraced <=> SuspenseShifted)
    BY TracedIs
  <1>3. LedgerInit => SuspenseTraced
    BY InitTraced
  <1>4. QED BY LedgerInvariant, <1>1, <1>2, <1>3, PTL DEF LedgerSpec

(* And likewise how far its record of its reserve is from the central       *)
(* bank's.                                                                  *)
THEOREM ReserveTracedAlways == LedgerSpec => []ReserveTraced
  <1>1. LedgerInv /\ LedgerInv' /\ ReserveShifted /\ [LedgerNext]_ledgerVars => ReserveShifted'
    BY NextTraced DEF ReserveShifted
  <1>2. LedgerInv => (ReserveTraced <=> ReserveShifted)
    BY TracedIs
  <1>3. LedgerInit => ReserveTraced
    BY InitTraced
  <1>4. QED BY LedgerInvariant, <1>1, <1>2, <1>3, PTL DEF LedgerSpec
=============================================================================
