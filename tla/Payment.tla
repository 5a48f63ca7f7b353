------------------------------ MODULE Payment -------------------------------
(***************************************************************************)
(* The interbank payment network: package payment, type Network            *)
(* (src/payment/system.go).                                                *)
(*                                                                         *)
(* A payment leaves its debtor for the debtor bank's clearing suspense     *)
(* when it is initiated, waits in the open cycle of its scheme, is netted  *)
(* when the cycle closes and reaches its creditor when the cycle settles.  *)
(* The network's mutex covers each of its methods, so a method is one      *)
(* action -- but a method posts to several books one after the other, and  *)
(* an error half way returns with the earlier postings in place: such a    *)
(* method has a second action for the run that fails.                      *)
(*                                                                         *)
(* A bank's book is its account balances, as module Journal promises, and  *)
(* the idempotency keys posted under.  The deposit layer appears as each   *)
(* customer account's status and overdraft limit.                          *)
(***************************************************************************)
EXTENDS Integers, Sequences, FiniteSets, Functions

CONSTANTS
  Participant,      \* the banks
  CentralBank,      \* the book that is no bank's
  Account,          \* customer deposit accounts
  BankOf,           \* the bank an account is opened at
  Limit,            \* the overdraft limit an account is opened with
  Scheme,           \* the registered schemes
  Sum,              \* amounts clients name
  MandateMax,       \* MaxAmounts clients give a mandate
  EndToEnd,         \* client references
  NoEndToEnd,       \* "", no reference given
  Managed,          \* accounts whose status the operators change
  Returnable,       \* positions of the payments operators ask to return
  MaxFunds, MaxPayments, MaxCycles, MaxMandates  \* bounds of a behaviour

VARIABLES
  participants,     \* the banks added
  status,           \* deposit account -> its status, "None" before it is opened
  customer,         \* deposit account -> balance of its Liability GL account
  suspense,         \* bank -> its Clearing Suspense (Liability)
  reserve,          \* bank -> its Reserve at Central Bank (Asset)
  cbReserve,        \* bank -> its reserve account at the central bank (Liability)
  cbAssets,         \* the central bank's Settlement Assets (Asset)
  posted,           \* idempotency keys used: <<book, leg, cycle or payment>>
  mandates, cycles, payments,  \* in the order of their IDs
  openCycle,        \* scheme -> its open cycle, 0 when there is none
  endToEndIndex     \* client references taken

deposits == <<status, customer>>
books == <<suspense, reserve, cbReserve, cbAssets, posted>>
network == <<participants, mandates, cycles, payments, openCycle, endToEndIndex>>
vars == <<deposits, books, network>>

PaymentStatus == {"Initiated", "Accepted", "Cleared", "Settled", "Rejected", "Returned"}
AccountStatus == {"None", "Active", "Frozen", "Dormant", "Closed"}

ASSUME AccountAssumption ==
  /\ IsFiniteSet(Participant) /\ IsFiniteSet(Account)
  /\ CentralBank \notin Participant
  /\ BankOf \in [Account -> Participant] /\ Limit \in [Account -> Int]
  /\ Managed \subseteq Account

ASSUME SchemeAssumption == Scheme \subseteq {"sepa.ct", "sepa.dd"}

ASSUME InputAssumption ==
  /\ Sum \subseteq Int /\ MandateMax \subseteq Int /\ Returnable \subseteq Nat
  /\ NoEndToEnd \notin EndToEnd

ASSUME BoundAssumption ==
  MaxFunds \in Nat /\ MaxPayments \in Nat /\ MaxCycles \in Nat /\ MaxMandates \in Nat
-----------------------------------------------------------------------------
(* The banks of a payment's two parties. *)
DebtorBank(p) == BankOf[p.debtor]
CreditorBank(p) == BankOf[p.creditor]

Members(c) == cycles[c].payments

(* The total amount of the payments in a set of payment positions. *)
Total(S) == SumFunctionOnSet([n \in S |-> payments[n].amount], S)

(* checkParty: the account is open at its bank. *)
KnownParty(a) == status[a] # "None"

(* Fault: the status alone decides. *)
CheckStatusOnly(a, amount) == status[a] = "Active"

(* Register.CheckWithdrawal, the account having no holds. *)
CheckWithdrawal(a, amount) ==
  status[a] = "Active" /\ customer[a] + Limit[a] - amount >= 0

(* Book.checkSufficientBalance for a movement of the reserve, an Asset.     *)
(* Faults: no check; the last unit kept back.                              *)
ReserveUnchecked(b, balance, delta) == TRUE
ReserveKeepsOne(b, balance, delta) == delta < 0 => balance[b] + delta > 0
ReserveCovers(b, balance, delta) == delta < 0 => balance[b] + delta >= 0

(* The payment state machine of Network.transition. *)
Transition(from, to) ==
  <<from, to>> \in {<<"Initiated", "Accepted">>, <<"Initiated", "Rejected">>,
                    <<"Accepted", "Cleared">>, <<"Accepted", "Rejected">>,
                    <<"Cleared", "Settled">>, <<"Settled", "Returned">>}

(* scheme.Validate: the mandate of a direct debit, then the funds.  Of the *)
(* parties' PartyRefs, which must be those of the mandate, the IBAN, a     *)
(* free-form label, is left out: another label is refused like another     *)
(* account.                                                                *)
MandateAllows(m, debtor, creditor, amount) ==
  /\ m \in DOMAIN mandates
  /\ mandates[m].status # "Revoked"
  /\ mandates[m].debtor = debtor /\ mandates[m].creditor = creditor
  /\ mandates[m].max > 0 => amount <= mandates[m].max

Validate(scheme, m, debtor, creditor, amount) ==
  /\ scheme = "sepa.dd" => MandateAllows(m, debtor, creditor, amount)
  /\ CheckWithdrawal(debtor, amount)

(* Fault: a reference is free again once its payment was rejected. *)
ReferenceUnused(e) ==
  \A n \in DOMAIN payments : payments[n].endToEnd = e => payments[n].status = "Rejected"
ReferenceFree(e) == e = NoEndToEnd \/ e \notin endToEndIndex

(* Fault: a payment between two accounts of one bank counted on one side. *)
NetOneSided(S, b) ==
  Total({n \in S : CreditorBank(payments[n]) = b /\ DebtorBank(payments[n]) # b})
    - Total({n \in S : DebtorBank(payments[n]) = b})

(* What bank b is owed, less what it owes, over the payments of S. *)
NetPosition(S, b) ==
  Total({n \in S : CreditorBank(payments[n]) = b})
    - Total({n \in S : DebtorBank(payments[n]) = b})

(* The banks with something to settle in cycle c. *)
Netted(c) == {b \in Participant : cycles[c].net[b] # 0}

(* Fault: the payment rejected stays in its cycle. *)
KeepInCycle(c, n) == Members(c)
RemoveFromCycle(c, n) == Members(c) \ {n}

Unused(book, leg, n) == <<book, leg, n>> \notin posted
-----------------------------------------------------------------------------
Init ==
  /\ participants = {}
  /\ status = [a \in Account |-> "None"]
  /\ customer = [a \in Account |-> 0]
  /\ suspense = [b \in Participant |-> 0]
  /\ reserve = [b \in Participant |-> 0]
  /\ cbReserve = [b \in Participant |-> 0]
  /\ cbAssets = 0
  /\ posted = {}
  /\ mandates = << >>
  /\ cycles = << >>
  /\ payments = << >>
  /\ openCycle = [s \in Scheme |-> 0]
  /\ endToEndIndex = {}

AddParticipant(b) ==
  /\ b \notin participants
  /\ participants' = participants \cup {b}
  /\ UNCHANGED <<deposits, books, mandates, cycles, payments, openCycle, endToEndIndex>>

OpenAccount(a) ==
  /\ BankOf[a] \in participants
  /\ status[a] = "None"
  /\ status' = [status EXCEPT ![a] = "Active"]
  /\ UNCHANGED <<customer, books, network>>

(* The edges of the account lifecycle, Close apart. *)
StatusEdge ==
  {<<"Active", "Frozen">>, <<"Frozen", "Active">>, <<"Active", "Dormant">>, <<"Dormant", "Active">>}

ChangeStatus(a, to) ==
  /\ <<status[a], to>> \in StatusEdge
  /\ status' = [status EXCEPT ![a] = to]
  /\ UNCHANGED <<customer, books, network>>

Close(a) ==
  /\ status[a] \notin {"None", "Closed"}
  /\ customer[a] = 0
  /\ status' = [status EXCEPT ![a] = "Closed"]
  /\ UNCHANGED <<customer, books, network>>

(* Cash paid in; the account's status is not looked at. *)
Deposit(a, amount) ==
  /\ amount > 0
  /\ cbAssets + amount <= MaxFunds
  /\ KnownParty(a)
  /\ reserve' = [reserve EXCEPT ![BankOf[a]] = @ + amount]
  /\ customer' = [customer EXCEPT ![a] = @ + amount]
  /\ cbAssets' = cbAssets + amount
  /\ cbReserve' = [cbReserve EXCEPT ![BankOf[a]] = @ + amount]
  /\ UNCHANGED <<status, suspense, posted, network>>

CreateMandate(debtor, creditor, max) ==
  /\ Len(mandates) < MaxMandates
  /\ KnownParty(debtor) /\ KnownParty(creditor)
  /\ mandates' = Append(mandates,
       [debtor |-> debtor, creditor |-> creditor, max |-> max, status |-> "Active"])
  /\ UNCHANGED <<deposits, books, participants, cycles, payments, openCycle, endToEndIndex>>

RevokeMandate(m) ==
  /\ mandates' = [mandates EXCEPT ![m].status = "Revoked"]
  /\ UNCHANGED <<deposits, books, participants, cycles, payments, openCycle, endToEndIndex>>

OpenCycle(scheme) ==
  /\ Len(cycles) < MaxCycles
  /\ openCycle[scheme] = 0
  /\ cycles' = Append(cycles, [scheme |-> scheme, status |-> "Open", payments |-> {},
                               net |-> [b \in Participant |-> 0]])
  /\ openCycle' = [openCycle EXCEPT ![scheme] = Len(cycles) + 1]
  /\ UNCHANGED <<deposits, books, participants, mandates, payments, endToEndIndex>>

(* Marks the payments in S with status `to`. *)
Mark(S, to) ==
  [n \in DOMAIN payments |-> IF n \in S THEN [payments[n] EXCEPT !.status = to] ELSE payments[n]]

CloseCycle(c) ==
  /\ cycles[c].status = "Open"
  /\ \A n \in Members(c) : Transition(payments[n].status, "Cleared")
  /\ payments' = Mark(Members(c), "Cleared")
  /\ cycles' = [cycles EXCEPT ![c].status = "Closed",
                              ![c].net = [b \in Participant |-> NetPosition(Members(c), b)]]
  /\ openCycle' = [openCycle EXCEPT ![cycles[c].scheme] = 0]
  /\ UNCHANGED <<deposits, books, participants, mandates, endToEndIndex>>
-----------------------------------------------------------------------------
(* Fault: the central bank credits the receivers and forgets the payers. *)
CreditReceivers(c) ==
  [b \in Participant |-> cbReserve[b] + (IF cycles[c].net[b] > 0 THEN cycles[c].net[b] ELSE 0)]

(* The netted reserves moved at the central bank. *)
MoveReserves(c) == [b \in Participant |-> cbReserve[b] + cycles[c].net[b]]

(* Bank b's own reserve can follow: its key is new and the book accepts. *)
CanMirror(c, b) ==
  /\ Unused(b, "reserve", c)
  /\ ReserveCovers(b, reserve, cycles[c].net[b])

(* A bank's reserve, and its suspense, follow the net position by posting   *)
(* one against the other.  Fault: the suspense moves the other way.        *)
MirrorAway(balance, c, S) ==
  [b \in Participant |-> IF b \in S THEN balance[b] - cycles[c].net[b] ELSE balance[b]]
Mirror(balance, c, S) ==
  [b \in Participant |-> IF b \in S THEN balance[b] + cycles[c].net[b] ELSE balance[b]]
MirrorSuspense(balance, c, S) == Mirror(balance, c, S)

(* The payments of c that bank b releases from suspense, and those that     *)
(* reach account a.  Fault: only payments from other banks reach it.       *)
ReleasedBy(c, b) == Total({n \in Members(c) : CreditorBank(payments[n]) = b})
CreditedFromAbroad(c, a) ==
  Total({n \in Members(c) : payments[n].creditor = a /\ DebtorBank(payments[n]) # BankOf[a]})
CreditedTo(c, a) == Total({n \in Members(c) : payments[n].creditor = a})

SettleKeys(c, S) ==
  (IF Netted(c) = {} THEN {} ELSE {<<CentralBank, "settle", c>>})
    \cup {<<b, "reserve", c>> : b \in S}

(* SettleCycle gets past its first posting. *)
CanSettle(c) ==
  /\ cycles[c].status = "Closed"
  /\ Netted(c) # {} => Unused(CentralBank, "settle", c)

(* Every bank mirrors; then every payee is paid. *)
SettleInFull(c) ==
  /\ CanSettle(c)
  /\ \A b \in Netted(c) : CanMirror(c, b)
  /\ \A n \in Members(c) : Transition(payments[n].status, "Settled")
  /\ cbReserve' = MoveReserves(c)
  /\ reserve' = Mirror(reserve, c, Netted(c))
  /\ suspense' = [b \in Participant |->
                   MirrorSuspense(suspense, c, Netted(c))[b] - ReleasedBy(c, b)]
  /\ customer' = [a \in Account |-> customer[a] + CreditedTo(c, a)]
  /\ posted' = posted \cup SettleKeys(c, Netted(c))
                 \cup {<<CreditorBank(payments[n]), "credit", n>> : n \in Members(c)}
  /\ payments' = Mark(Members(c), "Settled")
  /\ cycles' = [cycles EXCEPT ![c].status = "Settled"]
  /\ UNCHANGED <<status, cbAssets, participants, mandates, openCycle, endToEndIndex>>

(* Some bank's reserve cannot follow: the run stops there, after the        *)
(* central bank has settled and any of the other banks has mirrored, the    *)
(* map of net positions being walked in no particular order.                *)
SettlePartly(c) ==
  /\ CanSettle(c)
  /\ \E b \in Netted(c) : ~CanMirror(c, b)
  /\ \E done \in SUBSET {b \in Netted(c) : CanMirror(c, b)} :
       /\ reserve' = Mirror(reserve, c, done)
       /\ suspense' = MirrorSuspense(suspense, c, done)
       /\ posted' = posted \cup SettleKeys(c, done)
  /\ cbReserve' = MoveReserves(c)
  /\ UNCHANGED <<deposits, cbAssets, network>>

SettleCycle(c) == SettleInFull(c) \/ SettlePartly(c)
-----------------------------------------------------------------------------
InitiatePayment(scheme, debtor, creditor, amount, mandate, endToEnd) ==
  LET n == Len(payments) + 1
      c == openCycle[scheme]
  IN  /\ n <= MaxPayments
      /\ amount > 0
      /\ KnownParty(debtor) /\ KnownParty(creditor)
      /\ ReferenceFree(endToEnd)
      /\ c # 0
      /\ Validate(scheme, mandate, debtor, creditor, amount)
      /\ customer' = [customer EXCEPT ![debtor] = @ - amount]
      /\ suspense' = [suspense EXCEPT ![BankOf[debtor]] = @ + amount]
      /\ posted' = posted \cup {<<BankOf[debtor], "debit", n>>}
      /\ payments' = Append(payments,
           [scheme |-> scheme, debtor |-> debtor, creditor |-> creditor, amount |-> amount,
            mandate |-> mandate, endToEnd |-> endToEnd, status |-> "Accepted", cycle |-> c])
      /\ cycles' = [cycles EXCEPT ![c].payments = @ \cup {n}]
      /\ endToEndIndex' = endToEndIndex \cup ({endToEnd} \ {NoEndToEnd})
      /\ UNCHANGED <<status, reserve, cbReserve, cbAssets, participants, mandates, openCycle>>

RejectPayment(n) ==
  LET p == payments[n]
  IN  /\ p.status \in {"Initiated", "Accepted"}
      /\ customer' = [customer EXCEPT ![p.debtor] = @ + p.amount]
      /\ suspense' = [suspense EXCEPT ![DebtorBank(p)] = @ - p.amount]
      /\ cycles' = [cycles EXCEPT ![p.cycle].payments = RemoveFromCycle(p.cycle, n)]
      /\ payments' = Mark({n}, "Rejected")
      /\ UNCHANGED <<status, reserve, cbReserve, cbAssets, posted,
                     participants, mandates, openCycle, endToEndIndex>>

(* The debtor's bank takes p.amount back into its reserve for the payer. *)
Refund(p) == [reserve EXCEPT ![DebtorBank(p)] = @ + p.amount]

(* Fault: a payment not yet settled may be returned. *)
CanReturnEarly(n) ==
  payments[n].status \in {"Cleared", "Settled"} /\ Unused(DebtorBank(payments[n]), "return-debit", n)

(* The guards of ReturnPayment and its first posting; both schemes allow    *)
(* returns.                                                                 *)
CanReturn(n) ==
  payments[n].status = "Settled" /\ Unused(DebtorBank(payments[n]), "return-debit", n)

(* Nothing asks whether the payee still has the money. *)
ReturnInFull(n) ==
  LET p == payments[n]
  IN  /\ CanReturn(n)
      /\ ReserveCovers(CreditorBank(p), Refund(p), -p.amount)
      /\ reserve' = [Refund(p) EXCEPT ![CreditorBank(p)] = @ - p.amount]
      /\ customer' = [[customer EXCEPT ![p.debtor] = @ + p.amount]
                        EXCEPT ![p.creditor] = @ - p.amount]
      /\ cbReserve' = [[cbReserve EXCEPT ![CreditorBank(p)] = @ - p.amount]
                         EXCEPT ![DebtorBank(p)] = @ + p.amount]
      /\ posted' = posted \cup {<<DebtorBank(p), "return-debit", n>>,
                                <<CreditorBank(p), "return-credit", n>>,
                                <<CentralBank, "return-settle", n>>}
      /\ payments' = Mark({n}, "Returned")
      /\ UNCHANGED <<status, suspense, cbAssets, participants, mandates, cycles, openCycle,
                     endToEndIndex>>

(* The creditor's bank lacks the reserves: the payer keeps the refund. *)
ReturnPartly(n) ==
  LET p == payments[n]
  IN  /\ CanReturn(n)
      /\ ~ReserveCovers(CreditorBank(p), Refund(p), -p.amount)
      /\ reserve' = Refund(p)
      /\ customer' = [customer EXCEPT ![p.debtor] = @ + p.amount]
      /\ posted' = posted \cup {<<DebtorBank(p), "return-debit", n>>}
      /\ UNCHANGED <<status, suspense, cbReserve, cbAssets, network>>

ReturnPayment(n) == ReturnInFull(n) \/ ReturnPartly(n)
-----------------------------------------------------------------------------
(* A direct debit names a mandate, 0 standing for none; a credit transfer   *)
(* carries the field unread.                                                *)
MandateChoice(scheme) == IF scheme = "sepa.dd" THEN 0 .. Len(mandates) ELSE {0}

Next ==
  \/ \E b \in Participant : AddParticipant(b)
  \/ \E a \in Account : OpenAccount(a)
  \/ \E a \in Managed, to \in AccountStatus : ChangeStatus(a, to)
  \/ \E a \in Managed : Close(a)
  \/ \E a \in Account, amount \in Sum : Deposit(a, amount)
  \/ \E debtor, creditor \in Account, max \in MandateMax : CreateMandate(debtor, creditor, max)
  \/ \E m \in DOMAIN mandates : RevokeMandate(m)
  \/ \E scheme \in Scheme : OpenCycle(scheme)
  \/ \E c \in DOMAIN cycles : CloseCycle(c)
  \/ \E c \in DOMAIN cycles : SettleCycle(c)
  \/ \E scheme \in Scheme, debtor, creditor \in Account, amount \in Sum,
        endToEnd \in EndToEnd \cup {NoEndToEnd} :
       \E mandate \in MandateChoice(scheme) :
         InitiatePayment(scheme, debtor, creditor, amount, mandate, endToEnd)
  \/ \E n \in DOMAIN payments : RejectPayment(n)
  \/ \E n \in DOMAIN payments \cap Returnable : ReturnPayment(n)

Spec == Init /\ [][Next]_vars

(* The operator of a cycle calls SettleCycle again and again until it       *)
(* succeeds; nothing else is ever called for certain.                       *)
SettleWhenClosed(c) == c \in DOMAIN cycles /\ SettleCycle(c)

FairSpec == Spec /\ \A c \in 1 .. MaxCycles : WF_vars(SettleWhenClosed(c))
-----------------------------------------------------------------------------
(* The part of the type invariant about the network's own records. *)
ControlTypeOK ==
  /\ participants \subseteq Participant
  /\ status \in [Account -> AccountStatus]
  /\ \A a \in Account : status[a] # "None" => BankOf[a] \in participants
  /\ mandates \in Seq([debtor: Account, creditor: Account, max: MandateMax,
                       status: {"Active", "Revoked"}])
  /\ payments \in Seq([scheme: Scheme, debtor: Account, creditor: Account, amount: Sum,
                       mandate: Nat, endToEnd: EndToEnd \cup {NoEndToEnd},
                       status: PaymentStatus, cycle: Nat])
  /\ openCycle \in [Scheme -> Nat]
  /\ endToEndIndex \subseteq EndToEnd

(* Types.  A bank's reserve is an Asset, which its book never lets go below *)
(* zero (service.go:410-437).                                               *)
TypeOK ==
  /\ ControlTypeOK
  /\ customer \in [Account -> Int] /\ suspense \in [Participant -> Int]
  /\ reserve \in [Participant -> Nat]
  /\ cbReserve \in [Participant -> Int] /\ cbAssets \in Nat
  /\ posted \subseteq (Participant \cup {CentralBank})
       \X {"debit", "credit", "settle", "reserve", "return-debit", "return-credit", "return-settle"}
       \X Nat
  /\ cycles \in Seq([scheme: Scheme, status: {"Open", "Closed", "Settled"},
                     payments: SUBSET (DOMAIN payments), net: [Participant -> Int]])

(* The open-cycle index names exactly the open cycles, one per scheme       *)
(* (system.go:261-315).                                                     *)
OpenCycleIndex ==
  /\ \A s \in Scheme : openCycle[s] # 0 =>
       /\ openCycle[s] \in DOMAIN cycles
       /\ cycles[openCycle[s]].status = "Open" /\ cycles[openCycle[s]].scheme = s
  /\ \A c \in DOMAIN cycles : cycles[c].status = "Open" => openCycle[cycles[c].scheme] = c

(* The cycle status each payment status goes with. *)
CycleStatusFor(paymentStatus) ==
  CASE paymentStatus = "Accepted" -> "Open"
    [] paymentStatus = "Cleared" -> "Closed"
    [] OTHER -> "Settled"

(* A cycle lists the payments submitted to it but for those rejected, once  *)
(* each, and a payment's status follows its cycle's: so the transitions     *)
(* that CloseCycle and SettleCycle attempt one by one are never refused     *)
(* half way (system.go:299-309, 391-417, 697-711).                          *)
PaymentsFollowCycle ==
  /\ \A c \in DOMAIN cycles : Members(c) \subseteq DOMAIN payments
  /\ \A n \in DOMAIN payments :
       LET p == payments[n]
       IN  /\ p.cycle \in DOMAIN cycles
           /\ \A c \in DOMAIN cycles :
                n \in Members(c) <=> (c = p.cycle /\ p.status # "Rejected")
           /\ cycles[p.cycle].scheme = p.scheme
           /\ p.status # "Rejected" => cycles[p.cycle].status = CycleStatusFor(p.status)

CycleAgreement == OpenCycleIndex /\ PaymentsFollowCycle

(* The legs a payment has posted, under their idempotency keys, are the     *)
(* ones its status claims: every payment was debited; exactly the settled   *)
(* ones were credited; a returned one went back through all three books     *)
(* (system.go:498-521, 391-417, 595-636).                                   *)
LegsAgree ==
  \A n \in DOMAIN payments :
    LET p == payments[n]
        Leg(leg) == \E b \in Participant \cup {CentralBank} : ~Unused(b, leg, n)
    IN  /\ ~Unused(DebtorBank(p), "debit", n)
        /\ Leg("credit") <=> p.status \in {"Settled", "Returned"}
        /\ p.status = "Returned" <=> Leg("return-settle")
        /\ Leg("return-settle") <=> Leg("return-credit")
        /\ Leg("return-credit") => Leg("return-debit")

(* A client reference names one payment for ever, rejected or not, and the  *)
(* index knows exactly those in use (system.go:469-473, 534-536).           *)
EndToEndOnce ==
  /\ {payments[n].endToEnd : n \in DOMAIN payments} \ {NoEndToEnd} = endToEndIndex
  /\ \A n1, n2 \in DOMAIN payments :
       payments[n1].endToEnd = payments[n2].endToEnd /\ payments[n1].endToEnd # NoEndToEnd
         => n1 = n2
-----------------------------------------------------------------------------
SumOver(f, S) == SumFunctionOnSet(f, S)

AccountsAt(b) == {a \in Account : BankOf[a] = b}

(* The accounting equation of every book: a bank's reserve is what it owes  *)
(* its customers and its suspense, and the central bank's assets are the    *)
(* banks' reserves -- also after a run that failed half way.                *)
BooksBalance ==
  /\ \A b \in Participant : reserve[b] = suspense[b] + SumOver(customer, AccountsAt(b))
  /\ cbAssets = SumOver(cbReserve, Participant)

(* system.go:329: "The net positions sum to zero", on-us payments and       *)
(* opposite flows included (299-309).                                       *)
NetsSumToZero == \A c \in DOMAIN cycles : SumOver(cycles[c].net, Participant) = 0

(* A bank's suspense holds the money of the payments its customers sent and *)
(* that are neither settled nor rejected, plus the net positions of the     *)
(* cycles it has mirrored but that stopped half way: no payment's money is  *)
(* lost there or left behind (participant.go:22-24, system.go:358-388).     *)
InFlight(b) ==
  Total({n \in DOMAIN payments :
           DebtorBank(payments[n]) = b /\ payments[n].status \in {"Accepted", "Cleared"}})

Halted(c) == cycles[c].status = "Closed" /\ ~Unused(CentralBank, "settle", c)

SuspenseExact ==
  \A b \in Participant :
    suspense[b] = InFlight(b)
      + SumOver([c \in DOMAIN cycles |-> cycles[c].net[b]],
                {c \in DOMAIN cycles : Halted(c) /\ ~Unused(b, "reserve", c)})

(* A bank's Reserve at Central Bank "mirrors the bank's reserve account in  *)
(* the central-bank ledger" (participant.go:25-27), but for the runs that   *)
(* stopped half way: the refunds of returns not settled, and the net        *)
(* positions of halted cycles that the bank did not mirror                  *)
(* (system.go:340-388, 595-636).                                            *)
MirrorExact ==
  \A b \in Participant :
    reserve[b] - cbReserve[b] =
      Total({n \in DOMAIN payments : /\ DebtorBank(payments[n]) = b
                                     /\ ~Unused(b, "return-debit", n)
                                     /\ payments[n].status # "Returned"})
      - SumOver([c \in DOMAIN cycles |-> cycles[c].net[b]],
                {c \in DOMAIN cycles : Halted(c) /\ Unused(b, "reserve", c)})

(* Only the return of a payment it received takes an account below its      *)
(* overdraft limit: deposits, payments, settlements and status changes      *)
(* never do (system.go:498-521, 611-620).                                   *)
OverdrawnOnlyByReturn ==
  [][\A a \in Account :
       (customer'[a] < customer[a] /\ customer'[a] + Limit[a] < 0) =>
         \E n \in DOMAIN payments : /\ payments[n].creditor = a
                                    /\ payments[n].status = "Settled"
                                    /\ payments'[n].status = "Returned"]_vars
-----------------------------------------------------------------------------
(* A closed cycle eventually settles, its operator trying again as long as  *)
(* it has not (system.go:317-320).                                          *)
ClosedCycleSettles ==
  \A c \in 1 .. MaxCycles :
    (c \in DOMAIN cycles /\ cycles[c].status = "Closed")
      ~> (c \in DOMAIN cycles /\ cycles[c].status = "Settled")
-----------------------------------------------------------------------------
(* Where the money of a payment is. *)
PlaceOf(n) ==
  LET p == payments[n]
  IN  CASE p.status = "Rejected" -> "bounced"
        [] p.status = "Returned" -> "returned"
        [] p.status = "Settled" ->
             IF Unused(DebtorBank(p), "return-debit", n) THEN "delivered" ELSE "compensated"
        [] OTHER -> "transit"

TransferOf(n) ==
  [from |-> payments[n].debtor, to |-> payments[n].creditor, amount |-> payments[n].amount,
   place |-> PlaceOf(n)]

Customers == INSTANCE Transfers WITH
  balance <- customer,
  transfers <- [n \in DOMAIN payments |-> TransferOf(n)]

(* To its customers the network, for all its books, cycles, keys and runs   *)
(* that stop half way, is a set of transfers: money leaves the payer at     *)
(* once and reaches the payee once, with all of its cycle or not at all, or *)
(* comes back to the payer once (system.go:12-24, 317-320, 540-541, 569-571).*)
ImplementsTransfers == Customers!Spec
=============================================================================
