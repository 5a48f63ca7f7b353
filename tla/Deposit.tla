------------------------------ MODULE Deposit -------------------------------
(***************************************************************************)
(* The demand-deposit layer of one bank: package deposit, type Register    *)
(* (src/deposit/register.go).                                              *)
(*                                                                         *)
(* The register's mutex serialises its own methods, but the money is in    *)
(* the bank's book, which has a lock of its own: payments and ledger calls *)
(* move an account's balance while a register method is running.  So a     *)
(* method that reads or posts to the book is two actions, Begin... up to   *)
(* the read and End... after it, and `writer` is the method in between,    *)
(* holding the register's lock.  `payer` is a payment between its check of *)
(* the funds and its posting.  A call refused before it reaches the book   *)
(* changes nothing and is a stutter.                                       *)
(*                                                                         *)
(* A hold ID is the hold's position in `holds`; none is ever removed.      *)
(***************************************************************************)
EXTENDS Integers, Sequences, Functions

CONSTANTS
  Account,        \* deposit accounts, each with its Liability account in the book
  Limit,          \* the overdraft limit an account is opened with
  HoldSum,        \* amounts clients ask to hold
  CaptureSum,     \* amounts clients ask to capture, 0 for the whole hold
  PaymentSum,     \* amounts of payments
  CreditSum,      \* amounts paid in: deposits, settlements, refunds, ledger calls
  DebitSum,       \* amounts others take without asking the register: returns, ledger calls
  Expiry,         \* expiry times clients give a hold
  NoExpiry,       \* the zero time.Time, a hold that never expires
  BusinessDate,   \* dates of end-of-day snapshots
  Other,          \* any account of the book that is no deposit account
  MaxTime, MaxHolds, MaxFunds  \* bounds of a behaviour

VARIABLES
  status,     \* account -> its status, "None" before it is opened
  balance,    \* account -> book balance of its Liability account
  holds,      \* the holds, in the order of their IDs
  captures,   \* the transactions captures posted: hold and amount
  snapshots,  \* account and business date -> the latest snapshot taken
  now,        \* the clock
  writer,     \* the register method holding the lock
  payer       \* the payment whose debtor was checked

calls == <<writer, payer>>
vars == <<status, balance, holds, captures, snapshots, now, calls>>

AccountStatus == {"None", "Active", "Frozen", "Dormant", "Closed"}
HoldStatus == {"Active", "Released", "Captured"}

Idle == [call |-> "None"]

ASSUME AccountAssumption == Limit \in [Account -> Int] /\ Other \notin Account

ASSUME InputAssumption ==
  /\ HoldSum \subseteq Int /\ CaptureSum \subseteq Int /\ PaymentSum \subseteq Nat \ {0}
  /\ CreditSum \subseteq Nat /\ DebitSum \subseteq Nat
  /\ Expiry \subseteq Nat /\ NoExpiry \notin Expiry

ASSUME BoundAssumption == MaxTime \in Nat /\ MaxHolds \in Nat /\ MaxFunds \in Nat
-----------------------------------------------------------------------------
(* Fault: a method that does not wait for the lock. *)
NoLock == TRUE

(* The register's lock can be taken, to read or to write. *)
LockFree == writer = Idle

Expired(h) == h.expiresAt # NoExpiry /\ h.expiresAt < now

(* Fault: captured holds keep counting. *)
HeldAndCaptured(a) ==
  LET counted == {n \in DOMAIN holds : /\ holds[n].account = a /\ holds[n].status # "Released"
                                       /\ ~Expired(holds[n])}
  IN  SumFunctionOnSet([n \in counted |-> holds[n].amount], counted)

(* computeActiveHolds: the holds that reduce the account's funds. *)
Held(a) ==
  LET counted == {n \in DOMAIN holds : /\ holds[n].account = a /\ holds[n].status = "Active"
                                       /\ ~Expired(holds[n])}
  IN  SumFunctionOnSet([n \in counted |-> holds[n].amount], counted)

(* What the account has available if its book balance is `book`. *)
Available(a, book) == book - Held(a) + Limit[a]

(* Fault: the hold's status is not looked at. *)
AnyHold(n) == TRUE
HoldIsActive(n) == holds[n].status = "Active"

(* Fault: no amount is refused. *)
AnyAmount(amount) == TRUE
ValidAmount(amount) == amount > 0

(* The edges of the account lifecycle, Close apart. *)
StatusEdge ==
  {<<"Active", "Frozen">>, <<"Frozen", "Active">>, <<"Active", "Dormant">>, <<"Dormant", "Active">>}
-----------------------------------------------------------------------------
Init ==
  /\ status = [a \in Account |-> "None"]
  /\ balance = [a \in Account |-> 0]
  /\ holds = << >>
  /\ captures = << >>
  /\ snapshots = << >>
  /\ now = 0
  /\ writer = Idle
  /\ payer = Idle

Tick ==
  /\ now < MaxTime
  /\ now' = now + 1
  /\ UNCHANGED <<status, balance, holds, captures, snapshots, calls>>

OpenAccount(a) ==
  /\ LockFree
  /\ status[a] = "None"
  /\ status' = [status EXCEPT ![a] = "Active"]
  /\ UNCHANGED <<balance, holds, captures, snapshots, now, calls>>

(* Freeze, Unfreeze, MarkDormant and Reactivate. *)
ChangeStatus(a, to) ==
  /\ LockFree
  /\ <<status[a], to>> \in StatusEdge
  /\ status' = [status EXCEPT ![a] = to]
  /\ UNCHANGED <<balance, holds, captures, snapshots, now, calls>>

ReleaseHold(n) ==
  /\ LockFree
  /\ HoldIsActive(n)
  /\ holds' = [holds EXCEPT ![n].status = "Released"]
  /\ UNCHANGED <<status, balance, captures, snapshots, now, calls>>

(* A method takes the lock and gets as far as the book. *)
Begin(call) ==
  /\ LockFree
  /\ writer' = call
  /\ UNCHANGED <<status, balance, holds, captures, snapshots, now, payer>>

BeginClose(a) ==
  /\ status[a] \notin {"None", "Closed"}
  /\ Begin([call |-> "Close", account |-> a, book |-> balance[a]])

(* Active holds do not keep an account open. *)
EndClose ==
  /\ writer.call = "Close"
  /\ status' = IF writer.book = 0 THEN [status EXCEPT ![writer.account] = "Closed"] ELSE status
  /\ writer' = Idle
  /\ UNCHANGED <<balance, holds, captures, snapshots, now, payer>>

BeginCreateHold(a, amount, expiresAt) ==
  /\ Len(holds) < MaxHolds
  /\ status[a] = "Active"
  /\ ValidAmount(amount)
  /\ Begin([call |-> "CreateHold", account |-> a, amount |-> amount, expiresAt |-> expiresAt,
            book |-> balance[a]])

EndCreateHold ==
  /\ writer.call = "CreateHold"
  /\ holds' = IF Available(writer.account, writer.book) - writer.amount >= 0
              THEN Append(holds, [account |-> writer.account, amount |-> writer.amount,
                                  expiresAt |-> writer.expiresAt, status |-> "Active"])
              ELSE holds
  /\ writer' = Idle
  /\ UNCHANGED <<status, balance, captures, snapshots, now, payer>>

(* Neither the hold's expiry nor the account's status is looked at, and the *)
(* amount may exceed the hold's.                                            *)
BeginCaptureHold(n, counterparty, amount) ==
  /\ HoldIsActive(n)
  /\ Begin([call |-> "CaptureHold", hold |-> n, counterparty |-> counterparty,
            amount |-> IF amount <= 0 THEN holds[n].amount ELSE amount])

(* A customer's balance after `amount` moved from a to the counterparty. *)
Transferred(a, counterparty, amount) ==
  [x \in Account |-> balance[x] - (IF x = a THEN amount ELSE 0)
                                + (IF x = counterparty THEN amount ELSE 0)]

EndCaptureHold ==
  LET n == writer.hold
      taken == Transferred(holds[n].account, writer.counterparty, writer.amount)
  IN  /\ writer.call = "CaptureHold"
      /\ \A a \in Account : -MaxFunds <= taken[a] /\ taken[a] <= MaxFunds
      /\ balance' = taken
      /\ holds' = [holds EXCEPT ![n].status = "Captured"]
      /\ captures' = Append(captures, [hold |-> n, amount |-> writer.amount])
      /\ writer' = Idle
      /\ UNCHANGED <<status, snapshots, now, payer>>

(* The book refuses the posting: the counterparty is unknown to it, or an   *)
(* Asset account that lacks the funds.  The hold stays active.              *)
CaptureRefused ==
  /\ writer.call = "CaptureHold"
  /\ writer.counterparty = Other
  /\ writer' = Idle
  /\ UNCHANGED <<status, balance, holds, captures, snapshots, now, payer>>

BeginSnapshot(a, date) ==
  /\ status[a] # "None"
  /\ Begin([call |-> "TakeEndOfDaySnapshot", account |-> a, date |-> date, book |-> balance[a]])

(* m[k] = v for a Go map m. *)
Put(m, k, v) == [x \in DOMAIN m \cup {k} |-> IF x = k THEN v ELSE m[x]]

EndSnapshot ==
  /\ writer.call = "TakeEndOfDaySnapshot"
  /\ snapshots' = Put(snapshots, <<writer.account, writer.date>>,
       [book |-> writer.book, holds |-> Held(writer.account),
        available |-> Available(writer.account, writer.book)])
  /\ writer' = Idle
  /\ UNCHANGED <<status, balance, holds, captures, now, payer>>
-----------------------------------------------------------------------------
(* InitiatePayment asks CheckWithdrawal, which reads under the register's   *)
(* lock and lets it go; the debtor leg is posted afterwards.                *)
BeginPayment(a, amount) ==
  /\ LockFree
  /\ payer = Idle
  /\ status[a] = "Active"
  /\ Available(a, balance[a]) - amount >= 0
  /\ payer' = [call |-> "InitiatePayment", account |-> a, amount |-> amount,
               available |-> Available(a, balance[a])]
  /\ UNCHANGED <<status, balance, holds, captures, snapshots, now, writer>>

EndPayment ==
  /\ payer # Idle
  /\ balance' = [balance EXCEPT ![payer.account] = @ - payer.amount]
  /\ payer' = Idle
  /\ UNCHANGED <<status, holds, captures, snapshots, now, writer>>

(* Money reaches the account without the register being asked: a deposit, a *)
(* settled or rejected payment, a ledger transaction.                       *)
Credit(a, amount) ==
  /\ status[a] # "None"
  /\ balance[a] + amount <= MaxFunds
  /\ balance' = [balance EXCEPT ![a] = @ + amount]
  /\ UNCHANGED <<status, holds, captures, snapshots, now, calls>>

(* Money leaves it in the same way: a returned payment, a ledger call. *)
Debit(a, amount) ==
  /\ status[a] # "None"
  /\ balance[a] - amount >= -MaxFunds
  /\ balance' = [balance EXCEPT ![a] = @ - amount]
  /\ UNCHANGED <<status, holds, captures, snapshots, now, calls>>

Next ==
  \/ Tick
  \/ \E a \in Account : OpenAccount(a)
  \/ \E a \in Account, to \in AccountStatus : ChangeStatus(a, to)
  \/ \E a \in Account : BeginClose(a)
  \/ EndClose
  \/ \E a \in Account, amount \in HoldSum, expiresAt \in Expiry \cup {NoExpiry} :
       BeginCreateHold(a, amount, expiresAt)
  \/ EndCreateHold
  \/ \E n \in DOMAIN holds : ReleaseHold(n)
  \/ \E n \in DOMAIN holds, counterparty \in Account \cup {Other}, amount \in CaptureSum :
       BeginCaptureHold(n, counterparty, amount)
  \/ EndCaptureHold
  \/ CaptureRefused
  \/ \E a \in Account, date \in BusinessDate : BeginSnapshot(a, date)
  \/ EndSnapshot
  \/ \E a \in Account, amount \in PaymentSum : BeginPayment(a, amount)
  \/ EndPayment
  \/ \E a \in Account, amount \in CreditSum : Credit(a, amount)
  \/ \E a \in Account, amount \in DebitSum : Debit(a, amount)

Spec == Init /\ [][Next]_vars
-----------------------------------------------------------------------------
PositiveSum == {n \in HoldSum : n > 0}

(* The method holding the lock, with what it has read. *)
Call ==
  [call: {"Close"}, account: Account, book: Int]
    \cup [call: {"CreateHold"}, account: Account, amount: PositiveSum,
          expiresAt: Expiry \cup {NoExpiry}, book: Int]
    \cup [call: {"CaptureHold"}, hold: Nat, counterparty: Account \cup {Other},
          amount: Nat \ {0}]
    \cup [call: {"TakeEndOfDaySnapshot"}, account: Account, date: BusinessDate, book: Int]

(* The part of the type invariant that is not about sums. *)
ControlTypeOK ==
  /\ status \in [Account -> AccountStatus]
  /\ balance \in [Account -> Int]
  /\ holds \in Seq([account: Account, amount: PositiveSum, expiresAt: Expiry \cup {NoExpiry},
                    status: HoldStatus])
  /\ captures \in Seq([hold: DOMAIN holds, amount: Nat \ {0}])
  /\ DOMAIN snapshots \subseteq Account \X BusinessDate
  /\ now \in Nat
  /\ writer \in Call \cup {Idle}
  /\ \/ payer = Idle
     \/ payer.call = "InitiatePayment" /\ payer.account \in Account /\ payer.amount \in PaymentSum

(* Types: what is held and what is captured is positive (register.go:309,   *)
(* 389), and a snapshot is of an account that was opened.                   *)
TypeOK ==
  /\ ControlTypeOK
  /\ payer # Idle => payer.available \in Int
  /\ \A s \in DOMAIN snapshots :
       status[s[1]] # "None" /\ snapshots[s] \in [book: Int, holds: Int, available: Int]

(* The lock's promise to its holder: what the method found when it took the *)
(* lock -- the account not closed, the hold still active -- is still so     *)
(* when it comes back from the book (register.go:243-266, 298-336, 373-410).*)
LockProtects ==
  /\ writer.call = "Close" => status[writer.account] \notin {"None", "Closed"}
  /\ writer.call = "CreateHold" => status[writer.account] = "Active"
  /\ writer.call = "CaptureHold" => writer.hold \in DOMAIN holds /\ HoldIsActive(writer.hold)
  /\ writer.call = "TakeEndOfDaySnapshot" => status[writer.account] # "None"

(* A hold takes the customer's money once if it is captured and never       *)
(* otherwise, whatever calls overlap (register.go:343-410).                 *)
HoldSettlesOnce ==
  /\ \A n \in DOMAIN holds :
       holds[n].status = "Captured" <=> \E k \in DOMAIN captures : captures[k].hold = n
  /\ \A k1, k2 \in DOMAIN captures : captures[k1].hold = captures[k2].hold => k1 = k2

(* A hold is placed only on an account that is Active at that moment, and a *)
(* released or captured hold never changes again, although methods wait for *)
(* the book between their checks and their effects (register.go:298-410).   *)
ChecksStayTrue ==
  [][/\ \A n \in DOMAIN holds' \ DOMAIN holds : status[holds'[n].account] = "Active"
     /\ \A n \in DOMAIN holds : ~HoldIsActive(n) => holds'[n] = holds[n]]_vars

(* What a method is about to act on is older than what it would read now:   *)
(* money left the account, or a hold was placed on it, after the check.     *)
HoldOvertaken(a) ==
  /\ writer.call = "CreateHold" /\ writer.account = a /\ writer' = Idle
  /\ balance[a] < writer.book

PaymentOvertaken(a) ==
  /\ payer # Idle /\ payer.account = a /\ payer' = Idle
  /\ Available(a, balance[a]) < payer.available

CaptureOverrides(a) ==
  \E n \in DOMAIN holds :
    /\ holds[n].account = a
    /\ HoldIsActive(n) /\ holds'[n].status = "Captured"
    /\ Expired(holds[n]) \/ captures'[Len(captures')].amount > holds[n].amount

(* What an account has available falls below zero only by a capture that    *)
(* exceeds its hold or comes after its expiry, by a debit that does not go  *)
(* through the register, or by a hold or payment that was overtaken between *)
(* its check and its effect: the checks themselves let nothing through      *)
(* (register.go:298-336, 373-410, 469-489; payment/system.go:498-525).      *)
OverdrawnOnlyByOverride ==
  [][\A a \in Account :
       (Available(a, balance[a])' < 0 /\ Available(a, balance[a])' < Available(a, balance[a])) =>
         \/ UNCHANGED <<holds, calls>>
         \/ HoldOvertaken(a) \/ PaymentOvertaken(a) \/ CaptureOverrides(a)]_vars
=============================================================================
