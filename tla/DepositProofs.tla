--------------------------- MODULE DepositProofs ----------------------------
(***************************************************************************)
(* Theorems about the deposit register, for any number of accounts, holds  *)
(* and callers' inputs: what its lock protects while a method is at the    *)
(* book, and that a hold takes the money once.                             *)
(***************************************************************************)
EXTENDS MCDeposit, Sums, TLAPS, SequenceTheorems

(* The inductive invariant: HoldSettlesOnce needs to know that the hold a   *)
(* capture in progress names is still active.                               *)
LockInv == ControlTypeOK /\ LockProtects /\ HoldSettlesOnce

Hold == [account: Account, amount: PositiveSum, expiresAt: Expiry \cup {NoExpiry},
         status: HoldStatus]

(* Nothing is running and nothing is held when the bank opens. *)
LEMMA InitLockInv == Init => LockInv
  <1> SUFFICES ASSUME Init PROVE LockInv
    OBVIOUS
  <1>1. ControlTypeOK
    BY AccountAssumption DEF Init, ControlTypeOK, Idle, AccountStatus
  <1>2. LockProtects
    BY DEF Init, LockProtects, Idle
  <1>3. HoldSettlesOnce
    BY DEF Init, HoldSettlesOnce
  <1>4. QED BY <1>1, <1>2, <1>3 DEF LockInv

(* What a call in progress is. *)
LEMMA WriterFields ==
  ASSUME ControlTypeOK
  PROVE  /\ writer.call = "Close" => writer.account \in Account /\ writer.book \in Int
         /\ writer.call = "CreateHold" =>
              /\ writer.account \in Account /\ writer.amount \in PositiveSum /\ writer.book \in Int
              /\ writer.expiresAt \in Expiry \cup {NoExpiry}
         /\ writer.call = "CaptureHold" =>
              /\ writer.hold \in Nat /\ writer.counterparty \in Account \cup {Other}
              /\ writer.amount \in Nat \ {0}
         /\ writer.call = "TakeEndOfDaySnapshot" =>
              writer.account \in Account /\ writer.date \in BusinessDate /\ writer.book \in Int
  <1>1. writer \in Call \cup {Idle}
    BY DEF ControlTypeOK
  <1>2. CASE writer \in [call: {"Close"}, account: Account, book: Int]
    BY <1>2
  <1>3. CASE writer \in [call: {"CreateHold"}, account: Account, amount: PositiveSum,
                         expiresAt: Expiry \cup {NoExpiry}, book: Int]
    BY <1>3
  <1>4. CASE writer \in [call: {"CaptureHold"}, hold: Nat,
                         counterparty: Account \cup {Other}, amount: Nat \ {0}]
    BY <1>4
  <1>5. CASE writer \in [call: {"TakeEndOfDaySnapshot"}, account: Account,
                         date: BusinessDate, book: Int]
    BY <1>5
  <1>6. CASE writer = Idle
    BY <1>6 DEF Idle
  <1>7. QED BY <1>1, <1>2, <1>3, <1>4, <1>5, <1>6 DEF Call

(* Changing the status of one hold changes nothing else about the holds. *)
LEMMA MarkedHolds ==
  ASSUME holds \in Seq(Hold), NEW n \in DOMAIN holds, NEW s \in HoldStatus
  PROVE  LET marked == [holds EXCEPT ![n].status = s]
         IN  /\ marked \in Seq(Hold) /\ DOMAIN marked = DOMAIN holds
             /\ marked[n].status = s
             /\ \A m \in DOMAIN holds \ {n} : marked[m] = holds[m]
  <1> DEFINE h == [holds[n] EXCEPT !.status = s]
             marked == [holds EXCEPT ![n].status = s]
  <1>1. DOMAIN holds = 1 .. Len(holds)
    BY LenProperties
  <1>2. holds[n] \in Hold
    BY <1>1, ElementOfSeq
  <1>3. h \in Hold /\ h.status = s
    BY <1>2 DEF Hold
  <1>4. marked = [holds EXCEPT ![n] = h]
    OBVIOUS
  <1>5. marked \in Seq(Hold) /\ DOMAIN marked = DOMAIN holds
    BY <1>1, <1>3, <1>4, ExceptSeq, LenProperties
  <1>6. QED BY <1>3, <1>4, <1>5

(* Amounts are integers. *)
LEMMA Amounts ==
  /\ PositiveSum \subseteq Nat \ {0}
  /\ PaymentSum \subseteq Int /\ CreditSum \subseteq Int /\ DebitSum \subseteq Int
  <1>1. HoldSum \subseteq Int /\ PaymentSum \subseteq Nat \ {0}
    BY InputAssumption DEF InputAssumption
  <1>2. CreditSum \subseteq Nat /\ DebitSum \subseteq Nat
    BY InputAssumption DEF InputAssumption
  <1>3. \A n \in PositiveSum : n \in Nat \ {0}
    BY <1>1 DEF PositiveSum
  <1>4. QED BY <1>1, <1>2, <1>3

(* A new method's call is well typed, whatever the client asks for. *)
LEMMA BeginKeepsTypes ==
  ASSUME ControlTypeOK, NEW call \in Call, Begin(call)
  PROVE  ControlTypeOK'
  BY DEF ControlTypeOK, Begin, calls, Call, PositiveSum

(* Every step keeps the types. *)
LEMMA NextControlTypeOK == LockInv /\ [Next]_vars => ControlTypeOK'
  <1> SUFFICES ASSUME LockInv, [Next]_vars PROVE ControlTypeOK'
    OBVIOUS
  <1> USE DEF LockInv
  <1>1. CASE Tick
    BY <1>1 DEF Tick, ControlTypeOK, calls
  <1>2. ASSUME NEW a \in Account, OpenAccount(a) PROVE ControlTypeOK'
    BY <1>2 DEF OpenAccount, ControlTypeOK, calls, AccountStatus
  <1>3. ASSUME NEW a \in Account, NEW to \in AccountStatus, ChangeStatus(a, to)
        PROVE  ControlTypeOK'
    BY <1>3 DEF ChangeStatus, ControlTypeOK, calls
  <1>4. ASSUME NEW a \in Account, BeginClose(a) PROVE ControlTypeOK'
    <2>1. [call |-> "Close", account |-> a, book |-> balance[a]] \in Call
      BY DEF Call, ControlTypeOK
    <2>2. QED BY <1>4, <2>1, BeginKeepsTypes DEF BeginClose
  <1>5. CASE EndClose
    <2>1. writer.account \in Account
      BY <1>5, WriterFields DEF EndClose
    <2>2. status' \in [Account -> AccountStatus]
      BY <1>5, <2>1 DEF EndClose, ControlTypeOK, AccountStatus
    <2>3. QED BY <1>5, <2>2 DEF EndClose, ControlTypeOK
  <1>6. ASSUME NEW a \in Account, NEW amount \in HoldSum,
               NEW expiresAt \in Expiry \cup {NoExpiry}, BeginCreateHold(a, amount, expiresAt)
        PROVE  ControlTypeOK'
    <2>1. [call |-> "CreateHold", account |-> a, amount |-> amount, expiresAt |-> expiresAt,
           book |-> balance[a]] \in Call
      BY <1>6 DEF Call, ControlTypeOK, BeginCreateHold, ValidAmount, PositiveSum
    <2>2. QED BY <1>6, <2>1, BeginKeepsTypes DEF BeginCreateHold
  <1>7. CASE EndCreateHold
    <2> DEFINE h == [account |-> writer.account, amount |-> writer.amount,
                     expiresAt |-> writer.expiresAt, status |-> "Active"]
    <2>1. h \in Hold
      BY <1>7, WriterFields DEF EndCreateHold, Hold, HoldStatus
    <2>2. holds' = holds \/ holds' = Append(holds, h)
      BY <1>7 DEF EndCreateHold
    <2>3. holds' \in Seq(Hold) /\ DOMAIN holds \subseteq DOMAIN holds'
      <3>1. holds \in Seq(Hold)
        BY DEF ControlTypeOK, Hold
      <3>2. QED BY <2>1, <2>2, <3>1, AppendProperties, LenProperties
    <2>4. captures' \in Seq([hold: DOMAIN holds', amount: Nat \ {0}])
      <3>1. captures \in Seq([hold: DOMAIN holds, amount: Nat \ {0}]) /\ captures' = captures
        BY <1>7 DEF EndCreateHold, ControlTypeOK
      <3>2. [hold: DOMAIN holds, amount: Nat \ {0}] \subseteq [hold: DOMAIN holds', amount: Nat \ {0}]
        BY <2>3
      <3>3. QED BY <3>1, <3>2, SeqMonotonic
    <2>5. QED BY <1>7, <2>3, <2>4 DEF EndCreateHold, ControlTypeOK, Hold
  <1>8. ASSUME NEW n \in DOMAIN holds, ReleaseHold(n) PROVE ControlTypeOK'
    <2>1. holds' \in Seq(Hold) /\ DOMAIN holds' = DOMAIN holds
      BY <1>8, MarkedHolds DEF ReleaseHold, ControlTypeOK, Hold, HoldStatus
    <2>2. QED BY <1>8, <2>1 DEF ReleaseHold, ControlTypeOK, Hold, calls
  <1>9. ASSUME NEW n \in DOMAIN holds, NEW counterparty \in Account \cup {Other},
               NEW amount \in CaptureSum, BeginCaptureHold(n, counterparty, amount)
        PROVE  ControlTypeOK'
    <2> DEFINE sum == IF amount <= 0 THEN holds[n].amount ELSE amount
    <2>1. sum \in Nat \ {0}
      <3>1. holds[n] \in Hold
        BY ElementOfSeq, LenProperties DEF ControlTypeOK, Hold
      <3>2. holds[n].amount \in Nat \ {0}
        BY <3>1, Amounts DEF Hold
      <3>3. amount \in Int
        BY InputAssumption
      <3>4. QED BY <3>2, <3>3
    <2>2. [call |-> "CaptureHold", hold |-> n, counterparty |-> counterparty,
           amount |-> sum] \in Call
      BY <2>1 DEF Call, ControlTypeOK
    <2>3. QED BY <1>9, <2>2, BeginKeepsTypes DEF BeginCaptureHold
  <1>10. CASE EndCaptureHold
    <2>1. writer.hold \in DOMAIN holds /\ writer.amount \in Nat \ {0}
      BY <1>10, WriterFields DEF EndCaptureHold, LockProtects
    <2>2. balance' \in [Account -> Int]
      BY <1>10, <2>1 DEF EndCaptureHold, Transferred, ControlTypeOK
    <2>3. holds' \in Seq(Hold) /\ DOMAIN holds' = DOMAIN holds
      BY <1>10, <2>1, MarkedHolds DEF EndCaptureHold, ControlTypeOK, Hold, HoldStatus
    <2>4. captures' \in Seq([hold: DOMAIN holds', amount: Nat \ {0}])
      <3>1. [hold |-> writer.hold, amount |-> writer.amount]
              \in [hold: DOMAIN holds, amount: Nat \ {0}]
        BY <2>1
      <3>2. QED BY <1>10, <3>1, <2>3, AppendProperties DEF EndCaptureHold, ControlTypeOK
    <2>5. QED BY <1>10, <2>2, <2>3, <2>4 DEF EndCaptureHold, ControlTypeOK, Hold
  <1>11. CASE CaptureRefused
    BY <1>11 DEF CaptureRefused, ControlTypeOK
  <1>12. ASSUME NEW a \in Account, NEW date \in BusinessDate, BeginSnapshot(a, date)
         PROVE  ControlTypeOK'
    <2>1. [call |-> "TakeEndOfDaySnapshot", account |-> a, date |-> date,
           book |-> balance[a]] \in Call
      BY DEF Call, ControlTypeOK
    <2>2. QED BY <1>12, <2>1, BeginKeepsTypes DEF BeginSnapshot
  <1>13. CASE EndSnapshot
    <2>1. <<writer.account, writer.date>> \in Account \X BusinessDate
      BY <1>13, WriterFields DEF EndSnapshot
    <2>2. DOMAIN snapshots' = DOMAIN snapshots \cup {<<writer.account, writer.date>>}
      BY <1>13 DEF EndSnapshot, Put
    <2>3. QED BY <1>13, <2>1, <2>2 DEF EndSnapshot, ControlTypeOK
  <1>14. ASSUME NEW a \in Account, NEW amount \in PaymentSum, BeginPayment(a, amount)
         PROVE  ControlTypeOK'
    BY <1>14 DEF BeginPayment, ControlTypeOK
  <1>15. CASE EndPayment
    <2>1. payer.account \in Account /\ payer.amount \in PaymentSum
      BY <1>15 DEF EndPayment, ControlTypeOK
    <2>2. payer.amount \in Int
      BY <2>1, Amounts
    <2>3. QED BY <1>15, <2>1, <2>2 DEF EndPayment, ControlTypeOK
  <1>16. ASSUME NEW a \in Account, NEW amount \in CreditSum, Credit(a, amount)
         PROVE  ControlTypeOK'
    BY <1>16, InputAssumption DEF Credit, ControlTypeOK, calls
  <1>17. ASSUME NEW a \in Account, NEW amount \in DebitSum, Debit(a, amount)
         PROVE  ControlTypeOK'
    BY <1>17, InputAssumption DEF Debit, ControlTypeOK, calls
  <1>18. CASE UNCHANGED vars
    BY <1>18 DEF vars, calls, ControlTypeOK
  <1>19. QED
    BY <1>1, <1>2, <1>3, <1>4, <1>5, <1>6, <1>7, <1>8, <1>9, <1>10, <1>11, <1>12, <1>13,
       <1>14, <1>15, <1>16, <1>17, <1>18 DEF Next

(* Every step keeps what the lock protects: while a method holds it, only   *)
(* that method changes a status or a hold.                                  *)
LEMMA NextLockProtects == LockInv /\ [Next]_vars => LockProtects'
  <1> SUFFICES ASSUME LockInv, [Next]_vars PROVE LockProtects'
    OBVIOUS
  <1> USE DEF LockInv
  <1>1. CASE writer = Idle /\ writer' = Idle
    BY <1>1 DEF LockProtects, Idle
  <1>2. CASE writer' = writer /\ UNCHANGED <<status, holds>>
    BY <1>2 DEF LockProtects, HoldIsActive
  <1>3. CASE writer' = Idle
    BY <1>3 DEF LockProtects, Idle
  <1>4. ASSUME NEW a \in Account, BeginClose(a) PROVE LockProtects'
    BY <1>4 DEF BeginClose, Begin, LockProtects
  <1>5. ASSUME NEW a \in Account, NEW amount \in HoldSum,
               NEW expiresAt \in Expiry \cup {NoExpiry}, BeginCreateHold(a, amount, expiresAt)
        PROVE  LockProtects'
    BY <1>5 DEF BeginCreateHold, Begin, LockProtects
  <1>6. ASSUME NEW n \in DOMAIN holds, NEW counterparty \in Account \cup {Other},
               NEW amount \in CaptureSum, BeginCaptureHold(n, counterparty, amount)
        PROVE  LockProtects'
    BY <1>6 DEF BeginCaptureHold, Begin, LockProtects, HoldIsActive
  <1>7. ASSUME NEW a \in Account, NEW date \in BusinessDate, BeginSnapshot(a, date)
        PROVE  LockProtects'
    BY <1>7 DEF BeginSnapshot, Begin, LockProtects
  <1>8. CASE \/ Tick \/ EndPayment \/ UNCHANGED vars
             \/ \E a \in Account, amount \in PaymentSum : BeginPayment(a, amount)
             \/ \E a \in Account, amount \in CreditSum : Credit(a, amount)
             \/ \E a \in Account, amount \in DebitSum : Debit(a, amount)
    BY <1>2, <1>8 DEF Tick, EndPayment, BeginPayment, Credit, Debit, vars, calls
  <1>9. CASE EndClose \/ EndCreateHold \/ EndCaptureHold \/ CaptureRefused \/ EndSnapshot
    BY <1>3, <1>9 DEF EndClose, EndCreateHold, EndCaptureHold, CaptureRefused, EndSnapshot
  <1>10. CASE \/ \E a \in Account : OpenAccount(a)
              \/ \E a \in Account, to \in AccountStatus : ChangeStatus(a, to)
              \/ \E n \in DOMAIN holds : ReleaseHold(n)
    BY <1>1, <1>10 DEF OpenAccount, ChangeStatus, ReleaseHold, LockFree, calls
  <1>11. QED BY <1>4, <1>5, <1>6, <1>7, <1>8, <1>9, <1>10 DEF Next

(* A step that leaves holds and captures alone keeps HoldSettlesOnce. *)
LEMMA SameHolds ==
  ASSUME HoldSettlesOnce, UNCHANGED <<holds, captures>>
  PROVE  HoldSettlesOnce'
  BY DEF HoldSettlesOnce

(* Every step keeps the agreement of holds and captures: a capture in       *)
(* progress is of an active hold, which no capture has taken yet.           *)
LEMMA NextHoldSettlesOnce == LockInv /\ [Next]_vars => HoldSettlesOnce'
  <1> SUFFICES ASSUME LockInv, [Next]_vars PROVE HoldSettlesOnce'
    OBVIOUS
  <1>1. ControlTypeOK /\ LockProtects /\ HoldSettlesOnce
    BY DEF LockInv
  <1>2. holds \in Seq(Hold) /\ captures \in Seq([hold: DOMAIN holds, amount: Nat \ {0}])
    BY <1>1 DEF ControlTypeOK, Hold
  <1>3. CASE UNCHANGED <<holds, captures>>
    BY <1>1, <1>3, SameHolds
  <1>4. CASE EndCreateHold
    <2> DEFINE h == [account |-> writer.account, amount |-> writer.amount,
                     expiresAt |-> writer.expiresAt, status |-> "Active"]
    <2>1. captures' = captures /\ (holds' = holds \/ holds' = Append(holds, h))
      BY <1>4 DEF EndCreateHold
    <2>2. CASE holds' = Append(holds, h)
      <3>1. h \in Hold
        BY <1>1, <1>4, WriterFields DEF EndCreateHold, Hold, HoldStatus
      <3>2. /\ Len(holds') = Len(holds) + 1
            /\ \A n \in 1 .. Len(holds) : holds'[n] = holds[n]
            /\ holds'[Len(holds) + 1] = h
            /\ holds' \in Seq(Hold)
        BY <1>2, <2>2, <3>1, AppendProperties
      <3>3. DOMAIN holds = 1 .. Len(holds) /\ DOMAIN holds' = 1 .. Len(holds) + 1
              /\ Len(holds) \in Nat
        BY <1>2, <3>2, LenProperties
      <3>4. \A k \in DOMAIN captures : captures[k].hold \in DOMAIN holds
        <4>1. \A k \in DOMAIN captures : captures[k] \in [hold: DOMAIN holds, amount: Nat \ {0}]
          <5> SUFFICES ASSUME NEW k \in DOMAIN captures
                       PROVE  captures[k] \in [hold: DOMAIN holds, amount: Nat \ {0}]
            OBVIOUS
          <5> DEFINE C == [hold: DOMAIN holds, amount: Nat \ {0}]
          <5>1. captures \in Seq(C)
            BY <1>2
          <5> HIDE DEF C
          <5>2. captures[k] \in C
            BY <5>1, ElementOfSeq, LenProperties
          <5>3. QED BY <5>2 DEF C
        <4>2. QED BY <4>1
      <3>5. \A k \in DOMAIN captures : captures[k].hold # Len(holds) + 1
        BY <3>3, <3>4
      <3>6. \A n \in DOMAIN holds' : n \in DOMAIN holds \/ n = Len(holds) + 1
        BY <3>3
      <3>7. holds'[Len(holds) + 1].status # "Captured"
        BY <3>2
      <3>8. QED BY <1>1, <2>1, <3>2, <3>3, <3>5, <3>6, <3>7 DEF HoldSettlesOnce
    <2>3. QED BY <1>3, <2>1, <2>2
  <1>5. ASSUME NEW n \in DOMAIN holds, ReleaseHold(n) PROVE HoldSettlesOnce'
    <2>1. /\ DOMAIN holds' = DOMAIN holds /\ holds'[n].status = "Released"
          /\ \A m \in DOMAIN holds \ {n} : holds'[m] = holds[m]
      BY <1>2, <1>5, MarkedHolds DEF ReleaseHold, HoldStatus
    <2>2. holds[n].status = "Active" /\ captures' = captures
      BY <1>5 DEF ReleaseHold, HoldIsActive
    <2>3. QED BY <1>1, <2>1, <2>2 DEF HoldSettlesOnce
  <1>6. CASE EndCaptureHold
    <2> DEFINE n == writer.hold
               c == [hold |-> n, amount |-> writer.amount]
    <2>1. n \in DOMAIN holds /\ holds[n].status = "Active" /\ writer.amount \in Nat \ {0}
      BY <1>1, <1>6, WriterFields DEF EndCaptureHold, LockProtects, HoldIsActive
    <2>2. /\ DOMAIN holds' = DOMAIN holds /\ holds'[n].status = "Captured"
          /\ \A m \in DOMAIN holds \ {n} : holds'[m] = holds[m]
      BY <1>2, <1>6, <2>1, MarkedHolds DEF EndCaptureHold, HoldStatus
    <2>3. c \in [hold: DOMAIN holds, amount: Nat \ {0}] /\ c.hold = n
      BY <2>1
    <2>4. captures' = Append(captures, c)
      BY <1>6 DEF EndCaptureHold
    <2>5. /\ Len(captures') = Len(captures) + 1 /\ Len(captures) \in Nat
          /\ DOMAIN captures = 1 .. Len(captures) /\ DOMAIN captures' = 1 .. Len(captures')
          /\ \A k \in 1 .. Len(captures) : captures'[k] = captures[k]
          /\ captures'[Len(captures) + 1] = c
      BY <1>2, <2>3, <2>4, AppendProperties, LenProperties
    <2>6. /\ \A k \in DOMAIN captures : k \in DOMAIN captures' /\ captures'[k] = captures[k]
          /\ Len(captures) + 1 \in DOMAIN captures'
          /\ \A k \in DOMAIN captures' : k \in DOMAIN captures \/ k = Len(captures) + 1
      BY <2>5
    <2>7. \A k \in DOMAIN captures : captures[k].hold # n
      BY <1>1, <2>1 DEF HoldSettlesOnce
    <2>8. \A m \in DOMAIN holds' :
            holds'[m].status = "Captured" <=> \E k \in DOMAIN captures' : captures'[k].hold = m
      BY <1>1, <2>2, <2>3, <2>5, <2>6, <2>7 DEF HoldSettlesOnce
    <2>9. \A k1, k2 \in DOMAIN captures' : captures'[k1].hold = captures'[k2].hold => k1 = k2
      BY <1>1, <2>3, <2>5, <2>6, <2>7 DEF HoldSettlesOnce
    <2>10. QED BY <2>8, <2>9 DEF HoldSettlesOnce
  <1>7. CASE \/ Tick \/ EndClose \/ CaptureRefused \/ EndSnapshot \/ EndPayment \/ UNCHANGED vars
             \/ \E a \in Account : OpenAccount(a) \/ BeginClose(a)
             \/ \E a \in Account, to \in AccountStatus : ChangeStatus(a, to)
             \/ \E a \in Account, date \in BusinessDate : BeginSnapshot(a, date)
    BY <1>3, <1>7 DEF Tick, EndClose, CaptureRefused, EndSnapshot, EndPayment, vars, OpenAccount,
       BeginClose, ChangeStatus, BeginSnapshot, Begin
  <1>8. CASE \/ \E a \in Account, amount \in HoldSum, expiresAt \in Expiry \cup {NoExpiry} :
                  BeginCreateHold(a, amount, expiresAt)
             \/ \E n \in DOMAIN holds, counterparty \in Account \cup {Other}, amount \in CaptureSum :
                  BeginCaptureHold(n, counterparty, amount)
             \/ \E a \in Account, amount \in PaymentSum : BeginPayment(a, amount)
             \/ \E a \in Account, amount \in CreditSum : Credit(a, amount)
             \/ \E a \in Account, amount \in DebitSum : Debit(a, amount)
    BY <1>3, <1>8 DEF BeginCreateHold, BeginCaptureHold, Begin, BeginPayment, Credit, Debit
  <1>9. QED BY <1>4, <1>5, <1>6, <1>7, <1>8 DEF Next

(* The inductive invariant holds in every reachable state. *)
THEOREM LockInvariant == Spec => []LockInv
  <1>1. LockInv /\ [Next]_vars => LockInv'
    BY NextControlTypeOK, NextLockProtects, NextHoldSettlesOnce DEF LockInv
  <1>2. QED BY InitLockInv, <1>1, PTL DEF Spec

(* While a register method holds the lock, what it checked before going to  *)
(* the book stays true (register.go:243-266, 298-336, 373-410), whatever    *)
(* payments, deposits and ledger calls do to the book in between.           *)
THEOREM LockProtectsAlways == Spec => []LockProtects
  <1>1. LockInv => LockProtects
    BY DEF LockInv
  <1>2. QED BY LockInvariant, <1>1, PTL

(* A hold takes the customer's money once if it is captured and never       *)
(* otherwise (register.go:343-410).                                         *)
THEOREM HoldSettlesOnceAlways == Spec => []HoldSettlesOnce
  <1>1. LockInv => HoldSettlesOnce
    BY DEF LockInv
  <1>2. QED BY LockInvariant, <1>1, PTL

(* A hold is placed only on an account Active at that moment, and a         *)
(* released or captured hold never changes (register.go:298-410).           *)
THEOREM ChecksStayTrueAlways == Spec => ChecksStayTrue
  <1> DEFINE Step == /\ \A n \in DOMAIN holds' \ DOMAIN holds : status[holds'[n].account] = "Active"
                     /\ \A n \in DOMAIN holds : ~HoldIsActive(n) => holds'[n] = holds[n]
  <1>1. ASSUME LockInv, Next PROVE Step
    <2>1. ControlTypeOK /\ LockProtects /\ holds \in Seq(Hold)
      BY <1>1 DEF LockInv, ControlTypeOK, Hold
    <2>2. CASE holds' = holds
      BY <2>2
    <2>3. CASE EndCreateHold
      <3> DEFINE h == [account |-> writer.account, amount |-> writer.amount,
                       expiresAt |-> writer.expiresAt, status |-> "Active"]
      <3>1. CASE holds' = Append(holds, h)
        <4>1. h \in Hold /\ status[h.account] = "Active"
          BY <2>1, <2>3, WriterFields DEF EndCreateHold, Hold, HoldStatus, LockProtects
        <4>2. /\ Len(holds') = Len(holds) + 1 /\ holds' \in Seq(Hold)
              /\ \A n \in 1 .. Len(holds) : holds'[n] = holds[n]
              /\ holds'[Len(holds) + 1] = h
          BY <2>1, <3>1, <4>1, AppendProperties
        <4>3. DOMAIN holds = 1 .. Len(holds) /\ DOMAIN holds' = 1 .. Len(holds) + 1
                /\ Len(holds) \in Nat
          BY <2>1, <4>2, LenProperties
        <4>4. \A n \in DOMAIN holds' \ DOMAIN holds : n = Len(holds) + 1
          BY <4>3
        <4>5. QED BY <4>1, <4>2, <4>3, <4>4
      <3>2. QED BY <2>2, <2>3, <3>1 DEF EndCreateHold
    <2>4. ASSUME NEW n \in DOMAIN holds, ReleaseHold(n) PROVE Step
      BY <2>1, <2>4, MarkedHolds DEF ReleaseHold, HoldIsActive, HoldStatus
    <2>5. CASE EndCaptureHold
      <3>1. writer.hold \in DOMAIN holds /\ HoldIsActive(writer.hold)
        BY <2>1, <2>5 DEF EndCaptureHold, LockProtects
      <3>2. QED BY <2>1, <2>5, <3>1, MarkedHolds DEF EndCaptureHold, HoldIsActive, HoldStatus
    <2>6. CASE \/ Tick \/ EndClose \/ CaptureRefused \/ EndSnapshot \/ EndPayment
               \/ \E a \in Account : OpenAccount(a) \/ BeginClose(a)
               \/ \E a \in Account, to \in AccountStatus : ChangeStatus(a, to)
               \/ \E a \in Account, date \in BusinessDate : BeginSnapshot(a, date)
      BY <2>2, <2>6 DEF Tick, EndClose, CaptureRefused, EndSnapshot, EndPayment, OpenAccount,
         BeginClose, ChangeStatus, BeginSnapshot, Begin
    <2>7. CASE \/ \E a \in Account, amount \in HoldSum, expiresAt \in Expiry \cup {NoExpiry} :
                    BeginCreateHold(a, amount, expiresAt)
               \/ \E n \in DOMAIN holds, counterparty \in Account \cup {Other}, amount \in CaptureSum :
                    BeginCaptureHold(n, counterparty, amount)
               \/ \E a \in Account, amount \in PaymentSum : BeginPayment(a, amount)
               \/ \E a \in Account, amount \in CreditSum : Credit(a, amount)
               \/ \E a \in Account, amount \in DebitSum : Debit(a, amount)
      BY <2>2, <2>7 DEF BeginCreateHold, BeginCaptureHold, Begin, BeginPayment, Credit, Debit
    <2>8. QED BY <1>1, <2>3, <2>4, <2>5, <2>6, <2>7 DEF Next
  <1>2. LockInv /\ [Next]_vars => [Step]_vars
    BY <1>1
  <1>3. QED BY LockInvariant, <1>2, PTL DEF Spec, ChecksStayTrue
-----------------------------------------------------------------------------
(* What holds reserve, as a function of the holds and the clock. *)
Counted(H, a, t) ==
  {n \in DOMAIN H : /\ H[n].account = a /\ H[n].status = "Active"
                    /\ ~(H[n].expiresAt # NoExpiry /\ H[n].expiresAt < t)}

HeldOf(H, a, t) == SumFunctionOnSet([n \in Counted(H, a, t) |-> H[n].amount], Counted(H, a, t))

LEMMA HeldIs == \A a : Held(a) = HeldOf(holds, a, now) /\ Held(a)' = HeldOf(holds', a, now')
  BY DEF Held, HeldOf, Counted, Expired

LEMMA CountedHolds ==
  ASSUME NEW H \in Seq(Hold), NEW a, NEW t
  PROVE  /\ DOMAIN H = 1 .. Len(H) /\ Len(H) \in Nat
         /\ IsFiniteSet(Counted(H, a, t))
         /\ \A n \in DOMAIN H : H[n] \in Hold /\ H[n].amount \in Nat \ {0}
  <1>1. DOMAIN H = 1 .. Len(H) /\ Len(H) \in Nat
    BY LenProperties
  <1>2. IsFiniteSet(1 .. Len(H))
    BY <1>1, FS_Interval
  <1>3. IsFiniteSet(Counted(H, a, t))
    BY <1>1, <1>2, FS_Subset DEF Counted
  <1>4. \A n \in DOMAIN H : H[n] \in Hold
    BY <1>1, ElementOfSeq
  <1>5. QED BY <1>1, <1>3, <1>4, Amounts DEF Hold

(* The sum of a set of holds, over any function that gives their amounts. *)
LEMMA HeldBy ==
  ASSUME NEW H \in Seq(Hold), NEW a, NEW t, NEW f, \A n \in Counted(H, a, t) : f[n] = H[n].amount
  PROVE  HeldOf(H, a, t) = SumFunctionOnSet(f, Counted(H, a, t))
  <1> DEFINE C == Counted(H, a, t)
             g == [n \in C |-> H[n].amount]
  <1>1. IsFiniteSet(C)
    BY CountedHolds
  <1>2. \A n \in C : g[n] = f[n]
    OBVIOUS
  <1>3. HeldOf(H, a, t) = SumFunctionOnSet(g, C)
    BY DEF HeldOf
  <1> HIDE DEF C, g
  <1>4. QED BY <1>1, <1>2, <1>3, SumSame DEF C

LEMMA HeldIsNat ==
  ASSUME NEW H \in Seq(Hold), NEW a, NEW t
  PROVE  HeldOf(H, a, t) \in Nat
  <1> DEFINE C == Counted(H, a, t)
             f == [n \in C |-> H[n].amount]
  <1>1. IsFiniteSet(C) /\ \A n \in C : f[n] \in Nat
    <2>1. IsFiniteSet(C) /\ \A n \in DOMAIN H : H[n].amount \in Nat \ {0}
      BY CountedHolds
    <2>2. C \subseteq DOMAIN H
      BY DEF Counted
    <2>3. QED BY <2>1, <2>2
  <1>2. HeldOf(H, a, t) = SumFunctionOnSet(f, C)
    BY DEF HeldOf
  <1> HIDE DEF C, f
  <1>3. QED BY <1>1, <1>2, SumNat

(* A new hold reserves its amount on its account, unless it came expired. *)
LEMMA HeldAfterAppend ==
  ASSUME NEW H \in Seq(Hold), NEW h \in Hold, NEW a, NEW t
  PROVE  /\ h.account # a => HeldOf(Append(H, h), a, t) = HeldOf(H, a, t)
         /\ \/ HeldOf(Append(H, h), a, t) = HeldOf(H, a, t)
            \/ HeldOf(Append(H, h), a, t) = HeldOf(H, a, t) + h.amount
  <1> DEFINE G == Append(H, h)
             new == Len(H) + 1
             C == Counted(H, a, t)
             f == [n \in DOMAIN G |-> G[n].amount]
  <1>1. /\ G \in Seq(Hold) /\ Len(G) = new /\ G[new] = h
        /\ \A n \in 1 .. Len(H) : G[n] = H[n]
    BY AppendProperties
  <1>2. /\ DOMAIN H = 1 .. Len(H) /\ Len(H) \in Nat /\ DOMAIN G = 1 .. new
        /\ IsFiniteSet(C) /\ \A n \in DOMAIN G : G[n].amount \in Nat \ {0}
    BY <1>1, CountedHolds
  <1>3. new \notin DOMAIN H /\ DOMAIN G = DOMAIN H \cup {new} /\ \A n \in DOMAIN H : G[n] = H[n]
    BY <1>1, <1>2
  <1> HIDE DEF G, new
  <1>4. /\ h.account # a => Counted(G, a, t) = C
        /\ Counted(G, a, t) = C \/ Counted(G, a, t) = C \cup {new}
    BY <1>1, <1>3 DEF Counted
  <1>5. new \notin C /\ C \subseteq DOMAIN H
    BY <1>3 DEF Counted
  <1>6. \A n \in C : f[n] = H[n].amount /\ f[n] \in Int
    BY <1>2, <1>3, <1>5
  <1>7. f[new] = h.amount /\ h.amount \in Int
    BY <1>1, <1>2, <1>3
  <1>8. \A n \in Counted(G, a, t) : f[n] = G[n].amount
    BY DEF Counted
  <1> HIDE DEF C, f
  <1>9. HeldOf(H, a, t) = SumFunctionOnSet(f, C)
    BY <1>6, HeldBy DEF C
  <1>10. HeldOf(G, a, t) = SumFunctionOnSet(f, Counted(G, a, t))
    BY <1>1, <1>8, HeldBy
  <1>11. SumFunctionOnSet(f, C \cup {new}) = SumFunctionOnSet(f, C) + f[new]
    BY <1>2, <1>5, <1>6, <1>7, SumAdds DEF Ints
  <1>12. QED BY <1>4, <1>7, <1>9, <1>10, <1>11 DEF G

(* A hold that is settled frees its amount, unless it had expired. *)
LEMMA HeldAfterMark ==
  ASSUME NEW H \in Seq(Hold), NEW G \in Seq(Hold), NEW n \in DOMAIN H, NEW a, NEW t,
         DOMAIN G = DOMAIN H, G[n].status # "Active", \A m \in DOMAIN H \ {n} : G[m] = H[m]
  PROVE  /\ n \notin Counted(H, a, t) => HeldOf(G, a, t) = HeldOf(H, a, t)
         /\ n \in Counted(H, a, t) => HeldOf(G, a, t) = HeldOf(H, a, t) - H[n].amount
  <1> DEFINE C == Counted(H, a, t)
             f == [m \in DOMAIN H |-> H[m].amount]
  <1>1. Counted(G, a, t) = C \ {n} /\ C \subseteq DOMAIN H
    BY DEF Counted
  <1>2. IsFiniteSet(C) /\ IsFiniteSet(C \ {n}) /\ \A m \in C : f[m] \in Int /\ f[m] = H[m].amount
    <2>1. IsFiniteSet(C) /\ \A m \in DOMAIN H : H[m].amount \in Nat \ {0}
      BY CountedHolds
    <2>2. QED BY <1>1, <2>1, FS_Subset
  <1>3. \A m \in Counted(G, a, t) : f[m] = G[m].amount
    BY <1>1
  <1> HIDE DEF C, f
  <1>4. HeldOf(H, a, t) = SumFunctionOnSet(f, C)
    BY <1>2, HeldBy DEF C
  <1>5. HeldOf(G, a, t) = SumFunctionOnSet(f, C \ {n})
    <2>1. HeldOf(G, a, t) = SumFunctionOnSet(f, Counted(G, a, t))
      BY <1>3, HeldBy
    <2>2. QED BY <1>1, <2>1
  <1>6. CASE n \notin C
    <2>1. C \ {n} = C
      BY <1>6
    <2>2. QED BY <1>4, <1>5, <1>6, <2>1 DEF C
  <1>7. CASE n \in C
    <2>1. SumFunctionOnSet(f, C) = f[n] + SumFunctionOnSet(f, C \ {n})
      BY <1>2, <1>7, SumTakes DEF Ints
    <2>2. SumFunctionOnSet(f, C \ {n}) \in Int /\ f[n] \in Int /\ f[n] = H[n].amount
      BY <1>2, <1>7, SumType DEF Ints
    <2>3. HeldOf(G, a, t) = HeldOf(H, a, t) - H[n].amount
      BY <1>4, <1>5, <2>1, <2>2
    <2>4. QED BY <1>7, <2>3 DEF C
  <1>8. QED BY <1>6, <1>7
-----------------------------------------------------------------------------
(* The funds a payment on its way was promised cover it. *)
PayerCovered == payer # Idle => payer.available - payer.amount >= 0

(* The inductive invariant of the balances. *)
RegisterInv == LockInv /\ TypeOK /\ PayerCovered

LEMMA AvailableIsInt ==
  ASSUME ControlTypeOK, NEW a \in Account, NEW book \in Int
  PROVE  /\ Held(a) \in Nat /\ Limit[a] \in Int /\ balance[a] \in Int
         /\ Available(a, book) = book - Held(a) + Limit[a] /\ Available(a, book) \in Int
  <1>1. Held(a) \in Nat
    BY HeldIs, HeldIsNat DEF ControlTypeOK, Hold
  <1>2. Limit[a] \in Int /\ balance[a] \in Int
    BY AccountAssumption DEF ControlTypeOK
  <1>3. Available(a, book) = book - Held(a) + Limit[a]
    BY DEF Available
  <1>4. QED BY <1>1, <1>2, <1>3

(* An account that was opened stays so, if only as a closed one. *)
LEMMA OpenedForGood ==
  ASSUME LockInv, [Next]_vars, NEW a \in Account, status[a] # "None"
  PROVE  status'[a] # "None"
  <1>1. ControlTypeOK
    BY DEF LockInv
  <1>2. CASE status' = status
    BY <1>2
  <1>3. ASSUME NEW b \in Account, OpenAccount(b) PROVE status'[a] # "None"
    BY <1>1, <1>3 DEF OpenAccount, ControlTypeOK
  <1>4. ASSUME NEW b \in Account, NEW to \in AccountStatus, ChangeStatus(b, to)
        PROVE  status'[a] # "None"
    <2>1. to # "None"
      BY <1>4 DEF ChangeStatus, StatusEdge
    <2>2. QED BY <1>1, <1>4, <2>1 DEF ChangeStatus, ControlTypeOK
  <1>5. CASE EndClose
    BY <1>1, <1>5 DEF EndClose, ControlTypeOK
  <1>6. CASE \/ Tick \/ EndCreateHold \/ EndCaptureHold \/ CaptureRefused \/ EndSnapshot
             \/ EndPayment \/ UNCHANGED vars
             \/ \E n \in DOMAIN holds : ReleaseHold(n)
    BY <1>2, <1>6 DEF Tick, EndCreateHold, EndCaptureHold, CaptureRefused, EndSnapshot, EndPayment,
       ReleaseHold, vars
  <1>7. CASE \/ \E b \in Account : BeginClose(b)
             \/ \E b \in Account, amount \in HoldSum, expiresAt \in Expiry \cup {NoExpiry} :
                  BeginCreateHold(b, amount, expiresAt)
             \/ \E n \in DOMAIN holds, counterparty \in Account \cup {Other}, amount \in CaptureSum :
                  BeginCaptureHold(n, counterparty, amount)
             \/ \E b \in Account, date \in BusinessDate : BeginSnapshot(b, date)
    BY <1>2, <1>7 DEF BeginClose, BeginCreateHold, BeginCaptureHold, BeginSnapshot, Begin
  <1>8. CASE \/ \E b \in Account, amount \in PaymentSum : BeginPayment(b, amount)
             \/ \E b \in Account, amount \in CreditSum : Credit(b, amount)
             \/ \E b \in Account, amount \in DebitSum : Debit(b, amount)
    BY <1>2, <1>8 DEF BeginPayment, Credit, Debit
  <1>9. QED BY <1>3, <1>4, <1>5, <1>6, <1>7, <1>8 DEF Next

(* What a step does to the payment on its way. *)
LEMMA PayerSteps ==
  ASSUME [Next]_vars
  PROVE  \/ payer' = payer
         \/ payer' = Idle
         \/ \E a \in Account, amount \in PaymentSum : BeginPayment(a, amount)
  <1>1. CASE \/ Tick \/ EndClose \/ EndCreateHold \/ EndCaptureHold \/ CaptureRefused \/ EndSnapshot
             \/ EndPayment \/ UNCHANGED vars
             \/ \E a \in Account : OpenAccount(a) \/ BeginClose(a)
             \/ \E a \in Account, to \in AccountStatus : ChangeStatus(a, to)
             \/ \E n \in DOMAIN holds : ReleaseHold(n)
    BY <1>1 DEF Tick, EndClose, EndCreateHold, EndCaptureHold, CaptureRefused, EndSnapshot, EndPayment,
       OpenAccount, BeginClose, Begin, ChangeStatus, ReleaseHold, vars, calls
  <1>2. CASE \/ \E a \in Account, amount \in HoldSum, expiresAt \in Expiry \cup {NoExpiry} :
                  BeginCreateHold(a, amount, expiresAt)
             \/ \E n \in DOMAIN holds, counterparty \in Account \cup {Other}, amount \in CaptureSum :
                  BeginCaptureHold(n, counterparty, amount)
             \/ \E a \in Account, date \in BusinessDate : BeginSnapshot(a, date)
             \/ \E a \in Account, amount \in CreditSum : Credit(a, amount)
             \/ \E a \in Account, amount \in DebitSum : Debit(a, amount)
    BY <1>2 DEF BeginCreateHold, BeginCaptureHold, BeginSnapshot, Begin, Credit, Debit, calls
  <1>3. QED BY <1>1, <1>2 DEF Next

(* A payment is let through when the funds cover it, and the promise is     *)
(* kept in the call.                                                        *)
LEMMA NextPayer ==
  ASSUME RegisterInv, [Next]_vars
  PROVE  payer' # Idle => payer'.available \in Int /\ payer'.available - payer'.amount >= 0
  <1>1. ControlTypeOK /\ (payer # Idle => payer.available \in Int) /\ PayerCovered
    BY DEF RegisterInv, TypeOK
  <1>2. CASE payer' = payer \/ payer' = Idle
    BY <1>1, <1>2 DEF PayerCovered
  <1>3. ASSUME NEW a \in Account, NEW amount \in PaymentSum, BeginPayment(a, amount)
        PROVE  payer'.available \in Int /\ payer'.available - payer'.amount >= 0
    <2>1. Available(a, balance[a]) \in Int
      BY <1>1, AvailableIsInt DEF ControlTypeOK
    <2>2. QED BY <1>3, <2>1 DEF BeginPayment
  <1>4. QED BY <1>2, <1>3, PayerSteps

(* What a step does to the snapshots. *)
LEMMA SnapshotSteps ==
  ASSUME [Next]_vars
  PROVE  snapshots' = snapshots \/ EndSnapshot
  <1>1. CASE \/ Tick \/ EndClose \/ EndCreateHold \/ EndCaptureHold \/ CaptureRefused \/ EndSnapshot
             \/ EndPayment \/ UNCHANGED vars
             \/ \E a \in Account : OpenAccount(a) \/ BeginClose(a)
             \/ \E a \in Account, to \in AccountStatus : ChangeStatus(a, to)
             \/ \E n \in DOMAIN holds : ReleaseHold(n)
    BY <1>1 DEF Tick, EndClose, EndCreateHold, EndCaptureHold, CaptureRefused, EndPayment,
       OpenAccount, BeginClose, Begin, ChangeStatus, ReleaseHold, vars
  <1>2. CASE \/ \E a \in Account, amount \in HoldSum, expiresAt \in Expiry \cup {NoExpiry} :
                  BeginCreateHold(a, amount, expiresAt)
             \/ \E n \in DOMAIN holds, counterparty \in Account \cup {Other}, amount \in CaptureSum :
                  BeginCaptureHold(n, counterparty, amount)
             \/ \E a \in Account, date \in BusinessDate : BeginSnapshot(a, date)
             \/ \E a \in Account, amount \in PaymentSum : BeginPayment(a, amount)
             \/ \E a \in Account, amount \in CreditSum : Credit(a, amount)
             \/ \E a \in Account, amount \in DebitSum : Debit(a, amount)
    BY <1>2 DEF BeginCreateHold, BeginCaptureHold, BeginSnapshot, Begin, BeginPayment, Credit, Debit
  <1>3. QED BY <1>1, <1>2 DEF Next

LEMMA NextSnapshots ==
  ASSUME RegisterInv, [Next]_vars
  PROVE  \A s \in DOMAIN snapshots' :
           status'[s[1]] # "None" /\ snapshots'[s] \in [book: Int, holds: Int, available: Int]
  <1>1. LockInv /\ ControlTypeOK /\ LockProtects
    BY DEF RegisterInv, LockInv
  <1>2. DOMAIN snapshots \subseteq Account \X BusinessDate
    BY <1>1 DEF ControlTypeOK
  <1>3. ASSUME NEW s \in DOMAIN snapshots
        PROVE  status'[s[1]] # "None" /\ snapshots[s] \in [book: Int, holds: Int, available: Int]
    <2>1. s[1] \in Account /\ status[s[1]] # "None"
            /\ snapshots[s] \in [book: Int, holds: Int, available: Int]
      BY <1>2 DEF RegisterInv, TypeOK
    <2>2. QED BY <1>1, <2>1, OpenedForGood
  <1>4. CASE snapshots' = snapshots
    BY <1>3, <1>4
  <1>5. CASE EndSnapshot
    <2> DEFINE a == writer.account
               k == <<a, writer.date>>
               s == [book |-> writer.book, holds |-> Held(a), available |-> Available(a, writer.book)]
    <2>1. a \in Account /\ writer.book \in Int /\ status[a] # "None"
      BY <1>1, <1>5, WriterFields DEF EndSnapshot, LockProtects
    <2>2. Held(a) \in Int /\ Available(a, writer.book) \in Int
      BY <1>1, <2>1, AvailableIsInt
    <2>3. s \in [book: Int, holds: Int, available: Int]
      BY <2>1, <2>2
    <2>4. status'[k[1]] # "None"
      <3>1. k[1] = a
        OBVIOUS
      <3>2. QED BY <1>1, <2>1, <3>1, OpenedForGood
    <2>5. DOMAIN snapshots' = DOMAIN snapshots \cup {k}
            /\ \A x \in DOMAIN snapshots' : snapshots'[x] = IF x = k THEN s ELSE snapshots[x]
      BY <1>5 DEF EndSnapshot, Put
    <2> HIDE DEF k, s
    <2>6. QED BY <1>3, <2>3, <2>4, <2>5
  <1>6. QED BY <1>4, <1>5, SnapshotSteps

(* The inductive invariant holds in every reachable state. *)
THEOREM RegisterInvariant == Spec => []RegisterInv
  <1>1. Init => RegisterInv
    <2> SUFFICES ASSUME Init PROVE RegisterInv
      OBVIOUS
    <2>1. LockInv
      BY InitLockInv
    <2>2. payer = Idle /\ DOMAIN snapshots = {}
      BY DEF Init
    <2>3. QED BY <2>1, <2>2 DEF RegisterInv, LockInv, TypeOK, PayerCovered
  <1>2. RegisterInv /\ [Next]_vars => RegisterInv'
    <2> SUFFICES ASSUME RegisterInv, [Next]_vars PROVE RegisterInv'
      OBVIOUS
    <2>1. LockInv'
      BY NextControlTypeOK, NextLockProtects, NextHoldSettlesOnce DEF LockInv, RegisterInv
    <2>2. payer' # Idle => payer'.available \in Int /\ payer'.available - payer'.amount >= 0
      BY NextPayer
    <2>3. \A s \in DOMAIN snapshots' :
            status'[s[1]] # "None" /\ snapshots'[s] \in [book: Int, holds: Int, available: Int]
      BY NextSnapshots
    <2>4. QED BY <2>1, <2>2, <2>3 DEF RegisterInv, LockInv, TypeOK, PayerCovered
  <1>3. QED BY <1>1, <1>2, PTL DEF Spec

(* What is held and captured is positive, an account's balance and its      *)
(* snapshots are whole amounts, and a snapshot is of an account that was    *)
(* opened (register.go:298-410, 551-580).                                   *)
THEOREM TypesAlways == Spec => []TypeOK
  <1>1. RegisterInv => TypeOK
    BY DEF RegisterInv
  <1>2. QED BY RegisterInvariant, <1>1, PTL
-----------------------------------------------------------------------------
(* Account a has less available than before, and less than nothing. *)
Overdraws(a) ==
  Available(a, balance[a])' < 0 /\ Available(a, balance[a])' < Available(a, balance[a])

Overridden(a) ==
  \/ UNCHANGED <<holds, calls>>
  \/ HoldOvertaken(a) \/ PaymentOvertaken(a) \/ CaptureOverrides(a)

(* What is available, before and after a step. *)
LEMMA AvailableIs ==
  ASSUME ControlTypeOK, ControlTypeOK', NEW a \in Account
  PROVE  /\ HeldOf(holds, a, now) \in Nat /\ HeldOf(holds', a, now') \in Nat
         /\ balance[a] \in Int /\ balance'[a] \in Int /\ Limit[a] \in Int
         /\ Available(a, balance[a]) = balance[a] - HeldOf(holds, a, now) + Limit[a]
         /\ Available(a, balance[a])' = balance'[a] - HeldOf(holds', a, now') + Limit[a]
  <1>1. holds \in Seq(Hold) /\ holds' \in Seq(Hold)
    BY DEF ControlTypeOK, Hold
  <1>2. HeldOf(holds, a, now) \in Nat /\ HeldOf(holds', a, now') \in Nat
    BY <1>1, HeldIsNat
  <1>3. balance[a] \in Int /\ balance'[a] \in Int /\ Limit[a] \in Int
    BY AccountAssumption DEF ControlTypeOK
  <1>4. Held(a) = HeldOf(holds, a, now) /\ Held(a)' = HeldOf(holds', a, now')
    BY HeldIs
  <1>5. Available(a, balance[a]) = balance[a] - HeldOf(holds, a, now) + Limit[a]
    BY <1>4 DEF Available
  <1>6. Available(a, balance[a])' = balance'[a] - HeldOf(holds', a, now') + Limit[a]
    BY <1>4 DEF Available
  <1>7. QED BY <1>2, <1>3, <1>5, <1>6

(* The hold that is placed: the check covered it, with what the method read *)
(* of the book.                                                             *)
LEMMA PlacedHold ==
  ASSUME RegisterInv, ControlTypeOK', EndCreateHold, NEW a \in Account, Overdraws(a)
  PROVE  HoldOvertaken(a)
  <1> DEFINE x == writer.account
             h == [account |-> x, amount |-> writer.amount, expiresAt |-> writer.expiresAt,
                   status |-> "Active"]
  <1>1. ControlTypeOK /\ holds \in Seq(Hold)
    BY DEF RegisterInv, LockInv, ControlTypeOK, Hold
  <1>2. /\ x \in Account /\ writer.amount \in Nat \ {0} /\ writer.book \in Int /\ h \in Hold
        /\ writer.call = "CreateHold" /\ writer' = Idle
    BY <1>1, WriterFields, Amounts DEF EndCreateHold, Hold, HoldStatus
  <1>3. balance' = balance /\ now' = now
    BY DEF EndCreateHold
  <1>4. /\ HeldOf(holds, a, now) \in Nat /\ HeldOf(holds', a, now') \in Nat
        /\ balance[a] \in Int /\ Limit[a] \in Int
        /\ balance[a] - HeldOf(holds', a, now) + Limit[a] < 0
        /\ HeldOf(holds', a, now) > HeldOf(holds, a, now)
    <2>1. /\ HeldOf(holds, a, now) \in Nat /\ HeldOf(holds', a, now') \in Nat
          /\ balance[a] \in Int /\ balance'[a] \in Int /\ Limit[a] \in Int
          /\ Available(a, balance[a]) = balance[a] - HeldOf(holds, a, now) + Limit[a]
          /\ Available(a, balance[a])' = balance'[a] - HeldOf(holds', a, now') + Limit[a]
      BY <1>1, AvailableIs
    <2>2. balance'[a] = balance[a] /\ HeldOf(holds', a, now') = HeldOf(holds', a, now)
      BY <1>3
    <2>3. Available(a, balance[a])' < 0 /\ Available(a, balance[a])' < Available(a, balance[a])
      BY DEF Overdraws
    <2>4. QED BY <2>1, <2>2, <2>3
  <1>5. holds' # holds
    BY <1>4
  <1>6. holds' = Append(holds, h) /\ Available(x, writer.book) - writer.amount >= 0
    BY <1>5 DEF EndCreateHold
  <1>7. /\ x # a => HeldOf(holds', a, now) = HeldOf(holds, a, now)
        /\ \/ HeldOf(holds', a, now) = HeldOf(holds, a, now)
           \/ HeldOf(holds', a, now) = HeldOf(holds, a, now) + h.amount
    BY <1>1, <1>2, <1>6, HeldAfterAppend
  <1>8. x = a /\ HeldOf(holds', a, now) = HeldOf(holds, a, now) + writer.amount
    BY <1>4, <1>7
  <1>9. Available(x, writer.book) = writer.book - HeldOf(holds, a, now) + Limit[a]
    BY <1>1, <1>2, <1>8, HeldIs DEF Available
  <1>10. balance[a] < writer.book
    BY <1>2, <1>4, <1>6, <1>8, <1>9
  <1>11. QED BY <1>2, <1>8, <1>10 DEF HoldOvertaken

(* The hold that is captured frees at least what is taken, or it is an      *)
(* override.                                                                *)
LEMMA CapturedHold ==
  ASSUME RegisterInv, ControlTypeOK', EndCaptureHold, NEW a \in Account, Overdraws(a)
  PROVE  CaptureOverrides(a)
  <1> DEFINE n == writer.hold
             c == [hold |-> n, amount |-> writer.amount]
  <1>1. ControlTypeOK /\ holds \in Seq(Hold) /\ captures \in Seq([hold: DOMAIN holds, amount: Nat \ {0}])
    BY DEF RegisterInv, LockInv, ControlTypeOK, Hold
  <1>2. n \in DOMAIN holds /\ HoldIsActive(n) /\ writer.amount \in Nat \ {0}
    BY <1>1, WriterFields DEF EndCaptureHold, RegisterInv, LockInv, LockProtects
  <1>3. /\ holds' \in Seq(Hold) /\ DOMAIN holds' = DOMAIN holds /\ holds'[n].status = "Captured"
        /\ \A m \in DOMAIN holds \ {n} : holds'[m] = holds[m]
    BY <1>1, <1>2, MarkedHolds DEF EndCaptureHold, HoldStatus
  <1>4. captures'[Len(captures')] = c
    <2>1. c \in [hold: DOMAIN holds, amount: Nat \ {0}] /\ captures' = Append(captures, c)
      BY <1>2 DEF EndCaptureHold
    <2>2. QED BY <1>1, <2>1, AppendProperties
  <1>5. /\ n \notin Counted(holds, a, now) => HeldOf(holds', a, now) = HeldOf(holds, a, now)
        /\ n \in Counted(holds, a, now) =>
             HeldOf(holds', a, now) = HeldOf(holds, a, now) - holds[n].amount
    BY <1>1, <1>2, <1>3, HeldAfterMark
  <1>6. PICK taken : taken = IF a = holds[n].account THEN writer.amount ELSE 0
    OBVIOUS
  <1>7. PICK given : given = IF a = writer.counterparty THEN writer.amount ELSE 0
    OBVIOUS
  <1>8. balance'[a] = balance[a] - taken + given /\ taken \in Nat /\ given \in Nat
    BY <1>2, <1>6, <1>7 DEF EndCaptureHold, Transferred
  <1>9. /\ HeldOf(holds, a, now) \in Nat /\ HeldOf(holds', a, now) \in Nat
        /\ balance[a] \in Int /\ Limit[a] \in Int
        /\ balance'[a] - HeldOf(holds', a, now) < balance[a] - HeldOf(holds, a, now)
    <2>1. /\ HeldOf(holds, a, now) \in Nat /\ HeldOf(holds', a, now') \in Nat
          /\ balance[a] \in Int /\ balance'[a] \in Int /\ Limit[a] \in Int
          /\ Available(a, balance[a]) = balance[a] - HeldOf(holds, a, now) + Limit[a]
          /\ Available(a, balance[a])' = balance'[a] - HeldOf(holds', a, now') + Limit[a]
      BY <1>1, AvailableIs
    <2>2. HeldOf(holds', a, now') = HeldOf(holds', a, now)
      BY DEF EndCaptureHold
    <2>3. Available(a, balance[a])' < Available(a, balance[a])
      BY DEF Overdraws
    <2>4. QED BY <2>1, <2>2, <2>3
  <1>10. holds[n].amount \in Nat \ {0}
    BY <1>1, <1>2, CountedHolds
  <1>11. a = holds[n].account
    <2>1. CASE a # holds[n].account
      <3>1. n \notin Counted(holds, a, now) /\ taken = 0
        BY <1>6, <2>1 DEF Counted
      <3>2. FALSE
        BY <1>5, <1>8, <1>9, <3>1
      <3>3. QED BY <3>2
    <2>2. QED BY <2>1
  <1>12. taken = writer.amount
    BY <1>6, <1>11
  <1>13. CASE n \in Counted(holds, a, now)
    <2>1. writer.amount > holds[n].amount
      BY <1>2, <1>5, <1>8, <1>9, <1>10, <1>12, <1>13
    <2>2. QED BY <1>2, <1>3, <1>4, <1>11, <2>1 DEF CaptureOverrides
  <1>14. CASE n \notin Counted(holds, a, now)
    <2>1. Expired(holds[n])
      BY <1>2, <1>11, <1>14 DEF Counted, Expired, HoldIsActive
    <2>2. QED BY <1>2, <1>3, <1>11, <2>1 DEF CaptureOverrides
  <1>15. QED BY <1>13, <1>14

(* The payment that is posted: the check covered it when it was asked. *)
LEMMA PostedPayment ==
  ASSUME RegisterInv, ControlTypeOK', EndPayment, NEW a \in Account, Overdraws(a)
  PROVE  PaymentOvertaken(a)
  <1>1. ControlTypeOK /\ payer # Idle /\ payer' = Idle /\ holds' = holds /\ now' = now
    BY DEF RegisterInv, LockInv, EndPayment
  <1>2. payer.account \in Account /\ payer.amount \in Int
    BY <1>1, Amounts DEF ControlTypeOK
  <1>3. payer.available \in Int /\ payer.available - payer.amount >= 0
    BY <1>1 DEF RegisterInv, TypeOK, PayerCovered
  <1>4. /\ HeldOf(holds, a, now) \in Nat /\ HeldOf(holds', a, now') \in Nat
        /\ balance[a] \in Int /\ balance'[a] \in Int /\ Limit[a] \in Int
        /\ Available(a, balance[a]) = balance[a] - HeldOf(holds, a, now) + Limit[a]
        /\ Available(a, balance[a])' = balance'[a] - HeldOf(holds', a, now') + Limit[a]
    BY <1>1, AvailableIs
  <1>5. HeldOf(holds', a, now') = HeldOf(holds, a, now)
    BY <1>1
  <1>6. Available(a, balance[a])' < 0 /\ Available(a, balance[a])' < Available(a, balance[a])
    BY DEF Overdraws
  <1>7. balance'[a] # balance[a]
    BY <1>4, <1>5, <1>6
  <1>8. a = payer.account /\ balance'[a] = balance[a] - payer.amount
    BY <1>1, <1>2, <1>7 DEF EndPayment, ControlTypeOK
  <1>9. Available(a, balance[a]) < payer.available
    BY <1>2, <1>3, <1>4, <1>5, <1>6, <1>8
  <1>10. QED BY <1>1, <1>8, <1>9 DEF PaymentOvertaken

(* A released hold gives the account back what it reserved. *)
LEMMA ReleasedHold ==
  ASSUME RegisterInv, ControlTypeOK', NEW n \in DOMAIN holds, ReleaseHold(n), NEW a \in Account
  PROVE  ~Overdraws(a)
  <1>1. ControlTypeOK /\ holds \in Seq(Hold) /\ balance' = balance /\ now' = now
    BY DEF RegisterInv, LockInv, ControlTypeOK, Hold, ReleaseHold
  <1>2. /\ holds' \in Seq(Hold) /\ DOMAIN holds' = DOMAIN holds /\ holds'[n].status = "Released"
        /\ \A m \in DOMAIN holds \ {n} : holds'[m] = holds[m]
    BY <1>1, MarkedHolds DEF ReleaseHold, HoldStatus
  <1>3. /\ n \notin Counted(holds, a, now) => HeldOf(holds', a, now) = HeldOf(holds, a, now)
        /\ n \in Counted(holds, a, now) =>
             HeldOf(holds', a, now) = HeldOf(holds, a, now) - holds[n].amount
    BY <1>1, <1>2, HeldAfterMark
  <1>4. holds[n].amount \in Nat
    BY <1>1, CountedHolds
  <1>5. /\ HeldOf(holds, a, now) \in Nat /\ HeldOf(holds', a, now') \in Nat
        /\ balance[a] \in Int /\ balance'[a] \in Int /\ Limit[a] \in Int
        /\ Available(a, balance[a]) = balance[a] - HeldOf(holds, a, now) + Limit[a]
        /\ Available(a, balance[a])' = balance'[a] - HeldOf(holds', a, now') + Limit[a]
    BY <1>1, AvailableIs
  <1>6. HeldOf(holds', a, now') = HeldOf(holds', a, now) /\ balance'[a] = balance[a]
    BY <1>1
  <1>7. ~(Available(a, balance[a])' < Available(a, balance[a]))
    BY <1>3, <1>4, <1>5, <1>6
  <1>8. QED BY <1>7 DEF Overdraws

(* The other steps: they move what is available only through the book and   *)
(* the clock.                                                               *)
LEMMA OtherSteps ==
  ASSUME Next
  PROVE  \/ UNCHANGED <<holds, calls>>
         \/ UNCHANGED <<balance, holds, now>>
         \/ EndCreateHold \/ EndCaptureHold \/ EndPayment
         \/ \E n \in DOMAIN holds : ReleaseHold(n)
  <1>1. CASE \/ Tick
             \/ \E a \in Account : OpenAccount(a)
             \/ \E a \in Account, to \in AccountStatus : ChangeStatus(a, to)
             \/ \E a \in Account, amount \in CreditSum : Credit(a, amount)
             \/ \E a \in Account, amount \in DebitSum : Debit(a, amount)
    <2>1. UNCHANGED <<holds, calls>>
      BY <1>1 DEF Tick, OpenAccount, ChangeStatus, Credit, Debit
    <2>2. QED BY <2>1
  <1>2. CASE \/ EndClose \/ CaptureRefused \/ EndSnapshot
             \/ \E a \in Account : BeginClose(a)
             \/ \E a \in Account, date \in BusinessDate : BeginSnapshot(a, date)
    <2>1. UNCHANGED <<balance, holds, now>>
      BY <1>2 DEF EndClose, CaptureRefused, EndSnapshot, BeginClose, BeginSnapshot, Begin
    <2>2. QED BY <2>1
  <1>3. CASE \/ \E a \in Account, amount \in HoldSum, expiresAt \in Expiry \cup {NoExpiry} :
                  BeginCreateHold(a, amount, expiresAt)
             \/ \E n \in DOMAIN holds, counterparty \in Account \cup {Other}, amount \in CaptureSum :
                  BeginCaptureHold(n, counterparty, amount)
             \/ \E a \in Account, amount \in PaymentSum : BeginPayment(a, amount)
    <2>1. UNCHANGED <<balance, holds, now>>
      BY <1>3 DEF BeginCreateHold, BeginCaptureHold, Begin, BeginPayment
    <2>2. QED BY <2>1
  <1>4. QED BY <1>1, <1>2, <1>3 DEF Next

LEMMA NextOverdrawn ==
  ASSUME RegisterInv, ControlTypeOK', Next, NEW a \in Account, Overdraws(a)
  PROVE  Overridden(a)
  <1>1. CASE UNCHANGED <<holds, calls>>
    BY <1>1 DEF Overridden
  <1>2. CASE UNCHANGED <<balance, holds, now>>
    <2>1. ControlTypeOK
      BY DEF RegisterInv, LockInv
    <2>2. /\ HeldOf(holds, a, now) \in Nat
          /\ balance[a] \in Int /\ Limit[a] \in Int
          /\ Available(a, balance[a]) = balance[a] - HeldOf(holds, a, now) + Limit[a]
          /\ Available(a, balance[a])' = balance'[a] - HeldOf(holds', a, now') + Limit[a]
      BY <2>1, AvailableIs
    <2>3. balance'[a] = balance[a] /\ HeldOf(holds', a, now') = HeldOf(holds, a, now)
      BY <1>2
    <2>4. ~(Available(a, balance[a])' < Available(a, balance[a]))
      BY <2>2, <2>3
    <2>5. QED BY <2>4 DEF Overdraws
  <1>3. CASE EndCreateHold
    BY <1>3, PlacedHold DEF Overridden
  <1>4. CASE EndCaptureHold
    BY <1>4, CapturedHold DEF Overridden
  <1>5. CASE EndPayment
    BY <1>5, PostedPayment DEF Overridden
  <1>6. CASE \E n \in DOMAIN holds : ReleaseHold(n)
    BY <1>6, ReleasedHold
  <1>7. QED BY <1>1, <1>2, <1>3, <1>4, <1>5, <1>6, OtherSteps

(* What an account has available falls below zero only by a capture that    *)
(* exceeds its hold or comes after its expiry, by a debit that does not go  *)
(* through the register, or by a hold or payment that was overtaken between *)
(* its check and its effect (register.go:298-336, 373-410, 469-489;         *)
(* payment/system.go:498-525), for any number of holds and any amounts.     *)
THEOREM OverdrawnOnlyByOverrideAlways == Spec => OverdrawnOnlyByOverride
  <1> DEFINE Step == \A a \in Account : Overdraws(a) => Overridden(a)
  <1>1. RegisterInv /\ RegisterInv' /\ [Next]_vars => [Step]_vars
    <2> SUFFICES ASSUME RegisterInv, RegisterInv', Next PROVE Step
      OBVIOUS
    <2>1. ControlTypeOK'
      BY DEF RegisterInv, LockInv
    <2>2. QED BY <2>1, NextOverdrawn
  <1>2. [Step]_vars => [\A a \in Account :
          (Available(a, balance[a])' < 0 /\ Available(a, balance[a])' < Available(a, balance[a])) =>
            \/ UNCHANGED <<holds, calls>>
            \/ HoldOvertaken(a) \/ PaymentOvertaken(a) \/ CaptureOverrides(a)]_vars
    BY DEF Overdraws, Overridden
  <1> HIDE DEF Step
  <1>3. QED BY RegisterInvariant, <1>1, <1>2, PTL DEF Spec, OverdrawnOnlyByOverride
-----------------------------------------------------------------------------
(* A moment of a snapshot's call at which account a's holds were what they  *)
(* are in H at time t, but for those that expired since.                    *)
Seen(m, H, a, t) ==
  /\ m.at \in Nat /\ m.at <= t
  /\ \/ m.holds = HeldOf(H, a, t)
     \/ \E n \in DOMAIN H : /\ H[n].account = a /\ H[n].status = "Active"
                            /\ H[n].expiresAt # NoExpiry /\ H[n].expiresAt < t
                            /\ H[n].expiresAt >= m.at

(* Of the moments since the snapshot under way took the lock, at which the  *)
(* book balance was the one it read, there is such a one.                   *)
SeenHolds == TakingSnapshot => \E m \in moments : Seen(m, holds, writer.account, now)

SnapshotInv == LockInv /\ SeenHolds

(* While a snapshot is under way, only the book and the clock move. *)
LEMMA DuringSnapshot ==
  ASSUME TakingSnapshot, [Next]_vars
  PROVE  \/ writer' = Idle /\ EndSnapshot
         \/ writer' = writer /\ holds' = holds /\ (now' = now \/ Tick)
  <1>1. writer.call = "TakeEndOfDaySnapshot" /\ ~LockFree
    BY DEF TakingSnapshot, LockFree, Idle
  <1>2. CASE Tick \/ EndPayment \/ UNCHANGED vars
    BY <1>2 DEF Tick, EndPayment, vars, calls
  <1>3. CASE EndSnapshot
    BY <1>3 DEF EndSnapshot
  <1>4. CASE \/ \E a \in Account, amount \in CreditSum : Credit(a, amount)
             \/ \E a \in Account, amount \in DebitSum : Debit(a, amount)
    BY <1>4 DEF Credit, Debit, calls
  <1>5. CASE EndClose \/ EndCreateHold \/ EndCaptureHold \/ CaptureRefused
    BY <1>1, <1>5 DEF EndClose, EndCreateHold, EndCaptureHold, CaptureRefused
  <1>6. CASE \/ \E a \in Account : OpenAccount(a) \/ BeginClose(a)
             \/ \E a \in Account, to \in AccountStatus : ChangeStatus(a, to)
             \/ \E n \in DOMAIN holds : ReleaseHold(n)
             \/ \E a \in Account, date \in BusinessDate : BeginSnapshot(a, date)
    BY <1>1, <1>6 DEF OpenAccount, BeginClose, ChangeStatus, ReleaseHold, BeginSnapshot, Begin
  <1>7. CASE \/ \E a \in Account, amount \in HoldSum, expiresAt \in Expiry \cup {NoExpiry} :
                  BeginCreateHold(a, amount, expiresAt)
             \/ \E n \in DOMAIN holds, counterparty \in Account \cup {Other}, amount \in CaptureSum :
                  BeginCaptureHold(n, counterparty, amount)
             \/ \E a \in Account, amount \in PaymentSum : BeginPayment(a, amount)
    BY <1>1, <1>7 DEF BeginCreateHold, BeginCaptureHold, Begin, BeginPayment
  <1>8. QED BY <1>2, <1>3, <1>4, <1>5, <1>6, <1>7 DEF Next

(* A snapshot begins with the balance the book has at that moment. *)
LEMMA SnapshotBegins ==
  ASSUME ControlTypeOK, ~TakingSnapshot, TakingSnapshot', Next
  PROVE  balance'[writer'.account] = writer'.book
  <1>1. writer' # writer /\ writer'.call = "TakeEndOfDaySnapshot" /\ writer' # Idle
    BY DEF TakingSnapshot, Idle
  <1>2. ASSUME NEW a \in Account, NEW date \in BusinessDate, BeginSnapshot(a, date)
        PROVE  balance'[writer'.account] = writer'.book
    BY <1>2 DEF BeginSnapshot, Begin
  <1>3. CASE \/ Tick \/ EndClose \/ EndCreateHold \/ EndCaptureHold \/ CaptureRefused \/ EndSnapshot
             \/ EndPayment
             \/ \E a \in Account : OpenAccount(a)
             \/ \E a \in Account, to \in AccountStatus : ChangeStatus(a, to)
             \/ \E n \in DOMAIN holds : ReleaseHold(n)
    <2>1. writer' = writer \/ writer' = Idle
      BY <1>3 DEF Tick, EndClose, EndCreateHold, EndCaptureHold, CaptureRefused, EndSnapshot,
         EndPayment, OpenAccount, ChangeStatus, ReleaseHold, calls
    <2>2. QED BY <1>1, <2>1
  <1>4. CASE \/ \E a \in Account, amount \in HoldSum, expiresAt \in Expiry \cup {NoExpiry} :
                  BeginCreateHold(a, amount, expiresAt)
             \/ \E n \in DOMAIN holds, counterparty \in Account \cup {Other}, amount \in CaptureSum :
                  BeginCaptureHold(n, counterparty, amount)
             \/ \E a \in Account, amount \in PaymentSum : BeginPayment(a, amount)
             \/ \E a \in Account, amount \in CreditSum : Credit(a, amount)
             \/ \E a \in Account, amount \in DebitSum : Debit(a, amount)
    <2>1. writer' = writer \/ writer'.call = "CreateHold" \/ writer'.call = "CaptureHold"
      BY <1>4 DEF BeginCreateHold, BeginCaptureHold, Begin, BeginPayment, Credit, Debit, calls
    <2>2. QED BY <1>1, <2>1
  <1>5. ASSUME NEW a \in Account, BeginClose(a) PROVE FALSE
    BY <1>1, <1>5 DEF BeginClose, Begin
  <1>6. QED BY <1>2, <1>3, <1>4, <1>5 DEF Next

(* A tick of the clock changes what is held only by making a hold expire,   *)
(* so a moment once seen stays one.                                         *)
LEMMA SeenAfterTick ==
  ASSUME NEW H \in Seq(Hold), NEW a, NEW t \in Nat, NEW m, Seen(m, H, a, t)
  PROVE  Seen(m, H, a, t + 1)
  <1>1. \A n \in DOMAIN H : H[n].expiresAt # NoExpiry => H[n].expiresAt \in Nat
    <2>1. \A n \in DOMAIN H : H[n] \in Hold
      BY CountedHolds
    <2>2. Expiry \subseteq Nat
      BY InputAssumption
    <2>3. QED BY <2>1, <2>2 DEF Hold
  <1>2. m.at \in Nat /\ m.at <= t /\ m.at <= t + 1
    BY DEF Seen
  <1>3. ASSUME NEW n \in DOMAIN H, H[n].account = a, H[n].status = "Active",
               H[n].expiresAt # NoExpiry, H[n].expiresAt < t + 1, H[n].expiresAt >= m.at
        PROVE  Seen(m, H, a, t + 1)
    BY <1>2, <1>3 DEF Seen
  <1>4. CASE m.holds = HeldOf(H, a, t) /\ Counted(H, a, t + 1) = Counted(H, a, t)
    <2>1. HeldOf(H, a, t + 1) = HeldOf(H, a, t)
      BY <1>4 DEF HeldOf
    <2>2. QED BY <1>2, <1>4, <2>1 DEF Seen
  <1>5. CASE Counted(H, a, t + 1) # Counted(H, a, t)
    <2>1. Counted(H, a, t + 1) \subseteq Counted(H, a, t)
      BY <1>1 DEF Counted
    <2>2. PICK n \in Counted(H, a, t) : n \notin Counted(H, a, t + 1)
      BY <1>5, <2>1
    <2>3. n \in DOMAIN H /\ H[n].account = a /\ H[n].status = "Active"
            /\ H[n].expiresAt # NoExpiry /\ H[n].expiresAt < t + 1 /\ ~(H[n].expiresAt < t)
      BY <2>2 DEF Counted
    <2>4. H[n].expiresAt >= m.at
      BY <1>1, <1>2, <2>3
    <2>5. QED BY <1>3, <2>3, <2>4
  <1>6. ASSUME NEW n \in DOMAIN H, H[n].account = a, H[n].status = "Active",
               H[n].expiresAt # NoExpiry, H[n].expiresAt < t, H[n].expiresAt >= m.at
        PROVE  Seen(m, H, a, t + 1)
    <2>1. H[n].expiresAt < t + 1
      BY <1>1, <1>6
    <2>2. QED BY <1>3, <1>6, <2>1
  <1>7. m.holds = HeldOf(H, a, t)
        \/ \E n \in DOMAIN H : /\ H[n].account = a /\ H[n].status = "Active"
                               /\ H[n].expiresAt # NoExpiry /\ H[n].expiresAt < t
                               /\ H[n].expiresAt >= m.at
    BY DEF Seen
  <1>8. QED BY <1>4, <1>5, <1>6, <1>7

LEMMA NextSeenHolds ==
  ASSUME SnapshotInv, LockInv', MCNext, TakingSnapshot'
  PROVE  \E m \in moments' : Seen(m, holds', writer'.account, now')
  <1>1. ControlTypeOK /\ ControlTypeOK' /\ Next /\ holds \in Seq(Hold)
    BY DEF SnapshotInv, LockInv, MCNext, ControlTypeOK, Hold
  <1>2. now \in Nat /\ now' \in Nat
    BY <1>1 DEF ControlTypeOK
  <1>3. moments' = (IF TakingSnapshot THEN moments ELSE {}) \cup MomentOf(writer.account)'
    BY DEF MCNext
  <1>4. PICK a : a = writer'.account
    OBVIOUS
  <1>5. CASE ~TakingSnapshot
    <2>1. PICK m : m = [holds |-> Held(a)', at |-> now']
      OBVIOUS
    <2>2. balance'[a] = writer'.book
      BY <1>1, <1>4, <1>5, SnapshotBegins
    <2>3. m \in MomentOf(writer.account)'
      BY <1>4, <2>1, <2>2 DEF MomentOf
    <2>4. m.holds = HeldOf(holds', a, now') /\ m.at = now'
      BY <2>1, HeldIs
    <2>5. Seen(m, holds', a, now')
      BY <1>2, <2>4 DEF Seen
    <2>6. QED BY <1>3, <1>4, <2>3, <2>5
  <1>6. CASE TakingSnapshot
    <2>1. writer' = writer /\ holds' = holds /\ (now' = now \/ Tick)
      <3>1. writer' # Idle
        BY DEF TakingSnapshot, Idle
      <3>2. QED BY <1>1, <1>6, <3>1, DuringSnapshot
    <2>2. PICK m \in moments : Seen(m, holds, a, now)
      BY <1>4, <1>6, <2>1 DEF SnapshotInv, SeenHolds
    <2>3. m \in moments'
      BY <1>3, <1>6
    <2>4. Seen(m, holds, a, now')
      <3>1. CASE now' = now
        BY <2>2, <3>1
      <3>2. CASE now' = now + 1
        BY <1>1, <1>2, <2>2, <3>2, SeenAfterTick
      <3>3. QED BY <2>1, <3>1, <3>2 DEF Tick
    <2>5. QED BY <1>4, <2>1, <2>3, <2>4
  <1>7. QED BY <1>5, <1>6

(* The history variable watches the register without disturbing it. *)
LEMMA Watched == MCSpec => Spec
  <1>1. MCInit => Init
    BY DEF MCInit
  <1>2. [MCNext]_<<vars, moments>> => [Next]_vars
    BY DEF MCNext
  <1>3. QED BY <1>1, <1>2, PTL DEF MCSpec, Spec

(* The inductive invariant holds in every reachable state. *)
THEOREM SnapshotInvariant == MCSpec => []SnapshotInv
  <1>1. MCInit => SeenHolds
    BY DEF MCInit, Init, Idle, SeenHolds, TakingSnapshot
  <1>2. SnapshotInv /\ LockInv' /\ [MCNext]_<<vars, moments>> => SeenHolds'
    <2> SUFFICES ASSUME SnapshotInv, LockInv', [MCNext]_<<vars, moments>> PROVE SeenHolds'
      OBVIOUS
    <2>1. CASE UNCHANGED <<vars, moments>>
      <3>1. /\ holds' = holds /\ now' = now /\ writer' = writer /\ moments' = moments
        BY <2>1 DEF vars, calls
      <3>2. SeenHolds
        BY DEF SnapshotInv
      <3>3. QED BY <3>1, <3>2 DEF SeenHolds, TakingSnapshot
    <2>2. CASE MCNext /\ TakingSnapshot'
      BY <2>2, NextSeenHolds DEF SeenHolds
    <2>3. CASE ~TakingSnapshot'
      BY <2>3 DEF SeenHolds
    <2>4. QED BY <2>1, <2>2, <2>3
  <1>3. MCSpec => []LockInv
    BY Watched, LockInvariant, PTL
  <1>4. QED BY <1>1, <1>2, <1>3, PTL DEF MCSpec, SnapshotInv

(* What a snapshot stores was there at one moment of the call, unless a     *)
(* hold expired during the call (register.go:551-580), however often the    *)
(* book and the clock moved in between.                                     *)
THEOREM SnapshotWasSoAlways == MCSpec => SnapshotWasSo
  <1> DEFINE Step ==
        (TakingSnapshot /\ ~TakingSnapshot') =>
          LET a == writer.account
              s == <<a, writer.date>>
          IN  s \in DOMAIN snapshots' /\
              \/ \E m \in moments : m.holds = snapshots'[s].holds
              \/ \E n \in DOMAIN holds, m \in moments :
                   /\ holds[n].account = a /\ HoldIsActive(n) /\ Expired(holds[n])
                   /\ holds[n].expiresAt >= m.at
  <1>1. SnapshotInv /\ [MCNext]_<<vars, moments>> => [Step]_<<vars, moments>>
    <2> SUFFICES ASSUME SnapshotInv, MCNext, TakingSnapshot, ~TakingSnapshot' PROVE Step
      OBVIOUS
    <2> DEFINE a == writer.account
               s == <<a, writer.date>>
               taken == [book |-> writer.book, holds |-> Held(a),
                         available |-> Available(a, writer.book)]
    <2>1. EndSnapshot
      <3>1. Next /\ writer' # writer
        BY DEF MCNext, TakingSnapshot
      <3>2. QED BY <3>1, DuringSnapshot
    <2>2. s \in DOMAIN snapshots' /\ snapshots'[s] = taken
      BY <2>1 DEF EndSnapshot, Put
    <2>3. snapshots'[s].holds = HeldOf(holds, a, now)
      BY <2>2, HeldIs
    <2>4. PICK m \in moments :
            \/ m.holds = HeldOf(holds, a, now)
            \/ \E n \in DOMAIN holds : /\ holds[n].account = a /\ HoldIsActive(n)
                                       /\ Expired(holds[n]) /\ holds[n].expiresAt >= m.at
      BY DEF SnapshotInv, SeenHolds, Seen, HoldIsActive, Expired
    <2> HIDE DEF taken, s, a
    <2>5. QED BY <2>2, <2>3, <2>4 DEF a, s
  <1>2. QED BY SnapshotInvariant, <1>1, PTL DEF MCSpec, SnapshotWasSo
=============================================================================
