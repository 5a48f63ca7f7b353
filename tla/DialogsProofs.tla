--------------------------- MODULE DialogsProofs ----------------------------
(***************************************************************************)
(* Theorems about the forms, for any number of attempts and of sittings:   *)
(* the idempotency key lets one posting through for each time it was       *)
(* taken, and what cannot be undone is done by one attempt at most.        *)
(***************************************************************************)
EXTENDS Dialogs, TLAPS, SequenceTheorems

-----------------------------------------------------------------------------
\* What the steps do to the calls made.  Only Submit makes one, and only Apply
\* applies one; every other step leaves them as they were but for what the
\* console knows of them.

SameCalls(as, bs) ==
    /\ bs \in Seq(Attempt)
    /\ Len(bs) = Len(as)
    /\ \A i \in 1..Len(as) :
          /\ bs[i].key = as[i].key
          /\ bs[i].sitting = as[i].sitting
          /\ bs[i].fate = "applied" => as[i].fate = "applied"

\* A form with a key that is open has kept its key, or has asked for a new one.
KeyHeld ==
    /\ key' \in Nat /\ sitting' \in Nat
    /\ key' >= key /\ sitting' >= sitting
    /\ The.keyed /\ open' =>
          \/ open /\ key' = key /\ sitting' = sitting
          \/ sitting' > sitting

Quiet == SameCalls(attempts, attempts') /\ KeyHeld /\ form' = form

CallsTyped == form \in Shown /\ key \in Nat /\ sitting \in Nat /\ attempts \in Seq(Attempt)

(* Changing what a call has come to changes no call's key. *)
LEMMA ToldCalls ==
  ASSUME attempts \in Seq(Attempt), NEW i \in DOMAIN attempts,
         NEW answer \in {"success", "error"}
  PROVE  SameCalls(attempts, Told(i, answer))
  <1> DEFINE t == IF The.settles = "await" \/ Heard(i) THEN answer ELSE "unheard"
  <1>1. t \in {"waiting", "success", "error", "unheard"}
    OBVIOUS
  <1>2. Told(i, answer) = [attempts EXCEPT ![i].told = t]
    BY DEF Told
  <1> HIDE DEF t
  <1>3. \A j \in 1..Len(attempts) : attempts[j] \in Attempt
    OBVIOUS
  <1>4. [attempts[i] EXCEPT !.told = t] \in Attempt
    <2>1. ASSUME NEW a \in Attempt PROVE [a EXCEPT !.told = t] \in Attempt
      BY <1>1 DEF Attempt
    <2>2. QED BY <1>3, <2>1
  <1>5. [attempts EXCEPT ![i].told = t] \in Seq(Attempt)
    BY <1>4
  <1>6. QED BY <1>2, <1>3, <1>5 DEF SameCalls, Attempt

(* Hiding a form changes no call. *)
LEMMA HiddenCalls ==
  ASSUME NEW as, as \in Seq(Attempt), SameCalls(attempts, as), NEW left \in BOOLEAN
  PROVE  SameCalls(attempts, Hidden(as, left))
  <1>1. DOMAIN as = 1..Len(as) /\ Len(as) \in Nat /\ \A i \in 1..Len(as) : as[i] \in Attempt
    <2>1. DOMAIN as = 1..Len(as) /\ Len(as) \in Nat
      BY LenProperties
    <2>2. \A i \in 1..Len(as) : as[i] \in Attempt
      BY ElementOfSeq
    <2>3. QED BY <2>1, <2>2
  <1> DEFINE hook(i) == as[i].hookAlive /\ ~left /\ The.hook # "form"
             hid(i) == [as[i] EXCEPT !.formAlive = FALSE, !.hookAlive = hook(i)]
  <1>2. Hidden(as, left) = [i \in DOMAIN as |-> hid(i)]
    BY DEF Hidden
  <1>3. \A i : hook(i) \in BOOLEAN
    OBVIOUS
  <1> HIDE DEF hook
  <1>4. \A i \in 1..Len(as) : /\ hid(i) \in Attempt
                              /\ hid(i).key = as[i].key
                              /\ hid(i).sitting = as[i].sitting
                              /\ hid(i).fate = as[i].fate
    <2>1. ASSUME NEW a \in Attempt, NEW h \in BOOLEAN
          PROVE  LET b == [a EXCEPT !.formAlive = FALSE, !.hookAlive = h]
                 IN  b \in Attempt /\ b.key = a.key /\ b.sitting = a.sitting
                       /\ b.fate = a.fate
      BY DEF Attempt
    <2>2. QED BY <1>1, <1>3, <2>1
  <1> HIDE DEF hid
  <1>5. /\ Hidden(as, left) \in Seq(Attempt)
        /\ Len(Hidden(as, left)) = Len(as)
    <2>1. PICK n \in Nat : n = Len(as)
      BY <1>1
    <2>2. Hidden(as, left) \in [1..n -> Attempt]
      BY <1>1, <1>2, <1>4, <2>1
    <2>3. Hidden(as, left) \in Seq(Attempt)
      BY <2>2, SeqDef
    <2>4. DOMAIN Hidden(as, left) = 1..n
      BY <2>2
    <2>5. Len(Hidden(as, left)) = n
      BY <2>3, <2>4, LenProperties
    <2>6. QED BY <2>1, <2>3, <2>5
  <1>6. QED BY <1>1, <1>2, <1>4, <1>5 DEF SameCalls

(* The one form with a key is a dialog. *)
LEMMA KeyedIsDialog == \A name \in DOMAIN Forms : Forms[name].keyed => ~Forms[name].inline
  <1> USE DEF Form, On, Confirm, NameDialog
  <1>1. /\ NewParticipant.keyed = FALSE
        /\ NewParticipantTopbar.keyed = FALSE
        /\ NewLedger.keyed = FALSE
        /\ NewSubledger.keyed = FALSE
        /\ NewAccount.keyed = FALSE
    BY DEF NewParticipant, NewParticipantTopbar, NewLedger, NewSubledger, NewAccount
  <1>2. PostTransaction.inline = FALSE
    BY DEF PostTransaction
  <1>3. /\ ReverseTransaction.keyed = FALSE
        /\ OpenDepositAccount.keyed = FALSE
        /\ Fund.keyed = FALSE
        /\ CloseAccount.keyed = FALSE
        /\ NewHold.keyed = FALSE
        /\ TakeSnapshot.keyed = FALSE
        /\ ReleaseHold.keyed = FALSE
        /\ CaptureHold.keyed = FALSE
    BY DEF ReverseTransaction, OpenDepositAccount, Fund, CloseAccount, NewHold, TakeSnapshot, ReleaseHold, CaptureHold
  <1>4. /\ STATUS_TRANSITIONS.Freeze.keyed = FALSE
        /\ STATUS_TRANSITIONS.MarkDormant.keyed = FALSE
        /\ STATUS_TRANSITIONS.Unfreeze.keyed = FALSE
        /\ STATUS_TRANSITIONS.Reactivate.keyed = FALSE
    BY DEF STATUS_TRANSITIONS, StatusTransition
  <1>5. /\ NewMandate.keyed = FALSE
        /\ RevokeMandate.keyed = FALSE
        /\ InitiatePush.keyed = FALSE
        /\ InitiatePull.keyed = FALSE
        /\ RejectPayment.keyed = FALSE
        /\ ReturnPayment.keyed = FALSE
        /\ OpenCycle.keyed = FALSE
        /\ CloseCycle.keyed = FALSE
        /\ SettleCycle.keyed = FALSE
    BY DEF NewMandate, RevokeMandate, InitiatePush, InitiatePull, RejectPayment, ReturnPayment, OpenCycle, CloseCycle, SettleCycle
  <1>6. QED
    BY <1>1, <1>2, <1>3, <1>4, <1>5 DEF Forms

(* What changes inputs, and how. *)
LEMMA SameInputs ==
  ASSUME CallsTyped, UNCHANGED inputs
  PROVE  KeyHeld
  BY DEF CallsTyped, inputs, KeyHeld

LEMMA AppearHolds ==
  ASSUME CallsTyped, NEW v, Appear(v)
  PROVE  KeyHeld
  BY DEF CallsTyped, Appear, KeyHeld

LEMMA ClearedHolds ==
  ASSUME CallsTyped, Cleared
  PROVE  KeyHeld
  <1>1. The.keyed => ~The.inline
    BY KeyedIsDialog, ShownAssumption DEF CallsTyped, The
  <1>2. QED BY <1>1 DEF CallsTyped, Cleared, KeyHeld

LEMMA SameAttempts ==
  ASSUME CallsTyped
  PROVE  SameCalls(attempts, attempts)
  BY DEF CallsTyped, SameCalls

(* Showing an object, and leaving the page. *)
LEMMA SeeQuiet ==
  ASSUME CallsTyped, NEW v, NEW as, SameCalls(attempts, as), See(v, as)
  PROVE  Quiet
  <1>1. form' = form
    BY DEF See
  <1>2. CASE attempts' = as /\ UNCHANGED inputs
    BY <1>1, <1>2, SameInputs DEF Quiet
  <1>3. CASE attempts' = Hidden(as, FALSE) /\ Appear(v)
    <2>1. as \in Seq(Attempt)
      BY DEF SameCalls
    <2>2. QED BY <1>1, <1>3, <2>1, HiddenCalls, AppearHolds DEF Quiet
  <1>4. QED BY <1>2, <1>3 DEF See

LEMMA LeftQuiet ==
  ASSUME CallsTyped, NEW to, NEW as, SameCalls(attempts, as), Left(to, as)
  PROVE  Quiet
  <1>1. form' = form
    BY DEF Left
  <1>2. CASE attempts' = as /\ UNCHANGED inputs
    BY <1>1, <1>2, SameInputs DEF Quiet
  <1>3. CASE attempts' = Hidden(as, TRUE) /\ open' = FALSE /\ UNCHANGED <<key, sitting>>
    <2>1. as \in Seq(Attempt)
      BY DEF SameCalls
    <2>2. KeyHeld
      BY <1>3 DEF KeyHeld, CallsTyped
    <2>3. QED BY <1>1, <1>3, <2>1, <2>2, HiddenCalls DEF Quiet
  <1>4. QED BY <1>2, <1>3 DEF Left

(* Every action but Submit and Apply is quiet. *)
LEMMA PageQuiet ==
  ASSUME CallsTyped, Load \/ LoadFails \/ Deselect \/ Leave \/ Arrive
  PROVE  Quiet
  <1>1. SameCalls(attempts, attempts)
    BY SameAttempts
  <1>2. ASSUME NEW v, See(v, attempts) PROVE Quiet
    BY <1>1, <1>2, SeeQuiet
  <1>3. CASE Load \/ LoadFails \/ Deselect
    BY <1>2, <1>3 DEF Load, LoadFails, Deselect
  <1>4. CASE Leave
    BY <1>1, <1>4, LeftQuiet DEF Leave
  <1>5. CASE Arrive
    <2>1. form' = form /\ attempts' = attempts
      BY <1>5 DEF Arrive
    <2>2. KeyHeld
      BY <1>5, SameInputs, AppearHolds DEF Arrive
    <2>3. QED BY <1>1, <2>1, <2>2 DEF Quiet
  <1>6. QED BY <1>3, <1>4, <1>5

LEMMA UserQuiet ==
  ASSUME CallsTyped, Open \/ Close \/ Type \/ Regenerate \/ Redraw
  PROVE  Quiet
  <1>1. SameCalls(attempts, attempts)
    BY SameAttempts
  <1>2. CASE Open
    BY <1>1, <1>2 DEF Open, Quiet, KeyHeld, CallsTyped
  <1>3. CASE Close
    BY <1>1, <1>3 DEF Close, Quiet, KeyHeld, CallsTyped
  <1>4. CASE Type
    <2>1. /\ form' = form
          /\ open' = open /\ key' = key /\ sitting' = sitting
          /\ attempts' = [i \in DOMAIN attempts |-> [attempts[i] EXCEPT !.untouched = FALSE]]
      BY <1>4 DEF Type
    <2>2. PICK n \in Nat : attempts \in [1..n -> Attempt]
      BY SeqDef DEF CallsTyped
    <2>3. n = Len(attempts) /\ DOMAIN attempts = 1..n
      BY <2>2, LenProperties DEF CallsTyped
    <2>4. ASSUME NEW a \in Attempt
          PROVE  LET b == [a EXCEPT !.untouched = FALSE]
                 IN  b \in Attempt /\ b.key = a.key /\ b.sitting = a.sitting
                       /\ b.fate = a.fate
      BY DEF Attempt
    <2>5. /\ attempts' \in [1..n -> Attempt]
          /\ \A i \in 1..n : /\ attempts'[i].key = attempts[i].key
                             /\ attempts'[i].sitting = attempts[i].sitting
                             /\ attempts'[i].fate = attempts[i].fate
      BY <2>1, <2>2, <2>3, <2>4
    <2>6. attempts' \in Seq(Attempt)
      BY <2>5, SeqDef
    <2>7. Len(attempts') = n
      BY <2>5, <2>6, LenProperties
    <2>8. QED BY <2>1, <2>3, <2>5, <2>6, <2>7 DEF Quiet, SameCalls, KeyHeld, CallsTyped
  <1>5. CASE Regenerate
    BY <1>1, <1>5 DEF Regenerate, Quiet, KeyHeld, CallsTyped
  <1>6. CASE Redraw
    BY <1>1, <1>6 DEF Redraw, Quiet, KeyHeld, CallsTyped
  <1>7. QED BY <1>2, <1>3, <1>4, <1>5, <1>6

LEMMA AnswerQuiet ==
  ASSUME CallsTyped, NEW i \in DOMAIN attempts,
         Refuse(i) \/ SucceedAndGo(i) \/ SucceedAndDeselect(i) \/ Succeed(i) \/ Fail(i)
  PROVE  Quiet
  <1>1. \A answer \in {"success", "error"} : SameCalls(attempts, Told(i, answer))
    BY ToldCalls DEF CallsTyped
  <1>2. CASE Refuse(i)
    <2>1. PICK f \in Fate \ {"applied"} : attempts' = [attempts EXCEPT ![i].fate = f]
      BY <1>2 DEF Refuse, Refusals, Fate
    <2>2. \A j \in 1..Len(attempts) : attempts[j] \in Attempt
      BY DEF CallsTyped
    <2>3. [attempts[i] EXCEPT !.fate = f] \in Attempt
      <3>1. ASSUME NEW a \in Attempt PROVE [a EXCEPT !.fate = f] \in Attempt
        BY DEF Attempt
      <3>2. QED BY <2>2, <3>1 DEF CallsTyped
    <2>4. [attempts EXCEPT ![i].fate = f] \in Seq(Attempt)
      BY <2>3 DEF CallsTyped
    <2>5. SameCalls(attempts, attempts')
      BY <2>1, <2>2, <2>4 DEF SameCalls, Attempt, CallsTyped
    <2>6. QED BY <1>2, <2>5, SameInputs DEF Refuse, Quiet
  <1>3. CASE SucceedAndGo(i)
    <2>1. CASE Left("target", Told(i, "success"))
      BY <1>1, <2>1, LeftQuiet
    <2>2. CASE Cleared /\ attempts' = Told(i, "success") /\ form' = form
      BY <1>1, <2>2, ClearedHolds DEF Quiet
    <2>3. QED BY <1>3, <2>1, <2>2 DEF SucceedAndGo
  <1>4. CASE SucceedAndDeselect(i)
    BY <1>1, <1>4, SeeQuiet DEF SucceedAndDeselect
  <1>5. CASE Succeed(i)
    BY <1>1, <1>5, ClearedHolds, SameInputs DEF Succeed, Quiet
  <1>6. CASE Fail(i)
    BY <1>1, <1>6, SameInputs DEF Fail, Quiet
  <1>7. QED BY <1>2, <1>3, <1>4, <1>5, <1>6

-----------------------------------------------------------------------------
\* The key.

Applied(i) == attempts[i].fate = "applied"

(* The inductive invariant: calls of one sitting carry one key, which is    *)
(* that of an open form if the sitting is not over, and the ledger has      *)
(* posted once with each key.                                               *)
KeyInv ==
    /\ CallsTyped
    /\ \A i \in DOMAIN attempts : attempts[i].key <= key /\ attempts[i].sitting <= sitting
    /\ The.keyed =>
          \A i, j \in DOMAIN attempts :
              attempts[i].sitting = attempts[j].sitting => attempts[i].key = attempts[j].key
    /\ The.keyed /\ open =>
          \A i \in DOMAIN attempts : attempts[i].sitting = sitting => attempts[i].key = key
    /\ The.keyed =>
          \A i, j \in DOMAIN attempts :
              Applied(i) /\ Applied(j) /\ attempts[i].key = attempts[j].key => i = j

(* Nothing has been called yet. *)
LEMMA InitKeyInv == Init => KeyInv
  BY EmptySeq DEF Init, KeyInv, CallsTyped

(* Seen from the keys, a call and the form do not change in a quiet step. *)
LEMMA QuietKeyInv ==
  ASSUME KeyInv, Quiet
  PROVE  KeyInv'
  <1>1. /\ DOMAIN attempts = 1..Len(attempts) /\ Len(attempts) \in Nat
        /\ \A i \in 1..Len(attempts) : attempts[i].key \in Nat /\ attempts[i].sitting \in Nat
    <2>1. DOMAIN attempts = 1..Len(attempts) /\ Len(attempts) \in Nat
      BY LenProperties DEF KeyInv, CallsTyped
    <2>2. \A i \in 1..Len(attempts) : attempts[i] \in Attempt
      BY ElementOfSeq DEF KeyInv, CallsTyped
    <2>3. QED BY <2>1, <2>2 DEF Attempt
  <1>2. DOMAIN attempts' = DOMAIN attempts /\ attempts' \in Seq(Attempt)
    BY <1>1, LenProperties DEF Quiet, SameCalls
  <1>3. \A i \in DOMAIN attempts : /\ attempts'[i].key = attempts[i].key
                                   /\ attempts'[i].sitting = attempts[i].sitting
                                   /\ Applied(i)' => Applied(i)
    BY <1>1 DEF Quiet, SameCalls, Applied
  <1>4. The' = The
    BY DEF Quiet, The
  <1>5. CallsTyped'
    BY <1>2 DEF Quiet, KeyHeld, KeyInv, CallsTyped
  <1>6. \A i \in DOMAIN attempts' :
          attempts'[i].key <= key' /\ attempts'[i].sitting <= sitting'
    BY <1>1, <1>2, <1>3 DEF Quiet, KeyHeld, KeyInv, CallsTyped
  <1>7. The'.keyed =>
          \A i, j \in DOMAIN attempts' :
              /\ attempts'[i].sitting = attempts'[j].sitting =>
                    attempts'[i].key = attempts'[j].key
              /\ Applied(i)' /\ Applied(j)' /\ attempts'[i].key = attempts'[j].key => i = j
    BY <1>2, <1>3, <1>4 DEF KeyInv
  <1>8. The'.keyed /\ open' =>
          \A i \in DOMAIN attempts' :
              attempts'[i].sitting = sitting' => attempts'[i].key = key'
    BY <1>1, <1>2, <1>3, <1>4 DEF Quiet, KeyHeld, KeyInv, CallsTyped
  <1>9. QED BY <1>5, <1>6, <1>7, <1>8 DEF KeyInv

(* A new call carries the key of the open form. *)
LEMMA SubmitKeyInv ==
  ASSUME KeyInv, Submit
  PROVE  KeyInv'
  <1> DEFINE call == [ key |-> key, sitting |-> sitting, untouched |-> TRUE,
                       formAlive |-> TRUE, hookAlive |-> TRUE,
                       fate |-> "sent", told |-> "waiting" ]
             n == Len(attempts)
  <1>1. /\ attempts' = Append(attempts, call)
        /\ open /\ open' = open /\ form' = form /\ key' = key /\ sitting' = sitting
    BY DEF Submit
  <1>2. /\ call \in Attempt /\ call.key = key /\ call.sitting = sitting
        /\ call.fate = "sent"
    BY DEF KeyInv, CallsTyped, Attempt, Fate
  <1> HIDE DEF call
  <1>3. n \in Nat /\ DOMAIN attempts = 1..n
    BY LenProperties DEF KeyInv, CallsTyped
  <1>4. /\ attempts' \in Seq(Attempt) /\ DOMAIN attempts' = 1..(n + 1)
        /\ attempts'[n + 1] = call
        /\ \A i \in 1..n : attempts'[i] = attempts[i]
    BY <1>1, <1>2, <1>3, AppendProperties, LenProperties DEF KeyInv, CallsTyped
  <1>5. The' = The
    BY <1>1 DEF The
  <1>6. CallsTyped'
    BY <1>1, <1>4 DEF KeyInv, CallsTyped
  <1>7. \A i \in DOMAIN attempts' :
          attempts'[i].key <= key' /\ attempts'[i].sitting <= sitting'
    BY <1>1, <1>2, <1>3, <1>4 DEF KeyInv, CallsTyped
  <1>8. The'.keyed =>
          \A i \in DOMAIN attempts' :
              attempts'[i].sitting = sitting' => attempts'[i].key = key'
    BY <1>1, <1>2, <1>3, <1>4, <1>5 DEF KeyInv
  <1>9. The'.keyed =>
          \A i, j \in DOMAIN attempts' :
              attempts'[i].sitting = attempts'[j].sitting =>
                  attempts'[i].key = attempts'[j].key
    <2> SUFFICES ASSUME The.keyed, NEW i \in 1..(n + 1), NEW j \in 1..(n + 1),
                        attempts'[i].sitting = attempts'[j].sitting
                 PROVE  attempts'[i].key = attempts'[j].key
      BY <1>4, <1>5
    <2>1. CASE i \in 1..n /\ j \in 1..n
      BY <1>3, <1>4, <2>1 DEF KeyInv
    <2>2. CASE i = n + 1 \/ j = n + 1
      BY <1>1, <1>2, <1>4, <1>5, <1>8, <2>2
    <2>3. QED BY <1>3, <2>1, <2>2
  <1>10. The'.keyed =>
          \A i, j \in DOMAIN attempts' :
              Applied(i)' /\ Applied(j)' /\ attempts'[i].key = attempts'[j].key => i = j
    <2> SUFFICES ASSUME The.keyed, NEW i \in 1..(n + 1), NEW j \in 1..(n + 1),
                        Applied(i)', Applied(j)', attempts'[i].key = attempts'[j].key
                 PROVE  i = j
      BY <1>4, <1>5
    <2>1. i # n + 1 /\ j # n + 1
      BY <1>2, <1>4 DEF Applied
    <2>2. i \in 1..n /\ j \in 1..n
      BY <1>3, <2>1
    <2>3. QED BY <1>3, <1>4, <2>2 DEF KeyInv, Applied
  <1>11. QED BY <1>6, <1>7, <1>8, <1>9, <1>10 DEF KeyInv

(* The ledger posts with a key it has not seen. *)
LEMMA ApplyKeyInv ==
  ASSUME KeyInv, NEW i \in DOMAIN attempts, Apply(i)
  PROVE  KeyInv'
  <1>1. /\ attempts' = [attempts EXCEPT ![i].fate = "applied"]
        /\ form' = form /\ open' = open /\ key' = key /\ sitting' = sitting
        /\ KeyUnused(i)
    BY DEF Apply, inputs
  <1>2. \A j \in DOMAIN attempts : attempts[j] \in Attempt
    BY LenProperties, ElementOfSeq DEF KeyInv, CallsTyped
  <1>3. \A a \in Attempt :
          LET b == [a EXCEPT !.fate = "applied"]
          IN  b \in Attempt /\ b.key = a.key /\ b.sitting = a.sitting
    BY DEF Attempt, Fate
  <1>4. attempts' \in Seq(Attempt) /\ DOMAIN attempts' = DOMAIN attempts
    <2>1. [attempts[i] EXCEPT !.fate = "applied"] \in Attempt
      BY <1>2, <1>3
    <2>2. QED BY <1>1, <2>1 DEF KeyInv, CallsTyped
  <1>5. \A j \in DOMAIN attempts : /\ attempts'[j].key = attempts[j].key
                                   /\ attempts'[j].sitting = attempts[j].sitting
                                   /\ j # i => (Applied(j)' <=> Applied(j))
    BY <1>1, <1>2, <1>3 DEF Applied
  <1>6. The' = The
    BY <1>1 DEF The
  <1>7. CallsTyped'
    BY <1>1, <1>4 DEF KeyInv, CallsTyped
  <1>8. The.keyed => \A j \in DOMAIN attempts : Applied(j) => attempts[j].key # attempts[i].key
    BY <1>1 DEF KeyUnused, Applied
  <1>9. The'.keyed =>
          \A j, k \in DOMAIN attempts' :
              Applied(j)' /\ Applied(k)' /\ attempts'[j].key = attempts'[k].key => j = k
    BY <1>4, <1>5, <1>6, <1>8 DEF KeyInv
  <1>10. QED BY <1>1, <1>4, <1>5, <1>6, <1>7, <1>9 DEF KeyInv

LEMMA NextKeyInv == KeyInv /\ [Next]_vars => KeyInv'
  <1> SUFFICES ASSUME KeyInv, [Next]_vars PROVE KeyInv'
    OBVIOUS
  <1>1. CallsTyped
    BY DEF KeyInv
  <1>2. CASE Load \/ LoadFails \/ Deselect \/ Leave \/ Arrive
    BY <1>1, <1>2, PageQuiet, QuietKeyInv
  <1>3. CASE Open \/ Close \/ Type \/ Regenerate \/ Redraw
    BY <1>1, <1>3, UserQuiet, QuietKeyInv
  <1>4. CASE Submit
    BY <1>4, SubmitKeyInv
  <1>5. CASE MovedElsewhere \/ UNCHANGED vars
    <2>1. form' = form /\ attempts' = attempts /\ UNCHANGED inputs
      BY <1>5 DEF MovedElsewhere, vars, inputs
    <2>2. QED BY <1>1, <2>1, SameAttempts, SameInputs, QuietKeyInv DEF Quiet
  <1>6. ASSUME NEW i \in DOMAIN attempts, Apply(i) PROVE KeyInv'
    BY <1>6, ApplyKeyInv
  <1>7. ASSUME NEW i \in DOMAIN attempts,
               \/ Refuse(i) \/ SucceedAndGo(i) \/ SucceedAndDeselect(i)
               \/ Succeed(i) \/ Fail(i)
        PROVE  KeyInv'
    BY <1>1, <1>7, AnswerQuiet, QuietKeyInv
  <1>8. QED BY <1>2, <1>3, <1>4, <1>5, <1>6, <1>7 DEF Next

(* However often the form for a transaction is submitted between two times  *)
(* it took a key, and whatever becomes of the answers, the ledger posts     *)
(* once at most: idempotency.ts with the form's key.                        *)
THEOREM OncePerSittingHolds == Spec => []OncePerSitting
  <1>1. KeyInv => OncePerSitting
    BY DEF KeyInv, OncePerSitting, Applied
  <1>2. QED BY InitKeyInv, NextKeyInv, <1>1, PTL DEF Spec

-----------------------------------------------------------------------------
\* What cannot be undone.  The statuses that an object has after each of these
\* operations, and does not leave.

KindOf ==
    [ reverse |-> "transaction", release |-> "hold", capture |-> "hold",
      close |-> "account", closeCycle |-> "cycle", settleCycle |-> "cycle",
      reject |-> "payment", return |-> "payment" ]

Past ==
    [ reverse |-> {"Reversed"}, release |-> {"Released", "Captured"},
      capture |-> {"Released", "Captured"}, close |-> {"Closed"},
      closeCycle |-> {"Closed", "Settled"}, settleCycle |-> {"Settled"},
      reject |-> {"Rejected"}, return |-> {"Returned"} ]

(* A move that the server allows leads into the past of its operation, and  *)
(* none leads out.                                                          *)
LEMMA MovesEndInPast ==
  ASSUME NEW op \in Final, NEW m \in Moves, m.kind = KindOf[op]
  PROVE  /\ m.op = op => m.from \notin Past[op] /\ m.to \in Past[op]
         /\ m.from \in Past[op] => m.to \in Past[op]
  <1>0. CASE m \in Stay(Nothing, "none", {Nothing})
    <2>1. m.kind = "nothing"
      BY <1>0 DEF Nothing, Stay
    <2>2. KindOf[op] # "nothing"
      BY DEF Final, KindOf
    <2>3. QED BY <2>1, <2>2
  <1> USE DEF Move, Stay, Final, KindOf, Past
  <1>1. CASE m \in AccountMoves
    BY <1>1 DEF AccountMoves, DepositStatuses
  <1>2. CASE m \in HoldMoves
    BY <1>2 DEF HoldMoves
  <1>3. CASE m \in TransactionMoves
    BY <1>3 DEF TransactionMoves
  <1>4. CASE m \in MandateMoves
    BY <1>4 DEF MandateMoves
  <1>5. CASE m \in PaymentMoves
    BY <1>5 DEF PaymentMoves
  <1>6. CASE m \in CycleMoves
    BY <1>6 DEF CycleMoves
  <1>7. QED BY <1>0, <1>1, <1>2, <1>3, <1>4, <1>5, <1>6 DEF Moves

(* A form that asks for such an operation is about an object of its kind.   *)
LEMMA FinalKind ==
  \A name \in DOMAIN Forms : Forms[name].op \in Final => Forms[name].of = KindOf[Forms[name].op]
  <1> USE DEF Form, On, Confirm, NameDialog
  <1>1. /\ NewParticipant.op = "none" /\ NewParticipantTopbar.op = "none"
        /\ NewLedger.op = "none" /\ NewSubledger.op = "none" /\ NewAccount.op = "none"
        /\ PostTransaction.op = "none" /\ OpenDepositAccount.op = "none"
        /\ NewMandate.op = "none" /\ OpenCycle.op = "none"
    BY DEF NewParticipant, NewParticipantTopbar, NewLedger, NewSubledger, NewAccount,
           PostTransaction, OpenDepositAccount, NewMandate, OpenCycle
  <1>2. /\ InitiatePush.op = "none" /\ InitiatePull.op = "none"
        /\ Fund.op = "fund" /\ NewHold.op = "hold" /\ TakeSnapshot.op = "snapshot"
        /\ RevokeMandate.op = "revoke"
    BY DEF InitiatePush, InitiatePull, Fund, NewHold, TakeSnapshot, RevokeMandate
  <1>3. /\ STATUS_TRANSITIONS.Freeze.op = "freeze"
        /\ STATUS_TRANSITIONS.MarkDormant.op = "markDormant"
        /\ STATUS_TRANSITIONS.Unfreeze.op = "unfreeze"
        /\ STATUS_TRANSITIONS.Reactivate.op = "reactivate"
    BY DEF STATUS_TRANSITIONS, StatusTransition
  <1>4. /\ ReverseTransaction.op = "reverse" /\ ReverseTransaction.of = "transaction"
        /\ CloseAccount.op = "close" /\ CloseAccount.of = "account"
        /\ ReleaseHold.op = "release" /\ ReleaseHold.of = "hold"
        /\ CaptureHold.op = "capture" /\ CaptureHold.of = "hold"
    BY DEF ReverseTransaction, CloseAccount, ReleaseHold, CaptureHold
  <1>5. /\ RejectPayment.op = "reject" /\ RejectPayment.of = "payment"
        /\ ReturnPayment.op = "return" /\ ReturnPayment.of = "payment"
        /\ CloseCycle.op = "closeCycle" /\ CloseCycle.of = "cycle"
        /\ SettleCycle.op = "settleCycle" /\ SettleCycle.of = "cycle"
    BY DEF RejectPayment, ReturnPayment, CloseCycle, SettleCycle
  <1> DEFINE plain == DOMAIN Forms \ { "ReverseTransaction", "CloseAccount", "ReleaseHold",
                 "CaptureHold", "RejectPayment", "ReturnPayment", "CloseCycle", "SettleCycle" }
  <1>6. \A name \in plain : Forms[name].op \notin Final
    BY <1>1, <1>2, <1>3 DEF Forms, Final
  <1>7. \A name \in DOMAIN Forms \ plain : Forms[name].of = KindOf[Forms[name].op]
    BY <1>4, <1>5 DEF Forms, KindOf
  <1>8. QED BY <1>6, <1>7

(* The inductive invariant: once an attempt was applied, the object is past *)
(* the operation.                                                           *)
PastInv ==
    /\ CallsTyped
    /\ The.op \in Final => ((\E i \in DOMAIN attempts : Applied(i)) => status \in Past[The.op])
    /\ FinalOnce

LEMMA InitPastInv == Init => PastInv
  BY EmptySeq DEF Init, PastInv, CallsTyped, FinalOnce

(* Only Apply and other clients move the object. *)
LEMMA StatusKept ==
  ASSUME [Next]_vars, ~MovedElsewhere, \A i \in DOMAIN attempts : ~Apply(i)
  PROVE  status' = status
  <1>1. CASE Load \/ LoadFails \/ Deselect \/ Leave \/ Arrive
    BY <1>1 DEF Load, LoadFails, Deselect, Leave, Arrive, See, Left
  <1>2. CASE Open \/ Close \/ Type \/ Regenerate \/ Submit \/ Redraw
    BY <1>2 DEF Open, Close, Type, Regenerate, Submit, Redraw
  <1>3. ASSUME NEW i \in DOMAIN attempts,
               \/ Refuse(i) \/ SucceedAndGo(i) \/ SucceedAndDeselect(i)
               \/ Succeed(i) \/ Fail(i)
        PROVE  status' = status
    BY <1>3 DEF Refuse, SucceedAndGo, SucceedAndDeselect, Succeed, Fail, See, Left
  <1>4. CASE UNCHANGED vars
    BY <1>4 DEF vars
  <1>5. QED BY <1>1, <1>2, <1>3, <1>4 DEF Next

(* A step that applies nothing, and after which the object is still past    *)
(* the operation if it was before.                                          *)
LEMMA QuietPastInv ==
  ASSUME PastInv, Quiet,
         The.op \in Final => (status \in Past[The.op] => status' \in Past[The.op])
  PROVE  PastInv'
  <1>1. /\ DOMAIN attempts' = DOMAIN attempts /\ attempts' \in Seq(Attempt)
        /\ \A i \in DOMAIN attempts : Applied(i)' => Applied(i)
    <2>1. DOMAIN attempts = 1..Len(attempts)
      BY LenProperties DEF PastInv, CallsTyped
    <2>2. QED BY <2>1, LenProperties DEF Quiet, SameCalls, Applied
  <1>2. The' = The
    BY DEF Quiet, The
  <1>3. CallsTyped'
    BY <1>1 DEF Quiet, KeyHeld, PastInv, CallsTyped
  <1>4. FinalOnce'
    BY <1>1, <1>2 DEF PastInv, FinalOnce, Applied
  <1>5. QED BY <1>1, <1>2, <1>3, <1>4 DEF PastInv

(* A new call has not been applied. *)
LEMMA SubmitPastInv ==
  ASSUME PastInv, Submit
  PROVE  PastInv'
  <1> DEFINE call == [ key |-> key, sitting |-> sitting, untouched |-> TRUE,
                       formAlive |-> TRUE, hookAlive |-> TRUE,
                       fate |-> "sent", told |-> "waiting" ]
             n == Len(attempts)
  <1>1. /\ attempts' = Append(attempts, call)
        /\ form' = form /\ key' = key /\ sitting' = sitting /\ status' = status
    BY DEF Submit
  <1>2. call \in Attempt /\ call.fate = "sent"
    BY DEF PastInv, CallsTyped, Attempt, Fate
  <1> HIDE DEF call
  <1>3. n \in Nat /\ DOMAIN attempts = 1..n
    BY LenProperties DEF PastInv, CallsTyped
  <1>4. /\ attempts' \in Seq(Attempt) /\ DOMAIN attempts' = 1..(n + 1)
        /\ attempts'[n + 1] = call
        /\ \A i \in 1..n : attempts'[i] = attempts[i]
    BY <1>1, <1>2, <1>3, AppendProperties, LenProperties DEF PastInv, CallsTyped
  <1>5. The' = The
    BY <1>1 DEF The
  <1>6. CallsTyped'
    BY <1>1, <1>4 DEF PastInv, CallsTyped
  <1>7. \A i \in DOMAIN attempts' : Applied(i)' => i \in DOMAIN attempts /\ Applied(i)
    BY <1>2, <1>3, <1>4 DEF Applied
  <1>8. FinalOnce'
    BY <1>5, <1>7 DEF PastInv, FinalOnce, Applied
  <1>9. QED BY <1>1, <1>5, <1>6, <1>7, <1>8 DEF PastInv

(* What cannot be undone is possible only while no attempt was applied.     *)
LEMMA ApplyPastInv ==
  ASSUME PastInv, NEW i \in DOMAIN attempts, Apply(i)
  PROVE  PastInv'
  <1>1. PICK m \in Moves : /\ m.kind = The.of /\ m.op = The.op /\ m.from = status
                           /\ status' = m.to
    BY DEF Apply, Possible
  <1>2. /\ attempts' = [attempts EXCEPT ![i].fate = "applied"]
        /\ form' = form /\ key' = key /\ sitting' = sitting
    BY DEF Apply, inputs
  <1>3. attempts' \in Seq(Attempt) /\ DOMAIN attempts' = DOMAIN attempts
    <2>1. attempts[i] \in Attempt
      BY LenProperties, ElementOfSeq DEF PastInv, CallsTyped
    <2>2. \A a \in Attempt : [a EXCEPT !.fate = "applied"] \in Attempt
      BY DEF Attempt, Fate
    <2>3. QED BY <1>2, <2>1, <2>2 DEF PastInv, CallsTyped
  <1>4. The' = The
    BY <1>2 DEF The
  <1>5. CallsTyped'
    BY <1>2, <1>3 DEF PastInv, CallsTyped
  <1>6. \A j \in DOMAIN attempts : j # i => attempts'[j] = attempts[j]
    BY <1>2
  <1>7. CASE The.op \in Final
    <2>1. The.of = KindOf[The.op]
      BY <1>7, FinalKind, ShownAssumption DEF The, PastInv, CallsTyped
    <2>2. status \notin Past[The.op] /\ status' \in Past[The.op]
      BY <1>1, <1>7, <2>1, MovesEndInPast
    <2>3. \A j \in DOMAIN attempts : ~Applied(j)
      BY <1>7, <2>2 DEF PastInv
    <2>4. FinalOnce'
      BY <1>3, <1>6, <2>3 DEF FinalOnce, Applied
    <2>5. QED BY <1>4, <1>5, <2>2, <2>4 DEF PastInv
  <1>8. CASE The.op \notin Final
    BY <1>4, <1>5, <1>8 DEF PastInv, FinalOnce
  <1>9. QED BY <1>7, <1>8

LEMMA NextPastInv == PastInv /\ [Next]_vars => PastInv'
  <1> SUFFICES ASSUME PastInv, [Next]_vars PROVE PastInv'
    OBVIOUS
  <1>1. CallsTyped
    BY DEF PastInv
  <1>2. CASE MovedElsewhere
    <2>1. PICK m \in Moves : m.kind = The.of /\ m.from = status /\ status' = m.to
      BY <1>2 DEF MovedElsewhere
    <2>2. The.op \in Final => (status \in Past[The.op] => status' \in Past[The.op])
      BY <1>1, <2>1, FinalKind, ShownAssumption, MovesEndInPast DEF The, CallsTyped
    <2>3. Quiet
      <3>1. form' = form /\ attempts' = attempts /\ UNCHANGED inputs
        BY <1>2 DEF MovedElsewhere
      <3>2. QED BY <1>1, <3>1, SameAttempts, SameInputs DEF Quiet
    <2>4. QED BY <2>2, <2>3, QuietPastInv
  <1>3. CASE Submit
    BY <1>3, SubmitPastInv
  <1>4. ASSUME NEW i \in DOMAIN attempts, Apply(i) PROVE PastInv'
    BY <1>4, ApplyPastInv
  <1>5. CASE ~MovedElsewhere /\ ~Submit /\ \A i \in DOMAIN attempts : ~Apply(i)
    <2>1. status' = status
      BY <1>5, StatusKept
    <2>2. Quiet
      <3>1. CASE UNCHANGED vars
        <4>1. form' = form /\ attempts' = attempts /\ UNCHANGED inputs
          BY <3>1 DEF vars, inputs
        <4>2. QED BY <1>1, <4>1, SameAttempts, SameInputs DEF Quiet
      <3>2. CASE Next
        BY <1>1, <1>5, <3>2, PageQuiet, UserQuiet, AnswerQuiet DEF Next
      <3>3. QED BY <3>1, <3>2
    <2>3. QED BY <2>1, <2>2, QuietPastInv
  <1>6. QED BY <1>2, <1>3, <1>4, <1>5

(* A transaction is reversed, a hold released or captured, an account       *)
(* closed, a cycle closed or settled, a payment rejected or returned, by    *)
(* one attempt at most, whatever other clients do to it meanwhile: the      *)
(* status checks of service.go, register.go and system.go.                  *)
THEOREM FinalOnceHolds == Spec => []FinalOnce
  <1>1. PastInv => FinalOnce
    BY DEF PastInv
  <1>2. QED BY InitPastInv, NextPastInv, <1>1, PTL DEF Spec

-----------------------------------------------------------------------------
\* A form that was told of a success.

\* The form waits for an input that it neither starts with nor keeps.
Waits(f) == f.required # {} => \E input \in f.required : input \notin f.initial \cup f.kept

(* Every form that waits for an input waits for such a one. *)
LEMMA FormsWait == \A name \in DOMAIN Forms : Waits(Forms[name])
  <1> USE DEF Form, On, Confirm, NameDialog, Waits
  <1>1. Waits(NewParticipant) /\ Waits(NewParticipantTopbar)
    BY DEF NewParticipant, NewParticipantTopbar
  <1>2. Waits(NewLedger) /\ Waits(NewSubledger)
    BY DEF NewLedger, NewSubledger
  <1>3. Waits(NewAccount)
    <2>1. "name" \in NewAccount.required /\ "name" \notin NewAccount.initial \cup NewAccount.kept
      BY DEF NewAccount
    <2>2. QED BY <2>1
  <1>4. Waits(PostTransaction) /\ Waits(ReverseTransaction)
    BY DEF PostTransaction, ReverseTransaction
  <1>5. Waits(OpenDepositAccount) /\ Waits(Fund) /\ Waits(CloseAccount) /\ Waits(NewHold)
    BY DEF OpenDepositAccount, Fund, CloseAccount, NewHold
  <1>6. Waits(TakeSnapshot) /\ Waits(ReleaseHold)
    BY DEF TakeSnapshot, ReleaseHold
  <1>7. Waits(CaptureHold)
    <2>1. /\ "counterparty" \in CaptureHold.required
          /\ "counterparty" \notin CaptureHold.initial \cup CaptureHold.kept
      BY DEF CaptureHold
    <2>2. QED BY <2>1
  <1>8. Waits(NewMandate) /\ Waits(RevokeMandate)
    <2>1. "debtor" \in NewMandate.required /\ "debtor" \notin NewMandate.initial \cup NewMandate.kept
      BY DEF NewMandate
    <2>2. Waits(RevokeMandate)
      BY DEF RevokeMandate
    <2>3. QED BY <2>1, <2>2
  <1>9. Waits(InitiatePush) /\ Waits(InitiatePull)
    <2>1. "debtor" \in InitiatePush.required /\ "debtor" \notin InitiatePush.initial \cup InitiatePush.kept
      BY DEF InitiatePush
    <2>2. "debtor" \in InitiatePull.required /\ "debtor" \notin InitiatePull.initial \cup InitiatePull.kept
      BY DEF InitiatePull, InitiatePush
    <2>3. QED BY <2>1, <2>2
  <1>10. Waits(RejectPayment) /\ Waits(ReturnPayment)
    BY DEF RejectPayment, ReturnPayment
  <1>11. Waits(OpenCycle) /\ Waits(CloseCycle) /\ Waits(SettleCycle)
    BY DEF OpenCycle, CloseCycle, SettleCycle
  <1>12. /\ Waits(STATUS_TRANSITIONS.Freeze) /\ Waits(STATUS_TRANSITIONS.MarkDormant)
         /\ Waits(STATUS_TRANSITIONS.Unfreeze) /\ Waits(STATUS_TRANSITIONS.Reactivate)
    BY DEF STATUS_TRANSITIONS, StatusTransition
  <1> HIDE DEF Form, On, Confirm, NameDialog, Waits
  <1>13. QED
    BY <1>1, <1>2, <1>3, <1>4, <1>5, <1>6, <1>7, <1>8, <1>9, <1>10, <1>11, <1>12 DEF Forms

(* The form cannot be submitted as it stands. *)
Disarmed == The.required # {} => ~(The.required \subseteq filled)

(* Attempt i has told a form that is still on screen of a success, and      *)
(* nothing was typed since.                                                 *)
Done(i) == attempts[i].told = "success" /\ attempts[i].formAlive /\ attempts[i].untouched

(* The inductive invariant, open or not. *)
DisarmInv == CallsTyped /\ \A i \in DOMAIN attempts : Done(i) => Disarmed

(* Starting anew and being cleared both disarm a form. *)
LEMMA Disarms ==
  ASSUME CallsTyped, form' = form, filled' = The.initial \/ filled' = filled \cap The.kept
  PROVE  Disarmed'
  <1>1. Waits(The) /\ The' = The
    BY FormsWait, ShownAssumption DEF CallsTyped, The
  <1>2. QED BY <1>1 DEF Waits, Disarmed

(* What telling an answer leaves alone. *)
LEMMA ToldFields ==
  ASSUME attempts \in Seq(Attempt), NEW i \in DOMAIN attempts, NEW answer \in {"success", "error"}
  PROVE  /\ DOMAIN Told(i, answer) = DOMAIN attempts
         /\ \A j \in DOMAIN attempts \ {i} : Told(i, answer)[j] = attempts[j]
         /\ Told(i, answer)[i].formAlive = attempts[i].formAlive
         /\ Told(i, answer)[i].hookAlive = attempts[i].hookAlive
         /\ Told(i, answer)[i].untouched = attempts[i].untouched
         /\ Told(i, answer)[i].fate = attempts[i].fate
         /\ Told(i, answer)[i].told = IF The.settles = "await" \/ Heard(i) THEN answer ELSE "unheard"
  <1> DEFINE t == IF The.settles = "await" \/ Heard(i) THEN answer ELSE "unheard"
  <1>1. Told(i, answer) = [attempts EXCEPT ![i].told = t]
    BY DEF Told
  <1> HIDE DEF t
  <1>2. attempts[i] \in Attempt
    BY LenProperties, ElementOfSeq
  <1>3. \A a \in Attempt :
          LET b == [a EXCEPT !.told = t]
          IN  /\ b.formAlive = a.formAlive /\ b.hookAlive = a.hookAlive
              /\ b.untouched = a.untouched /\ b.fate = a.fate /\ b.told = t
    BY DEF Attempt
  <1>4. Told(i, answer)[i] = [attempts[i] EXCEPT !.told = t]
    BY <1>1
  <1>5. QED BY <1>1, <1>2, <1>3, <1>4 DEF t

(* What the server does to a call leaves alone what the form knows of it. *)
LEMMA FateFields ==
  ASSUME attempts \in Seq(Attempt), NEW i \in DOMAIN attempts, NEW fate,
         attempts' = [attempts EXCEPT ![i].fate = fate]
  PROVE  /\ DOMAIN attempts' = DOMAIN attempts
         /\ \A j \in DOMAIN attempts : /\ attempts'[j].formAlive = attempts[j].formAlive
                                       /\ attempts'[j].hookAlive = attempts[j].hookAlive
                                       /\ attempts'[j].untouched = attempts[j].untouched
                                       /\ attempts'[j].told = attempts[j].told
  <1>1. attempts[i] \in Attempt
    BY LenProperties, ElementOfSeq
  <1>2. \A a \in Attempt :
          LET b == [a EXCEPT !.fate = fate]
          IN  /\ b.formAlive = a.formAlive /\ b.hookAlive = a.hookAlive
              /\ b.untouched = a.untouched /\ b.told = a.told
    BY DEF Attempt
  <1>3. attempts'[i] = [attempts[i] EXCEPT !.fate = fate]
          /\ \A j \in DOMAIN attempts \ {i} : attempts'[j] = attempts[j]
    OBVIOUS
  <1>4. QED BY <1>1, <1>2, <1>3

(* A step tells no form of a success without disarming it, and arms no form *)
(* unless something is typed.                                               *)
Careful ==
  \/ Disarmed'
  \/ /\ filled' = filled
     /\ \A i \in DOMAIN attempts' : Done(i)' => i \in DOMAIN attempts /\ Done(i)
  \/ \A i \in DOMAIN attempts' : ~Done(i)'

LEMMA PageCareful ==
  ASSUME CallsTyped, Load \/ LoadFails \/ Deselect \/ Leave \/ Arrive
  PROVE  Careful
  <1>1. form' = form /\ \/ filled' = The.initial
                        \/ attempts' = attempts /\ filled' = filled
    BY DEF Load, LoadFails, Deselect, Leave, Arrive, See, Left, Appear, inputs
  <1>2. QED BY <1>1, Disarms DEF Careful, Done

LEMMA UserCareful ==
  ASSUME CallsTyped, Open \/ Close \/ Regenerate \/ Redraw
  PROVE  Careful
  <1>1. form' = form /\ attempts' = attempts /\ (filled' = The.initial \/ filled' = filled)
    BY DEF Open, Close, Regenerate, Redraw
  <1>2. QED BY <1>1, Disarms DEF Careful, Done

LEMMA TypeCareful ==
  ASSUME CallsTyped, Type
  PROVE  Careful
  <1>1. attempts' = [i \in DOMAIN attempts |-> [attempts[i] EXCEPT !.untouched = FALSE]]
    BY DEF Type
  <1>2. \A i \in DOMAIN attempts : attempts[i] \in Attempt
    BY LenProperties, ElementOfSeq DEF CallsTyped
  <1>3. \A a \in Attempt : [a EXCEPT !.untouched = FALSE].untouched = FALSE
    BY DEF Attempt
  <1>4. \A i \in DOMAIN attempts' : attempts'[i].untouched = FALSE
    BY <1>1, <1>2, <1>3
  <1>5. QED BY <1>4 DEF Careful, Done

LEMMA SubmitCareful ==
  ASSUME CallsTyped, Submit
  PROVE  Careful
  <1> DEFINE call == [ key |-> key, sitting |-> sitting, untouched |-> TRUE,
                       formAlive |-> TRUE, hookAlive |-> TRUE,
                       fate |-> "sent", told |-> "waiting" ]
             n == Len(attempts)
  <1>1. attempts' = Append(attempts, call) /\ filled' = filled
    BY DEF Submit
  <1>2. call \in Attempt /\ call.told = "waiting"
    BY DEF CallsTyped, Attempt, Fate
  <1> HIDE DEF call
  <1>3. n \in Nat /\ DOMAIN attempts = 1..n
    BY LenProperties DEF CallsTyped
  <1>4. /\ DOMAIN attempts' = 1..(n + 1) /\ attempts'[n + 1] = call
        /\ \A i \in 1..n : attempts'[i] = attempts[i]
    BY <1>1, <1>2, <1>3, AppendProperties, LenProperties DEF CallsTyped
  <1>5. \A i \in DOMAIN attempts' : Done(i)' => i \in DOMAIN attempts /\ Done(i)
    BY <1>2, <1>3, <1>4 DEF Done
  <1>6. QED BY <1>1, <1>5 DEF Careful

LEMMA ServerCareful ==
  ASSUME CallsTyped, NEW i \in DOMAIN attempts, Apply(i) \/ Refuse(i)
  PROVE  Careful
  <1>1. PICK fate : attempts' = [attempts EXCEPT ![i].fate = fate]
    BY DEF Apply, Refuse
  <1>2. filled' = filled
    BY DEF Apply, Refuse, inputs
  <1>3. QED BY <1>1, <1>2, FateFields DEF CallsTyped, Careful, Done

LEMMA AnswerCareful ==
  ASSUME CallsTyped, NEW i \in DOMAIN attempts,
         SucceedAndGo(i) \/ SucceedAndDeselect(i) \/ Succeed(i) \/ Fail(i)
  PROVE  Careful
  <1>1. CASE SucceedAndGo(i)
    <2>1. CASE The.hook = "shell"
      BY <1>1, <2>1, Disarms DEF SucceedAndGo, Cleared, Careful
    <2>2. CASE The.hook # "shell"
      BY <1>1, <2>2, Disarms DEF SucceedAndGo, Left, Careful
    <2>3. QED BY <2>1, <2>2
  <1>2. CASE SucceedAndDeselect(i)
    BY <1>2, Disarms DEF SucceedAndDeselect, See, Appear, Careful
  <1>3. CASE Succeed(i) /\ Clears(i)
    BY <1>3, Disarms DEF Succeed, Cleared, Careful
  <1>4. CASE Succeed(i) /\ ~Clears(i)
    <2>1. filled' = filled /\ attempts' = Told(i, "success")
      BY <1>4 DEF Succeed, inputs
    <2>2. /\ DOMAIN attempts' = DOMAIN attempts
          /\ \A j \in DOMAIN attempts \ {i} : attempts'[j] = attempts[j]
          /\ attempts'[i].formAlive = attempts[i].formAlive
          /\ attempts'[i].told = IF The.settles = "await" \/ Heard(i) THEN "success" ELSE "unheard"
      BY <2>1, ToldFields DEF CallsTyped
    <2>3. ~Done(i)'
      <3>1. CASE The.settles = "callback"
        BY <1>4, <2>2, <3>1 DEF Clears, Done
      <3>2. CASE The.settles # "callback"
        BY <1>4, <2>2, <3>2 DEF Clears, Done
      <3>3. QED BY <3>1, <3>2
    <2>4. QED BY <2>1, <2>2, <2>3 DEF Careful, Done
  <1>5. CASE Fail(i)
    <2>1. filled' = filled /\ attempts' = Told(i, "error")
      BY <1>5 DEF Fail, inputs
    <2>2. /\ DOMAIN attempts' = DOMAIN attempts
          /\ \A j \in DOMAIN attempts \ {i} : attempts'[j] = attempts[j]
          /\ attempts'[i].told = IF The.settles = "await" \/ Heard(i) THEN "error" ELSE "unheard"
      BY <2>1, ToldFields DEF CallsTyped
    <2>3. QED BY <2>1, <2>2 DEF Careful, Done
  <1>6. QED BY <1>1, <1>2, <1>3, <1>4, <1>5

LEMMA NextCareful ==
  ASSUME CallsTyped, [Next]_vars
  PROVE  Careful
  <1>1. CASE MovedElsewhere \/ UNCHANGED vars
    BY <1>1 DEF MovedElsewhere, vars, inputs, Careful, Done
  <1>2. QED
    BY <1>1, PageCareful, UserCareful, TypeCareful, SubmitCareful, ServerCareful, AnswerCareful DEF Next

(* A step keeps the form. *)
LEMMA FormKept ==
  ASSUME [Next]_vars
  PROVE  form' = form /\ The' = The
  <1> SUFFICES form' = form
    BY DEF The
  <1>1. CASE Load \/ LoadFails \/ Deselect \/ Leave \/ Arrive
    BY <1>1 DEF Load, LoadFails, Deselect, Leave, Arrive, See, Left
  <1>2. CASE Open \/ Close \/ Type \/ Regenerate \/ Submit \/ Redraw \/ MovedElsewhere
    BY <1>2 DEF Open, Close, Type, Regenerate, Submit, Redraw, MovedElsewhere
  <1>3. ASSUME NEW i \in DOMAIN attempts,
               \/ Apply(i) \/ Refuse(i) \/ SucceedAndGo(i) \/ SucceedAndDeselect(i)
               \/ Succeed(i) \/ Fail(i)
        PROVE  form' = form
    BY <1>3 DEF Apply, Refuse, SucceedAndGo, SucceedAndDeselect, Succeed, Fail, See, Left
  <1>4. CASE UNCHANGED vars
    BY <1>4 DEF vars
  <1>5. QED BY <1>1, <1>2, <1>3, <1>4 DEF Next

(* Once a form has been told of a success it cannot be submitted again as   *)
(* it stands, for every one of the console's forms, though it may have been *)
(* closed and reopened before the answer came.                              *)
THEOREM SuccessDisarmsAlways == Spec => []SuccessDisarms
  <1>1. Init => DisarmInv
    BY EmptySeq DEF Init, DisarmInv, CallsTyped
  <1>2. DisarmInv /\ KeyInv' /\ [Next]_vars => DisarmInv'
    <2> SUFFICES ASSUME DisarmInv, KeyInv', [Next]_vars PROVE DisarmInv'
      OBVIOUS
    <2>1. CallsTyped' /\ Careful /\ The' = The
      BY NextCareful, FormKept DEF DisarmInv, KeyInv
    <2>2. ASSUME NEW i \in DOMAIN attempts', Done(i)' PROVE Disarmed'
      BY <2>1, <2>2 DEF Careful, DisarmInv, Disarmed
    <2>3. QED BY <2>1, <2>2 DEF DisarmInv
  <1>3. Spec => []KeyInv
    BY InitKeyInv, NextKeyInv, PTL DEF Spec
  <1>4. DisarmInv => SuccessDisarms
    BY DEF DisarmInv, Done, Disarmed, SuccessDisarms, Ready
  <1>5. QED BY <1>1, <1>2, <1>3, <1>4, PTL DEF Spec

-----------------------------------------------------------------------------
\* The page that is left.

(* The inductive invariant: away from its page, a form is neither shown nor *)
(* listens for an answer, unless it is the shell's.                         *)
AwayInv ==
    at # "page" /\ The.hook # "shell" =>
        ~open /\ \A i \in DOMAIN attempts : ~attempts[i].hookAlive /\ ~attempts[i].formAlive

LEMMA HiddenFields ==
  ASSUME NEW as \in Seq(Attempt), NEW left \in BOOLEAN
  PROVE  /\ DOMAIN Hidden(as, left) = DOMAIN as
         /\ \A i \in DOMAIN as : /\ ~Hidden(as, left)[i].formAlive
                                 /\ left => ~Hidden(as, left)[i].hookAlive
                                 /\ Hidden(as, left)[i].told = as[i].told
                                 /\ Hidden(as, left)[i].fate = as[i].fate
  <1> DEFINE hook(i) == as[i].hookAlive /\ ~left /\ The.hook # "form"
  <1>1. \A i \in DOMAIN as : as[i] \in Attempt
    BY LenProperties, ElementOfSeq
  <1>2. ASSUME NEW a \in Attempt, NEW h
        PROVE  LET b == [a EXCEPT !.formAlive = FALSE, !.hookAlive = h]
               IN  b.formAlive = FALSE /\ b.hookAlive = h /\ b.told = a.told /\ b.fate = a.fate
    BY DEF Attempt
  <1>3. /\ DOMAIN Hidden(as, left) = DOMAIN as
        /\ \A i \in DOMAIN as :
             Hidden(as, left)[i] = [as[i] EXCEPT !.formAlive = FALSE, !.hookAlive = hook(i)]
    BY DEF Hidden
  <1>4. \A i \in DOMAIN as : left => hook(i) = FALSE
    OBVIOUS
  <1> HIDE DEF hook
  <1>5. ASSUME NEW i \in DOMAIN as
        PROVE  /\ Hidden(as, left)[i].formAlive = FALSE
               /\ Hidden(as, left)[i].hookAlive = hook(i)
               /\ Hidden(as, left)[i].told = as[i].told
               /\ Hidden(as, left)[i].fate = as[i].fate
    <2>1. PICK a \in Attempt : a = as[i]
      BY <1>1, <1>5
    <2>2. PICK h : h = hook(i)
      OBVIOUS
    <2>3. Hidden(as, left)[i] = [a EXCEPT !.formAlive = FALSE, !.hookAlive = h]
      BY <1>3, <1>5, <2>1, <2>2
    <2>4. QED BY <1>2, <2>1, <2>2, <2>3
  <1>6. QED BY <1>3, <1>4, <1>5

LEMMA LeftAway ==
  ASSUME CallsTyped, NEW to, NEW as \in Seq(Attempt), Left(to, as), The.hook # "shell"
  PROVE  AwayInv'
  <1>1. attempts' = Hidden(as, TRUE) /\ open' = FALSE
    BY DEF Left
  <1>2. \A i \in DOMAIN attempts' : ~attempts'[i].hookAlive /\ ~attempts'[i].formAlive
    BY <1>1, HiddenFields
  <1>3. QED BY <1>1, <1>2 DEF AwayInv

(* A step that changes nothing of what AwayInv says. *)
LEMMA SameAway ==
  ASSUME AwayInv, [Next]_vars, at' = at, at = "page" \/ The.hook = "shell"
  PROVE  AwayInv'
  BY FormKept DEF AwayInv

LEMMA NextAwayInv ==
  ASSUME CallsTyped, AwayInv, [Next]_vars
  PROVE  AwayInv'
  <1>1. The' = The
    BY FormKept
  <1>2. CASE at' = at /\ (at = "page" \/ The.hook = "shell")
    BY <1>2, SameAway
  <1>3. CASE at' = "page"
    BY <1>3 DEF AwayInv
  <1>4. CASE The.hook = "shell"
    BY <1>1, <1>4 DEF AwayInv
  <1>5. SUFFICES ASSUME The.hook # "shell" PROVE AwayInv'
    BY <1>4
  <1>6. CASE Load \/ LoadFails \/ Deselect
    <2>1. at' = at /\ at = "page"
      BY <1>6 DEF Load, LoadFails, Deselect, See
    <2>2. QED BY <1>2, <2>1
  <1>7. CASE Leave
    BY <1>5, <1>7, LeftAway DEF Leave, CallsTyped
  <1>8. CASE Arrive
    BY <1>3, <1>8 DEF Arrive
  <1>9. CASE Open
    <2>1. at' = at /\ at = "page"
      BY <1>5, <1>9 DEF Open, Offered, OnScreen, page
    <2>2. QED BY <1>2, <2>1
  <1>10. CASE Type \/ Regenerate \/ Submit
    <2>1. at' = at /\ open
      BY <1>10 DEF Type, Regenerate, Submit, page
    <2>2. QED BY <1>2, <1>5, <2>1 DEF AwayInv
  <1>11. CASE Close \/ Redraw \/ MovedElsewhere \/ UNCHANGED vars
    <2>1. at' = at /\ attempts' = attempts /\ (open' = open \/ open' = FALSE)
      BY <1>11 DEF Close, Redraw, MovedElsewhere, vars, page, inputs
    <2>2. QED BY <1>1, <2>1 DEF AwayInv
  <1>12. ASSUME NEW i \in DOMAIN attempts, Apply(i) \/ Refuse(i) PROVE AwayInv'
    <2>1. PICK fate : attempts' = [attempts EXCEPT ![i].fate = fate]
      BY <1>12 DEF Apply, Refuse
    <2>2. at' = at /\ open' = open
      BY <1>12 DEF Apply, Refuse, page, inputs
    <2>3. QED BY <1>1, <2>1, <2>2, FateFields DEF CallsTyped, AwayInv
  <1>13. ASSUME NEW i \in DOMAIN attempts, SucceedAndGo(i) PROVE AwayInv'
    <2>1. Told(i, "success") \in Seq(Attempt)
      BY ToldCalls DEF CallsTyped, SameCalls
    <2>2. QED BY <1>5, <1>13, <2>1, LeftAway DEF SucceedAndGo
  <1>14. ASSUME NEW i \in DOMAIN attempts, SucceedAndDeselect(i) PROVE AwayInv'
    <2>1. at' = at /\ attempts[i].hookAlive
      BY <1>14 DEF SucceedAndDeselect, See, Heard
    <2>2. QED BY <1>2, <1>5, <2>1 DEF AwayInv
  <1>15. ASSUME NEW i \in DOMAIN attempts, Succeed(i) \/ Fail(i) PROVE AwayInv'
    <2>1. at' = at
      BY <1>15 DEF Succeed, Fail, page
    <2>2. CASE at # "page"
      <3>1. ~Clears(i) /\ ~open
              /\ \A j \in DOMAIN attempts : ~attempts[j].hookAlive /\ ~attempts[j].formAlive
        BY <1>5, <2>2 DEF AwayInv, Clears, Heard
      <3>2. open' = open /\ \E answer \in {"success", "error"} : attempts' = Told(i, answer)
        BY <1>15, <3>1 DEF Succeed, Fail, inputs
      <3>3. /\ DOMAIN attempts' = DOMAIN attempts
            /\ \A j \in DOMAIN attempts : /\ attempts'[j].formAlive = attempts[j].formAlive
                                          /\ attempts'[j].hookAlive = attempts[j].hookAlive
        <4>1. PICK answer \in {"success", "error"} : attempts' = Told(i, answer)
          BY <3>2
        <4>2. QED BY <4>1, ToldFields DEF CallsTyped
      <3>4. QED BY <3>1, <3>2, <3>3 DEF AwayInv
    <2>3. QED BY <1>2, <2>1, <2>2
  <1>16. QED
    BY <1>6, <1>7, <1>8, <1>9, <1>10, <1>11, <1>12, <1>13, <1>14, <1>15 DEF Next

(* Only the settlement of a cycle awaits its answer before it goes on, and  *)
(* only the top bar's form is the shell's.                                  *)
LEMMA WhoGoes ==
  \A name \in DOMAIN Forms :
    /\ Forms[name].goes = "await" => name = "SettleCycle"
    /\ Forms[name].hook = "shell" => name = "NewParticipantTopbar"
  <1> DEFINE Plain(f) == f.goes # "await" /\ f.hook # "shell"
  <1> USE DEF Form, On, Confirm, NameDialog
  <1>1. Plain(NewParticipant) /\ NewParticipantTopbar.goes # "await"
    BY DEF NewParticipant, NewParticipantTopbar
  <1>2. Plain(NewLedger) /\ Plain(NewSubledger) /\ Plain(NewAccount)
    BY DEF NewLedger, NewSubledger, NewAccount
  <1>3. Plain(PostTransaction) /\ Plain(ReverseTransaction) /\ Plain(OpenDepositAccount)
    BY DEF PostTransaction, ReverseTransaction, OpenDepositAccount
  <1>4. Plain(Fund) /\ Plain(CloseAccount) /\ Plain(NewHold) /\ Plain(TakeSnapshot)
    BY DEF Fund, CloseAccount, NewHold, TakeSnapshot
  <1>5. Plain(ReleaseHold) /\ Plain(CaptureHold) /\ Plain(NewMandate) /\ Plain(RevokeMandate)
    BY DEF ReleaseHold, CaptureHold, NewMandate, RevokeMandate
  <1>6. Plain(InitiatePush) /\ Plain(InitiatePull)
    BY DEF InitiatePush, InitiatePull
  <1>7. Plain(RejectPayment) /\ Plain(ReturnPayment) /\ Plain(OpenCycle) /\ Plain(CloseCycle)
    BY DEF RejectPayment, ReturnPayment, OpenCycle, CloseCycle
  <1>8. SettleCycle.hook # "shell"
    BY DEF SettleCycle
  <1>9. /\ Plain(STATUS_TRANSITIONS.Freeze) /\ Plain(STATUS_TRANSITIONS.MarkDormant)
        /\ Plain(STATUS_TRANSITIONS.Unfreeze) /\ Plain(STATUS_TRANSITIONS.Reactivate)
    BY DEF STATUS_TRANSITIONS, StatusTransition
  <1> HIDE DEF Form, On, Confirm, NameDialog
  <1>10. QED BY <1>1, <1>2, <1>3, <1>4, <1>5, <1>6, <1>7, <1>8, <1>9 DEF Forms

(* Only a success that takes the user away ends at the target. *)
LEMMA OnlyGoing ==
  ASSUME [Next]_vars, at' = "target", at # "target"
  PROVE  \E i \in DOMAIN attempts : SucceedAndGo(i)
  <1>1. CASE Load \/ LoadFails \/ Deselect \/ Leave \/ Arrive
    BY <1>1 DEF Load, LoadFails, Deselect, See, Leave, Left, Arrive
  <1>2. CASE \/ Open \/ Close \/ Type \/ Regenerate \/ Submit \/ Redraw \/ MovedElsewhere
             \/ UNCHANGED vars
    BY <1>2 DEF Open, Close, Type, Regenerate, Submit, Redraw, MovedElsewhere, vars, page
  <1>3. ASSUME NEW i \in DOMAIN attempts,
               Apply(i) \/ Refuse(i) \/ SucceedAndDeselect(i) \/ Succeed(i) \/ Fail(i)
        PROVE  FALSE
    BY <1>3 DEF Apply, Refuse, SucceedAndDeselect, See, Succeed, Fail, page
  <1>4. QED BY <1>1, <1>2, <1>3 DEF Next

(* An answer takes the user to another page only from the visit on which    *)
(* the operation was confirmed, but for the settlement of a cycle and the   *)
(* form in the top bar, whatever pages were left and opened again.          *)
THEOREM NoLateMoveAlways == Spec => NoLateMove
  <1> DEFINE Step ==
        at' = "target" /\ at # "target" /\ form \notin {"SettleCycle", "NewParticipantTopbar"} =>
            /\ at = "page"
            /\ \E i \in DOMAIN attempts :
                  /\ attempts[i].hookAlive
                  /\ attempts[i].told = "waiting"
                  /\ attempts'[i].told # "waiting"
  <1>1. Init => AwayInv
    BY DEF Init, AwayInv
  <1>2. KeyInv /\ AwayInv /\ [Next]_vars => AwayInv'
    BY NextAwayInv DEF KeyInv
  <1>3. ASSUME KeyInv, AwayInv, Next PROVE Step
    <2> SUFFICES ASSUME at' = "target", at # "target",
                        form \notin {"SettleCycle", "NewParticipantTopbar"}
                 PROVE  /\ at = "page"
                        /\ \E i \in DOMAIN attempts :
                              /\ attempts[i].hookAlive
                              /\ attempts[i].told = "waiting"
                              /\ attempts'[i].told # "waiting"
      OBVIOUS
    <2>1. CallsTyped /\ The.goes # "await" /\ The.hook # "shell"
      BY <1>3, WhoGoes, ShownAssumption DEF KeyInv, CallsTyped, The
    <2>2. PICK i \in DOMAIN attempts : SucceedAndGo(i)
      BY <1>3, OnlyGoing
    <2>3. Heard(i) /\ attempts[i].hookAlive /\ attempts[i].told = "waiting"
      BY <2>1, <2>2 DEF SucceedAndGo, Answered, Goes, Heard
    <2>4. at = "page"
      BY <1>3, <2>1, <2>3 DEF AwayInv
    <2>5. attempts' = Hidden(Told(i, "success"), TRUE)
      BY <2>1, <2>2 DEF SucceedAndGo, Left
    <2>6. /\ Told(i, "success") \in Seq(Attempt) /\ DOMAIN Told(i, "success") = DOMAIN attempts
          /\ Told(i, "success")[i].told = "success"
      BY <2>1, <2>3, ToldCalls, ToldFields DEF CallsTyped, SameCalls
    <2>7. attempts'[i].told = "success"
      BY <2>5, <2>6, HiddenFields
    <2>8. QED BY <2>3, <2>4, <2>7
  <1>4. KeyInv /\ AwayInv /\ [Next]_vars => [Step]_vars
    BY <1>3
  <1> HIDE DEF Step
  <1>5. Spec => []KeyInv
    BY InitKeyInv, NextKeyInv, PTL DEF Spec
  <1>6. Spec => [][Step]_vars
    BY <1>1, <1>2, <1>4, <1>5, PTL DEF Spec
  <1>7. QED BY <1>6 DEF Step, NoLateMove

-----------------------------------------------------------------------------
\* What the pages offer.

\* The statuses of an object, by its kind.
Statuses ==
    [ account |-> {"Active", "Frozen", "Dormant", "Closed"},
      hold |-> {"Active", "Released", "Captured"}, transaction |-> {"Posted", "Reversed"},
      mandate |-> {"Active", "Revoked"}, cycle |-> {"Open", "Closed", "Settled"},
      payment |-> {"Accepted", "Cleared", "Settled", "Rejected", "Returned"},
      nothing |-> {"nothing"} ]

\* The kind of object a form's operation is about, and where it is allowed.
OpKind ==
    [ freeze |-> "account", unfreeze |-> "account", markDormant |-> "account",
      reactivate |-> "account", close |-> "account", hold |-> "account", fund |-> "account",
      snapshot |-> "account", release |-> "hold", capture |-> "hold",
      reverse |-> "transaction", revoke |-> "mandate", reject |-> "payment",
      return |-> "payment", closeCycle |-> "cycle", settleCycle |-> "cycle",
      none |-> "nothing" ]

Allowed ==
    [ freeze |-> {"Active"}, unfreeze |-> {"Frozen"}, markDormant |-> {"Active"},
      reactivate |-> {"Dormant"}, close |-> {"Active", "Frozen", "Dormant"},
      hold |-> {"Active"}, fund |-> {"Active", "Frozen", "Dormant", "Closed"},
      snapshot |-> {"Active", "Frozen", "Dormant", "Closed"}, release |-> {"Active"},
      capture |-> {"Active"}, reverse |-> {"Posted"}, revoke |-> {"Active", "Revoked"},
      reject |-> {"Initiated", "Accepted"}, return |-> {"Settled"},
      closeCycle |-> {"Open"}, settleCycle |-> {"Closed"}, none |-> {"nothing"} ]

(* The server's moves, seen through these tables. *)
LEMMA MovesTabled ==
  ASSUME NEW m \in Moves
  PROVE  /\ m.from \in Statuses[m.kind] => m.to \in Statuses[m.kind]
         /\ m.op \in DOMAIN Allowed => m.from \in Allowed[m.op]
  <1> USE DEF Move, Stay, Statuses, Allowed
  <1>1. CASE m \in AccountMoves
    BY <1>1 DEF AccountMoves, DepositStatuses
  <1>2. CASE m \in HoldMoves
    BY <1>2 DEF HoldMoves
  <1>3. CASE m \in TransactionMoves
    BY <1>3 DEF TransactionMoves
  <1>4. CASE m \in MandateMoves
    BY <1>4 DEF MandateMoves
  <1>5. CASE m \in PaymentMoves
    BY <1>5 DEF PaymentMoves
  <1>6. CASE m \in CycleMoves
    BY <1>6 DEF CycleMoves
  <1>7. CASE m \in Stay(Nothing, "none", {Nothing})
    BY <1>7 DEF Nothing
  <1>8. QED BY <1>1, <1>2, <1>3, <1>4, <1>5, <1>6, <1>7 DEF Moves

\* There is a move for the operation from status s.
Moving(op, s) == \E m \in Moves : m.kind = OpKind[op] /\ m.op = op /\ m.from = s

(* A move that the definitions list is a move. *)
LEMMA MoveListed ==
  ASSUME NEW op, NEW from, NEW s \in from, NEW to,
         Move(OpKind[op], op, from, to) \subseteq Moves \/ Stay(OpKind[op], op, from) \subseteq Moves
  PROVE  Moving(op, s)
  <1>1. CASE Move(OpKind[op], op, from, to) \subseteq Moves
    <2>1. [kind |-> OpKind[op], op |-> op, from |-> s, to |-> to] \in Moves
      BY <1>1 DEF Move
    <2>2. QED BY <2>1 DEF Moving
  <1>2. CASE Stay(OpKind[op], op, from) \subseteq Moves
    <2>1. [kind |-> OpKind[op], op |-> op, from |-> s, to |-> s] \in Moves
      BY <1>2 DEF Stay
    <2>2. QED BY <2>1 DEF Moving
  <1>3. QED BY <1>1, <1>2

LEMMA AllowedMoves == \A op \in DOMAIN Allowed : \A s \in Allowed[op] : Moving(op, s)
  <1>1. /\ Move("account", "freeze", {"Active"}, "Frozen") \subseteq Moves
        /\ Move("account", "unfreeze", {"Frozen"}, "Active") \subseteq Moves
        /\ Move("account", "markDormant", {"Active"}, "Dormant") \subseteq Moves
        /\ Move("account", "reactivate", {"Dormant"}, "Active") \subseteq Moves
        /\ Move("account", "close", DepositStatuses \ {"Closed"}, "Closed") \subseteq Moves
        /\ Stay("account", "hold", {"Active"}) \subseteq Moves
        /\ Stay("account", "fund", DepositStatuses) \subseteq Moves
        /\ Stay("account", "snapshot", DepositStatuses) \subseteq Moves
    BY DEF Moves, AccountMoves
  <1>2. /\ Move("hold", "release", {"Active"}, "Released") \subseteq Moves
        /\ Move("hold", "capture", {"Active"}, "Captured") \subseteq Moves
        /\ Move("transaction", "reverse", {"Posted"}, "Reversed") \subseteq Moves
        /\ Move("mandate", "revoke", {"Active", "Revoked"}, "Revoked") \subseteq Moves
    BY DEF Moves, HoldMoves, TransactionMoves, MandateMoves
  <1>3. /\ Move("payment", "reject", {"Initiated", "Accepted"}, "Rejected") \subseteq Moves
        /\ Move("payment", "return", {"Settled"}, "Returned") \subseteq Moves
        /\ Move("cycle", "closeCycle", {"Open"}, "Closed") \subseteq Moves
        /\ Move("cycle", "settleCycle", {"Closed"}, "Settled") \subseteq Moves
        /\ Stay("nothing", "none", {"nothing"}) \subseteq Moves
    BY DEF Moves, PaymentMoves, CycleMoves, Nothing
  <1>4. /\ \A op \in {"freeze", "unfreeze", "markDormant", "reactivate", "close", "hold", "fund",
                      "snapshot"} : OpKind[op] = "account"
        /\ OpKind["release"] = "hold" /\ OpKind["capture"] = "hold"
        /\ OpKind["reverse"] = "transaction" /\ OpKind["revoke"] = "mandate"
        /\ OpKind["reject"] = "payment" /\ OpKind["return"] = "payment"
        /\ OpKind["closeCycle"] = "cycle" /\ OpKind["settleCycle"] = "cycle"
        /\ OpKind["none"] = "nothing"
    BY DEF OpKind
  <1>5. /\ \A s \in {"Active"} : Moving("freeze", s) /\ Moving("markDormant", s) /\ Moving("hold", s)
        /\ \A s \in {"Frozen"} : Moving("unfreeze", s)
        /\ \A s \in {"Dormant"} : Moving("reactivate", s)
    BY <1>1, <1>4, MoveListed
  <1>6. /\ \A s \in DepositStatuses \ {"Closed"} : Moving("close", s)
        /\ \A s \in DepositStatuses : Moving("fund", s) /\ Moving("snapshot", s)
    BY <1>1, <1>4, MoveListed
  <1>7. /\ \A s \in {"Active"} : Moving("release", s) /\ Moving("capture", s)
        /\ \A s \in {"Posted"} : Moving("reverse", s)
        /\ \A s \in {"Active", "Revoked"} : Moving("revoke", s)
    BY <1>2, <1>4, MoveListed
  <1>8. /\ \A s \in {"Initiated", "Accepted"} : Moving("reject", s)
        /\ \A s \in {"Settled"} : Moving("return", s)
        /\ \A s \in {"Open"} : Moving("closeCycle", s)
        /\ \A s \in {"Closed"} : Moving("settleCycle", s)
        /\ \A s \in {"nothing"} : Moving("none", s)
    BY <1>3, <1>4, MoveListed
  <1>9. QED BY <1>5, <1>6, <1>7, <1>8 DEF Allowed, DepositStatuses

\* The statuses the table excepts for an operation.
ExceptedFor(op, table) == IF op \in DOMAIN table THEN table[op] ELSE {}

\* Form f is about an object that has its operation, and is offered when that is
\* allowed, but for the exceptions.
Exact(f) ==
    /\ f.op \in DOMAIN Allowed /\ f.of = OpKind[f.op] /\ f.of \in DOMAIN Statuses
    /\ \A s \in Statuses[f.of] :
          /\ s \notin Allowed[f.op] => (s \in f.offered <=> s \in ExceptedFor(f.op, OfferedAnyway))
          /\ s \in Allowed[f.op] => (s \in f.offered <=> s \notin ExceptedFor(f.op, NotOffered))

LEMMA FormsExact == \A name \in DOMAIN Forms : Exact(Forms[name])
  <1> DEFINE Free(f) == f.op = "none" /\ f.of = Nothing /\ Nothing \in f.offered
             Of(f, op, kind, offered) == f.op = op /\ f.of = kind /\ f.offered = offered
  <1> USE DEF Form, On, Confirm, NameDialog
  <1>1. /\ Free(NewParticipant) /\ Free(NewParticipantTopbar) /\ Free(NewLedger)
        /\ Free(NewSubledger) /\ Free(NewAccount) /\ Free(PostTransaction)
    BY DEF NewParticipant, NewParticipantTopbar, NewLedger, NewSubledger, NewAccount,
       PostTransaction, Bound
  <1>2. /\ Free(OpenDepositAccount) /\ Free(NewMandate) /\ Free(OpenCycle)
        /\ Free(InitiatePush) /\ Free(InitiatePull)
    BY DEF OpenDepositAccount, NewMandate, OpenCycle, InitiatePush, InitiatePull, Bound
  <1>3. /\ Of(ReverseTransaction, "reverse", "transaction", {"Posted"})
        /\ Of(Fund, "fund", "account", DepositStatuses \ {"Closed"})
        /\ Of(CloseAccount, "close", "account", DepositStatuses \ {"Closed"})
        /\ Of(NewHold, "hold", "account", DepositStatuses)
        /\ Of(TakeSnapshot, "snapshot", "account", DepositStatuses)
    BY DEF ReverseTransaction, Fund, CloseAccount, NewHold, TakeSnapshot
  <1>4. /\ Of(ReleaseHold, "release", "hold", {"Active"})
        /\ Of(CaptureHold, "capture", "hold", {"Active"})
        /\ Of(RevokeMandate, "revoke", "mandate", {"Active"})
        /\ Of(RejectPayment, "reject", "payment", {"Initiated", "Accepted", "Cleared"})
        /\ Of(ReturnPayment, "return", "payment", {"Settled"})
        /\ Of(CloseCycle, "closeCycle", "cycle", {"Open"})
        /\ Of(SettleCycle, "settleCycle", "cycle", {"Closed"})
    BY DEF ReleaseHold, CaptureHold, RevokeMandate, RejectPayment, ReturnPayment, CloseCycle,
       SettleCycle
  <1>5. /\ Of(STATUS_TRANSITIONS.Freeze, "freeze", "account", {"Active"})
        /\ Of(STATUS_TRANSITIONS.MarkDormant, "markDormant", "account", {"Active"})
        /\ Of(STATUS_TRANSITIONS.Unfreeze, "unfreeze", "account", {"Frozen"})
        /\ Of(STATUS_TRANSITIONS.Reactivate, "reactivate", "account", {"Dormant"})
    BY DEF STATUS_TRANSITIONS, StatusTransition
  <1> HIDE DEF Form, On, Confirm, NameDialog
  <1>6. ASSUME NEW f, Free(f) PROVE Exact(f)
    BY <1>6 DEF Exact, Allowed, OpKind, Statuses, Nothing, ExceptedFor, OfferedAnyway, NotOffered
  <1> USE DEF Exact, Allowed, OpKind, Statuses, ExceptedFor, OfferedAnyway, NotOffered,
              DepositStatuses
  <1>7. Exact(ReverseTransaction) /\ Exact(Fund) /\ Exact(CloseAccount)
    BY <1>3
  <1>8. Exact(NewHold) /\ Exact(TakeSnapshot)
    BY <1>3
  <1>9. Exact(ReleaseHold) /\ Exact(CaptureHold) /\ Exact(RevokeMandate)
    BY <1>4
  <1>10. Exact(RejectPayment) /\ Exact(ReturnPayment) /\ Exact(CloseCycle) /\ Exact(SettleCycle)
    BY <1>4
  <1>11. /\ Exact(STATUS_TRANSITIONS.Freeze) /\ Exact(STATUS_TRANSITIONS.MarkDormant)
         /\ Exact(STATUS_TRANSITIONS.Unfreeze) /\ Exact(STATUS_TRANSITIONS.Reactivate)
    BY <1>5
  <1> HIDE DEF Exact, Allowed, OpKind, Statuses, ExceptedFor, OfferedAnyway, NotOffered,
               DepositStatuses, Free
  <1>12. /\ Exact(NewParticipant) /\ Exact(NewParticipantTopbar) /\ Exact(NewLedger)
         /\ Exact(NewSubledger) /\ Exact(NewAccount) /\ Exact(PostTransaction)
         /\ Exact(OpenDepositAccount) /\ Exact(NewMandate) /\ Exact(OpenCycle)
         /\ Exact(InitiatePush) /\ Exact(InitiatePull)
    BY <1>1, <1>2, <1>6
  <1>13. QED BY <1>7, <1>8, <1>9, <1>10, <1>11, <1>12 DEF Forms

(* The inductive invariant: the object's status is one of its kind. *)
StatusInv == CallsTyped /\ status \in Statuses[The.of]

LEMMA InitStatusInv == Init => StatusInv
  <1> SUFFICES ASSUME Init PROVE StatusInv
    OBVIOUS
  <1>1. CallsTyped
    BY EmptySeq DEF Init, CallsTyped
  <1>2. Exact(The)
    BY <1>1, FormsExact, ShownAssumption DEF CallsTyped, The
  <1>3. \A kind \in DOMAIN Statuses : Created(kind) \in Statuses[kind]
    BY DEF Created, Statuses, Nothing
  <1>4. The.of \in DOMAIN Statuses /\ status = Created(The.of)
    BY <1>2 DEF Exact, Init
  <1>5. QED BY <1>1, <1>3, <1>4 DEF StatusInv

LEMMA NextStatusInv ==
  ASSUME StatusInv, CallsTyped', [Next]_vars
  PROVE  StatusInv'
  <1>1. The' = The
    BY FormKept
  <1>2. status' = status \/ \E m \in Moves : m.kind = The.of /\ m.from = status /\ status' = m.to
    BY StatusKept DEF MovedElsewhere, Apply, Possible
  <1>3. status' \in Statuses[The.of]
    BY <1>2, MovesTabled DEF StatusInv
  <1>4. QED BY <1>1, <1>3 DEF StatusInv

LEMMA StatusAlways == Spec => []StatusInv
  <1>1. StatusInv /\ KeyInv' /\ [Next]_vars => StatusInv'
    BY NextStatusInv DEF KeyInv
  <1>2. Spec => []KeyInv
    BY InitKeyInv, NextKeyInv, PTL DEF Spec
  <1>3. QED BY InitStatusInv, <1>1, <1>2, PTL DEF Spec

(* A page that shows an object as it is offers an operation exactly when    *)
(* the server allows it, but for the exceptions named, in every status an   *)
(* object can come to: the conditions of the pages in web/src/app against   *)
(* the status checks of the server.                                         *)
THEOREM OffersExactAlways == Spec => []OffersExact
  <1>1. StatusInv => OffersExact
    <2> SUFFICES ASSUME StatusInv, at = "page", view = status
                 PROVE  /\ Possible = {} => (Offered <=> status \in Excepted(OfferedAnyway))
                        /\ Possible # {} => (Offered <=> status \notin Excepted(NotOffered))
      BY DEF OffersExact
    <2>1. Exact(The)
      BY FormsExact, ShownAssumption DEF StatusInv, CallsTyped, The
    <2>2. Offered <=> status \in The.offered
      BY DEF Offered, OnScreen
    <2>3. Possible # {} <=> status \in Allowed[The.op]
      <3>1. ASSUME NEW m \in Possible PROVE status \in Allowed[The.op]
        BY <2>1, <3>1, MovesTabled DEF Possible, Exact
      <3>2. ASSUME status \in Allowed[The.op] PROVE \E m \in Possible : TRUE
        BY <2>1, <3>2, AllowedMoves DEF Possible, Exact, Moving
      <3>3. QED BY <3>1, <3>2
    <2>4. /\ Excepted(OfferedAnyway) = ExceptedFor(The.op, OfferedAnyway)
          /\ Excepted(NotOffered) = ExceptedFor(The.op, NotOffered)
      BY DEF Excepted, ExceptedFor
    <2>5. QED BY <2>1, <2>2, <2>3, <2>4 DEF Exact, StatusInv
  <1>2. QED BY StatusAlways, <1>1, PTL

-----------------------------------------------------------------------------
\* What the console sends.

\* Every field of a body is one the handler knows, but for an amount beyond int64.
Fits(kinds) == kinds \ {"beyond int64"}
Covered(body, decodes) ==
    \A f \in body : \E g \in decodes : f.key = g.key /\ Fits(f.kinds) \subseteq g.kinds

(* Such a body is decoded when its amounts fit. *)
LEMMA CoveredDecoded ==
  ASSUME NEW body, NEW decodes, body # {}, Covered(body, decodes)
  PROVE  Decodes(decodes, Fitting(body))
  <1>1. ASSUME NEW f \in body
        PROVE  LET h == [key |-> f.key, kinds |-> f.kinds \ {"beyond int64"}]
               IN  \E g \in decodes : h.key = g.key /\ h.kinds \subseteq g.kinds
    BY DEF Covered, Fits
  <1>2. \A h \in Fitting(body) : \E g \in decodes : h.key = g.key /\ h.kinds \subseteq g.kinds
    BY <1>1 DEF Fitting
  <1>3. Fitting(body) # {}
    BY DEF Fitting
  <1>4. QED BY <1>2, <1>3 DEF Decodes

(* So is one that is decoded whatever it holds. *)
LEMMA WholeDecoded ==
  ASSUME NEW body, NEW decodes, Decodes(decodes, body)
  PROVE  Decodes(decodes, Fitting(body))
  <1>1. body # {} /\ Covered(body, decodes)
    BY DEF Decodes, Covered, Fits
  <1>2. QED BY <1>1, CoveredDecoded

LEMMA CoveredParts ==
  ASSUME NEW A, NEW B, NEW D, Covered(A, D), Covered(B, D)
  PROVE  Covered(A \cup B, D)
  BY DEF Covered

LEMMA CoveredMore ==
  ASSUME NEW A, NEW D, NEW E, Covered(A, D), D \subseteq E
  PROVE  Covered(A, E)
  BY DEF Covered

LEMMA CoveredSame ==
  ASSUME NEW A
  PROVE  Covered(A, A)
  BY DEF Covered, Fits

LEMMA FieldCovered ==
  ASSUME NEW name, NEW kinds, NEW more, Fits(kinds) \subseteq more
  PROVE  Covered(Field(name, kinds), Field(name, more))
  BY DEF Covered, Field

LEMMA FieldIn ==
  ASSUME NEW name, NEW kinds, NEW more, NEW D, Fits(kinds) \subseteq more, Field(name, more) \subseteq D
  PROVE  Covered(Field(name, kinds), D)
  BY FieldCovered, CoveredMore

LEMMA AmountFits == Fits(Amount) \subseteq OrNull(Int64)
  BY DEF Fits, OrNull, Amount, Int64

LEMMA FieldsSome ==
  ASSUME NEW name, NEW kinds, NEW A, Field(name, kinds) \subseteq A
  PROVE  A # {}
  BY DEF Field

LEMMA RequestsDecoded ==
  /\ Decodes(nameRequest, NameRequest)
  /\ Decodes(createAccountRequest, CreateAccountRequest)
  /\ Decodes(openDepositAccountRequest, Fitting(OpenDepositAccountRequest))
  /\ Decodes(statusRequest, StatusRequest)
  /\ Decodes(createHoldRequest, Fitting(CreateHoldRequest))
  /\ Decodes(captureHoldRequest, Fitting(CaptureHoldRequest))
  /\ Decodes(snapshotRequest, SnapshotRequest)
  /\ Decodes(fundRequest, Fitting(FundRequest))
  /\ Decodes(openCycleRequest, OpenCycleRequest)
  /\ Decodes(reasonRequest, ReasonRequest)
  /\ Decodes(descriptionRequest, DescriptionRequest)
  <1> USE DEF Decodes, Field
  <1>1. Decodes(nameRequest, NameRequest) /\ Decodes(createAccountRequest, CreateAccountRequest)
    BY DEF nameRequest, NameRequest, createAccountRequest, CreateAccountRequest
  <1>2. Decodes(statusRequest, StatusRequest) /\ Decodes(snapshotRequest, SnapshotRequest)
    BY DEF statusRequest, StatusRequest, snapshotRequest, SnapshotRequest
  <1>3. /\ Decodes(openCycleRequest, OpenCycleRequest) /\ Decodes(reasonRequest, ReasonRequest)
        /\ Decodes(descriptionRequest, DescriptionRequest)
    BY DEF openCycleRequest, OpenCycleRequest, reasonRequest, ReasonRequest, descriptionRequest,
       DescriptionRequest
  <1> HIDE DEF Decodes, Field
  <1>4. Decodes(openDepositAccountRequest, Fitting(OpenDepositAccountRequest))
    <2> DEFINE D == openDepositAccountRequest
               rest == Field("name", Text)
    <2>1. /\ rest \subseteq D /\ Field("overdraftLimit", OrNull(Int64)) \subseteq D
          /\ OpenDepositAccountRequest = rest \cup Field("overdraftLimit", Amount)
      BY DEF openDepositAccountRequest, OpenDepositAccountRequest
    <2> HIDE DEF D, rest
    <2>2. Covered(rest, D) /\ Covered(Field("overdraftLimit", Amount), D)
      BY <2>1, CoveredMore, CoveredSame, AmountFits, FieldIn
    <2>3. Covered(OpenDepositAccountRequest, D) /\ OpenDepositAccountRequest # {}
      BY <2>1, <2>2, CoveredParts, FieldsSome
    <2>4. QED BY <2>3, CoveredDecoded DEF D
  <1>5. Decodes(createHoldRequest, Fitting(CreateHoldRequest))
    <2> DEFINE D == createHoldRequest
               rest == Field("expiresAt", OrNull(Instant)) \cup Field("description", Text)
    <2>1. /\ rest \subseteq D /\ Field("amount", OrNull(Int64)) \subseteq D
          /\ CreateHoldRequest = rest \cup Field("amount", Amount)
      BY DEF createHoldRequest, CreateHoldRequest
    <2> HIDE DEF D, rest
    <2>2. Covered(rest, D) /\ Covered(Field("amount", Amount), D)
      BY <2>1, CoveredMore, CoveredSame, AmountFits, FieldIn
    <2>3. Covered(CreateHoldRequest, D) /\ CreateHoldRequest # {}
      BY <2>1, <2>2, CoveredParts, FieldsSome
    <2>4. QED BY <2>3, CoveredDecoded DEF D
  <1>6. Decodes(captureHoldRequest, Fitting(CaptureHoldRequest))
    <2> DEFINE D == captureHoldRequest
               rest == Field("counterparty", Text) \cup Field("description", Text)
    <2>1. /\ rest \subseteq D /\ Field("amount", OrNull(Int64)) \subseteq D
          /\ CaptureHoldRequest = rest \cup Field("amount", Amount)
      BY DEF captureHoldRequest, CaptureHoldRequest
    <2> HIDE DEF D, rest
    <2>2. Covered(rest, D) /\ Covered(Field("amount", Amount), D)
      BY <2>1, CoveredMore, CoveredSame, AmountFits, FieldIn
    <2>3. Covered(CaptureHoldRequest, D) /\ CaptureHoldRequest # {}
      BY <2>1, <2>2, CoveredParts, FieldsSome
    <2>4. QED BY <2>3, CoveredDecoded DEF D
  <1>7. Decodes(fundRequest, Fitting(FundRequest))
    <2> DEFINE D == fundRequest
               rest == Field("account", Text) \cup Field("description", Text)
    <2>1. /\ rest \subseteq D /\ Field("amount", OrNull(Int64)) \subseteq D
          /\ FundRequest = rest \cup Field("amount", Amount)
      BY DEF fundRequest, FundRequest
    <2> HIDE DEF D, rest
    <2>2. Covered(rest, D) /\ Covered(Field("amount", Amount), D)
      BY <2>1, CoveredMore, CoveredSame, AmountFits, FieldIn
    <2>3. Covered(FundRequest, D) /\ FundRequest # {}
      BY <2>1, <2>2, CoveredParts, FieldsSome
    <2>4. QED BY <2>3, CoveredDecoded DEF D
  <1>8. QED BY <1>1, <1>2, <1>3, <1>4, <1>5, <1>6, <1>7

\* The server reads the call, whatever it holds.
Entire(name) == ServedWhole(name) /\ Served(name)

(* A call that has a route and a body which the route decodes is served. *)
LEMMA HandledBy ==
  ASSUME NEW name, NEW method, NEW path, NEW body, NEW decodes, NEW part,
         Named(name) = Call(method, path, body), method \in Proxied,
         Route(method, path, decodes) \in AllRoutes,
         decodes = {} \/ Decodes(decodes, part)
  PROVE  Handled(Named(name), part)
  BY DEF Handled, Call, Route

LEMMA ServedBy ==
  ASSUME NEW name, NEW method, NEW path, NEW body, NEW decodes,
         Named(name) = Call(method, path, body), method \in Proxied,
         Route(method, path, decodes) \in AllRoutes,
         decodes = {} \/ Decodes(decodes, body)
  PROVE  Entire(name)
  <1>1. decodes = {} \/ Decodes(decodes, Fitting(body))
    BY WholeDecoded
  <1>2. Handled(Named(name), body) /\ Handled(Named(name), Fitting(body))
    BY <1>1, HandledBy
  <1>3. Named(name).body = body
    BY DEF Call
  <1>4. QED BY <1>2, <1>3 DEF Entire, ServedWhole, Served

LEMMA NamedCalls ==
  /\ \A name \in DOMAIN ParticipantCalls : Named(name) = ParticipantCalls[name]
  /\ \A name \in DOMAIN LedgerCalls : Named(name) = LedgerCalls[name]
  /\ \A name \in DOMAIN DepositCalls : Named(name) = DepositCalls[name]
  /\ \A name \in DOMAIN PaymentCalls : Named(name) = PaymentCalls[name]
  <1>1. /\ DOMAIN ParticipantCalls = {"listParticipants", "getParticipant", "addParticipant",
             "fundDeposit", "listSchemes", "listReserves", "getReserve", "centralBankAudit"}
        /\ DOMAIN LedgerCalls = {"listLedgers", "createLedger", "listSubledgers", "createSubledger",
             "listAccounts", "createAccount", "getBookBalance", "listTransactions",
             "getTransaction", "postTransaction", "reverseTransaction", "ledgerAudit"}
        /\ DOMAIN DepositCalls = {"listDepositAccounts", "getDepositAccount", "openDepositAccount",
             "getDepositBalance", "setDepositStatus", "closeDepositAccount", "listHolds",
             "createHold", "getHold", "releaseHold", "captureHold", "listSnapshots",
             "takeSnapshot", "depositAudit"}
        /\ DOMAIN PaymentCalls = {"listMandates", "getMandate", "createMandate", "revokeMandate",
             "listPayments", "getPayment", "initiatePayment", "rejectPayment", "returnPayment",
             "listCycles", "getCycle", "openCycle", "closeCycle", "settleCycle",
             "listSettlements", "getSettlement"}
    BY DEF ParticipantCalls, LedgerCalls, DepositCalls, PaymentCalls
  <1>2. QED BY <1>1 DEF Named


(* A body may hold other objects, whose fields are decoded in their turn. *)
LEMMA WithinCovered ==
  ASSUME NEW A, NEW D, NEW name, Covered(A, D),
         \A f \in A \cup D : f = [key |-> f.key, kinds |-> f.kinds]
  PROVE  Covered(Within(name, A), Within(name, D))
  <1>2. ASSUME NEW h \in A \cup D
        PROVE  LET hw == [h EXCEPT !.key = <<name>> \o @]
               IN  hw.key = <<name>> \o h.key /\ hw.kinds = h.kinds
    <2>1. h = [key |-> h.key, kinds |-> h.kinds]
      OBVIOUS
    <2>2. "key" \in DOMAIN h /\ "kinds" \in DOMAIN h
      BY <2>1
    <2>3. QED BY <2>2
  <1>3. ASSUME NEW x \in Within(name, A)
        PROVE  \E y \in Within(name, D) : x.key = y.key /\ Fits(x.kinds) \subseteq y.kinds
    <2>1. PICK f \in A : x = [f EXCEPT !.key = <<name>> \o @]
      BY <1>3 DEF Within
    <2>2. PICK g \in D : f.key = g.key /\ Fits(f.kinds) \subseteq g.kinds
      BY DEF Covered
    <2>3. PICK y : y = [g EXCEPT !.key = <<name>> \o @]
      OBVIOUS
    <2>4. y \in Within(name, D)
      BY <2>3 DEF Within
    <2>5. /\ x.key = <<name>> \o f.key /\ x.kinds = f.kinds
          /\ y.key = <<name>> \o g.key /\ y.kinds = g.kinds
      BY <1>2, <2>1, <2>3
    <2>6. QED BY <2>2, <2>4, <2>5
  <1>4. QED BY <1>3 DEF Covered

(* The requests with objects inside. *)
LEMMA NestedDecoded ==
  /\ Decodes(postTransactionRequest, Fitting(PostTransactionRequest))
  /\ Decodes(createMandateRequest, Fitting(CreateMandateRequest))
  /\ Decodes(initiatePaymentRequest, Fitting(InitiatePaymentRequest))
  <1>1. ASSUME NEW D, NEW B, NEW name, NEW kinds, Field(name, kinds) \subseteq B, Covered(B, D)
        PROVE  Decodes(D, Fitting(B))
    <2>1. B # {}
      BY <1>1 DEF Field
    <2>2. QED BY <1>1, <2>1, CoveredDecoded
  <1>2. Decodes(postTransactionRequest, Fitting(PostTransactionRequest))
    <2> DEFINE D == postTransactionRequest
               rest == Field("bookingDate", OrNull(Instant)) \cup Field("valueDate", OrNull(Instant))
                         \cup Field("description", Text) \cup Field("metadata", OrNull(Map))
    <2>1. Covered(EntryInput, entryDTO)
      <3> DEFINE E == entryDTO
                 others == Field("accountId", Text) \cup Field("direction", Directions)
      <3>1. /\ others \subseteq E /\ Field("amount", OrNull(Int64)) \subseteq E
            /\ EntryInput = others \cup Field("amount", Amount)
        BY DEF EntryInput, entryDTO
      <3> HIDE DEF E, others
      <3>2. Covered(others, E) /\ Covered(Field("amount", Amount), E)
        BY <3>1, CoveredMore, CoveredSame, AmountFits, FieldIn
      <3>3. QED BY <3>1, <3>2, CoveredParts DEF E
    <2>2. \A f \in EntryInput \cup entryDTO : f = [key |-> f.key, kinds |-> f.kinds]
      BY DEF EntryInput, entryDTO, Field
    <2>3. Covered(Within("entries", EntryInput), Within("entries", entryDTO))
      BY <2>1, <2>2, WithinCovered
    <2>4. Within("entries", entryDTO) \subseteq D /\ Field("idempotencyKey", Text) \subseteq D
            /\ rest \subseteq D
      BY DEF postTransactionRequest
    <2>5. PostTransactionRequest
            = (Field("idempotencyKey", Text) \cup Within("entries", EntryInput)) \cup rest
      BY DEF PostTransactionRequest
    <2> HIDE DEF rest, D
    <2>6. Covered(Field("idempotencyKey", Text), D) /\ Covered(Within("entries", EntryInput), D)
            /\ Covered(rest, D)
      BY <2>3, <2>4, CoveredMore, CoveredSame
    <2>7. Covered(PostTransactionRequest, D)
      BY <2>5, <2>6, CoveredParts
    <2>8. QED BY <1>1, <2>5, <2>7 DEF D
  <1>3. Decodes(createMandateRequest, Fitting(CreateMandateRequest))
    <2> DEFINE D == createMandateRequest
               parties == Within("debtor", PartyRef) \cup Within("creditor", PartyRef)
    <2>1. PartyRef = partyRefDTO
      BY DEF PartyRef, partyRefDTO
    <2>2. parties \subseteq D /\ Field("maxAmount", OrNull(Int64)) \subseteq D
      BY <2>1 DEF createMandateRequest
    <2>3. CreateMandateRequest = parties \cup Field("maxAmount", Amount)
      BY DEF CreateMandateRequest
    <2> HIDE DEF parties, D
    <2>4. Covered(parties, D)
      BY <2>2, CoveredMore, CoveredSame
    <2>5. Covered(Field("maxAmount", Amount), D)
      BY <2>2, AmountFits, FieldIn
    <2>6. Covered(CreateMandateRequest, D)
      BY <2>3, <2>4, <2>5, CoveredParts
    <2>7. QED BY <1>1, <2>3, <2>6 DEF D
  <1>4. Decodes(initiatePaymentRequest, Fitting(InitiatePaymentRequest))
    <2> DEFINE D == initiatePaymentRequest
               parties == Within("debtor", PartyRef) \cup Within("creditor", PartyRef)
               rest == Field("mandateId", Text) \cup Field("endToEndId", Text)
                         \cup Field("description", Text) \cup Field("metadata", OrNull(Map))
    <2>1. PartyRef = partyRefDTO
      BY DEF PartyRef, partyRefDTO
    <2>2. parties \subseteq D /\ Field("scheme", Text) \subseteq D /\ rest \subseteq D
            /\ Field("amount", OrNull(Int64)) \subseteq D
      BY <2>1 DEF initiatePaymentRequest
    <2>3. InitiatePaymentRequest
            = ((parties \cup Field("scheme", Text)) \cup Field("amount", Amount)) \cup rest
      BY DEF InitiatePaymentRequest
    <2> HIDE DEF parties, rest, D
    <2>4. Covered(parties, D) /\ Covered(Field("scheme", Text), D) /\ Covered(rest, D)
      BY <2>2, CoveredMore, CoveredSame
    <2>5. Covered(Field("amount", Amount), D)
      BY <2>2, AmountFits, FieldIn
    <2>6. Covered(InitiatePaymentRequest, D)
      BY <2>3, <2>4, <2>5, CoveredParts
    <2>7. QED BY <1>1, <2>3, <2>6 DEF D
  <1>5. QED BY <1>2, <1>3, <1>4

LEMMA Methods == "GET" \in Proxied /\ "POST" \in Proxied /\ "DELETE" \in Proxied
  BY DEF Proxied

(* A read needs a route, a call with a body one that decodes it. *)
LEMMA ServedRead ==
  ASSUME NEW name, NEW path, Named(name) = Get(path), Route("GET", path, {}) \in AllRoutes
  PROVE  Entire(name)
  BY Methods, ServedBy DEF Get

LEMMA ServedPost ==
  ASSUME NEW name, NEW path, NEW body, NEW decodes, Named(name) = Post(path, body),
         Posts(path, decodes) \subseteq AllRoutes, decodes = {} \/ Decodes(decodes, body)
  PROVE  Entire(name)
  BY Methods, ServedBy DEF Post, Posts

(* So is one with an amount, if it fits. *)
LEMMA ServedAmount ==
  ASSUME NEW name, NEW path, NEW body, NEW decodes, Named(name) = Post(path, body),
         Posts(path, decodes) \subseteq AllRoutes, Decodes(decodes, Fitting(body))
  PROVE  Served(name)
  <1>1. Named(name) = Call("POST", path, body) /\ Route("POST", path, decodes) \in AllRoutes
    BY DEF Post, Posts
  <1>2. Handled(Named(name), Fitting(body))
    BY <1>1, Methods, HandledBy
  <1>3. Named(name).body = body
    BY <1>1 DEF Call
  <1>4. QED BY <1>2, <1>3 DEF Served

LEMMA ParticipantsServed ==
  /\ Entire("listParticipants") /\ Entire("listReserves") /\ Entire("listSchemes")
  /\ Entire("addParticipant") /\ Served("fundDeposit")
  <1>1. /\ Named("listParticipants") = Get(<<"participants">>)
        /\ Named("listReserves") = Get(<<"central-bank", "reserves">>)
        /\ Named("listSchemes") = Get(<<"schemes">>)
        /\ Named("addParticipant") = Post(<<"participants">>, NameRequest)
        /\ Named("fundDeposit") = Post(InBank(<<"deposits">>), FundRequest)
    BY NamedCalls DEF ParticipantCalls
  <1>2. /\ Route("GET", <<"participants">>, {}) \in AllRoutes
        /\ Route("GET", <<"central-bank", "reserves">>, {}) \in AllRoutes
        /\ Route("GET", <<"schemes">>, {}) \in AllRoutes
    BY DEF AllRoutes, ParticipantRoutes, Reads
  <1>3. /\ Posts(<<"participants">>, nameRequest) \subseteq AllRoutes
        /\ Posts(InBank(<<"deposits">>), fundRequest) \subseteq AllRoutes
    BY DEF AllRoutes, ParticipantRoutes
  <1>4. Entire("listParticipants") /\ Entire("listReserves") /\ Entire("listSchemes")
    BY <1>1, <1>2, ServedRead
  <1>5. Entire("addParticipant") /\ Served("fundDeposit")
    BY <1>1, <1>3, RequestsDecoded, ServedPost, ServedAmount
  <1>6. QED BY <1>4, <1>5

LEMMA LedgersServed ==
  /\ Entire("listLedgers") /\ Entire("listSubledgers") /\ Entire("listAccounts")
  /\ Entire("getBookBalance") /\ Entire("listTransactions")
  /\ Entire("createLedger") /\ Entire("createSubledger") /\ Entire("createAccount")
  /\ Served("postTransaction") /\ Entire("reverseTransaction")
  <1> DEFINE ledgers == InBank(<<"ledgers">>)
             subledgers == ledgers \o <<Any, "subledgers">>
             accounts == InBank(<<"subledgers", Any, "accounts">>)
             transactions == InBank(<<"transactions">>)
             one == transactions \o <<Any>>
  <1>1. /\ Named("listLedgers") = Get(ledgers) /\ Named("listSubledgers") = Get(subledgers)
        /\ Named("listAccounts") = Get(accounts)
        /\ Named("getBookBalance") = Get(InBank(<<"accounts", Any, "balance">>))
        /\ Named("listTransactions") = Get(transactions)
    BY NamedCalls DEF LedgerCalls
  <1>2. /\ Named("createLedger") = Post(ledgers, NameRequest)
        /\ Named("createSubledger") = Post(subledgers, NameRequest)
        /\ Named("createAccount") = Post(accounts, CreateAccountRequest)
        /\ Named("postTransaction") = Post(transactions, PostTransactionRequest)
        /\ Named("reverseTransaction") = Post(one \o <<"reversal">>, DescriptionRequest)
    BY NamedCalls DEF LedgerCalls
  <1>3. /\ Route("GET", ledgers, {}) \in AllRoutes /\ Route("GET", subledgers, {}) \in AllRoutes
        /\ Route("GET", accounts, {}) \in AllRoutes
        /\ Route("GET", InBank(<<"accounts", Any, "balance">>), {}) \in AllRoutes
        /\ Route("GET", transactions, {}) \in AllRoutes
    BY DEF AllRoutes, LedgerRoutes, Reads
  <1>4. /\ Posts(ledgers, nameRequest) \subseteq AllRoutes
        /\ Posts(subledgers, nameRequest) \subseteq AllRoutes
        /\ Posts(accounts, createAccountRequest) \subseteq AllRoutes
        /\ Posts(transactions, postTransactionRequest) \subseteq AllRoutes
        /\ Posts(one \o <<"reversal">>, descriptionRequest) \subseteq AllRoutes
    BY DEF AllRoutes, LedgerRoutes
  <1> HIDE DEF ledgers, subledgers, accounts, transactions, one
  <1>5. /\ Entire("listLedgers") /\ Entire("listSubledgers") /\ Entire("listAccounts")
        /\ Entire("getBookBalance") /\ Entire("listTransactions")
    BY <1>1, <1>3, ServedRead
  <1>6. /\ Entire("createLedger") /\ Entire("createSubledger") /\ Entire("createAccount")
        /\ Served("postTransaction") /\ Entire("reverseTransaction")
    BY <1>2, <1>4, RequestsDecoded, NestedDecoded, ServedPost, ServedAmount
  <1>7. QED BY <1>5, <1>6

LEMMA DepositsServed ==
  /\ Entire("listDepositAccounts") /\ Entire("getDepositAccount") /\ Entire("getDepositBalance")
  /\ Entire("listHolds") /\ Entire("listSnapshots")
  /\ Served("openDepositAccount") /\ Entire("setDepositStatus") /\ Entire("closeDepositAccount")
  /\ Served("createHold") /\ Entire("releaseHold") /\ Served("captureHold")
  /\ Entire("takeSnapshot")
  <1> DEFINE all == InBank(<<"deposit-accounts">>)
             one == all \o <<Any>>
             hold == InBank(<<"holds", Any>>)
  <1>1. /\ Named("listDepositAccounts") = Get(all) /\ Named("getDepositAccount") = Get(one)
        /\ Named("getDepositBalance") = Get(one \o <<"balance">>)
        /\ Named("listHolds") = Get(one \o <<"holds">>)
        /\ Named("listSnapshots") = Get(one \o <<"snapshots">>)
        /\ Named("closeDepositAccount") = Call("DELETE", one, {})
    BY NamedCalls DEF DepositCalls
  <1>2. /\ Named("openDepositAccount") = Post(all, OpenDepositAccountRequest)
        /\ Named("setDepositStatus") = Post(one \o <<"status">>, StatusRequest)
        /\ Named("createHold") = Post(one \o <<"holds">>, CreateHoldRequest)
        /\ Named("releaseHold") = Post(hold \o <<"release">>, {})
        /\ Named("captureHold") = Post(hold \o <<"capture">>, CaptureHoldRequest)
        /\ Named("takeSnapshot") = Post(one \o <<"snapshots">>, SnapshotRequest)
    BY NamedCalls DEF DepositCalls
  <1>3. /\ Route("GET", all, {}) \in AllRoutes /\ Route("GET", one, {}) \in AllRoutes
        /\ Route("GET", one \o <<"balance">>, {}) \in AllRoutes
        /\ Route("GET", one \o <<"holds">>, {}) \in AllRoutes
        /\ Route("GET", one \o <<"snapshots">>, {}) \in AllRoutes
        /\ Route("DELETE", one, {}) \in AllRoutes
    BY DEF AllRoutes, DepositRoutes, Reads
  <1>4. /\ Posts(all, openDepositAccountRequest) \subseteq AllRoutes
        /\ Posts(one \o <<"status">>, statusRequest) \subseteq AllRoutes
        /\ Posts(one \o <<"holds">>, createHoldRequest) \subseteq AllRoutes
        /\ Posts(hold \o <<"release">>, {}) \subseteq AllRoutes
        /\ Posts(hold \o <<"capture">>, captureHoldRequest) \subseteq AllRoutes
        /\ Posts(one \o <<"snapshots">>, snapshotRequest) \subseteq AllRoutes
    BY DEF AllRoutes, DepositRoutes
  <1> HIDE DEF all, one, hold
  <1>5. /\ Entire("listDepositAccounts") /\ Entire("getDepositAccount")
        /\ Entire("getDepositBalance") /\ Entire("listHolds") /\ Entire("listSnapshots")
    BY <1>1, <1>3, ServedRead
  <1>6. Entire("closeDepositAccount")
    BY <1>1, <1>3, Methods, ServedBy
  <1>7. /\ Served("openDepositAccount") /\ Entire("setDepositStatus") /\ Served("createHold")
        /\ Served("captureHold") /\ Entire("takeSnapshot")
    BY <1>2, <1>4, RequestsDecoded, ServedPost, ServedAmount
  <1>8. Entire("releaseHold")
    BY <1>2, <1>4, ServedPost
  <1>9. QED BY <1>5, <1>6, <1>7, <1>8

(* A path without a segment at its end, and with one. *)
LEMMA PathsEnd ==
  /\ \A s : <<s>> \o <<>> = <<s>>
  /\ \A s, e : <<s>> \o <<e>> = <<s, e>>
  <1>1. ASSUME NEW s PROVE <<s>> \o <<>> = <<s>>
    BY ConcatEmptySeq
  <1>2. ASSUME NEW s, NEW e PROVE <<s>> \o <<e>> = <<s, e>>
    <2>1. PICK S : S = {s, e}
      OBVIOUS
    <2>2. <<s>> \in Seq(S) /\ e \in S
      BY <2>1
    <2>3. Append(<<s>>, e) = <<s>> \o <<e>>
      BY <2>2, AppendIsConcat
    <2>4. Append(<<s>>, e) = <<s, e>>
      <3>1. /\ DOMAIN Append(<<s>>, e) = 1..2 /\ DOMAIN <<s, e>> = 1..2
            /\ Append(<<s>>, e) \in Seq(S) /\ <<s, e>> \in Seq(S)
        BY <2>1, <2>2, AppendProperties
      <3>2. /\ Append(<<s>>, e)[1] = s /\ <<s, e>>[1] = s
            /\ Append(<<s>>, e)[2] = e /\ <<s, e>>[2] = e
        BY <2>2, AppendProperties
      <3>3. Len(Append(<<s>>, e)) = 2 /\ Len(<<s, e>>) = 2
        BY <2>2, AppendProperties
      <3>4. \A i \in 1..2 : Append(<<s>>, e)[i] = <<s, e>>[i]
        BY <3>2
      <3>5. QED BY <3>1, <3>3, <3>4, SeqEqual
    <2>5. QED BY <2>3, <2>4
  <1>3. QED BY <1>1, <1>2

LEMMA PaymentsServed ==
  /\ Entire("listMandates") /\ Entire("listPayments") /\ Entire("getPayment")
  /\ Entire("getCycle") /\ Entire("listCycles")
  /\ Served("createMandate") /\ Entire("revokeMandate") /\ Served("initiatePayment")
  /\ Entire("rejectPayment") /\ Entire("returnPayment")
  /\ Entire("openCycle") /\ Entire("closeCycle") /\ Entire("settleCycle")
  <1>1. /\ Named("listMandates") = Get(<<"mandates">>) /\ Named("listPayments") = Get(<<"payments">>)
        /\ Named("getPayment") = Get(<<"payments", Any>>)
        /\ Named("listCycles") = Get(<<"cycles">>) /\ Named("getCycle") = Get(<<"cycles", Any>>)
    BY NamedCalls DEF PaymentCalls
  <1>2. /\ Named("createMandate") = Post(<<"mandates">>, CreateMandateRequest)
        /\ Named("revokeMandate") = Post(<<"mandates", Any, "revoke">>, {})
        /\ Named("initiatePayment") = Post(<<"payments">>, InitiatePaymentRequest)
        /\ Named("rejectPayment") = Post(<<"payments", Any, "reject">>, ReasonRequest)
        /\ Named("returnPayment") = Post(<<"payments", Any, "return">>, ReasonRequest)
        /\ Named("openCycle") = Post(<<"cycles">>, OpenCycleRequest)
        /\ Named("closeCycle") = Post(<<"cycles", Any, "close">>, {})
        /\ Named("settleCycle") = Post(<<"cycles", Any, "settle">>, {})
    BY NamedCalls DEF PaymentCalls
  <1>3. PaymentRoutes \subseteq AllRoutes
    BY DEF AllRoutes
  <1>4. PaymentRoutes = Reads(PaymentPaths)
          \cup Posts(<<"mandates">>, createMandateRequest)
          \cup Posts(<<"mandates", Any, "revoke">>, {})
          \cup Posts(<<"payments">>, initiatePaymentRequest)
          \cup Posts(<<"payments", Any, "reject">>, reasonRequest)
          \cup Posts(<<"payments", Any, "return">>, reasonRequest)
          \cup Posts(<<"cycles">>, openCycleRequest)
          \cup Posts(<<"cycles", Any, "close">>, {})
          \cup Posts(<<"cycles", Any, "settle">>, {})
    BY Zenon DEF PaymentRoutes
  <1>5. /\ <<"mandates">> \in PaymentPaths /\ <<"payments">> \in PaymentPaths /\ <<"payments", Any>> \in PaymentPaths
        /\ <<"cycles">> \in PaymentPaths /\ <<"cycles", Any>> \in PaymentPaths
    BY PathsEnd DEF PaymentPaths
  <1>6. /\ Route("GET", <<"mandates">>, {}) \in AllRoutes
        /\ Route("GET", <<"payments">>, {}) \in AllRoutes
        /\ Route("GET", <<"payments", Any>>, {}) \in AllRoutes
        /\ Route("GET", <<"cycles">>, {}) \in AllRoutes
        /\ Route("GET", <<"cycles", Any>>, {}) \in AllRoutes
    BY <1>3, <1>4, <1>5 DEF Reads
  <1>7. /\ Posts(<<"mandates">>, createMandateRequest) \subseteq AllRoutes
        /\ Posts(<<"mandates", Any, "revoke">>, {}) \subseteq AllRoutes
        /\ Posts(<<"payments">>, initiatePaymentRequest) \subseteq AllRoutes
        /\ Posts(<<"payments", Any, "reject">>, reasonRequest) \subseteq AllRoutes
        /\ Posts(<<"payments", Any, "return">>, reasonRequest) \subseteq AllRoutes
        /\ Posts(<<"cycles">>, openCycleRequest) \subseteq AllRoutes
        /\ Posts(<<"cycles", Any, "close">>, {}) \subseteq AllRoutes
        /\ Posts(<<"cycles", Any, "settle">>, {}) \subseteq AllRoutes
    BY <1>3, <1>4
  <1>8. /\ Entire("listMandates") /\ Entire("listPayments") /\ Entire("getPayment")
        /\ Entire("getCycle") /\ Entire("listCycles")
    BY <1>1, <1>6, ServedRead
  <1>9. /\ Served("createMandate") /\ Served("initiatePayment") /\ Entire("rejectPayment")
        /\ Entire("returnPayment") /\ Entire("openCycle")
    BY <1>2, <1>7, RequestsDecoded, NestedDecoded, ServedPost, ServedAmount
  <1>10. Entire("revokeMandate") /\ Entire("closeCycle") /\ Entire("settleCycle")
    BY <1>2, <1>7, ServedPost
  <1>11. QED BY <1>8, <1>9, <1>10

\* The server has a route for the form's call and for every read of its page,
\* and its handler decodes the body.
Sound(f) == Served(f.call) /\ \A call \in f.reads : Served(call)

LEMMA FormsServed == \A name \in DOMAIN Forms : Sound(Forms[name])
  <1>1. \A call \in GetAllAccounts : Served(call)
    BY LedgersServed DEF GetAllAccounts, Entire
  <1>2. \A call \in LedgerPageReads : Served(call)
    BY <1>1, LedgersServed DEF LedgerPageReads, Entire
  <1>3. \A call \in DepositPageReads : Served(call)
    BY DepositsServed DEF DepositPageReads, Entire
  <1>4. \A call \in PartyReads : Served(call)
    BY ParticipantsServed, DepositsServed DEF PartyReads, Entire
  <1>5. \A call \in PaymentPageReads : Served(call)
    BY ParticipantsServed, PaymentsServed DEF PaymentPageReads, Entire
  <1> USE DEF Form, On, Confirm, NameDialog, Sound, Entire
  <1>6. Sound(NewParticipant) /\ Sound(NewParticipantTopbar)
    BY ParticipantsServed DEF NewParticipant, NewParticipantTopbar
  <1>7. Sound(NewLedger) /\ Sound(NewSubledger) /\ Sound(NewAccount)
    BY <1>2, LedgersServed DEF NewLedger, NewSubledger, NewAccount
  <1>8. Sound(PostTransaction) /\ Sound(ReverseTransaction)
    BY <1>1, LedgersServed DEF PostTransaction, ReverseTransaction
  <1>9. Sound(OpenDepositAccount) /\ Sound(Fund) /\ Sound(CloseAccount) /\ Sound(NewHold)
    BY <1>3, ParticipantsServed, DepositsServed DEF OpenDepositAccount, Fund, CloseAccount, NewHold
  <1>10. Sound(TakeSnapshot) /\ Sound(ReleaseHold) /\ Sound(CaptureHold)
    BY <1>1, <1>3, DepositsServed DEF TakeSnapshot, ReleaseHold, CaptureHold
  <1>11. Sound(NewMandate) /\ Sound(RevokeMandate)
    BY <1>4, PaymentsServed DEF NewMandate, RevokeMandate
  <1>12. Sound(InitiatePush)
    BY <1>4, ParticipantsServed, PaymentsServed DEF InitiatePush
  <1>13. Sound(InitiatePull)
    BY <1>12 DEF InitiatePush, InitiatePull
  <1>14. Sound(RejectPayment) /\ Sound(ReturnPayment)
    BY <1>5, PaymentsServed DEF RejectPayment, ReturnPayment
  <1>15. Sound(OpenCycle) /\ Sound(CloseCycle) /\ Sound(SettleCycle)
    BY ParticipantsServed, PaymentsServed DEF OpenCycle, CloseCycle, SettleCycle
  <1>16. /\ Sound(STATUS_TRANSITIONS.Freeze) /\ Sound(STATUS_TRANSITIONS.MarkDormant)
         /\ Sound(STATUS_TRANSITIONS.Unfreeze) /\ Sound(STATUS_TRANSITIONS.Reactivate)
    BY <1>3, DepositsServed DEF STATUS_TRANSITIONS, StatusTransition
  <1> HIDE DEF Form, On, Confirm, NameDialog, Sound, Entire
  <1>17. QED
    BY <1>6, <1>7, <1>8, <1>9, <1>10, <1>11, <1>12, <1>13, <1>14, <1>15, <1>16 DEF Forms

(* Those in which no amount is typed are read whatever they hold. *)
LEMMA FormsWhole == \A name \in DOMAIN Forms \ AmountForms : ServedWhole(Forms[name].call)
  <1> DEFINE Whole(f) == ServedWhole(f.call)
  <1> USE DEF Form, On, Confirm, NameDialog, Entire
  <1>1. Whole(NewParticipant) /\ Whole(NewParticipantTopbar)
    BY ParticipantsServed DEF NewParticipant, NewParticipantTopbar
  <1>2. Whole(NewLedger) /\ Whole(NewSubledger) /\ Whole(NewAccount)
    BY LedgersServed DEF NewLedger, NewSubledger, NewAccount
  <1>3. Whole(ReverseTransaction) /\ Whole(CloseAccount)
    BY LedgersServed, DepositsServed DEF ReverseTransaction, CloseAccount
  <1>4. Whole(TakeSnapshot) /\ Whole(ReleaseHold)
    BY DepositsServed DEF TakeSnapshot, ReleaseHold
  <1>5. Whole(RevokeMandate) /\ Whole(RejectPayment) /\ Whole(ReturnPayment)
    BY PaymentsServed DEF RevokeMandate, RejectPayment, ReturnPayment
  <1>6. Whole(OpenCycle) /\ Whole(CloseCycle) /\ Whole(SettleCycle)
    BY PaymentsServed DEF OpenCycle, CloseCycle, SettleCycle
  <1>7. /\ Whole(STATUS_TRANSITIONS.Freeze) /\ Whole(STATUS_TRANSITIONS.MarkDormant)
        /\ Whole(STATUS_TRANSITIONS.Unfreeze) /\ Whole(STATUS_TRANSITIONS.Reactivate)
    BY DepositsServed DEF STATUS_TRANSITIONS, StatusTransition
  <1> HIDE DEF Form, On, Confirm, NameDialog, Entire, Whole
  <1>8. \A name \in DOMAIN Forms \ AmountForms : Whole(Forms[name])
    BY <1>1, <1>2, <1>3, <1>4, <1>5, <1>6, <1>7 DEF Forms, AmountForms
  <1>9. QED BY <1>8 DEF Whole

LEMMA StatusesReal == \A kind \in DOMAIN Statuses : "malformed" \notin Statuses[kind]
  BY DEF Statuses, Nothing, DepositStatuses

\* What the server cannot say of a call from the form of that name.
Unsaid(name) == {"malformed"} \cup (IF name \in AmountForms THEN {} ELSE {"beyond int64"})

\* The server read every call in as, but for amounts beyond int64.
Understood(as) == \A i \in DOMAIN as : as[i].fate \notin Unsaid(form)

(* The inductive invariant: nothing was malformed, and the status that the  *)
(* page may come to show is one of its kind.                                *)
SentInv == StatusInv /\ NothingMalformed

LEMMA SeeUnderstood ==
  ASSUME NEW v, v # "malformed", NEW as \in Seq(Attempt), Understood(as), See(v, as)
  PROVE  NothingMalformed'
  <1>1. view' # "malformed" /\ form' = form
    BY DEF See
  <1>2. CASE attempts' = as
    BY <1>1, <1>2 DEF NothingMalformed, Understood, Unsaid
  <1>3. CASE attempts' = Hidden(as, FALSE)
    BY <1>1, <1>3, HiddenFields DEF NothingMalformed, Understood, Unsaid
  <1>4. QED BY <1>2, <1>3 DEF See

LEMMA LeftUnderstood ==
  ASSUME NothingMalformed, NEW to, NEW as \in Seq(Attempt), Understood(as), Left(to, as)
  PROVE  NothingMalformed'
  <1>1. view' # "malformed" /\ form' = form
    BY DEF Left, NothingMalformed
  <1>2. CASE attempts' = as
    BY <1>1, <1>2 DEF NothingMalformed, Understood, Unsaid
  <1>3. CASE attempts' = Hidden(as, TRUE)
    BY <1>1, <1>3, HiddenFields DEF NothingMalformed, Understood, Unsaid
  <1>4. QED BY <1>2, <1>3 DEF Left

LEMMA ToldUnderstood ==
  ASSUME CallsTyped, NothingMalformed,
         NEW i \in DOMAIN attempts, NEW answer \in {"success", "error"}
  PROVE  Told(i, answer) \in Seq(Attempt) /\ Understood(Told(i, answer))
  <1>1. Understood(Told(i, answer))
    <2>1. /\ DOMAIN Told(i, answer) = DOMAIN attempts
          /\ \A j \in DOMAIN attempts : Told(i, answer)[j].fate = attempts[j].fate
      BY ToldFields DEF CallsTyped
    <2>2. Understood(attempts)
      BY DEF NothingMalformed, Understood, Unsaid
    <2>3. QED BY <2>1, <2>2 DEF Understood
  <1>2. QED BY <1>1, ToldCalls DEF CallsTyped, SameCalls

LEMMA NextUnderstood ==
  ASSUME SentInv, [Next]_vars
  PROVE  NothingMalformed'
  <1>1. CallsTyped /\ attempts \in Seq(Attempt) /\ Understood(attempts) /\ NothingMalformed
    BY DEF SentInv, StatusInv, CallsTyped, NothingMalformed, Understood, Unsaid
  <1>2. form \in Loadable /\ form \in Readable
    BY <1>1, FormsServed, ShownAssumption DEF CallsTyped, Loadable, Readable, Sound
  <1>3. Exact(The)
    BY <1>1, FormsExact, ShownAssumption DEF CallsTyped, The
  <1>4. status # "malformed"
    BY <1>3, StatusesReal DEF SentInv, StatusInv, Exact
  <1>5. Loading # "malformed" /\ Failed # "malformed"
    BY DEF Loading, Failed
  <1>6. ASSUME UNCHANGED <<form, view, attempts>> PROVE NothingMalformed'
    BY <1>1, <1>6 DEF NothingMalformed
  <1>7. CASE Load \/ LoadFails \/ Deselect
    BY <1>1, <1>2, <1>4, <1>5, <1>7, SeeUnderstood DEF Load, LoadFails, Deselect
  <1>8. CASE Leave
    BY <1>1, <1>8, LeftUnderstood DEF Leave
  <1>9. CASE Arrive
    <2>1. view' \in {Loading, view} /\ attempts' = attempts /\ form' = form
      BY <1>9 DEF Arrive
    <2>2. QED BY <1>1, <1>5, <2>1 DEF NothingMalformed
  <1>10. CASE Open \/ Close \/ Regenerate \/ Redraw \/ MovedElsewhere
    BY <1>6, <1>10 DEF Open, Close, Regenerate, Redraw, MovedElsewhere, page
  <1>11. CASE Type
    <2>1. view' = view /\ form' = form
      BY <1>11 DEF Type, page
    <2>2. attempts' = [i \in DOMAIN attempts |-> [attempts[i] EXCEPT !.untouched = FALSE]]
      BY <1>11 DEF Type
    <2>3. \A a \in Attempt : [a EXCEPT !.untouched = FALSE].fate = a.fate
      BY DEF Attempt
    <2>4. \A i \in DOMAIN attempts : attempts[i] \in Attempt
      BY <1>1, LenProperties, ElementOfSeq
    <2>5. QED BY <1>1, <2>1, <2>2, <2>3, <2>4 DEF NothingMalformed
  <1>12. CASE Submit
    <2>1. PICK a \in [fate : {"sent"}, key : {key}, sitting : {sitting}, untouched : {TRUE},
                      formAlive : {TRUE}, hookAlive : {TRUE}, told : {"waiting"}] :
               attempts' = Append(attempts, a)
      BY <1>12 DEF Submit
    <2>2. a.fate = "sent" /\ view' = view /\ form' = form
      BY <1>12, <2>1 DEF Submit, page
    <2>3. \A i \in DOMAIN attempts' : attempts'[i] = a \/ (i \in DOMAIN attempts /\ attempts'[i] = attempts[i])
      BY <1>1, <2>1
    <2>4. QED BY <1>1, <2>2, <2>3 DEF NothingMalformed
  <1>13. ASSUME NEW i \in DOMAIN attempts, Apply(i) \/ Refuse(i) PROVE NothingMalformed'
    <2>1. PICK fate : /\ attempts' = [attempts EXCEPT ![i].fate = fate]
                      /\ fate # "malformed" /\ (fate = "beyond int64" => form \in AmountForms)
      <3>1. form \notin AmountForms => ServedWhole(The.call)
        BY <1>1, FormsWhole, ShownAssumption DEF CallsTyped, The
      <3>2. CASE Apply(i)
        <4>1. attempts' = [attempts EXCEPT ![i].fate = "applied"]
          BY <3>2 DEF Apply
        <4>2. "applied" # "malformed" /\ "applied" # "beyond int64"
          OBVIOUS
        <4>3. QED BY <4>1, <4>2, Zenon
      <3>3. CASE Refuse(i)
        <4>1. PICK fate \in Refusals : attempts' = [attempts EXCEPT ![i].fate = fate]
          BY <3>3 DEF Refuse
        <4>2. fate # "malformed" /\ (fate = "beyond int64" => form \in AmountForms)
          BY <1>2, <3>1, <4>1 DEF Refusals
        <4>3. QED BY <4>1, <4>2
      <3>4. QED BY <1>13, <3>2, <3>3
    <2>2. view' = view /\ form' = form
      BY <1>13 DEF Apply, Refuse, page
    <2>3. attempts[i] \in Attempt
      BY <1>1, LenProperties, ElementOfSeq
    <2>4. \A a \in Attempt : [a EXCEPT !.fate = fate].fate = fate
      BY DEF Attempt
    <2>5. attempts'[i] = [attempts[i] EXCEPT !.fate = fate]
            /\ DOMAIN attempts' = DOMAIN attempts
            /\ \A j \in DOMAIN attempts \ {i} : attempts'[j] = attempts[j]
      BY <2>1
    <2>6. QED BY <1>1, <2>1, <2>2, <2>3, <2>4, <2>5 DEF NothingMalformed
  <1>14. ASSUME NEW i \in DOMAIN attempts, SucceedAndGo(i) \/ SucceedAndDeselect(i)
         PROVE  NothingMalformed'
    <2>1. Told(i, "success") \in Seq(Attempt) /\ Understood(Told(i, "success"))
      BY <1>1, ToldUnderstood
    <2>2. CASE SucceedAndDeselect(i)
      BY <1>5, <2>1, <2>2, SeeUnderstood DEF SucceedAndDeselect
    <2>3. CASE attempts' = Told(i, "success") /\ view' = view /\ form' = form
      BY <1>1, <2>1, <2>3 DEF NothingMalformed, Understood, Unsaid
    <2>4. CASE Left("target", Told(i, "success"))
      BY <1>1, <2>1, <2>4, LeftUnderstood
    <2>5. QED BY <1>14, <2>2, <2>3, <2>4 DEF SucceedAndGo
  <1>15. ASSUME NEW i \in DOMAIN attempts, Succeed(i) \/ Fail(i) PROVE NothingMalformed'
    <2>1. PICK answer \in {"success", "error"} : attempts' = Told(i, answer)
      BY <1>15 DEF Succeed, Fail
    <2>2. view' = view /\ form' = form
      BY <1>15 DEF Succeed, Fail, page
    <2>3. Understood(Told(i, answer))
      BY <1>1, ToldUnderstood
    <2>4. QED BY <1>1, <2>1, <2>2, <2>3 DEF NothingMalformed, Understood, Unsaid
  <1>16. CASE UNCHANGED vars
    BY <1>6, <1>16 DEF vars, page
  <1>17. QED
    BY <1>7, <1>8, <1>9, <1>10, <1>11, <1>12, <1>13, <1>14, <1>15, <1>16 DEF Next

(* The console sends nothing that the server cannot read, but for an amount *)
(* beyond int64 from one of eight forms: each call of lib/api/endpoints.ts  *)
(* that a form or its page makes has a route of api/server.go, and a body   *)
(* with only the fields that the handler decodes.                           *)
THEOREM NothingMalformedAlways == Spec => []NothingMalformed
  <1>1. Init => SentInv
    <2>1. Init => NothingMalformed
      BY DEF Init, NothingMalformed, Loading
    <2>2. QED BY <2>1, InitStatusInv DEF SentInv
  <1>2. SentInv /\ StatusInv' /\ [Next]_vars => SentInv'
    BY NextUnderstood DEF SentInv
  <1>3. SentInv => NothingMalformed
    BY DEF SentInv
  <1>4. QED BY StatusAlways, <1>1, <1>2, <1>3, PTL DEF Spec


=============================================================================
