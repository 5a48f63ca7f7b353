---------------------------- MODULE LocksProofs -----------------------------
(***************************************************************************)
(* That no goroutines wait for one another in a circle, for any number of  *)
(* goroutines and banks.                                                   *)
(*                                                                         *)
(* The argument is the order of the layers: what a goroutine waits for is  *)
(* further down than everything it holds (Ordered), so that following who  *)
(* waits for whom leads ever further down, and there are three layers.     *)
(***************************************************************************)
EXTENDS Locks, FiniteSetTheorems, SequenceTheorems, TLAPS

Frame == Handler \cup AnyMethod

\* The layer of a lock.
Rank(lock) == [handler |-> 0, network |-> 1, register |-> 2, book |-> 3][lock[1]]

\* The methods of one stack are of ever lower layers.
Ordered(s) ==
  \A i, j \in DOMAIN s : i < j => Rank(s[i].lock) < Rank(s[j].lock)

HoldsForWriting(g, lock) ==
  \E i \in DOMAIN stack[g] : stack[g][i].lock = lock /\ stack[g][i].mode = "Lock"

\* A goroutine that waits as a reader calls a method that reads, and there is a
\* writer it waits for.
ParkedCall ==
  \A l \in Lock : \A g \in parked[l] :
    Calls(g) /\ Callee(g).lock = l /\ Callee(g).mode = "RLock" /\ writer[l] # None

\* The writer of a lock holds it, or is about to.
WriterCalls ==
  \A l \in Lock : \A g \in Goroutine : writer[l] = g =>
    HoldsForWriting(g, l) \/ (Calls(g) /\ Callee(g).lock = l /\ Callee(g).mode = "Lock")

Layered == \A g \in Goroutine : Ordered(stack[g])

LocksInv == TypeOK /\ Layered /\ ParkedCall /\ WriterCalls

-----------------------------------------------------------------------------
(* Methods and stacks of them. *)

LEMMA Ranks ==
  /\ Rank(NoLock) = 0 /\ Rank(Network) = 1 /\ NoLock \notin Lock
  /\ \A b \in Bank : Rank(Register(b)) = 2
  /\ \A b \in Bank \cup {CentralBank} : Rank(Book(b)) = 3
  BY DEF Rank, NoLock, Network, Register, Book, Lock

LEMMA LockRanks == \A l \in Lock : Rank(l) \in 1 .. 3
  BY Ranks DEF Lock

LEMMA MethodLocks == \A m \in AnyMethod : m.lock \in Lock /\ m.mode # "none" /\ Rank(m.lock) \in 1 .. 3
  BY Ranks DEF BookMethod, RegisterMethod, NetworkMethod, AnyMethod, Mode, Lock

\* What a method calls is of a lower layer, and it may return at any call.
LEMMA FrameFacts ==
  ASSUME NEW f \in Frame
  PROVE  /\ f.calls \in Seq(AnyMethod) /\ Rank(f.lock) \in 0 .. 3
         /\ f.mode = "none" => f.lock = NoLock
         /\ f.mode # "none" => f.lock \in Lock
         /\ Left(f, << >>) \in Frame
         /\ f.calls # << >> =>
              /\ Left(f, Tail(f.calls)) \in Frame
              /\ Head(f.calls) \in AnyMethod
              /\ Head(f.calls).lock \in Lock
              /\ Rank(Head(f.calls).lock) > Rank(f.lock)
  <1> USE DEF Left, Method
  <1>0. ASSUME NEW m \in BookMethod PROVE m.calls = << >> /\ Rank(m.lock) = 3
    BY Ranks DEF BookMethod
  <1>r. ASSUME NEW m \in RegisterMethod PROVE m.calls \in Seq(BookMethod) /\ Rank(m.lock) = 2
    BY Ranks DEF RegisterMethod
  <1>1. CASE f \in BookMethod
    <2>1. f \in AnyMethod /\ f.calls = << >> /\ Left(f, << >>) \in BookMethod
      BY <1>0, <1>1 DEF BookMethod, AnyMethod
    <2>2. QED BY <2>1, MethodLocks DEF Frame, AnyMethod
  <1>2. CASE f \in RegisterMethod
    <2>1. f \in AnyMethod /\ f.calls \in Seq(BookMethod) /\ f.calls \in Seq(AnyMethod)
      BY <1>r, <1>2 DEF AnyMethod
    <2>2. Left(f, << >>) \in RegisterMethod
      BY <1>2 DEF RegisterMethod
    <2>3. ASSUME f.calls # << >>
          PROVE  Head(f.calls) \in BookMethod /\ Left(f, Tail(f.calls)) \in RegisterMethod
      <3>1. Head(f.calls) \in BookMethod /\ Tail(f.calls) \in Seq(BookMethod)
        BY <2>1, <2>3
      <3>2. QED BY <1>2, <3>1 DEF RegisterMethod
    <2>4. QED BY <1>0, <1>r, <1>2, <2>1, <2>2, <2>3, MethodLocks DEF Frame, AnyMethod
  <1>3. CASE f \in NetworkMethod
    <2>1. /\ f \in AnyMethod /\ f.calls \in Seq(RegisterMethod \cup BookMethod)
          /\ f.calls \in Seq(AnyMethod) /\ Rank(f.lock) = 1
      BY <1>3, Ranks DEF NetworkMethod, AnyMethod
    <2>2. Left(f, << >>) \in NetworkMethod
      BY <1>3 DEF NetworkMethod
    <2>3. ASSUME f.calls # << >>
          PROVE  /\ Head(f.calls) \in RegisterMethod \cup BookMethod
                 /\ Left(f, Tail(f.calls)) \in NetworkMethod
      <3>1. /\ Head(f.calls) \in RegisterMethod \cup BookMethod
            /\ Tail(f.calls) \in Seq(RegisterMethod \cup BookMethod)
        BY <2>1, <2>3
      <3>2. QED BY <1>3, <3>1 DEF NetworkMethod
    <2>4. QED BY <1>0, <1>r, <2>1, <2>2, <2>3, MethodLocks DEF Frame, AnyMethod
  <1>4. CASE f \in Handler
    <2>1. /\ f.calls \in Seq(AnyMethod) /\ f.lock = NoLock /\ f.mode = "none"
          /\ Left(f, << >>) \in Handler
      BY <1>4 DEF Handler
    <2>2. ASSUME f.calls # << >>
          PROVE  Head(f.calls) \in AnyMethod /\ Left(f, Tail(f.calls)) \in Handler
      <3>1. Head(f.calls) \in AnyMethod /\ Tail(f.calls) \in Seq(AnyMethod)
        BY <2>1, <2>2
      <3>2. QED BY <1>4, <3>1 DEF Handler
    <2>3. QED BY <2>1, <2>2, Ranks, MethodLocks DEF Frame
  <1>5. QED BY <1>1, <1>2, <1>3, <1>4 DEF Frame, AnyMethod

(* Entering a method, returning from one, and giving up. *)

LEMMA EnterFacts ==
  ASSUME NEW s \in Seq(Frame), s # << >>, Top(s).calls # << >>, Ordered(s)
  PROVE  /\ Enter(s) \in Seq(Frame) /\ Len(Enter(s)) = Len(s) + 1 /\ Ordered(Enter(s))
         /\ \A i \in DOMAIN s : Enter(s)[i].lock = s[i].lock /\ Enter(s)[i].mode = s[i].mode
         /\ Enter(s)[Len(s) + 1] = Head(Top(s).calls)
  <1> DEFINE n == Len(s)
             m == Head(Top(s).calls)
             top == Left(s[n], Tail(s[n].calls))
             base == [s EXCEPT ![n] = top]
             t == Enter(s)
  <1>1. n \in Nat \ {0} /\ DOMAIN s = 1 .. n /\ Top(s) = s[n] /\ \A i \in 1 .. n : s[i] \in Frame
    BY DEF Top
  <1>2. /\ m \in AnyMethod /\ top \in Frame /\ top.lock = s[n].lock /\ top.mode = s[n].mode
        /\ Rank(m.lock) > Rank(s[n].lock) /\ Rank(m.lock) \in 0 .. 3
    <2>1. s[n] \in Frame /\ s[n].calls # << >> /\ m = Head(s[n].calls)
      BY <1>1
    <2>2. m \in AnyMethod /\ top \in Frame /\ Rank(m.lock) > Rank(s[n].lock)
      BY <2>1, FrameFacts, Zenon
    <2>3. top.lock = s[n].lock /\ top.mode = s[n].mode
      BY DEF Left, Method
    <2>4. Rank(m.lock) \in 1 .. 3
      BY <2>2, MethodLocks
    <2>5. QED BY <2>2, <2>3, <2>4
  <1>3. /\ base \in Seq(Frame) /\ Len(base) = n
        /\ \A i \in 1 .. n : base[i] = IF i = n THEN top ELSE s[i]
    <2> HIDE DEF top
    <2>1. s \in Seq(Frame) /\ n \in 1 .. Len(s) /\ top \in Frame
      BY <1>1, <1>2
    <2>2. \A i \in 1 .. Len(s), e \in Frame :
            /\ [s EXCEPT ![i] = e] \in Seq(Frame) /\ Len([s EXCEPT ![i] = e]) = Len(s)
            /\ \A j \in 1 .. Len(s) : [s EXCEPT ![i] = e][j] = IF j = i THEN e ELSE s[j]
      OBVIOUS
    <2>3. QED BY <2>1, <2>2, Zenon
  <1>4. t = Append(base, m)
    BY Zenon DEF Enter
  <1>5. /\ t \in Seq(Frame) /\ Len(t) = n + 1 /\ t[n + 1] = m
        /\ \A i \in 1 .. n : t[i] = base[i]
    <2>1. m \in Frame
      BY <1>2 DEF Frame
    <2>2. \A q \in Seq(Frame), e \in Frame :
            /\ Append(q, e) \in Seq(Frame) /\ Len(Append(q, e)) = Len(q) + 1
            /\ \A i \in 1 .. Len(q) : Append(q, e)[i] = q[i]
            /\ Append(q, e)[Len(q) + 1] = e
      OBVIOUS
    <2> HIDE DEF n, m, base, t
    <2>3. QED BY <1>3, <1>4, <2>1, <2>2, Zenon
  <1>6. \A i \in 1 .. n : t[i].lock = s[i].lock /\ t[i].mode = s[i].mode
    BY <1>2, <1>3, <1>5, Zenon
  <1>7. /\ \A i \in 1 .. n : Rank(s[i].lock) \in 0 .. 3
        /\ \A i, j \in 1 .. n : i < j => Rank(s[i].lock) < Rank(s[j].lock)
    BY <1>1, FrameFacts, Zenon DEF Ordered
  <1>8. DOMAIN t = 1 .. n + 1
    BY <1>5
  <1> HIDE DEF n, m, top, base, t
  <1>9. \A i \in 1 .. n : Rank(s[i].lock) < Rank(m.lock)
    BY <1>1, <1>2, <1>7
  <1>10. \A i, j \in 1 .. n + 1 : i < j => Rank(t[i].lock) < Rank(t[j].lock)
    BY <1>1, <1>5, <1>6, <1>7, <1>9
  <1>11. Ordered(t)
    BY <1>8, <1>10, Zenon DEF Ordered
  <1>12. QED BY <1>1, <1>5, <1>6, <1>11, Zenon DEF n, m, t

LEMMA FrontFacts ==
  ASSUME NEW s \in Seq(Frame), s # << >>, Ordered(s)
  PROVE  /\ Front(s) \in Seq(Frame) /\ Len(Front(s)) = Len(s) - 1 /\ Ordered(Front(s))
         /\ \A i \in 1 .. Len(s) - 1 : Front(s)[i] = s[i]
  <1> DEFINE n == Len(s)
             t == Front(s)
  <1>1. n \in Nat \ {0} /\ DOMAIN s = 1 .. n /\ \A i \in 1 .. n : s[i] \in Frame
    OBVIOUS
  <1>2. t = SubSeq(s, 1, n - 1) /\ n - 1 \in Int /\ \A i \in 1 .. n - 1 : s[i] \in Frame
    BY <1>1 DEF Front
  <1>3. /\ t \in Seq(Frame) /\ Len(t) = IF 1 <= n - 1 THEN n - 1 - 1 + 1 ELSE 0
        /\ \A i \in 1 .. n - 1 - 1 + 1 : t[i] = s[1 + i - 1]
    <2>1. \A k \in Int : (\A i \in 1 .. k : s[i] \in Frame) =>
            /\ SubSeq(s, 1, k) \in Seq(Frame)
            /\ Len(SubSeq(s, 1, k)) = IF 1 <= k THEN k - 1 + 1 ELSE 0
            /\ \A i \in 1 .. k - 1 + 1 : SubSeq(s, 1, k)[i] = s[1 + i - 1]
      BY SubSeqProperties
    <2> HIDE DEF n, t
    <2>2. QED BY <1>2, <2>1, Zenon
  <1>4. \A i, j \in 1 .. n : i < j => Rank(s[i].lock) < Rank(s[j].lock)
    BY <1>1, Zenon DEF Ordered
  <1>5. DOMAIN t = 1 .. Len(t)
    BY <1>3
  <1> HIDE DEF n, t
  <1>6. Len(t) = n - 1 /\ \A i \in 1 .. n - 1 : t[i] = s[i]
    BY <1>1, <1>3
  <1>7. \A i, j \in 1 .. n - 1 : i < j => Rank(t[i].lock) < Rank(t[j].lock)
    BY <1>1, <1>4, <1>6
  <1>8. Ordered(t)
    BY <1>5, <1>6, <1>7, Zenon DEF Ordered
  <1>9. QED BY <1>3, <1>6, <1>8, Zenon DEF n, t

LEMMA UnwoundFacts ==
  ASSUME NEW s \in Seq(Frame), Ordered(s)
  PROVE  /\ Unwound(s) \in Seq(Frame) /\ DOMAIN Unwound(s) = DOMAIN s /\ Ordered(Unwound(s))
         /\ \A i \in DOMAIN s : Unwound(s)[i].lock = s[i].lock /\ Unwound(s)[i].mode = s[i].mode
  <1>1. \A i \in DOMAIN s : Left(s[i], << >>) \in Frame
    BY FrameFacts
  <1>2. \A i \in DOMAIN s : Unwound(s)[i] = Left(s[i], << >>)
    BY Zenon DEF Unwound
  <1>3. DOMAIN Unwound(s) = DOMAIN s /\ DOMAIN s = 1 .. Len(s) /\ Len(s) \in Nat
    BY DEF Unwound
  <1>4. \A f : Left(f, << >>).lock = f.lock /\ Left(f, << >>).mode = f.mode
    BY DEF Left, Method
  <1>5. \A i \in DOMAIN s : Unwound(s)[i].lock = s[i].lock /\ Unwound(s)[i].mode = s[i].mode
    BY <1>2, <1>4, Zenon
  <1>6. Unwound(s) \in Seq(Frame)
    BY <1>1, <1>3 DEF Unwound
  <1>7. Ordered(Unwound(s))
    BY <1>3, <1>5, Zenon DEF Ordered
  <1>8. QED BY <1>3, <1>5, <1>6, <1>7, Zenon
-----------------------------------------------------------------------------
(* What handlers call is typed. *)

LEMMA BookMethodsTyped ==
  \A b \in Bank \cup {CentralBank} : BookRead(b) \in BookMethod /\ BookWrite(b) \in BookMethod
  BY DEF BookRead, BookWrite, Reads, Writes, Method, BookMethod, Mode

LEMMA RegisterMethodsTyped ==
  \A b \in Bank :
    /\ RegisterMethods(b) \subseteq RegisterMethod /\ CheckWithdrawal(b) \in RegisterMethod
    /\ GetAccount(b) \in RegisterMethod /\ SetStatus(b) \in RegisterMethod
    /\ GetBalance(b) \in RegisterMethod
  <1> SUFFICES ASSUME NEW b \in Bank
               PROVE  /\ RegisterMethods(b) \subseteq RegisterMethod
                      /\ CheckWithdrawal(b) \in RegisterMethod
                      /\ GetAccount(b) \in RegisterMethod /\ SetStatus(b) \in RegisterMethod
                      /\ GetBalance(b) \in RegisterMethod
    OBVIOUS
  <1>1. << >> \in Seq(BookMethod) /\ <<BookRead(b)>> \in Seq(BookMethod)
          /\ <<BookWrite(b)>> \in Seq(BookMethod)
    BY BookMethodsTyped
  <1>2. \A calls \in Seq(BookMethod) :
          Reads(Register(b), calls) \in RegisterMethod /\ Writes(Register(b), calls) \in RegisterMethod
    BY DEF Reads, Writes, Method, RegisterMethod, Mode
  <1>3. QED BY <1>1, <1>2, Zenon
            DEF RegisterMethods, CheckWithdrawal, GetAccount, SetStatus, GetBalance,
                OpenAccount, CreateHold

LEMMA NetworkMethodsTyped ==
  /\ GetParticipant \in NetworkMethod /\ ReserveBalance \in NetworkMethod
  /\ OpenCycle \in NetworkMethod /\ AddParticipant \in NetworkMethod
  /\ \A b \in Bank : Deposit(b) \in NetworkMethod /\ RejectPayment(b) \in NetworkMethod
  /\ \A d, c \in Bank : /\ CreateMandate(d, c) \in NetworkMethod
                        /\ InitiatePayment(d, c) \in NetworkMethod
                        /\ ReturnPayment(d, c) \in NetworkMethod
  /\ \A netted \in Seq(Bank), c \in Bank : SettleCycle(netted, c) \in NetworkMethod
  <1> DEFINE Called == RegisterMethod \cup BookMethod
  <1>1. \A calls \in Seq(Called) :
          Reads(Network, calls) \in NetworkMethod /\ Writes(Network, calls) \in NetworkMethod
    BY DEF Reads, Writes, Method, NetworkMethod, Mode
  <1>2. /\ \A b \in Bank \cup {CentralBank} : BookRead(b) \in Called /\ BookWrite(b) \in Called
        /\ \A b \in Bank : GetAccount(b) \in Called /\ CheckWithdrawal(b) \in Called
    BY BookMethodsTyped, RegisterMethodsTyped
  <1> HIDE DEF Called
  <1>3. << >> \in Seq(Called) /\ <<BookRead(CentralBank)>> \in Seq(Called)
          /\ <<BookWrite(CentralBank)>> \in Seq(Called)
    BY <1>2
  <1>4. \A b \in Bank : /\ <<GetAccount(b), BookWrite(b), BookWrite(CentralBank)>> \in Seq(Called)
                        /\ <<BookWrite(b)>> \in Seq(Called)
    BY <1>2
  <1>5. \A d, c \in Bank :
          /\ <<GetAccount(d), GetAccount(c)>> \in Seq(Called)
          /\ << GetAccount(d), GetAccount(c), GetAccount(d), CheckWithdrawal(d),
                GetAccount(d), BookWrite(d) >> \in Seq(Called)
          /\ << GetAccount(d), GetAccount(c),
                BookWrite(d), BookWrite(c), BookWrite(CentralBank) >> \in Seq(Called)
    BY <1>2
  <1>6. ASSUME NEW netted \in Seq(Bank), NEW c \in Bank
        PROVE  SettleCycle(netted, c) \in NetworkMethod
    <2> DEFINE first == IF netted = << >> THEN << >> ELSE <<BookWrite(CentralBank)>>
               each == [i \in DOMAIN netted |-> BookWrite(netted[i])]
               last == <<GetAccount(c), BookWrite(c)>>
    <2>1. first \in Seq(Called) /\ last \in Seq(Called)
      BY <1>2, <1>3
    <2>2. each \in Seq(Called)
      <3>1. \A i \in DOMAIN netted : BookWrite(netted[i]) \in Called
        BY <1>2
      <3>2. QED BY <3>1
    <2>3. first \o each \o last \in Seq(Called)
      <3> HIDE DEF first, each, last
      <3>1. QED BY <2>1, <2>2
    <2>4. QED BY <1>1, <2>3, Zenon DEF SettleCycle
  <1>7. QED
    BY <1>1, <1>3, <1>4, <1>5, <1>6, Zenon
       DEF GetParticipant, ReserveBalance, OpenCycle, AddParticipant, Deposit, RejectPayment,
           CreateMandate, InitiatePayment, ReturnPayment

LEMMA HandlersTyped == Handlers \subseteq Seq(AnyMethod)
  <1> DEFINE Callable == AnyMethod
  <1>1. /\ GetParticipant \in Callable /\ ReserveBalance \in Callable
        /\ OpenCycle \in Callable /\ AddParticipant \in Callable
        /\ \A b \in Bank : Deposit(b) \in Callable /\ RejectPayment(b) \in Callable
        /\ \A d, c \in Bank : /\ CreateMandate(d, c) \in Callable /\ InitiatePayment(d, c) \in Callable
                              /\ ReturnPayment(d, c) \in Callable
        /\ \A netted \in Seq(Bank), c \in Bank : SettleCycle(netted, c) \in Callable
    BY NetworkMethodsTyped, Zenon DEF AnyMethod
  <1>2. \A b \in Bank : /\ RegisterMethods(b) \subseteq Callable /\ GetAccount(b) \in Callable
                        /\ SetStatus(b) \in Callable /\ GetBalance(b) \in Callable
                        /\ BookRead(b) \in Callable /\ BookWrite(b) \in Callable
    BY RegisterMethodsTyped, BookMethodsTyped DEF AnyMethod
  <1>3. BookRead(CentralBank) \in Callable
    BY BookMethodsTyped DEF AnyMethod
  <1> HIDE DEF Callable
  <1>4. AtBank \subseteq Seq(Callable)
    <2> SUFFICES ASSUME NEW h \in AtBank PROVE h \in Seq(Callable)
      OBVIOUS
    <2>1. PICK b \in Bank :
            h \in {<<GetParticipant, m>> : m \in RegisterMethods(b) \cup {BookRead(b), BookWrite(b)}}
                   \cup {<<GetParticipant, SetStatus(b), GetAccount(b)>>,
                         <<GetParticipant, Deposit(b), GetBalance(b)>>}
      BY Zenon DEF AtBank
    <2>2. ASSUME NEW m \in RegisterMethods(b) \cup {BookRead(b), BookWrite(b)}
          PROVE  <<GetParticipant, m>> \in Seq(Callable)
      <3>1. m \in Callable
        BY <1>2
      <3>2. QED BY <1>1, <3>1
    <2>3. /\ <<GetParticipant, SetStatus(b), GetAccount(b)>> \in Seq(Callable)
          /\ <<GetParticipant, Deposit(b), GetBalance(b)>> \in Seq(Callable)
      BY <1>1, <1>2
    <2>4. QED BY <2>1, <2>2, <2>3, Zenon
  <1>5. OnNetwork \subseteq Seq(Callable)
    <2>1. \A banks \in SUBSET Bank : SetToSeqs(banks) \subseteq Seq(Bank)
      <3> TAKE banks \in SUBSET Bank
      <3> DEFINE k == Cardinality(banks)
      <3>1. k \in Nat
        BY FS_Subset, FS_CardinalityType, LocksAssumption
      <3>2. SetToSeqs(banks) \subseteq [1 .. k -> banks]
        BY Zenon DEF SetToSeqs
      <3> HIDE DEF k
      <3>3. [1 .. k -> banks] \subseteq Seq(Bank)
        BY <3>1
      <3>4. QED BY <3>2, <3>3
    <2>2. /\ <<GetParticipant>> \in Seq(Callable) /\ <<OpenCycle>> \in Seq(Callable)
          /\ <<OpenCycle, GetParticipant>> \in Seq(Callable) /\ <<AddParticipant>> \in Seq(Callable)
      BY <1>1
    <2>3. \A d, c \in Bank :
            /\ <<CreateMandate(d, c)>> \in Seq(Callable) /\ <<InitiatePayment(d, c)>> \in Seq(Callable)
            /\ <<RejectPayment(d)>> \in Seq(Callable) /\ <<ReturnPayment(d, c)>> \in Seq(Callable)
      BY <1>1
    <2>4. \A netted \in Seq(Bank), c \in Bank : <<SettleCycle(netted, c)>> \in Seq(Callable)
      BY <1>1
    <2>5. ASSUME NEW d \in Bank PROVE BetweenBanks(d) \subseteq Seq(Callable)
      <3> SUFFICES ASSUME NEW h \in BetweenBanks(d) PROVE h \in Seq(Callable)
        OBVIOUS
      <3>1. PICK c \in Bank : h \in {<<CreateMandate(d, c)>>, <<InitiatePayment(d, c)>>,
                                     <<ReturnPayment(d, c)>>, <<RejectPayment(d)>>}
        BY Zenon DEF BetweenBanks
      <3>2. QED BY <2>3, <3>1, Zenon
    <2>6. ASSUME NEW c \in Bank PROVE Settlements(c) \subseteq Seq(Callable)
      BY <2>1, <2>4, Zenon DEF Settlements
    <2> SUFFICES ASSUME NEW h \in OnNetwork PROVE h \in Seq(Callable)
      OBVIOUS
    <2>7. \/ h \in {<<GetParticipant>>, <<OpenCycle>>, <<OpenCycle, GetParticipant>>,
                    <<AddParticipant>>}
          \/ \E b \in Bank : h \in BetweenBanks(b) \cup Settlements(b)
      BY Zenon DEF OnNetwork
    <2>8. QED BY <2>2, <2>5, <2>6, <2>7, Zenon
  <1>6. OfCentralBank \subseteq Seq(Callable)
    <2> DEFINE each == [b \in 1 .. Cardinality(Bank) |-> ReserveBalance]
    <2>1. Cardinality(Bank) \in Nat
      BY FS_CardinalityType, LocksAssumption
    <2>2. each \in Seq(Callable) /\ <<GetParticipant>> \in Seq(Callable)
      BY <1>1, <2>1
    <2>3. <<GetParticipant>> \o each \in Seq(Callable)
      <3> HIDE DEF each
      <3>1. QED BY <2>2
    <2>4. <<ReserveBalance>> \in Seq(Callable) /\ <<BookRead(CentralBank)>> \in Seq(Callable)
      BY <1>1, <1>3
    <2>5. QED BY <2>3, <2>4, Zenon DEF OfCentralBank
  <1>7. QED BY <1>4, <1>5, <1>6, Zenon DEF Handlers, Callable
-----------------------------------------------------------------------------
(* The invariant. *)

LEMMA InvTypes ==
  ASSUME LocksInv
  PROVE  /\ stack \in [Goroutine -> Seq(Frame)] /\ writer \in [Lock -> Goroutine \cup {None}]
         /\ parked \in [Lock -> SUBSET Goroutine] /\ \A g \in Goroutine : Ordered(stack[g])
  BY DEF LocksInv, TypeOK, Layered, Frame

\* A call goes below everything held.
LEMMA CallFacts ==
  ASSUME LocksInv, NEW g \in Goroutine, Calls(g)
  PROVE  /\ Callee(g) \in AnyMethod /\ Callee(g).lock \in Lock
         /\ \A i \in DOMAIN stack[g] : Rank(stack[g][i].lock) < Rank(Callee(g).lock)
         /\ ~Holds(g, Callee(g).lock)
  <1> DEFINE s == stack[g]
             n == Len(s)
             m == Callee(g)
  <1>1. s \in Seq(Frame) /\ s # << >> /\ Ordered(s) /\ s[n].calls # << >> /\ m = Head(s[n].calls)
    BY InvTypes, Zenon DEF Calls, Callee, Top
  <1>2. n \in Nat \ {0} /\ DOMAIN s = 1 .. n /\ \A i \in 1 .. n : s[i] \in Frame
    <2> HIDE DEF s
    <2>1. QED BY <1>1
  <1>3. m \in AnyMethod /\ m.lock \in Lock /\ Rank(m.lock) > Rank(s[n].lock)
    <2>1. s[n] \in Frame
      BY <1>2
    <2>2. QED BY <1>1, <2>1, FrameFacts, Zenon
  <1>4. \A i \in 1 .. n : Rank(s[i].lock) \in 0 .. 3 /\ (i < n => Rank(s[i].lock) < Rank(s[n].lock))
    <2>1. \A i \in 1 .. n : Rank(s[i].lock) \in 0 .. 3
      BY <1>2, FrameFacts, Zenon
    <2>2. n \in 1 .. n
      BY <1>2
    <2>3. QED BY <1>1, <1>2, <2>1, <2>2, Zenon DEF Ordered
  <1>5. Rank(m.lock) \in 1 .. 3
    BY <1>3, MethodLocks
  <1> HIDE DEF s, n, m
  <1>6. \A i \in 1 .. n : Rank(s[i].lock) < Rank(m.lock)
    BY <1>2, <1>3, <1>4, <1>5
  <1>7. \A i \in 1 .. n : s[i].lock # m.lock
    <2>1. ASSUME NEW i \in 1 .. n, s[i].lock = m.lock PROVE FALSE
      <3>1. Rank(m.lock) < Rank(m.lock)
        BY <1>6, <2>1
      <3>2. QED BY <1>5, <3>1
    <2>2. QED BY <2>1
  <1>8. QED BY <1>2, <1>3, <1>6, <1>7, Zenon DEF s, n, m, Holds

\* Who calls nothing, calls what no writer has, calls to write or does not wait
\* is not parked.
LEMMA NotParked ==
  ASSUME LocksInv, NEW g \in Goroutine,
         \/ ~Calls(g) \/ writer[Callee(g).lock] = None \/ Callee(g).mode = "Lock"
         \/ g \notin parked[Callee(g).lock]
  PROVE  \A l \in Lock : g \notin parked[l]
  BY DEF LocksInv, ParkedCall, Mode

LEMMA SameStack ==
  ASSUME NEW h \in Goroutine, stack'[h] = stack[h]
  PROVE  /\ Calls(h)' <=> Calls(h)
         /\ Callee(h)' = Callee(h)
         /\ \A l : HoldsForWriting(h, l)' <=> HoldsForWriting(h, l)
  BY DEF Calls, Callee, HoldsForWriting

\* A step that changes the methods of one goroutine, who waits for nothing and
\* keeps the locks it is the writer of.
LEMMA OneMoves ==
  ASSUME LocksInv, NEW g \in Goroutine, NEW s \in Seq(Frame), Ordered(s),
         stack' = [stack EXCEPT ![g] = s], UNCHANGED <<writer, parked>>,
         \A l \in Lock : g \notin parked[l],
         \A l \in Lock : writer[l] = g => \E i \in DOMAIN s : s[i].lock = l /\ s[i].mode = "Lock"
  PROVE  LocksInv'
  <1>1. /\ stack' \in [Goroutine -> Seq(Frame)] /\ stack'[g] = s
        /\ \A h \in Goroutine \ {g} : stack'[h] = stack[h]
        /\ writer' = writer /\ parked' = parked
    BY InvTypes
  <1>2. TypeOK'
    BY <1>1, InvTypes, Zenon DEF TypeOK, Frame
  <1>3. Layered'
    <2>1. \A h \in Goroutine : Ordered(stack'[h])
      BY <1>1, InvTypes, Zenon
    <2>2. QED BY <2>1 DEF Layered, Ordered
  <1>4. ParkedCall'
    <2> SUFFICES ASSUME NEW l \in Lock, NEW h \in parked[l]
                 PROVE  /\ Calls(h)' /\ Callee(h)'.lock = l /\ Callee(h)'.mode = "RLock"
                        /\ writer'[l] # None
      BY <1>1 DEF ParkedCall, Lock, Network, Register, Book
    <2>1. h \in Goroutine \ {g}
      BY InvTypes
    <2>2. Calls(h) /\ Callee(h).lock = l /\ Callee(h).mode = "RLock" /\ writer[l] # None
      BY DEF LocksInv, ParkedCall
    <2>3. QED BY <1>1, <2>1, <2>2, SameStack
  <1>5. WriterCalls'
    <2> SUFFICES ASSUME NEW l \in Lock, NEW h \in Goroutine, writer[l] = h
                 PROVE  \/ HoldsForWriting(h, l)'
                        \/ Calls(h)' /\ Callee(h)'.lock = l /\ Callee(h)'.mode = "Lock"
      BY <1>1 DEF WriterCalls, Lock, Network, Register, Book
    <2>1. CASE h = g
      <3>1. \E i \in DOMAIN s : s[i].lock = l /\ s[i].mode = "Lock"
        BY <2>1
      <3>2. QED BY <1>1, <2>1, <3>1 DEF HoldsForWriting
    <2>2. CASE h # g
      <3>1. HoldsForWriting(h, l) \/ (Calls(h) /\ Callee(h).lock = l /\ Callee(h).mode = "Lock")
        BY DEF LocksInv, WriterCalls
      <3>2. QED BY <1>1, <2>2, <3>1, SameStack
    <2>3. QED BY <2>1, <2>2
  <1>6. QED BY <1>2, <1>3, <1>4, <1>5 DEF LocksInv

LEMMA InitInv == Init => LocksInv
  <1> SUFFICES ASSUME Init PROVE LocksInv
    OBVIOUS
  <1>1. TypeOK
    BY DEF Init, TypeOK
  <1>2. Layered
    BY DEF Init, Layered, Ordered
  <1>3. ParkedCall
    BY DEF Init, ParkedCall
  <1>4. WriterCalls
    BY LocksAssumption DEF Init, WriterCalls
  <1>5. QED BY <1>1, <1>2, <1>3, <1>4 DEF LocksInv

\* What a goroutine writes it holds, or is about to.
LEMMA WriterHolds ==
  ASSUME LocksInv, NEW g \in Goroutine, NEW l \in Lock, writer[l] = g
  PROVE  HoldsForWriting(g, l) \/ (Calls(g) /\ Callee(g).lock = l /\ Callee(g).mode = "Lock")
  BY DEF LocksInv, WriterCalls

LEMMA ServeInv ==
  ASSUME LocksInv, NEW g \in Goroutine, NEW handler \in Served, Serve(g, handler)
  PROVE  LocksInv'
  <1> DEFINE f == Method(NoLock, "none", handler)
             s == <<f>>
  <1>1. stack[g] = << >> /\ stack' = [stack EXCEPT ![g] = s] /\ UNCHANGED <<writer, parked>>
    BY DEF Serve
  <1>2. f \in Frame
    <2>1. handler \in Seq(AnyMethod)
      BY HandlersTyped, LocksAssumption
    <2>2. QED BY <2>1 DEF Method, Handler, Frame
  <1>3. s \in Seq(Frame) /\ Ordered(s)
    <2> HIDE DEF f
    <2>1. QED BY <1>2 DEF Ordered
  <1>4. ~Calls(g) /\ \A l \in Lock : ~HoldsForWriting(g, l)
    BY <1>1 DEF Calls, HoldsForWriting
  <1>5. \A l \in Lock : g \notin parked[l] /\ writer[l] # g
    BY <1>4, NotParked, WriterHolds, Zenon
  <1> HIDE DEF s
  <1>6. QED BY <1>1, <1>3, <1>5, OneMoves, Zenon

\* The stack of a goroutine that enters the method it calls.
LEMMA EnterCallee ==
  ASSUME LocksInv, NEW g \in Goroutine, Calls(g)
  PROVE  /\ Enter(stack[g]) \in Seq(Frame) /\ Ordered(Enter(stack[g]))
         /\ \A l : HoldsForWriting(g, l) =>
              \E i \in DOMAIN Enter(stack[g]) :
                Enter(stack[g])[i].lock = l /\ Enter(stack[g])[i].mode = "Lock"
         /\ Callee(g).mode = "Lock" =>
              \E i \in DOMAIN Enter(stack[g]) :
                /\ Enter(stack[g])[i].lock = Callee(g).lock
                /\ Enter(stack[g])[i].mode = "Lock"
  <1> DEFINE s == stack[g]
             t == Enter(s)
             n == Len(s)
  <1>1. s \in Seq(Frame) /\ Ordered(s) /\ s # << >> /\ Top(s).calls # << >>
          /\ Callee(g) = Head(Top(s).calls)
    BY InvTypes, Zenon DEF Calls, Callee
  <1> HIDE DEF s
  <1>2. /\ t \in Seq(Frame) /\ Len(t) = n + 1 /\ Ordered(t) /\ t[n + 1] = Callee(g)
        /\ \A i \in DOMAIN s : t[i].lock = s[i].lock /\ t[i].mode = s[i].mode
    BY <1>1, EnterFacts, Zenon
  <1> HIDE DEF t
  <1>3. n \in Nat /\ DOMAIN s = 1 .. n /\ DOMAIN t = 1 .. n + 1
    BY <1>1, <1>2
  <1>4. DOMAIN s \subseteq DOMAIN t /\ n + 1 \in DOMAIN t
    BY <1>3
  <1>5. QED BY <1>2, <1>4, Zenon DEF s, t, HoldsForWriting

LEMMA RLockInv ==
  ASSUME LocksInv, NEW g \in Goroutine, RLock(g)
  PROVE  LocksInv'
  <1> DEFINE s == Enter(stack[g])
  <1>1. /\ Calls(g) /\ Callee(g).mode = "RLock" /\ writer[Callee(g).lock] = None
        /\ stack' = [stack EXCEPT ![g] = s] /\ UNCHANGED <<writer, parked>>
    BY DEF RLock
  <1>2. /\ s \in Seq(Frame) /\ Ordered(s) /\ \A l \in Lock : g \notin parked[l]
        /\ \A l : HoldsForWriting(g, l) => \E i \in DOMAIN s : s[i].lock = l /\ s[i].mode = "Lock"
    BY <1>1, EnterCallee, NotParked, Zenon
  <1>3. \A l \in Lock : writer[l] = g => HoldsForWriting(g, l)
    BY <1>1, WriterHolds
  <1> HIDE DEF s
  <1>4. \A l \in Lock : writer[l] = g => \E i \in DOMAIN s : s[i].lock = l /\ s[i].mode = "Lock"
    BY <1>2, <1>3, Zenon
  <1>5. QED BY <1>1, <1>2, <1>4, OneMoves, Zenon

LEMMA TakeLockInv ==
  ASSUME LocksInv, NEW g \in Goroutine, TakeLock(g)
  PROVE  LocksInv'
  <1> DEFINE s == Enter(stack[g])
  <1>1. /\ Calls(g) /\ Callee(g).mode = "Lock"
        /\ stack' = [stack EXCEPT ![g] = s] /\ UNCHANGED <<writer, parked>>
    BY DEF TakeLock
  <1>2. /\ s \in Seq(Frame) /\ Ordered(s) /\ \A l \in Lock : g \notin parked[l]
        /\ \A l : HoldsForWriting(g, l) => \E i \in DOMAIN s : s[i].lock = l /\ s[i].mode = "Lock"
        /\ \E i \in DOMAIN s : s[i].lock = Callee(g).lock /\ s[i].mode = "Lock"
    BY <1>1, EnterCallee, NotParked, Zenon
  <1>3. \A l \in Lock : writer[l] = g => HoldsForWriting(g, l) \/ l = Callee(g).lock
    BY <1>1, WriterHolds, Zenon
  <1> HIDE DEF s
  <1>4. \A l \in Lock : writer[l] = g => \E i \in DOMAIN s : s[i].lock = l /\ s[i].mode = "Lock"
    BY <1>2, <1>3, Zenon
  <1>5. QED BY <1>1, <1>2, <1>4, OneMoves, Zenon

LEMMA FailInv ==
  ASSUME LocksInv, NEW g \in Goroutine, Fail(g)
  PROVE  LocksInv'
  <1> DEFINE s == Unwound(stack[g])
  <1>1. /\ Calls(g) /\ ~Waits(g)
        /\ stack' = [stack EXCEPT ![g] = s] /\ UNCHANGED <<writer, parked>>
    BY DEF Fail
  <1>2. /\ s \in Seq(Frame) /\ Ordered(s) /\ DOMAIN s = DOMAIN stack[g]
        /\ \A i \in DOMAIN stack[g] : s[i].lock = stack[g][i].lock /\ s[i].mode = stack[g][i].mode
    BY InvTypes, UnwoundFacts, Zenon
  <1>3. \A l \in Lock : g \notin parked[l]
    <2>1. g \notin parked[Callee(g).lock]
      BY <1>1 DEF Waits
    <2>2. QED BY <2>1, NotParked, Zenon
  <1>4. \A l \in Lock : writer[l] = g => HoldsForWriting(g, l)
    <2>1. writer[Callee(g).lock] # g
      BY <1>1, CallFacts, Zenon DEF Waits
    <2>2. QED BY <2>1, WriterHolds, Zenon
  <1> HIDE DEF s
  <1>5. \A l \in Lock : writer[l] = g => \E i \in DOMAIN s : s[i].lock = l /\ s[i].mode = "Lock"
    <2>1. ASSUME NEW l \in Lock, writer[l] = g
          PROVE  \E i \in DOMAIN s : s[i].lock = l /\ s[i].mode = "Lock"
      <3>1. PICK i \in DOMAIN stack[g] : stack[g][i].lock = l /\ stack[g][i].mode = "Lock"
        BY <1>4, <2>1 DEF HoldsForWriting
      <3>2. i \in DOMAIN s /\ s[i].lock = l /\ s[i].mode = "Lock"
        BY <1>2, <3>1, Zenon
      <3>3. QED BY <3>2
    <2>2. QED BY <2>1, Zenon
  <1>6. QED BY <1>1, <1>2, <1>3, <1>5, OneMoves, Zenon

\* A goroutine whose innermost method is done.
LEMMA FinishedFacts ==
  ASSUME LocksInv, NEW g \in Goroutine, NEW mode, Finished(g, mode)
  PROVE  /\ stack[g] \in Seq(Frame) /\ stack[g] # << >> /\ Top(stack[g]) \in Frame
         /\ Top(stack[g]).mode = mode /\ DOMAIN stack[g] = 1 .. Len(stack[g])
         /\ Len(stack[g]) \in Nat \ {0}
         /\ \A l \in Lock : g \notin parked[l]
         /\ \A l \in Lock : writer[l] = g => HoldsForWriting(g, l)
  <1>1. stack[g] \in Seq(Frame) /\ stack[g] # << >> /\ ~Calls(g) /\ Top(stack[g]).mode = mode
    BY InvTypes DEF Finished, Calls
  <1>2. DOMAIN stack[g] = 1 .. Len(stack[g]) /\ Len(stack[g]) \in Nat \ {0}
          /\ stack[g][Len(stack[g])] \in Frame
    BY <1>1
  <1>3. QED BY <1>1, <1>2, NotParked, WriterHolds, Zenon DEF Top

LEMMA RespondInv ==
  ASSUME LocksInv, NEW g \in Goroutine, Respond(g)
  PROVE  LocksInv'
  <1> DEFINE n == Len(stack[g])
  <1>1. Finished(g, "none") /\ stack' = [stack EXCEPT ![g] = << >>] /\ UNCHANGED <<writer, parked>>
    BY DEF Respond
  <1>2. /\ stack[g][n] \in Frame /\ stack[g][n].mode = "none"
        /\ DOMAIN stack[g] = 1 .. n /\ n \in Nat \ {0} /\ Ordered(stack[g])
        /\ \A i \in 1 .. n : stack[g][i] \in Frame
        /\ \A l \in Lock : g \notin parked[l] /\ (writer[l] = g => HoldsForWriting(g, l))
    <2>1. \A i \in DOMAIN stack[g] : stack[g][i] \in Frame
      BY InvTypes
    <2>2. QED BY <1>1, <2>1, FinishedFacts, InvTypes, Zenon DEF Top
  <1>3. Rank(stack[g][n].lock) = 0
    BY <1>2, FrameFacts, Ranks
  <1>4. \A i \in 1 .. n : Rank(stack[g][i].lock) \in 0 .. 3
    BY <1>2, FrameFacts, Zenon
  <1> HIDE DEF n
  <1>5. \A i \in 1 .. n : i = n
    <2>1. ASSUME NEW i \in 1 .. n, i # n PROVE FALSE
      <3>1. i < n /\ n \in 1 .. n
        BY <1>2, <2>1
      <3>2. Rank(stack[g][i].lock) < Rank(stack[g][n].lock)
        BY <1>2, <3>1, Zenon DEF Ordered
      <3>3. QED BY <1>3, <1>4, <3>2
    <2>2. QED BY <2>1, Zenon
  <1>6. \A l \in Lock : writer[l] # g
    BY <1>2, <1>5 DEF HoldsForWriting
  <1>7. << >> \in Seq(Frame) /\ Ordered(<< >>)
    BY DEF Ordered
  <1>8. QED BY <1>1, <1>2, <1>6, <1>7, OneMoves, Zenon

\* A goroutine that returns from its innermost method keeps what it holds
\* further out.
LEMMA FrontHolds ==
  ASSUME LocksInv, NEW g \in Goroutine, NEW mode, Finished(g, mode)
  PROVE  /\ Front(stack[g]) \in Seq(Frame) /\ Ordered(Front(stack[g]))
         /\ \A l : HoldsForWriting(g, l) /\ (mode # "Lock" \/ l # Top(stack[g]).lock) =>
              \E i \in DOMAIN Front(stack[g]) :
                Front(stack[g])[i].lock = l /\ Front(stack[g])[i].mode = "Lock"
  <1> DEFINE s == stack[g]
             t == Front(s)
             n == Len(s)
  <1>1. /\ s \in Seq(Frame) /\ s # << >> /\ Ordered(s) /\ DOMAIN s = 1 .. n
        /\ n \in Nat \ {0} /\ Top(s).mode = mode /\ Top(s) = s[n]
    BY FinishedFacts, InvTypes, Zenon DEF Top
  <1> HIDE DEF s
  <1>2. /\ t \in Seq(Frame) /\ Len(t) = n - 1 /\ Ordered(t)
        /\ \A i \in 1 .. n - 1 : t[i] = s[i]
    BY <1>1, FrontFacts, Zenon
  <1> HIDE DEF t
  <1>3. DOMAIN t = 1 .. n - 1
    BY <1>1, <1>2
  <1>4. ASSUME NEW l, HoldsForWriting(g, l), mode # "Lock" \/ l # Top(s).lock
        PROVE  \E i \in DOMAIN t : t[i].lock = l /\ t[i].mode = "Lock"
    <2>1. PICK i \in 1 .. n : s[i].lock = l /\ s[i].mode = "Lock"
      BY <1>1, <1>4, Zenon DEF HoldsForWriting, s
    <2>2. i # n
      BY <1>1, <1>4, <2>1, Zenon
    <2>3. i \in 1 .. n - 1
      <3>1. n \in Nat
        BY <1>1
      <3> HIDE DEF n
      <3>2. QED BY <2>1, <2>2, <3>1
    <2>4. QED BY <1>2, <1>3, <2>1, <2>3, Zenon
  <1>5. QED BY <1>2, <1>4, Zenon DEF s, t

LEMMA RUnlockInv ==
  ASSUME LocksInv, NEW g \in Goroutine, RUnlock(g)
  PROVE  LocksInv'
  <1> DEFINE s == Front(stack[g])
  <1>1. Finished(g, "RLock") /\ stack' = [stack EXCEPT ![g] = s] /\ UNCHANGED <<writer, parked>>
    BY DEF RUnlock
  <1>2. \A l \in Lock : g \notin parked[l] /\ (writer[l] = g => HoldsForWriting(g, l))
    BY <1>1, FinishedFacts, Zenon
  <1>3. /\ s \in Seq(Frame) /\ Ordered(s)
        /\ \A l : HoldsForWriting(g, l) => \E i \in DOMAIN s : s[i].lock = l /\ s[i].mode = "Lock"
    <2>1. "RLock" # "Lock"
      OBVIOUS
    <2>2. /\ s \in Seq(Frame) /\ Ordered(s)
          /\ \A l : HoldsForWriting(g, l) /\ ("RLock" # "Lock" \/ l # Top(stack[g]).lock) =>
               \E i \in DOMAIN s : s[i].lock = l /\ s[i].mode = "Lock"
      BY <1>1, FrontHolds, Zenon
    <2> HIDE DEF s
    <2>3. QED BY <2>1, <2>2
  <1> HIDE DEF s
  <1>4. \A l \in Lock : writer[l] = g => \E i \in DOMAIN s : s[i].lock = l /\ s[i].mode = "Lock"
    BY <1>2, <1>3, Zenon
  <1>5. QED BY <1>1, <1>2, <1>3, <1>4, OneMoves, Zenon

LEMMA ParkInv ==
  ASSUME LocksInv, NEW g \in Goroutine, Park(g)
  PROVE  LocksInv'
  <1>1. /\ Calls(g) /\ Callee(g).mode = "RLock" /\ writer[Callee(g).lock] # None
        /\ parked' = [parked EXCEPT ![Callee(g).lock] = @ \cup {g}]
        /\ stack' = stack /\ writer' = writer /\ Callee(g).lock \in Lock
    BY CallFacts DEF Park
  <1>2. \A h \in Goroutine : stack'[h] = stack[h]
    BY <1>1
  <1>3. TypeOK' /\ Layered'
    <2>1. parked' \in [Lock -> SUBSET Goroutine]
      BY <1>1, InvTypes
    <2>2. TypeOK /\ Layered
      BY DEF LocksInv
    <2>3. TypeOK'
      BY <1>1, <2>1, <2>2, Zenon DEF TypeOK
    <2>4. Layered'
      BY <1>1, <2>2 DEF Layered, Ordered
    <2>5. QED BY <2>3, <2>4
  <1>4. ParkedCall'
    <2>1. \A l \in Lock : \A h \in parked'[l] :
            h \in parked[l] \/ (h = g /\ l = Callee(g).lock)
      BY <1>1, InvTypes
    <2>2. \A l \in Lock : \A h \in parked'[l] :
            Calls(h) /\ Callee(h).lock = l /\ Callee(h).mode = "RLock" /\ writer[l] # None
      BY <1>1, <2>1 DEF LocksInv, ParkedCall
    <2>3. QED BY <1>1, <2>2 DEF ParkedCall, Calls, Callee, Lock, Network, Register, Book
  <1>5. WriterCalls'
    BY <1>1 DEF LocksInv, WriterCalls, HoldsForWriting, Calls, Callee, Lock, Network, Register, Book
  <1>6. QED BY <1>3, <1>4, <1>5 DEF LocksInv

LEMMA AnnounceInv ==
  ASSUME LocksInv, NEW g \in Goroutine, Announce(g)
  PROVE  LocksInv'
  <1>1. /\ Calls(g) /\ Callee(g).mode = "Lock" /\ writer[Callee(g).lock] = None
        /\ writer' = [writer EXCEPT ![Callee(g).lock] = g]
        /\ stack' = stack /\ parked' = parked /\ Callee(g).lock \in Lock
    BY CallFacts DEF Announce
  <1>2. /\ writer' \in [Lock -> Goroutine \cup {None}] /\ writer'[Callee(g).lock] = g
        /\ \A l \in Lock : l # Callee(g).lock => writer'[l] = writer[l]
    BY <1>1, InvTypes
  <1>3. TypeOK' /\ Layered'
    <2>1. TypeOK /\ Layered
      BY DEF LocksInv
    <2>2. TypeOK'
      BY <1>1, <1>2, <2>1, Zenon DEF TypeOK
    <2>3. Layered'
      BY <1>1, <2>1 DEF Layered, Ordered
    <2>4. QED BY <2>2, <2>3
  <1>4. ParkedCall'
    <2>1. \A l \in Lock : \A h \in parked[l] :
            Calls(h) /\ Callee(h).lock = l /\ Callee(h).mode = "RLock" /\ writer'[l] # None
      BY <1>1, <1>2 DEF LocksInv, ParkedCall
    <2>2. QED BY <1>1, <2>1 DEF ParkedCall, Calls, Callee, Lock, Network, Register, Book
  <1>5. WriterCalls'
    <2>1. ASSUME NEW l \in Lock, NEW h \in Goroutine, writer'[l] = h
          PROVE  HoldsForWriting(h, l) \/ (Calls(h) /\ Callee(h).lock = l /\ Callee(h).mode = "Lock")
      BY <1>1, <1>2, <2>1 DEF LocksInv, WriterCalls
    <2>2. \A h, l : (HoldsForWriting(h, l)' <=> HoldsForWriting(h, l))
                      /\ (Calls(h)' <=> Calls(h)) /\ Callee(h)' = Callee(h)
      BY <1>1 DEF HoldsForWriting, Calls, Callee
    <2>3. QED BY <2>1, <2>2 DEF WriterCalls, Lock, Network, Register, Book
  <1>6. QED BY <1>3, <1>4, <1>5 DEF LocksInv

\* The readers let in go on as they are, but for the lock they have now.
LEMMA UnlockInv ==
  ASSUME LocksInv, NEW g \in Goroutine, Unlock(g)
  PROVE  LocksInv'
  <1> DEFINE l0 == Top(stack[g]).lock
             In == parked[l0]
  <1>1. /\ Finished(g, "Lock")
        /\ \A h \in Goroutine : stack'[h] = IF h = g THEN Front(stack[g])
                                            ELSE IF h \in In THEN Enter(stack[h]) ELSE stack[h]
        /\ DOMAIN stack' = Goroutine
        /\ stack' = [h \in Goroutine |-> stack'[h]]
        /\ writer' = [writer EXCEPT ![l0] = None] /\ parked' = [parked EXCEPT ![l0] = {}]
    BY DEF Unlock
  <1>2. /\ Front(stack[g]) \in Seq(Frame) /\ Ordered(Front(stack[g]))
        /\ \A l : HoldsForWriting(g, l) /\ l # l0 =>
             \E i \in DOMAIN Front(stack[g]) :
               Front(stack[g])[i].lock = l /\ Front(stack[g])[i].mode = "Lock"
    BY <1>1, FrontHolds, Zenon
  <1>3. \A l \in Lock : g \notin parked[l] /\ (writer[l] = g => HoldsForWriting(g, l))
    BY <1>1, FinishedFacts, Zenon
  <1>4. l0 \in Lock
    <2>1. Top(stack[g]) \in Frame /\ Top(stack[g]).mode = "Lock"
      BY <1>1, FinishedFacts, Zenon
    <2>2. QED BY <2>1, FrameFacts
  <1> HIDE DEF l0
  <1>5. \A h \in In : /\ h \in Goroutine \ {g} /\ Calls(h)
                      /\ Callee(h).lock = l0 /\ Callee(h).mode = "RLock"
    BY <1>3, <1>4, InvTypes DEF LocksInv, ParkedCall
  <1>6. /\ writer' \in [Lock -> Goroutine \cup {None}] /\ writer'[l0] = None
        /\ parked' \in [Lock -> SUBSET Goroutine] /\ parked'[l0] = {}
        /\ \A l \in Lock \ {l0} : writer'[l] = writer[l] /\ parked'[l] = parked[l]
    BY <1>1, <1>4, InvTypes
  <1> HIDE DEF In
  <1>7. \A h \in Goroutine : stack'[h] \in Seq(Frame) /\ Ordered(stack'[h])
    <2> TAKE h \in Goroutine
    <2>1. CASE h = g
      BY <1>1, <1>2, <2>1, Zenon
    <2>2. CASE h # g /\ h \in In
      <3>1. stack'[h] = Enter(stack[h])
        BY <1>1, <2>2
      <3>2. Calls(h)
        BY <1>5, <2>2, Zenon
      <3>3. Enter(stack[h]) \in Seq(Frame) /\ Ordered(Enter(stack[h]))
        BY <3>2, EnterCallee, Zenon
      <3>4. QED BY <3>1, <3>3
    <2>3. CASE h # g /\ h \notin In
      BY <1>1, <2>3, InvTypes, Zenon
    <2>4. QED BY <2>1, <2>2, <2>3
  <1>8. TypeOK' /\ Layered'
    <2>1. stack' \in [Goroutine -> Seq(Frame)]
      BY <1>1, <1>7
    <2>2. TypeOK'
      BY <1>6, <2>1 DEF TypeOK, Frame, Lock, Network, Register, Book
    <2>3. Layered'
      BY <1>7 DEF Layered, Ordered
    <2>4. QED BY <2>2, <2>3
  <1>9. ParkedCall'
    <2>1. ASSUME NEW l \in Lock, NEW h \in parked'[l]
          PROVE  /\ Calls(h)' /\ Callee(h)'.lock = l /\ Callee(h)'.mode = "RLock"
                 /\ writer'[l] # None
      <3>1. l # l0 /\ h \in parked[l]
        BY <1>6, <2>1
      <3>2. h \in Goroutine /\ Calls(h) /\ Callee(h).lock = l /\ Callee(h).mode = "RLock" /\ writer[l] # None
        BY <3>1, InvTypes DEF LocksInv, ParkedCall
      <3>3. h # g /\ h \notin In
        BY <1>3, <1>5, <3>1, <3>2
      <3>4. stack'[h] = stack[h]
        BY <1>1, <3>2, <3>3
      <3>5. QED BY <1>6, <3>1, <3>2, <3>4, SameStack
    <2>2. QED BY <2>1 DEF ParkedCall, Lock, Network, Register, Book
  <1>10. WriterCalls'
    <2>1. ASSUME NEW l \in Lock, NEW h \in Goroutine, writer'[l] = h
          PROVE  \/ HoldsForWriting(h, l)'
                 \/ Calls(h)' /\ Callee(h)'.lock = l /\ Callee(h)'.mode = "Lock"
      <3>1. l # l0 /\ writer[l] = h
        BY <1>6, <2>1, LocksAssumption
      <3>2. HoldsForWriting(h, l) \/ (Calls(h) /\ Callee(h).lock = l /\ Callee(h).mode = "Lock")
        BY <3>1, WriterHolds
      <3>3. CASE h = g
        <4>1. HoldsForWriting(g, l)
          BY <1>3, <3>1, <3>3
        <4>2. \E i \in DOMAIN Front(stack[g]) :
                Front(stack[g])[i].lock = l /\ Front(stack[g])[i].mode = "Lock"
          BY <1>2, <3>1, <4>1, Zenon
        <4>3. stack'[h] = Front(stack[g])
          BY <1>1, <3>3
        <4>4. QED BY <4>2, <4>3 DEF HoldsForWriting
      <3>4. CASE h # g /\ h \in In
        <4>1. HoldsForWriting(h, l)
          BY <1>5, <3>1, <3>2, <3>4
        <4>2. Calls(h)
          BY <1>5, <3>4
        <4>3. \E i \in DOMAIN Enter(stack[h]) : Enter(stack[h])[i].lock = l /\ Enter(stack[h])[i].mode = "Lock"
          BY <4>1, <4>2, EnterCallee, Zenon
        <4>4. stack'[h] = Enter(stack[h])
          BY <1>1, <3>4
        <4>5. QED BY <4>3, <4>4 DEF HoldsForWriting
      <3>5. CASE h # g /\ h \notin In
        <4>1. stack'[h] = stack[h]
          BY <1>1, <3>5
        <4>2. QED BY <3>2, <4>1, SameStack
      <3>6. QED BY <3>3, <3>4, <3>5
    <2>2. QED BY <2>1 DEF WriterCalls, Lock, Network, Register, Book
  <1>11. QED BY <1>8, <1>9, <1>10 DEF LocksInv

LEMMA StepInv == LocksInv /\ [Next]_vars => LocksInv'
  <1> SUFFICES ASSUME LocksInv, [Next]_vars PROVE LocksInv'
    OBVIOUS
  <1>1. CASE Next
    <2>1. PICK g \in Goroutine :
            \/ \E handler \in Served : Serve(g, handler)
            \/ Proceed(g) \/ Announce(g) \/ Fail(g)
      BY <1>1 DEF Next
    <2>2. QED
      BY <2>1, ServeInv, RLockInv, ParkInv, TakeLockInv, RespondInv, RUnlockInv, UnlockInv,
         AnnounceInv, FailInv, Zenon DEF Proceed
  <1>2. CASE UNCHANGED vars
    BY <1>2 DEF vars, LocksInv, TypeOK, Layered, Ordered, ParkedCall, WriterCalls,
                HoldsForWriting, Calls, Callee, Lock, Network, Register, Book
  <1>3. QED BY <1>1, <1>2

\* What a goroutine is in, and what it has yet to call, are methods that call
\* only further down (service.go, register.go, system.go).
THEOREM LocksTyped == Spec => []TypeOK
  <1>1. LocksInv => TypeOK
    BY DEF LocksInv
  <1>2. QED BY <1>1, InitInv, StepInv, PTL DEF Spec

-----------------------------------------------------------------------------
(* Who waits for whom. *)

\* A goroutine that waits, and holds what another calls, calls further down.
LEMMA HolderIsLower ==
  ASSUME LocksInv, NEW h \in Goroutine, NEW l \in Lock, Holds(h, l), Calls(h)
  PROVE  Rank(Callee(h).lock) > Rank(l)
  <1>1. PICK i \in DOMAIN stack[h] : stack[h][i].lock = l
    BY DEF Holds
  <1>2. Rank(stack[h][i].lock) < Rank(Callee(h).lock)
    BY CallFacts, Zenon
  <1>3. Rank(Callee(h).lock) \in 1 .. 3 /\ Rank(l) \in 1 .. 3
    BY CallFacts, LockRanks
  <1>4. QED BY <1>1, <1>2, <1>3

LEMMA AwaitsDescends ==
  ASSUME LocksInv, NEW S \in SUBSET Goroutine, NEW g \in S,
         \A x \in S : \E y \in S : Awaits(x, y)
  PROVE  \E k \in S : Rank(Callee(k).lock) > Rank(Callee(g).lock)
  <1> DEFINE l == Callee(g).lock
  <1>1. \A x \in S : x \in Goroutine /\ Calls(x)
    BY DEF Awaits
  <1>2. l \in Lock /\ ~Holds(g, l)
    BY <1>1, CallFacts, Zenon
  <1>3. \A k \in S : Holds(k, l) => Rank(Callee(k).lock) > Rank(l)
    BY <1>1, <1>2, HolderIsLower, Zenon
  <1>4. \A k \in S : k \in Readers(l) => Holds(k, l)
    BY DEF Readers, Holds
  <1>5. PICK h \in S : Awaits(g, h)
    OBVIOUS
  <1>6. CASE h \in Readers(l)
    BY <1>3, <1>4, <1>6
  <1>7. CASE writer[l] = h /\ (h # g \/ Holds(g, l))
    <2>1. h # g /\ writer[l] = h
      BY <1>2, <1>7
    <2>2. CASE Holds(h, l)
      BY <1>3, <2>2
    <2>3. CASE ~Holds(h, l)
      <3>1. Calls(h) /\ Callee(h).lock = l
        <4>1. ~HoldsForWriting(h, l)
          BY <2>3 DEF Holds, HoldsForWriting
        <4>2. QED BY <1>1, <1>2, <2>1, <4>1, WriterHolds, Zenon
      <3>2. PICK k \in S : Awaits(h, k)
        OBVIOUS
      <3>3. k \in Readers(l)
        BY <2>1, <2>3, <3>1, <3>2 DEF Awaits
      <3>4. QED BY <1>3, <1>4, <3>3
    <2>4. QED BY <2>2, <2>3
  <1>8. QED BY <1>5, <1>6, <1>7 DEF Awaits

\* No goroutines of any number, at any number of banks, wait for one another in
\* a circle (register.go:24-28, 506-513, system.go:452-540).
THEOREM NoCircularWaitAlways == Spec => []NoCircularWait
  <1>1. LocksInv => NoCircularWait
    <2> SUFFICES ASSUME LocksInv, NEW S \in SUBSET Goroutine, S # {},
                        \A x \in S : \E y \in S : Awaits(x, y)
                 PROVE  FALSE
      BY DEF NoCircularWait
    <2> DEFINE r(x) == Rank(Callee(x).lock)
    <2>1. \A x \in S : r(x) \in 1 .. 3
      BY CallFacts, LockRanks DEF Awaits
    <2>2. \A x \in S : \E k \in S : r(k) > r(x)
      BY AwaitsDescends, Zenon
    <2> HIDE DEF r
    <2>3. PICK a \in S : TRUE
      OBVIOUS
    <2>4. PICK b \in S : r(b) > r(a)
      BY <2>2
    <2>5. PICK c \in S : r(c) > r(b)
      BY <2>2
    <2>6. PICK d \in S : r(d) > r(c)
      BY <2>2
    <2>7. QED BY <2>1, <2>4, <2>5, <2>6
  <1>2. QED BY <1>1, InitInv, StepInv, PTL DEF Spec
=============================================================================
