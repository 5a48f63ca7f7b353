------------------------------- MODULE Locks --------------------------------
(***************************************************************************)
(* The locks of the server and the goroutines that take them.              *)
(*                                                                         *)
(* Each request is served by a goroutine of its own.  The network, every   *)
(* register and every book has a sync.RWMutex, taken at the head of each   *)
(* of its methods and released when the method returns; methods of the     *)
(* network call registers and books, methods of a register call its book.  *)
(* A method is modelled by what it locks and by the methods it calls, in   *)
(* their order; what it does to the data is in Ledger, Deposit and Payment.*)
(*                                                                         *)
(* The mutex is Go's: a writer that waits keeps later readers out, and the *)
(* readers that wait when it unlocks are let in before the next writer.    *)
(***************************************************************************)
EXTENDS Integers, Sequences, SequencesExt

CONSTANTS
  Goroutine,        \* those that serve requests
  Bank,             \* the participants
  CentralBank,      \* owns a book, and the network
  None,             \* no goroutine
  Served            \* the requests that clients make

VARIABLES
  stack,            \* goroutine -> the methods it is in, the innermost last
  writer,           \* lock -> the goroutine that holds or waits to hold it for writing
  parked            \* lock -> the goroutines whose RLock waits for a writer

vars == <<stack, writer, parked>>

-----------------------------------------------------------------------------
\* The locks, by layer.

Network == <<"network", CentralBank>>
Register(b) == <<"register", b>>
Book(b) == <<"book", b>>
NoLock == <<"handler", CentralBank>>     \* a handler takes none itself

Lock == {Network} \cup {Register(b) : b \in Bank}
          \cup {Book(b) : b \in Bank \cup {CentralBank}}

\* A method: the lock it takes, how, and the calls it makes meanwhile.

Method(lock, mode, calls) == [lock |-> lock, mode |-> mode, calls |-> calls]
Reads(lock, calls) == Method(lock, "RLock", calls)
Writes(lock, calls) == Method(lock, "Lock", calls)

\* Every method of a book.
BookRead(b) == Reads(Book(b), << >>)
BookWrite(b) == Writes(Book(b), << >>)

\* The methods of a register: those that stay in it; OpenAccount and
\* CaptureHold; Close, CreateHold and TakeEndOfDaySnapshot; and, without its
\* lock for writing, GetBalance and CheckWithdrawal.  Fault: the last asks
\* GetBalance for what is available instead of computing it under its lock; an
\* account is opened only after the bank was looked up in the network.
GetAccount(b) == Reads(Register(b), << >>)
SetStatus(b) == Writes(Register(b), << >>)
OpenAfterLookup(b) == Writes(Register(b), <<Reads(Network, << >>), BookWrite(b)>>)
OpenAccount(b) == Writes(Register(b), <<BookWrite(b)>>)
CreateHold(b) == Writes(Register(b), <<BookRead(b)>>)
GetBalance(b) == Reads(Register(b), <<BookRead(b)>>)
CheckByGetBalance(b) == Reads(Register(b), <<GetBalance(b)>>)
CheckWithdrawal(b) == Reads(Register(b), <<BookRead(b)>>)
RegisterMethods(b) ==
  {GetAccount(b), SetStatus(b), OpenAccount(b), CreateHold(b), GetBalance(b)}

\* The methods of the network: its lookups and listings; OpenCycle, CloseCycle
\* and RevokeMandate; and those that call the banks, d the debtor's bank and c
\* the creditor's.
GetParticipant == Reads(Network, << >>)
ReserveBalance == Reads(Network, <<BookRead(CentralBank)>>)
OpenCycle == Writes(Network, << >>)
AddParticipant == Writes(Network, <<BookWrite(CentralBank)>>)  \* its own book is nobody's yet
Deposit(b) == Writes(Network, <<GetAccount(b), BookWrite(b), BookWrite(CentralBank)>>)
CreateMandate(d, c) == Writes(Network, <<GetAccount(d), GetAccount(c)>>)
InitiatePayment(d, c) ==
  Writes(Network, << GetAccount(d), GetAccount(c), GetAccount(d), CheckWithdrawal(d),
                     GetAccount(d), BookWrite(d) >>)
RejectPayment(d) == Writes(Network, <<BookWrite(d)>>)
ReturnPayment(d, c) ==
  Writes(Network, << GetAccount(d), GetAccount(c),
                     BookWrite(d), BookWrite(c), BookWrite(CentralBank) >>)

\* The banks with a net position are walked in no particular order; a creditor
\* here stands for the payments to be credited at its bank, one after the other.
SettleCycle(netted, creditor) ==
  Writes(Network, (IF netted = << >> THEN << >> ELSE <<BookWrite(CentralBank)>>)
                    \o [i \in DOMAIN netted |-> BookWrite(netted[i])]
                    \o <<GetAccount(creditor), BookWrite(creditor)>>)

\* The calls the handlers make, in order.  Most first look up the bank.
AtBank ==
  UNION { {<<GetParticipant, m>> : m \in RegisterMethods(b) \cup {BookRead(b), BookWrite(b)}}
            \cup {<<GetParticipant, SetStatus(b), GetAccount(b)>>,
                  <<GetParticipant, Deposit(b), GetBalance(b)>>} : b \in Bank }
BetweenBanks(d) ==
  UNION { {<<CreateMandate(d, c)>>, <<InitiatePayment(d, c)>>,
           <<ReturnPayment(d, c)>>, <<RejectPayment(d)>>} : c \in Bank }
\* The banks whose positions are not zero: none or several, in any order.
Settlements(c) ==
  {<<SettleCycle(netted, c)>> :
     netted \in UNION {SetToSeqs(banks) : banks \in {B \in SUBSET Bank : Cardinality(B) # 1}}}
OnNetwork ==
  {<<GetParticipant>>, <<OpenCycle>>, <<OpenCycle, GetParticipant>>, <<AddParticipant>>}
    \cup UNION {BetweenBanks(b) \cup Settlements(b) : b \in Bank}
OfCentralBank ==
  {<<ReserveBalance>>, <<BookRead(CentralBank)>>,
   <<GetParticipant>> \o [b \in 1 .. Cardinality(Bank) |-> ReserveBalance]}
Handlers == AtBank \cup OnNetwork \cup OfCentralBank

ASSUME LocksAssumption ==
  IsFiniteSet(Bank) /\ None \notin Goroutine /\ Served \subseteq Handlers

-----------------------------------------------------------------------------
Top(s) == s[Len(s)]
Holds(g, lock) == \E i \in DOMAIN stack[g] : stack[g][i].lock = lock
Readers(lock) ==
  {g \in Goroutine : \E i \in DOMAIN stack[g] :
                       stack[g][i].lock = lock /\ stack[g][i].mode = "RLock"}

\* Goroutine g is about to call a method, or waits for its lock.
Calls(g) == stack[g] # << >> /\ Top(stack[g]).calls # << >>
Callee(g) == Head(Top(stack[g]).calls)
Waits(g) ==
  Calls(g) /\ (g \in parked[Callee(g).lock] \/ (writer[Callee(g).lock] = g /\ ~Holds(g, Callee(g).lock)))

\* A method that has only some of its calls yet to make.
Left(method, calls) == Method(method.lock, method.mode, calls)

\* Into the method called; and every method left with nothing more to call.
Enter(s) ==
  Append([s EXCEPT ![Len(s)] = Left(@, Tail(@.calls))], Head(Top(s).calls))
Unwound(s) == [i \in DOMAIN s |-> Left(s[i], << >>)]

Init ==
  /\ stack = [g \in Goroutine |-> << >>]
  /\ writer = [l \in Lock |-> None]
  /\ parked = [l \in Lock |-> {}]

Serve(g, handler) ==
  /\ stack[g] = << >>
  /\ stack' = [stack EXCEPT ![g] = <<Method(NoLock, "none", handler)>>]
  /\ UNCHANGED <<writer, parked>>

RLock(g) ==
  LET l == Callee(g).lock
  IN  /\ Calls(g) /\ Callee(g).mode = "RLock"
      /\ writer[l] = None
      /\ stack' = [stack EXCEPT ![g] = Enter(@)]
      /\ UNCHANGED <<writer, parked>>

Park(g) ==
  LET l == Callee(g).lock
  IN  /\ Calls(g) /\ Callee(g).mode = "RLock"
      /\ writer[l] # None /\ g \notin parked[l]
      /\ parked' = [parked EXCEPT ![l] = @ \cup {g}]
      /\ UNCHANGED <<stack, writer>>

\* A writer keeps other writers and new readers out from here on.
Announce(g) ==
  LET l == Callee(g).lock
  IN  /\ Calls(g) /\ Callee(g).mode = "Lock"
      /\ writer[l] = None
      /\ writer' = [writer EXCEPT ![l] = g]
      /\ UNCHANGED <<stack, parked>>

TakeLock(g) ==
  LET l == Callee(g).lock
  IN  /\ Calls(g) /\ Callee(g).mode = "Lock"
      /\ writer[l] = g /\ Readers(l) = {} /\ ~Holds(g, l)
      /\ stack' = [stack EXCEPT ![g] = Enter(@)]
      /\ UNCHANGED <<writer, parked>>

\* An error goes up through every method to the handler, which answers with it.
\* Fault: it does so past the unlocks.
FailLocked(g) ==
  /\ Calls(g) /\ ~Waits(g)
  /\ stack' = [stack EXCEPT ![g] = << >>]
  /\ UNCHANGED <<writer, parked>>
Fail(g) ==
  /\ Calls(g) /\ ~Waits(g)
  /\ stack' = [stack EXCEPT ![g] = Unwound(@)]
  /\ UNCHANGED <<writer, parked>>

Finished(g, mode) ==
  stack[g] # << >> /\ Top(stack[g]).calls = << >> /\ Top(stack[g]).mode = mode

Respond(g) ==
  /\ Finished(g, "none")
  /\ stack' = [stack EXCEPT ![g] = << >>]
  /\ UNCHANGED <<writer, parked>>

RUnlock(g) ==
  /\ Finished(g, "RLock")
  /\ stack' = [stack EXCEPT ![g] = Front(@)]
  /\ UNCHANGED <<writer, parked>>

\* The readers that wait are let in, and then other writers may announce.
Unlock(g) ==
  LET l == Top(stack[g]).lock
  IN  /\ Finished(g, "Lock")
      /\ stack' = [h \in Goroutine |-> IF h = g THEN Front(stack[g])
                                       ELSE IF h \in parked[l] THEN Enter(stack[h])
                                       ELSE stack[h]]
      /\ writer' = [writer EXCEPT ![l] = None]
      /\ parked' = [parked EXCEPT ![l] = {}]

Proceed(g) ==
  RLock(g) \/ Park(g) \/ TakeLock(g) \/ Respond(g) \/ RUnlock(g) \/ Unlock(g)

Next ==
  \E g \in Goroutine :
    \/ \E handler \in Served : Serve(g, handler)
    \/ Proceed(g) \/ Announce(g) \/ Fail(g)

Spec == Init /\ [][Next]_vars

\* A goroutine that can go on does; and one of the writers that compete for a
\* mutex again and again gets it, as sync.Mutex promises by its starvation mode.
FairSpec ==
  Spec /\ \A g \in Goroutine : WF_vars(Proceed(g)) /\ SF_vars(Announce(g))
-----------------------------------------------------------------------------
\* What the methods of each layer may call: only layers further down.
Mode == {"RLock", "Lock"}
BookMethod == [lock: {Book(b) : b \in Bank \cup {CentralBank}}, mode: Mode, calls: {<< >>}]
RegisterMethod == [lock: {Register(b) : b \in Bank}, mode: Mode, calls: Seq(BookMethod)]
NetworkMethod == [lock: {Network}, mode: Mode, calls: Seq(RegisterMethod \cup BookMethod)]
AnyMethod == NetworkMethod \cup RegisterMethod \cup BookMethod
Handler == [lock: {NoLock}, mode: {"none"}, calls: Seq(AnyMethod)]

\* Types: what a goroutine is in, and what it has yet to call, are methods that
\* call only into the layers below their own.
TypeOK ==
  /\ stack \in [Goroutine -> Seq(Handler \cup AnyMethod)]
  /\ writer \in [Lock -> Goroutine \cup {None}]
  /\ parked \in [Lock -> SUBSET Goroutine]

\* Goroutine g cannot go on before h does something: h keeps g out of a lock.
\* A goroutine may wait for itself.
Awaits(g, h) ==
  LET l == Callee(g).lock
  IN  /\ Calls(g)
      /\ \/ writer[l] = h /\ (h # g \/ Holds(g, l))
         \/ Callee(g).mode = "Lock" /\ writer[l] = g /\ h \in Readers(l)

\* No goroutines wait for one another in a circle, or one for itself: the
\* methods of the three layers nest without deadlock, although a reader that
\* locks again behind a waiting writer would stop for ever (register.go:24-28,
\* 506-513, system.go:452-540).
NoCircularWait ==
  \A S \in SUBSET Goroutine :
    S # {} => \E g \in S : \A h \in S : ~Awaits(g, h)

\* Every request is answered, whatever the others do (service.go:293,
\* register.go:24-28, system.go:321).
RequestsAnswered == \A g \in Goroutine : stack[g] # << >> ~> stack[g] = << >>
=============================================================================
