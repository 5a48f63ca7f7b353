------------------------------ MODULE Journal -------------------------------
(***************************************************************************)
(* What a book of accounts promises, without transactions, entries, keys   *)
(* or audit events: each account has a balance; money moves between the    *)
(* accounts in balanced moves, each of them undone at most once.  Amounts  *)
(* wrap around, as those of a book do.                                     *)
(***************************************************************************)
EXTENDS Integers, Sequences, Functions

CONSTANTS
  AccountId,
  Move,       \* the effects a move can have: functions from accounts to integers
  DebitTypes, \* the types debits increase, and a move may not overdraw
  HalfRange   \* an amount lies in -HalfRange..HalfRange-1

VARIABLES
  types,    \* the type of each account opened so far
  balance,  \* the balance of every account, 0 before it is opened
  moves     \* the moves made, each with its effect and whether it was undone

vars == <<types, balance, moves>>

Wrap(n) == ((n + HalfRange) % (2 * HalfRange)) - HalfRange

Moved(delta) == [a \in AccountId |-> Wrap(balance[a] + delta[a])]

(* As much moves on the debit side of the book as on its credit side. *)
Balanced(delta) ==
  LET Total(S) == SumFunction([a \in S |-> delta[a]])
      debitSide == {a \in DOMAIN types : types[a] \in DebitTypes}
  IN  Wrap(Total(debitSide)) = Wrap(Total(DOMAIN types \ debitSide))

Init ==
  /\ types = << >>
  /\ balance = [a \in AccountId |-> 0]
  /\ moves = << >>

Open ==
  /\ DOMAIN types \subseteq DOMAIN types' /\ types # types'
  /\ \A a \in DOMAIN types : types'[a] = types[a]
  /\ UNCHANGED <<balance, moves>>

Make(delta) ==
  /\ Balanced(delta)
  /\ \A a \in DOMAIN types :
       (types[a] \in DebitTypes /\ delta[a] < 0) => Moved(delta)[a] >= 0
  /\ balance' = Moved(delta)
  /\ moves' = Append(moves, [effect |-> delta, undone |-> FALSE])
  /\ UNCHANGED types

Undo(m) ==
  LET inverse == [a \in AccountId |-> Wrap(-moves[m].effect[a])]
  IN  /\ ~moves[m].undone
      /\ balance' = Moved(inverse)
      /\ moves' = Append([moves EXCEPT ![m].undone = TRUE],
                         [effect |-> inverse, undone |-> FALSE])
      /\ UNCHANGED types

Next == Open \/ (\E delta \in Move : Make(delta)) \/ (\E m \in DOMAIN moves : Undo(m))

Spec == Init /\ [][Next]_vars
=============================================================================
