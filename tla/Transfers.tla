----------------------------- MODULE Transfers ------------------------------
(***************************************************************************)
(* What the payment network promises its customers, without banks, books,  *)
(* cycles, schemes or keys: a transfer takes the money from the payer at   *)
(* once, and brings it to the payee once, or back to the payer once.  It   *)
(* is then final, but that one delivered may be given back.                *)
(*                                                                         *)
(* A transfer is in transit, delivered, bounced, returned or compensated;  *)
(* the last is what the network adds: a return that stopped half way, its  *)
(* payer refunded and its payee not asked.                                 *)
(***************************************************************************)
EXTENDS Integers, Sequences, Functions

CONSTANTS
  Account,
  Sum          \* the amounts transferred and paid in

VARIABLES
  balance,     \* account -> what its customer has
  transfers    \* in the order they were sent

vars == <<balance, transfers>>

(* What the transfers in S bring to account a. *)
Brought(S, a) ==
  LET toA == {n \in S : transfers[n].to = a}
  IN  SumFunctionOnSet([n \in toA |-> transfers[n].amount], toA)

(* The transfers in S put in place p. *)
Put(S, p) ==
  [n \in DOMAIN transfers |->
     IF n \in S THEN [transfers[n] EXCEPT !.place = p] ELSE transfers[n]]

Init ==
  /\ balance = [a \in Account |-> 0]
  /\ transfers = << >>

PayIn(a, amount) ==
  /\ balance' = [balance EXCEPT ![a] = @ + amount]
  /\ UNCHANGED transfers

Send(from, to, amount) ==
  /\ balance' = [balance EXCEPT ![from] = @ - amount]
  /\ transfers' = Append(transfers, [from |-> from, to |-> to, amount |-> amount, place |-> "transit"])

(* Transfers are delivered many at a time, and all of these or none. *)
Deliver(S) ==
  /\ \A n \in S : transfers[n].place = "transit"
  /\ balance' = [a \in Account |-> balance[a] + Brought(S, a)]
  /\ transfers' = Put(S, "delivered")

Bounce(n) ==
  /\ transfers[n].place = "transit"
  /\ balance' = [balance EXCEPT ![transfers[n].from] = @ + transfers[n].amount]
  /\ transfers' = Put({n}, "bounced")

(* The payer has the money again, and the payee no longer. *)
Return(n) ==
  /\ transfers[n].place = "delivered"
  /\ balance' = [[balance EXCEPT ![transfers[n].from] = @ + transfers[n].amount]
                   EXCEPT ![transfers[n].to] = @ - transfers[n].amount]
  /\ transfers' = Put({n}, "returned")

(* The payer has the money again, and the payee as well. *)
Compensate(n) ==
  /\ transfers[n].place = "delivered"
  /\ balance' = [balance EXCEPT ![transfers[n].from] = @ + transfers[n].amount]
  /\ transfers' = Put({n}, "compensated")

Next ==
  \/ \E a \in Account, amount \in Sum : PayIn(a, amount)
  \/ \E from, to \in Account, amount \in Sum : Send(from, to, amount)
  \/ \E S \in SUBSET DOMAIN transfers : Deliver(S)
  \/ \E n \in DOMAIN transfers : Bounce(n) \/ Return(n) \/ Compensate(n)

Spec == Init /\ [][Next]_vars
=============================================================================
