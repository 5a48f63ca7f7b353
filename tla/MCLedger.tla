------------------------------ MODULE MCLedger ------------------------------
(***************************************************************************)
(* The ledger on small instances.  The book of these runs is a bank's:     *)
(* cash (Asset), deposits (Liability) and costs (Expense).                 *)
(***************************************************************************)
EXTENDS Ledger, TLC

CONSTANTS cash, deposits, costs, key1, key2

MCTypeOf == (cash :> "Asset" @@ deposits :> "Liability" @@ costs :> "Expense")

Dr(a, n) == [account |-> a, amount |-> n, direction |-> "Debit"]
Cr(a, n) == [account |-> a, amount |-> n, direction |-> "Credit"]
Call(key, entries) ==
  [entries |-> entries, key |-> key, bookingDate |-> NoDate, valueDate |-> NoDate]

(* Value dates before and after the booking date, chosen by the client. *)
Dated(booking, value) ==
  [entries |-> <<Dr(cash, 1), Cr(deposits, 1)>>, key |-> NoKey,
   bookingDate |-> booking, valueDate |-> value]

(* Valid moves with and without a key, one paying twice from one account,    *)
(* one whose debit and credit of an account cancel out, and calls the code   *)
(* refuses: no entries, a zero amount, unbalanced sides.                     *)
MCRequest ==
  { Call(key1, <<Dr(cash, 2), Cr(deposits, 2)>>),
    Dated(2, 1),
    Call(key2, <<Dr(deposits, 1), Cr(cash, 1)>>),
    Call(NoKey, <<Dr(costs, 1), Cr(cash, 1)>>),
    Call(NoKey, <<Cr(cash, 2), Cr(cash, 1), Dr(costs, 3)>>),
    Call(key1, <<Dr(cash, 1), Cr(cash, 2), Dr(costs, 1)>>),
    Call(NoKey, << >>),
    Call(NoKey, <<Dr(cash, 0), Cr(deposits, 0)>>),
    Call(NoKey, <<Dr(cash, 2), Cr(deposits, 1)>>) }

(* What a call moves if it is accepted: its impact on every account.         *)
MoveOf(req) == [a \in AccountId |-> ImpactOf(TypeOf[a], a, req.entries)]

(* The book seen as a journal of moves: a transaction is the move of its     *)
(* impact on each account, and a balance is the replay of the transactions.  *)
ImpactOn(t) ==
  [a \in AccountId |->
    IF a \in DOMAIN accounts THEN Impact(a, transactions[t].entries) ELSE 0]

Book == INSTANCE Journal WITH
  Move <- {MoveOf(req) : req \in Request},
  DebitTypes <- Checked,
  types <- [a \in DOMAIN accounts |-> accounts[a].type],
  balance <- [a \in AccountId |-> IF a \in DOMAIN accounts THEN BookBalance(a) ELSE 0],
  moves <- [t \in DOMAIN transactions |->
              [effect |-> ImpactOn(t), undone |-> transactions[t].status = "Reversed"]]

(* The book, for all its keys, entries and replays, behaves as a journal:   *)
(* balances move only by balanced moves, never overdraw an Asset or Expense *)
(* account except by undoing, and no move is undone twice (service.go:293,  *)
(* 487, 574).                                                               *)
ImplementsJournal == Book!Spec
=============================================================================
