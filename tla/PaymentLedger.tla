--------------------------- MODULE PaymentLedger ----------------------------
(***************************************************************************)
(* The payment network of module Payment while its operators also use the  *)
(* ledger's own route for reversals (api/handlers_ledger.go:236-252) on     *)
(* the legs the network has posted at the banks.                           *)
(*                                                                         *)
(* A leg is a transaction, found here by its idempotency key; its          *)
(* reversal is one too and may be reversed in turn, so a leg is followed   *)
(* by a chain of reversals, of which each undoes the one before.  The      *)
(* central bank's book has no such route.                                  *)
(***************************************************************************)
EXTENDS Payment

CONSTANT MaxReversals   \* bounds the chain behind a leg

ASSUME ReversalAssumption == MaxReversals \in Nat \ {0}

VARIABLE reversals      \* leg posted -> the length of its chain

ledgerVars == <<vars, reversals>>

DebitLeg(n) == <<DebtorBank(payments[n]), "debit", n>>

(* What a leg k of a bank's book did when it was posted: to the bank's      *)
(* suspense, to its reserve, and to the account of customer a.             *)
ToSuspense(k) ==
  CASE k[2] = "debit" -> payments[k[3]].amount
    [] k[2] = "credit" -> -payments[k[3]].amount
    [] k[2] = "reserve" -> cycles[k[3]].net[k[1]]
    [] OTHER -> 0

ToReserve(k) ==
  CASE k[2] = "reserve" -> cycles[k[3]].net[k[1]]
    [] k[2] = "return-debit" -> payments[k[3]].amount
    [] k[2] = "return-credit" -> -payments[k[3]].amount
    [] OTHER -> 0

ToCustomer(k, a) ==
  CASE k[2] = "debit" /\ a = payments[k[3]].debtor -> -payments[k[3]].amount
    [] k[2] = "credit" /\ a = payments[k[3]].creditor -> payments[k[3]].amount
    [] k[2] = "return-debit" /\ a = payments[k[3]].debtor -> payments[k[3]].amount
    [] k[2] = "return-credit" /\ a = payments[k[3]].creditor -> -payments[k[3]].amount
    [] OTHER -> 0

InForce(k) == reversals[k] % 2 = 0

(* A reversal flips every entry of the transaction it undoes.              *)
(* Fault: it posts them as they were.                                      *)
Repeated(k) == IF InForce(k) THEN 1 ELSE -1
Flipped(k) == IF InForce(k) THEN -1 ELSE 1
-----------------------------------------------------------------------------
LedgerInit == Init /\ reversals = << >>

(* Book.ReverseTransaction through the ledger's route, of the last in the   *)
(* chain behind k: each transaction is reversed once, and no balance is    *)
(* looked at.                                                              *)
ReverseByHand(k) ==
  /\ k[1] # CentralBank
  /\ reversals[k] < MaxReversals
  /\ suspense' = [suspense EXCEPT ![k[1]] = @ + Flipped(k) * ToSuspense(k)]
  /\ reserve' = [reserve EXCEPT ![k[1]] = @ + Flipped(k) * ToReserve(k)]
  /\ customer' = [a \in Account |-> customer[a] + Flipped(k) * ToCustomer(k, a)]
  /\ reversals' = [reversals EXCEPT ![k] = @ + 1]
  /\ UNCHANGED <<status, cbReserve, cbAssets, posted, network>>

(* RejectPayment asks the book to reverse the debtor's leg.                 *)
(* Fault: one reversed already is reversed all the same.                   *)
RejectReversed(n) == TRUE
CanReject(n) == reversals[DebitLeg(n)] = 0

(* A method of the network; the legs it posts have no reversals yet. *)
CallNetwork ==
  LET rejected == {n \in DOMAIN payments : /\ payments[n].status # "Rejected"
                                           /\ payments'[n].status = "Rejected"}
  IN  /\ Next
      /\ \A n \in rejected : CanReject(n)
      /\ reversals' = [k \in posted' |->
           IF k \notin DOMAIN reversals THEN 0
           ELSE IF k \in {DebitLeg(n) : n \in rejected} THEN reversals[k] + 1
           ELSE reversals[k]]

LedgerNext == CallNetwork \/ \E k \in posted : ReverseByHand(k)

LedgerSpec == LedgerInit /\ [][LedgerNext]_ledgerVars
-----------------------------------------------------------------------------
(* The network takes every leg it has posted for in force but the debit of  *)
(* a payment it rejected; in truth its chain decides.                      *)
TakenForInForce(k) == ~(k[2] = "debit" /\ payments[k[3]].status = "Rejected")

(* What reversals by hand have moved at bank b, going by `effect`. *)
MovedByHand(b, effect(_)) ==
  LET undone == {k \in posted : k[1] = b /\ TakenForInForce(k) /\ ~InForce(k)}
      redone == {k \in posted : k[1] = b /\ ~TakenForInForce(k) /\ InForce(k)}
      sum(S) == SumFunctionOnSet([k \in S |-> effect(k)], S)
  IN  sum(redone) - sum(undone)

(* Reversals by hand meet rejections, settlements that stop half way and    *)
(* returns in any order, and a bank's suspense and reserve are still        *)
(* exactly what Payment's SuspenseExact and MirrorExact say of them, but    *)
(* for the legs whose chain contradicts the network's records: no leg is    *)
(* undone both by hand and by the network, and none for nothing             *)
(* (system.go:554-558, service.go:495).                                    *)
SuspenseTraced ==
  \A b \in Participant :
    suspense[b] - MovedByHand(b, ToSuspense) = InFlight(b)
      + SumOver([c \in DOMAIN cycles |-> cycles[c].net[b]],
                {c \in DOMAIN cycles : Halted(c) /\ ~Unused(b, "reserve", c)})

(* And its reserve is the central bank's record of it, but for those legs   *)
(* and what MirrorExact names.                                             *)
ReserveTraced ==
  \A b \in Participant :
    reserve[b] - MovedByHand(b, ToReserve) - cbReserve[b] =
      Total({n \in DOMAIN payments : /\ DebtorBank(payments[n]) = b
                                     /\ ~Unused(b, "return-debit", n)
                                     /\ payments[n].status # "Returned"})
      - SumOver([c \in DOMAIN cycles |-> cycles[c].net[b]],
                {c \in DOMAIN cycles : Halted(c) /\ Unused(b, "reserve", c)})
=============================================================================
