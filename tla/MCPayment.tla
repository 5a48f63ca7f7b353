----------------------------- MODULE MCPayment ------------------------------
(***************************************************************************)
(* The payment network on small instances: two banks, each with one        *)
(* customer, or one of them with two.                                      *)
(***************************************************************************)
EXTENDS Payment, TLC

CONSTANTS bankA, bankB, alice, anna, bob

MCBankOf == (alice :> bankA @@ bob :> bankB)
MCBankOf3 == (alice :> bankA @@ anna :> bankA @@ bob :> bankB)

NoOverdraft == [a \in Account |-> 0]
AliceOverdraft == [a \in Account |-> IF a = alice THEN 1 ELSE 0]
=============================================================================
