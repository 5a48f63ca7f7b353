-------------------------- MODULE MCPaymentLedger ---------------------------
(***************************************************************************)
(* The payment network beside the ledger's route for reversals: two banks  *)
(* with a customer each.                                                   *)
(***************************************************************************)
EXTENDS PaymentLedger, TLC

CONSTANTS bankA, bankB, alice, bob

MCBankOf == (alice :> bankA @@ bob :> bankB)
MCLimit == [a \in Account |-> 0]
=============================================================================
