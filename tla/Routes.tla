------------------------------- MODULE Routes -------------------------------
(***************************************************************************)
(* The HTTP API (api/) as its clients see it: for each route, named as the *)
(* console names it (web/src/lib/api/endpoints.ts), the parts of the       *)
(* server's state it reads or changes.                                     *)
(*                                                                         *)
(* A part is a pair of its owner and its kind.  Of a bank b:               *)
(*   "ledgers", "subledgers", "accounts"   its chart of accounts           *)
(*   "journal"       its transactions, hence every balance                 *)
(*   "reversed"      the status of transactions already posted             *)
(*   "audit"         its ledger's audit log                                *)
(*   "deposits", "holds", "snapshots", "depositAudit"  its register        *)
(* and of the network: "participants", "reserves", "centralAudit" (the     *)
(* central bank's book and log), "mandates", "payments", "cycles" and      *)
(* "settlements".                                                          *)
(*                                                                         *)
(* What a route changes is what it changes when it succeeds; one that      *)
(* fails half way changes some of it and answers with an error.            *)
(***************************************************************************)

Of(owner, kinds) == {owner} \X kinds
Network(kinds) == {"network"} \X kinds

-----------------------------------------------------------------------------
\* The ledger of bank b.

LedgerReads(b) ==
    [ listLedgers      |-> Of(b, {"ledgers"}),
      listSubledgers   |-> Of(b, {"subledgers"}),
      listAccounts     |-> Of(b, {"accounts"}),
      getBookBalance   |-> Of(b, {"journal"}),
      listTransactions |-> Of(b, {"journal", "reversed"}),
      getTransaction   |-> Of(b, {"reversed"}),
      ledgerAudit      |-> Of(b, {"audit"}) ]

LedgerChanges(b) ==
    [ createLedger       |-> Of(b, {"ledgers", "audit"}),
      createSubledger    |-> Of(b, {"subledgers", "audit"}),
      createAccount      |-> Of(b, {"accounts", "audit"}),
      postTransaction    |-> Of(b, {"journal", "audit"}),
      reverseTransaction |-> Of(b, {"journal", "reversed", "audit"}) ]

\* Not a route: the console walks the ledgers and subledgers for the accounts
\* in them.  A ledger or subledger that is still empty adds nothing.
GetAllAccounts(b) == LedgerReads(b).listAccounts

-----------------------------------------------------------------------------
\* The deposit register of bank b.  A balance is the book's, less the holds.

DepositReads(b) ==
    [ listDepositAccounts |-> Of(b, {"deposits"}),
      getDepositAccount   |-> Of(b, {"deposits"}),
      getDepositBalance   |-> Of(b, {"journal", "holds"}),
      listHolds           |-> Of(b, {"holds"}),
      listSnapshots       |-> Of(b, {"snapshots"}),
      depositAudit        |-> Of(b, {"depositAudit"}) ]

\* Opening an account opens its GL account; a capture posts to the ledger.
DepositChanges(b) ==
    [ openDepositAccount  |-> Of(b, {"deposits", "depositAudit", "accounts", "audit"}),
      setDepositStatus    |-> Of(b, {"deposits", "depositAudit"}),
      closeDepositAccount |-> Of(b, {"deposits", "depositAudit"}),
      createHold          |-> Of(b, {"holds", "depositAudit"}),
      releaseHold         |-> Of(b, {"holds", "depositAudit"}),
      captureHold         |-> Of(b, {"holds", "depositAudit", "journal", "audit"}),
      takeSnapshot        |-> Of(b, {"snapshots", "depositAudit"}) ]

-----------------------------------------------------------------------------
\* Participants and the central bank.  Schemes never change.

ParticipantReads ==
    [ listParticipants |-> Network({"participants"}),
      getParticipant   |-> Network({"participants"}),
      listSchemes      |-> {},
      listReserves     |-> Network({"participants", "reserves"}),
      getReserve       |-> Network({"reserves"}),
      centralBankAudit |-> Network({"centralAudit"}) ]

\* A new bank has an account at the central bank.  Funding posts in the bank's
\* book and in the central bank's.
ParticipantChanges(b) ==
    [ addParticipant |-> Network({"participants", "centralAudit"}),
      fundDeposit    |-> Of(b, {"journal", "audit"})
                             \cup Network({"reserves", "centralAudit"}) ]

-----------------------------------------------------------------------------
\* Mandates, payments, cycles and settlements.

PaymentReads ==
    [ mandates    |-> Network({"mandates"}),
      payments    |-> Network({"payments"}),
      cycles      |-> Network({"cycles"}),
      settlements |-> Network({"settlements"}) ]

\* bs: the banks whose books the call posts to.
PaymentChanges(bs) ==
    LET Posted == bs \X {"journal", "audit"} IN
    [ createMandate   |-> Network({"mandates"}),
      revokeMandate   |-> Network({"mandates"}),
      openCycle       |-> Network({"cycles"}),
      initiatePayment |-> Network({"payments", "cycles"}) \cup Posted,
      rejectPayment   |-> Network({"payments", "cycles"}) \cup Posted
                              \cup (bs \X {"reversed"}),
      closeCycle      |-> Network({"payments", "cycles"}),
      settleCycle     |-> Network({"payments", "cycles", "settlements",
                                   "reserves", "centralAudit"}) \cup Posted,
      returnPayment   |-> Network({"payments", "reserves", "centralAudit"})
                              \cup Posted ]

=============================================================================
