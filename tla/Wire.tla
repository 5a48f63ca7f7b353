-------------------------------- MODULE Wire --------------------------------
(***************************************************************************)
(* The HTTP calls of the web console (web/src/lib/api/endpoints.ts, with   *)
(* the bodies of web/src/lib/types.ts) beside the routes the server        *)
(* registers and the bodies its handlers decode (api/handlers_*.go,        *)
(* api/dto.go).  The two are written by hand, in two languages.            *)
(*                                                                         *)
(* A path is the sequence of its segments, Any standing for an identifier. *)
(* A body is a set of fields, each a path of keys and the kinds of value   *)
(* it may hold; the body of a call with none is the empty set.             *)
(***************************************************************************)
EXTENDS Sequences

Any == "*"

Text == {"string"}
\* Cents: the console sends doubles, and null for an infinite one; the server reads
\* int64s.
Amount == {"int64", "beyond int64", "null"}
Int64 == {"int64"}
Instant == {"RFC 3339"}
CalendarDay == {"YYYY-MM-DD"}
Map == {"map of strings"}
AccountTypes == {"Asset", "Liability", "Equity", "Revenue", "Expense"}
Directions == {"Debit", "Credit"}
StatusActions == {"freeze", "unfreeze", "markDormant", "reactivate"}
OrNull(kinds) == kinds \cup {"null"}

Field(name, kinds) == {[key |-> <<name>>, kinds |-> kinds]}
Within(name, fields) == {[f EXCEPT !.key = <<name>> \o @] : f \in fields}

InBank(path) == <<"participants", Any>> \o path

-----------------------------------------------------------------------------
\* The console's side.

Call(method, path, body) == [method |-> method, path |-> path, body |-> body]
Get(path) == Call("GET", path, {})
Post(path, body) == Call("POST", path, body)

NameRequest == Field("name", Text)
CreateAccountRequest == Field("name", Text) \cup Field("type", AccountTypes)
EntryInput ==
    Field("accountId", Text) \cup Field("amount", Amount) \cup Field("direction", Directions)
PostTransactionRequest ==
    Field("idempotencyKey", Text) \cup Within("entries", EntryInput)
        \cup Field("bookingDate", OrNull(Instant)) \cup Field("valueDate", OrNull(Instant))
        \cup Field("description", Text) \cup Field("metadata", OrNull(Map))
OpenDepositAccountRequest == Field("name", Text) \cup Field("overdraftLimit", Amount)
StatusRequest == Field("action", StatusActions)
\* Fault: the day as the date input gives it.
CreateHoldOnDay == Field("amount", Amount) \cup Field("expiresAt", OrNull(CalendarDay))
CreateHoldRequest ==
    Field("amount", Amount) \cup Field("expiresAt", OrNull(Instant))
        \cup Field("description", Text)
CaptureHoldRequest ==
    Field("counterparty", Text) \cup Field("amount", Amount) \cup Field("description", Text)
SnapshotRequest == Field("date", CalendarDay)
FundRequest ==
    Field("account", Text) \cup Field("amount", Amount) \cup Field("description", Text)
PartyRef == Field("participant", Text) \cup Field("account", Text) \cup Field("iban", Text)
CreateMandateRequest ==
    Within("debtor", PartyRef) \cup Within("creditor", PartyRef) \cup Field("maxAmount", Amount)
InitiatePaymentRequest ==
    Within("debtor", PartyRef) \cup Within("creditor", PartyRef)
        \cup Field("scheme", Text) \cup Field("amount", Amount)
        \cup Field("mandateId", Text) \cup Field("endToEndId", Text)
        \cup Field("description", Text) \cup Field("metadata", OrNull(Map))
OpenCycleRequest == Field("scheme", Text)
ReasonRequest == Field("reason", Text)
DescriptionRequest == Field("description", Text)

ParticipantCalls ==
    [ listParticipants |-> Get(<<"participants">>),
      getParticipant   |-> Get(InBank(<<>>)),
      addParticipant   |-> Post(<<"participants">>, NameRequest),
      fundDeposit      |-> Post(InBank(<<"deposits">>), FundRequest),
      listSchemes      |-> Get(<<"schemes">>),
      listReserves     |-> Get(<<"central-bank", "reserves">>),
      getReserve       |-> Get(<<"central-bank", "reserves", Any>>),
      centralBankAudit |-> Get(<<"central-bank", "audit">>) ]

LedgerCalls ==
    LET ledgers == InBank(<<"ledgers">>)
        subledgers == ledgers \o <<Any, "subledgers">>
        accounts == InBank(<<"subledgers", Any, "accounts">>)
        transactions == InBank(<<"transactions">>)
        one == transactions \o <<Any>>
    IN
    [ listLedgers        |-> Get(ledgers),
      createLedger       |-> Post(ledgers, NameRequest),
      listSubledgers     |-> Get(subledgers),
      createSubledger    |-> Post(subledgers, NameRequest),
      listAccounts       |-> Get(accounts),
      createAccount      |-> Post(accounts, CreateAccountRequest),
      getBookBalance     |-> Get(InBank(<<"accounts", Any, "balance">>)),
      listTransactions   |-> Get(transactions),
      getTransaction     |-> Get(one),
      postTransaction    |-> Post(transactions, PostTransactionRequest),
      reverseTransaction |-> Post(one \o <<"reversal">>, DescriptionRequest),
      ledgerAudit        |-> Get(InBank(<<"audit">>)) ]

\* Not a route: the console walks the chart of accounts.
GetAllAccounts ==
    {"listLedgers", "listSubledgers", "listAccounts"}

DepositCalls ==
    LET all == InBank(<<"deposit-accounts">>)
        one == all \o <<Any>>
        hold == InBank(<<"holds", Any>>)
    IN
    [ listDepositAccounts |-> Get(all),
      getDepositAccount   |-> Get(one),
      openDepositAccount  |-> Post(all, OpenDepositAccountRequest),
      getDepositBalance   |-> Get(one \o <<"balance">>),
      setDepositStatus    |-> Post(one \o <<"status">>, StatusRequest),
      closeDepositAccount |-> Call("DELETE", one, {}),
      listHolds           |-> Get(one \o <<"holds">>),
      createHold          |-> Post(one \o <<"holds">>, CreateHoldRequest),
      getHold             |-> Get(hold),
      releaseHold         |-> Post(hold \o <<"release">>, {}),
      captureHold         |-> Post(hold \o <<"capture">>, CaptureHoldRequest),
      listSnapshots       |-> Get(one \o <<"snapshots">>),
      takeSnapshot        |-> Post(one \o <<"snapshots">>, SnapshotRequest),
      depositAudit        |-> Get(InBank(<<"deposit-audit">>)) ]

PaymentCalls ==
    [ listMandates    |-> Get(<<"mandates">>),
      getMandate      |-> Get(<<"mandates", Any>>),
      createMandate   |-> Post(<<"mandates">>, CreateMandateRequest),
      revokeMandate   |-> Post(<<"mandates", Any, "revoke">>, {}),
      listPayments    |-> Get(<<"payments">>),
      getPayment      |-> Get(<<"payments", Any>>),
      initiatePayment |-> Post(<<"payments">>, InitiatePaymentRequest),
      rejectPayment   |-> Post(<<"payments", Any, "reject">>, ReasonRequest),
      returnPayment   |-> Post(<<"payments", Any, "return">>, ReasonRequest),
      listCycles      |-> Get(<<"cycles">>),
      getCycle        |-> Get(<<"cycles", Any>>),
      openCycle       |-> Post(<<"cycles">>, OpenCycleRequest),
      closeCycle      |-> Post(<<"cycles", Any, "close">>, {}),
      settleCycle     |-> Post(<<"cycles", Any, "settle">>, {}),
      listSettlements |-> Get(<<"settlements">>),
      getSettlement   |-> Get(<<"settlements", Any>>) ]

Named(name) ==
    CASE name \in DOMAIN ParticipantCalls -> ParticipantCalls[name]
      [] name \in DOMAIN LedgerCalls -> LedgerCalls[name]
      [] name \in DOMAIN DepositCalls -> DepositCalls[name]
      [] name \in DOMAIN PaymentCalls -> PaymentCalls[name]

-----------------------------------------------------------------------------
\* The server's side: a route, and the fields its handler decodes (the empty
\* set where the handler reads no body).

Route(method, path, decodes) == [method |-> method, path |-> path, decodes |-> decodes]
Reads(paths) == {Route("GET", path, {}) : path \in paths}
Posts(path, decodes) == {Route("POST", path, decodes)}

nameRequest == Field("name", Text)
createAccountRequest == Field("name", Text) \cup Field("type", AccountTypes)
entryDTO ==
    Field("id", Text) \cup Field("accountId", Text)
        \cup Field("amount", OrNull(Int64)) \cup Field("direction", Directions)
postTransactionRequest ==
    Field("idempotencyKey", Text) \cup Within("entries", entryDTO)
        \cup Field("bookingDate", OrNull(Instant)) \cup Field("valueDate", OrNull(Instant))
        \cup Field("description", Text) \cup Field("metadata", OrNull(Map))
openDepositAccountRequest == Field("name", Text) \cup Field("overdraftLimit", OrNull(Int64))
statusRequest == Field("action", StatusActions)
createHoldRequest ==
    Field("amount", OrNull(Int64)) \cup Field("expiresAt", OrNull(Instant))
        \cup Field("description", Text)
captureHoldRequest ==
    Field("counterparty", Text) \cup Field("amount", OrNull(Int64))
        \cup Field("description", Text)
snapshotRequest == Field("date", CalendarDay)
fundRequest ==
    Field("account", Text) \cup Field("amount", OrNull(Int64)) \cup Field("description", Text)
partyRefDTO == Field("participant", Text) \cup Field("account", Text) \cup Field("iban", Text)
createMandateRequest ==
    Within("debtor", partyRefDTO) \cup Within("creditor", partyRefDTO)
        \cup Field("maxAmount", OrNull(Int64))
initiatePaymentRequest ==
    Within("debtor", partyRefDTO) \cup Within("creditor", partyRefDTO)
        \cup Field("scheme", Text) \cup Field("amount", OrNull(Int64))
        \cup Field("mandateId", Text) \cup Field("endToEndId", Text)
        \cup Field("description", Text) \cup Field("metadata", OrNull(Map))
openCycleRequest == Field("scheme", Text)
reasonRequest == Field("reason", Text)
descriptionRequest == Field("description", Text)

ParticipantRoutes ==
    Reads({ <<"participants">>, InBank(<<>>), <<"schemes">>,
            <<"central-bank", "reserves">>, <<"central-bank", "reserves", Any>>,
            <<"central-bank", "audit">> })
        \cup Posts(<<"participants">>, nameRequest)
        \cup Posts(InBank(<<"deposits">>), fundRequest)

LedgerRoutes ==
    LET ledgers == InBank(<<"ledgers">>)
        subledgers == ledgers \o <<Any, "subledgers">>
        accounts == InBank(<<"subledgers", Any, "accounts">>)
        transactions == InBank(<<"transactions">>)
        one == transactions \o <<Any>>
    IN
    Reads({ ledgers, ledgers \o <<Any>>, subledgers, InBank(<<"subledgers", Any>>),
            accounts, InBank(<<"accounts", Any>>), InBank(<<"accounts", Any, "balance">>),
            transactions, one, InBank(<<"audit">>) })
        \cup Posts(ledgers, nameRequest)
        \cup Posts(subledgers, nameRequest)
        \cup Posts(accounts, createAccountRequest)
        \cup Posts(transactions, postTransactionRequest)
        \cup Posts(one \o <<"reversal">>, descriptionRequest)

DepositRoutes ==
    LET all == InBank(<<"deposit-accounts">>)
        one == all \o <<Any>>
        hold == InBank(<<"holds", Any>>)
    IN
    Reads({ all, one, one \o <<"balance">>, one \o <<"holds">>, hold,
            one \o <<"snapshots">>, InBank(<<"deposit-audit">>) })
        \cup Posts(all, openDepositAccountRequest)
        \cup Posts(one \o <<"status">>, statusRequest)
        \cup {Route("DELETE", one, {})}
        \cup Posts(one \o <<"holds">>, createHoldRequest)
        \cup Posts(hold \o <<"release">>, {})
        \cup Posts(hold \o <<"capture">>, captureHoldRequest)
        \cup Posts(one \o <<"snapshots">>, snapshotRequest)

PaymentPaths ==
    { path \o id : path \in {<<"mandates">>, <<"payments">>, <<"cycles">>, <<"settlements">>},
                   id \in {<<>>, <<Any>>} }

PaymentRoutes ==
    Reads(PaymentPaths)
        \cup Posts(<<"mandates">>, createMandateRequest)
        \cup Posts(<<"mandates", Any, "revoke">>, {})
        \cup Posts(<<"payments">>, initiatePaymentRequest)
        \cup Posts(<<"payments", Any, "reject">>, reasonRequest)
        \cup Posts(<<"payments", Any, "return">>, reasonRequest)
        \cup Posts(<<"cycles">>, openCycleRequest)
        \cup Posts(<<"cycles", Any, "close">>, {})
        \cup Posts(<<"cycles", Any, "settle">>, {})

AllRoutes == ParticipantRoutes \cup LedgerRoutes \cup DepositRoutes \cup PaymentRoutes

\* Decoding refuses an empty body and a field it does not know.
Decodes(decodes, body) ==
    /\ body # {}
    /\ \A f \in body : \E g \in decodes : f.key = g.key /\ f.kinds \subseteq g.kinds

\* The methods the console's proxy hands on.
Proxied == {"GET", "POST", "DELETE", "OPTIONS"}

\* The server reads that body in that call.
Handled(call, body) ==
    /\ call.method \in Proxied
    /\ \E r \in AllRoutes :
        /\ r.method = call.method
        /\ r.path = call.path
        /\ r.decodes = {} \/ Decodes(r.decodes, body)

\* A body in which no amount is beyond int64.
Fitting(body) == {[key |-> f.key, kinds |-> f.kinds \ {"beyond int64"}] : f \in body}

\* The server reads the call of that name: always, or if its amounts fit.
ServedWhole(name) == Handled(Named(name), Named(name).body)
Served(name) == Handled(Named(name), Fitting(Named(name).body))

=============================================================================
