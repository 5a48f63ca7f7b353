------------------------------ MODULE Screens -------------------------------
(***************************************************************************)
(* The forms of the web console and the dialogs that confirm an operation  *)
(* (web/src/components, web/src/app): for each, the call it makes, the     *)
(* inputs it needs, what it does once the call is answered, and the        *)
(* statuses of an object in which its page offers it.  Beside them, the    *)
(* moves the server allows an object to make.                              *)
(***************************************************************************)
EXTENDS Wire

-----------------------------------------------------------------------------
\* What a page shows of the object it is about: its status, or that it has not
\* been loaded, or that loading it failed.

Loading == "loading"
Failed == "failed"
Nothing == "nothing"      \* the status where a form is about no object
Bound == {Nothing, Loading, Failed}    \* shown whether or not the page has loaded

\* A form that is about no object, is always shown, and whose submit awaits its
\* call (mutateAsync).  The fields:
\*   call, reads       the call it makes, the reads of the page it is on, by name
\*   of, offered       the kind of object, and when the page shows the form
\*   op                the move of the object it asks for
\*   required, initial the inputs its button waits for; those filled at first
\*   kept              the inputs a success leaves filled
\*   settles           "await" or "callback" (mutate's onSuccess)
\*   hook              what owns its useMutation: the form, its page, the shell
\*   goes              how a success leaves the page: "no", "await", "callback"
\*   keyed             sends an idempotency key
\*   inline            is part of the page and not a dialog
\*   copied            shows a copy of its object, taken when it was clicked
Form(call, required, reads) ==
    [ call |-> call, reads |-> reads, of |-> Nothing, offered |-> Bound, op |-> "none",
      required |-> required, initial |-> {}, kept |-> {}, settles |-> "await",
      hook |-> "form", goes |-> "no", keyed |-> FALSE, inline |-> FALSE,
      copied |-> FALSE ]

On(kind, op, offered, plain) == [plain EXCEPT !.of = kind, !.op = op, !.offered = offered]

\* A ConfirmAction: its page owns the mutation; a text it asks for is required
\* or not.  A row of the page may own it instead (a hold's, a mandate's, a
\* ledger's, a subledger's), which an error of the page takes away; the two are
\* not told apart.
Confirm(kind, op, offered, call, required, reads) ==
    [On(kind, op, offered, Form(call, required, reads)) EXCEPT !.hook = "page"]

-----------------------------------------------------------------------------
\* The dashboard's form, and the same form in the top bar of every page.
NewParticipant ==
    [ Form("addParticipant", {"name"}, {"listParticipants", "listReserves"})
      EXCEPT !.settles = "callback", !.goes = "callback" ]
NewParticipantTopbar == [NewParticipant EXCEPT !.hook = "shell"]

\* The general ledger's page.
LedgerPageReads == GetAllAccounts \cup {"getBookBalance"}
NameDialog(call) == [Form(call, {"name"}, LedgerPageReads) EXCEPT !.hook = "page"]
NewLedger == NameDialog("createLedger")
NewSubledger == [NameDialog("createSubledger") EXCEPT !.offered = {Nothing}]
NewAccount ==    \* its type is an asset until another is chosen
    [ Form("createAccount", {"name", "type"}, LedgerPageReads)
      EXCEPT !.hook = "page", !.offered = {Nothing}, !.initial = {"type"}, !.kept = {"type"} ]

\* The transactions' page: the form's legs count as one input here.
PostTransaction ==
    [ Form("postTransaction", {"legs"}, {"listTransactions"} \cup GetAllAccounts)
      EXCEPT !.settles = "callback", !.keyed = TRUE ]
ReverseTransaction ==
    [ Confirm("transaction", "reverse", {"Posted"}, "reverseTransaction", {}, {"listTransactions"})
      EXCEPT !.copied = TRUE ]

\* The pages of the deposit accounts and of one of them.
OpenDepositAccount ==    \* the overdraft limit may be left empty, and is then 0
    Form("openDepositAccount", {"name"}, {"listDepositAccounts", "getDepositBalance"})
DepositPageReads ==
    {"getDepositAccount", "getDepositBalance", "listHolds", "listSnapshots"}
DepositStatuses == {"Active", "Frozen", "Dormant", "Closed"}
Fund ==
    On("account", "fund", DepositStatuses \ {"Closed"},
       Form("fundDeposit", {"amount"}, DepositPageReads))
StatusTransition(action, from) ==
    Confirm("account", action, from, "setDepositStatus", {}, DepositPageReads)
\* Fault: a frozen account may be reactivated.
ReactivateFrozen ==
    [ Freeze |-> StatusTransition("freeze", {"Active"}),
      MarkDormant |-> StatusTransition("markDormant", {"Active"}),
      Unfreeze |-> StatusTransition("unfreeze", {"Frozen"}),
      Reactivate |-> StatusTransition("reactivate", {"Dormant", "Frozen"}) ]
STATUS_TRANSITIONS ==
    [ Freeze |-> StatusTransition("freeze", {"Active"}),
      MarkDormant |-> StatusTransition("markDormant", {"Active"}),
      Unfreeze |-> StatusTransition("unfreeze", {"Frozen"}),
      Reactivate |-> StatusTransition("reactivate", {"Dormant"}) ]
CloseAccount ==
    [ Confirm("account", "close", DepositStatuses \ {"Closed"},
              "closeDepositAccount", {}, DepositPageReads)
      EXCEPT !.goes = "callback" ]
NewHold ==
    On("account", "hold", DepositStatuses,
       Form("createHold", {"amount"}, DepositPageReads))
TakeSnapshot ==
    [ On("account", "snapshot", DepositStatuses,
         Form("takeSnapshot", {"date"}, DepositPageReads))
      EXCEPT !.inline = TRUE ]

\* The rows of its holds.  The amount held is filled in, once.
ReleaseHold ==
    Confirm("hold", "release", {"Active"}, "releaseHold", {}, DepositPageReads)
CaptureHold ==
    [ On("hold", "capture", {"Active"},
         Form("captureHold", {"counterparty", "amount"},
              DepositPageReads \cup GetAllAccounts))
      EXCEPT !.initial = {"amount"}, !.kept = {"amount"} ]

\* The mandates' page.
PartyReads == {"listParticipants", "listDepositAccounts"}
NewMandate ==
    Form("createMandate", {"debtor", "creditor", "maximum"},
         {"listMandates"} \cup PartyReads)
RevokeMandate ==
    Confirm("mandate", "revoke", {"Active"}, "revokeMandate", {}, {"listMandates"})

\* The pages of the payments and of one of them.  A pull needs a mandate.
InitiatePush ==
    [ Form("initiatePayment", {"scheme", "debtor", "creditor", "amount"},
           {"listPayments", "listSchemes"} \cup PartyReads)
      EXCEPT !.kept = {"scheme"} ]
InitiatePull == [InitiatePush EXCEPT !.required = @ \cup {"mandate"}]
PaymentPageReads == {"getPayment", "listSchemes"}
RejectPayment ==
    Confirm("payment", "reject", {"Initiated", "Accepted", "Cleared"},
            "rejectPayment", {"reason"}, PaymentPageReads)
\* A return also waits for the schemes, and for one that allows it: both do.
ReturnPayment ==
    Confirm("payment", "return", {"Settled"}, "returnPayment", {"reason"},
            PaymentPageReads)

\* The pages of the clearing cycles and of one of them.
OpenCycle == Form("openCycle", {"scheme"}, {"listCycles", "listSchemes"})
CloseCycle ==
    Confirm("cycle", "closeCycle", {"Open"}, "closeCycle", {}, {"getCycle"})
SettleCycle ==
    [ Confirm("cycle", "settleCycle", {"Closed"}, "settleCycle", {}, {"getCycle"})
      EXCEPT !.goes = "await" ]

Forms ==
    [ NewParticipant |-> NewParticipant,
      NewParticipantTopbar |-> NewParticipantTopbar, NewLedger |-> NewLedger,
      NewSubledger |-> NewSubledger, NewAccount |-> NewAccount,
      PostTransaction |-> PostTransaction,
      ReverseTransaction |-> ReverseTransaction,
      OpenDepositAccount |-> OpenDepositAccount, Fund |-> Fund,
      CloseAccount |-> CloseAccount, NewHold |-> NewHold,
      TakeSnapshot |-> TakeSnapshot, ReleaseHold |-> ReleaseHold,
      CaptureHold |-> CaptureHold, NewMandate |-> NewMandate,
      RevokeMandate |-> RevokeMandate, InitiatePush |-> InitiatePush,
      InitiatePull |-> InitiatePull, RejectPayment |-> RejectPayment,
      ReturnPayment |-> ReturnPayment, OpenCycle |-> OpenCycle,
      CloseCycle |-> CloseCycle, SettleCycle |-> SettleCycle,
      Freeze |-> STATUS_TRANSITIONS.Freeze,
      MarkDormant |-> STATUS_TRANSITIONS.MarkDormant,
      Unfreeze |-> STATUS_TRANSITIONS.Unfreeze,
      Reactivate |-> STATUS_TRANSITIONS.Reactivate ]

-----------------------------------------------------------------------------
\* The server's side: the moves an object may make, and how.

Move(kind, op, from, to) == {[kind |-> kind, op |-> op, from |-> s, to |-> to] : s \in from}
Stay(kind, op, in) == {[kind |-> kind, op |-> op, from |-> s, to |-> s] : s \in in}

AccountMoves ==
    Move("account", "freeze", {"Active"}, "Frozen")
        \cup Move("account", "unfreeze", {"Frozen"}, "Active")
        \cup Move("account", "markDormant", {"Active"}, "Dormant")
        \cup Move("account", "reactivate", {"Dormant"}, "Active")
        \cup Move("account", "close", DepositStatuses \ {"Closed"}, "Closed")
        \cup Stay("account", "hold", {"Active"})
        \cup Stay("account", "fund", DepositStatuses)
        \cup Stay("account", "snapshot", DepositStatuses)

HoldMoves ==
    Move("hold", "release", {"Active"}, "Released")
        \cup Move("hold", "capture", {"Active"}, "Captured")

\* Fault: a transaction's status is not looked at before it is reversed.
ReversedAgain == Move("transaction", "reverse", {"Posted", "Reversed"}, "Reversed")
TransactionMoves == Move("transaction", "reverse", {"Posted"}, "Reversed")

MandateMoves == Move("mandate", "revoke", {"Active", "Revoked"}, "Revoked")

\* A payment is accepted before anyone sees it; closing its cycle clears it and
\* settling the cycle settles it.
PaymentMoves ==
    Move("payment", "clear", {"Accepted"}, "Cleared")
        \cup Move("payment", "settle", {"Cleared"}, "Settled")
        \cup Move("payment", "reject", {"Initiated", "Accepted"}, "Rejected")
        \cup Move("payment", "return", {"Settled"}, "Returned")

CycleMoves ==
    Move("cycle", "closeCycle", {"Open"}, "Closed")
        \cup Move("cycle", "settleCycle", {"Closed"}, "Settled")

Moves ==
    AccountMoves \cup HoldMoves \cup TransactionMoves \cup MandateMoves
        \cup PaymentMoves \cup CycleMoves \cup Stay(Nothing, "none", {Nothing})

\* The status an object of each kind is in once it is created.
Created(kind) ==
    IF kind = Nothing THEN Nothing
    ELSE [ account |-> "Active", hold |-> "Active", transaction |-> "Posted",
           mandate |-> "Active", payment |-> "Accepted", cycle |-> "Open" ][kind]

=============================================================================
