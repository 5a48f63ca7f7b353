------------------------------ MODULE Console -------------------------------
(***************************************************************************)
(* The web console's query cache (web/src/lib/api): the views its pages    *)
(* show of the server's state, and the invalidations with which its        *)
(* mutations keep them current.                                            *)
(*                                                                         *)
(* The server is the log of the mutations it has applied; an answer to a   *)
(* query is how far into the log it was read.  A query that makes several  *)
(* calls (the chart of accounts, the reserves) counts as read at the       *)
(* first.  The cache itself is TanStack Query's, outside the repository:   *)
(* modelled is what hooks.ts and providers.tsx make it do.                 *)
(*                                                                         *)
(* Any view may be on screen when any mutation is answered: dialogs are    *)
(* closed and pages left while a call is in flight.                        *)
(***************************************************************************)
EXTENDS Integers, Sequences, FiniteSets, SequencesExt, Routes

CONSTANTS
    Bank,            \* participants
    Id,              \* the ledger, account, hold, payment... being looked at
    NoData,          \* a view that was never loaded
    Idle, Asked,     \* no fetch; a fetch the server has not read yet
    MaxMutations,    \* bound on the log
    MaxViews         \* bound on the views in the cache

ASSUME CacheAssumption == MaxMutations \in Nat /\ MaxViews \in Nat
ASSUME SentinelAssumption == Idle # Asked /\ {NoData, Idle, Asked} \cap Nat = {}

-----------------------------------------------------------------------------
\* Query keys.  A key is the path of a view; keys of the ledger's and the
\* register's views are nested under their bank.

InBank(b, path) == <<"participants", b>> \o path
LedgerTree(b) == InBank(b, <<"ledgers">>)
TransactionList(b) == InBank(b, <<"transactions">>)
AuditLog(b) == InBank(b, <<"audit">>)
DepositTree(b) == InBank(b, <<"deposit-accounts">>)
DepositAuditLog(b) == InBank(b, <<"deposit-audit">>)
Reserves == <<"central-bank", "reserves">>
CentralAudit == <<"central-bank", "audit">>

\* The queries: the hook a page uses, its key, what its answer depends on.
Query(hook, key, reads) == [hook |-> hook, key |-> key, reads |-> reads]

LedgerQueries(b) ==
    LET api == LedgerReads(b) IN
    { Query("useLedgers", LedgerTree(b), api.listLedgers),
      Query("useSubledgers", LedgerTree(b) \o <<Id, "subledgers">>, api.listSubledgers),
      Query("useAccounts", InBank(b, <<"subledgers", Id, "accounts">>), api.listAccounts),
      Query("useAccountBalance", InBank(b, <<"accounts", Id, "balance">>), api.getBookBalance),
      Query("useAllAccounts", InBank(b, <<"all-accounts">>), GetAllAccounts(b)),
      Query("useTransactions", TransactionList(b), api.listTransactions),
      Query("useTransaction", InBank(b, <<"transaction", Id>>), api.getTransaction),
      Query("useLedgerAudit", AuditLog(b), api.ledgerAudit) }

DepositQueries(b) ==
    LET api == DepositReads(b) IN
    { Query("useDepositAccounts", DepositTree(b), api.listDepositAccounts),
      Query("useDepositAccount", DepositTree(b) \o <<Id>>, api.getDepositAccount),
      Query("useDepositBalance", DepositTree(b) \o <<Id, "balance">>, api.getDepositBalance),
      Query("useHolds", DepositTree(b) \o <<Id, "holds">>, api.listHolds),
      Query("useSnapshots", DepositTree(b) \o <<Id, "snapshots">>, api.listSnapshots),
      Query("useDepositAudit", DepositAuditLog(b), api.depositAudit) }

ParticipantQueries ==
    LET api == ParticipantReads IN
    { Query("useParticipants", <<"participants">>, api.listParticipants),
      Query("useSchemes", <<"schemes">>, api.listSchemes),
      Query("useReserves", Reserves, api.listReserves),
      Query("useCentralBankAudit", CentralAudit, api.centralBankAudit) }
      \cup {Query("useParticipant", InBank(b, <<>>), api.getParticipant) : b \in Bank}
      \cup {Query("useReserve", Reserves \o <<b>>, api.getReserve) : b \in Bank}

\* Each of the network's lists, and one object of it.
PaymentQueries ==
    LET api == PaymentReads
        Pair(list, one, name) ==
            { Query(list, <<name>>, api[name]), Query(one, <<name, Id>>, api[name]) }
    IN  Pair("useMandates", "useMandate", "mandates")
            \cup Pair("usePayments", "usePayment", "payments")
            \cup Pair("useCycles", "useCycle", "cycles")
            \cup Pair("useSettlements", "useSettlement", "settlements")

Queries ==
    (UNION {LedgerQueries(b) \cup DepositQueries(b) : b \in Bank})
        \cup ParticipantQueries \cup PaymentQueries

-----------------------------------------------------------------------------
\* Mutations: the hook, what the call changes, and the keys its success
\* invalidates.  A key stands for itself and every key it is a prefix of.

\* Fault: one account, and not the list it is in.
InvalidateOneDeposit(b) == {DepositTree(b) \o <<Id>>, DepositAuditLog(b)}

InvalidateLedger(b) == {TransactionList(b), InBank(b, <<"accounts">>), AuditLog(b)}
InvalidateDeposits(b) == {DepositTree(b), DepositAuditLog(b)}
InvalidateNetwork ==
    { <<"payments">>, <<"cycles">>, <<"settlements">>, Reserves, CentralAudit,
      <<"participants">> }

Mutation(hook, changes, invalidates) ==
    [hook |-> hook, changes |-> changes, invalidates |-> invalidates]

LedgerMutations(b) ==
    LET api == LedgerChanges(b) IN
    { Mutation("useCreateLedger", api.createLedger, {LedgerTree(b)}),
      Mutation("useCreateSubledger", api.createSubledger,
               {LedgerTree(b) \o <<Id, "subledgers">>}),
      Mutation("useCreateAccount", api.createAccount,
               {InBank(b, <<"subledgers", Id, "accounts">>)}),
      Mutation("usePostTransaction", api.postTransaction, InvalidateLedger(b)),
      Mutation("useReverseTransaction", api.reverseTransaction, InvalidateLedger(b)) }

DepositMutations(b) ==
    LET api == DepositChanges(b) IN
    { Mutation("useOpenDepositAccount", api.openDepositAccount, InvalidateDeposits(b)),
      Mutation("useSetDepositStatus", api.setDepositStatus, InvalidateDeposits(b)),
      Mutation("useCloseDepositAccount", api.closeDepositAccount, InvalidateDeposits(b)),
      Mutation("useCreateHold", api.createHold, InvalidateDeposits(b)),
      Mutation("useReleaseHold", api.releaseHold, InvalidateDeposits(b)),
      Mutation("useCaptureHold", api.captureHold,
               InvalidateDeposits(b) \cup InvalidateLedger(b)),
      Mutation("useTakeSnapshot", api.takeSnapshot,
               {DepositTree(b) \o <<Id, "snapshots">>, DepositAuditLog(b)}) }

FundDeposit(b) ==
    Mutation("useFundDeposit", ParticipantChanges(b).fundDeposit,
             InvalidateDeposits(b) \cup {Reserves, Reserves \o <<b>>, CentralAudit})

AddParticipant(b) ==
    Mutation("useAddParticipant", ParticipantChanges(b).addParticipant, {<<"participants">>})

MandateMutations ==
    LET api == PaymentChanges({}) IN
    { Mutation("useCreateMandate", api.createMandate, {<<"mandates">>}),
      Mutation("useRevokeMandate", api.revokeMandate, {<<"mandates">>}) }

\* bs: the banks whose books move.
PaymentMutations(bs) ==
    LET api == PaymentChanges(bs) IN
    { Mutation("useReturnPayment", api.returnPayment, InvalidateNetwork),
      Mutation("useOpenCycle", api.openCycle, {<<"cycles">>}),
      Mutation("useCloseCycle", api.closeCycle, InvalidateNetwork),
      Mutation("useSettleCycle", api.settleCycle, InvalidateNetwork) }
        \cup IF Cardinality(bs) > 1 THEN {} ELSE   \* only the debtor's bank
    { Mutation("useInitiatePayment", api.initiatePayment, InvalidateNetwork),
      Mutation("useRejectPayment", api.rejectPayment, InvalidateNetwork) }

Mutations ==
    (UNION { LedgerMutations(b) \cup DepositMutations(b)
                 \cup {FundDeposit(b), AddParticipant(b)} : b \in Bank })
        \cup MandateMutations
        \cup (UNION {PaymentMutations(bs) : bs \in (SUBSET Bank) \ {{}}})

-----------------------------------------------------------------------------
VARIABLES
    log,      \* the mutations applied, and whether the console was told so
    cache     \* the views in the cache: a function on a set of queries

consoleVars == <<log, cache>>

Entry ==
    [ data : Nat \cup {NoData},            \* how far into the log it was read
      fetch : Nat \cup {Idle, Asked},      \* likewise of the answer on its way
      shown : BOOLEAN,                     \* some page shows it
      invalid : BOOLEAN,                   \* invalidated since its last answer
      overtaken : BOOLEAN ]                \* a confirmation came while its
                                           \* fetch was out, and left it there

ConsoleInit ==
    /\ log = <<>>
    /\ cache = <<>>

Start(e) == [e EXCEPT !.fetch = Asked, !.overtaken = FALSE]

\* The server has answered, and the answer is on its way.
Answered(e) == e.fetch \notin {Idle, Asked}

\* A view shown for the first time.
Missing == [data |-> NoData, fetch |-> Asked, shown |-> TRUE, invalid |-> FALSE, overtaken |-> FALSE]

\* A page shows a view: it is fetched when it is missing or invalid, or else
\* when its data is older than the staleTime, which it may be at any time.
Mount(q) ==
    /\ \/ /\ q \notin DOMAIN cache
          /\ Cardinality(DOMAIN cache) < MaxViews
          /\ cache' = [v \in DOMAIN cache \cup {q} |-> IF v = q THEN Missing ELSE cache[v]]
       \/ /\ q \in DOMAIN cache
          /\ ~cache[q].shown
          /\ LET e == [cache[q] EXCEPT !.shown = TRUE] IN
             \/ /\ e.fetch = Idle
                /\ cache' = [cache EXCEPT ![q] = Start(e)]
             \/ /\ e.fetch # Idle \/ (e.data # NoData /\ ~e.invalid)
                /\ cache' = [cache EXCEPT ![q] = e]
    /\ UNCHANGED log

\* A view on screen that is missing or stale is fetched again: another
\* component of the page mounts it, the browser comes back online, or the user
\* presses Retry.
Refetch(q) ==
    /\ cache[q].shown
    /\ cache[q].fetch = Idle
    /\ cache' = [cache EXCEPT ![q] = Start(@)]
    /\ UNCHANGED log

\* The page is left; a fetch that is out stays out.
Unmount(q) ==
    /\ cache[q].shown
    /\ cache' = [cache EXCEPT ![q].shown = FALSE]
    /\ UNCHANGED log

\* An unused view is dropped.
Collect(q) ==
    /\ ~cache[q].shown
    /\ cache[q].fetch = Idle
    /\ cache' = [v \in DOMAIN cache \ {q} |-> cache[v]]
    /\ UNCHANGED log

\* The server reads the answer to a fetch.
Answer(q) ==
    /\ cache[q].fetch = Asked
    /\ cache' = [cache EXCEPT ![q].fetch = Len(log)]
    /\ UNCHANGED log

\* The answer arrives.
Deliver(q) ==
    /\ Answered(cache[q])
    /\ cache' = [cache EXCEPT ![q] =
                    [@ EXCEPT !.data = cache[q].fetch, !.fetch = Idle,
                              !.invalid = FALSE]]
    /\ UNCHANGED log

\* The server is not reached, or refuses: the error is shown, and the data it
\* leaves in place is known to be stale.
FetchFails(q) ==
    /\ cache[q].fetch # Idle
    /\ cache' = [cache EXCEPT ![q].fetch = Idle, ![q].invalid = TRUE]
    /\ UNCHANGED log

\* What invalidating does to a view.  A fetch that is out is cancelled and
\* started again only if the view is on screen and was loaded before.
Invalidated(e) ==
    LET marked == [e EXCEPT !.invalid = TRUE] IN
    IF e.shown /\ (e.fetch = Idle \/ e.data # NoData)
    THEN Start(marked)
    ELSE [marked EXCEPT !.overtaken = e.fetch # Idle]

Matches(m, q) == \E key \in m.invalidates : IsPrefix(key, q.key)
Concerns(m, q) == Matches(m, q) \/ m.changes \cap q.reads # {}

\* The server applies a mutation.  One that concerns no view in the cache
\* would change nothing here.
Apply(m) ==
    /\ Len(log) < MaxMutations
    /\ \E q \in DOMAIN cache : Concerns(m, q)
    /\ log' = Append(log, [by |-> m, confirmed |-> FALSE])
    /\ UNCHANGED cache

\* Its success reaches the console (onSuccess).  It may never do so: the answer
\* is lost on its way, or the call fails half way and the answer is an error
\* although the server's state has changed.  Then nothing is invalidated.
Confirm(i) ==
    /\ ~log[i].confirmed
    /\ log' = [log EXCEPT ![i].confirmed = TRUE]
    /\ cache' = [q \in DOMAIN cache |->
                    IF Matches(log[i].by, q) THEN Invalidated(cache[q]) ELSE cache[q]]

ConsoleNext ==
    \/ \E q \in Queries : Mount(q)
    \/ \E q \in DOMAIN cache :
          \/ Refetch(q) \/ Unmount(q) \/ Collect(q)
          \/ Answer(q) \/ Deliver(q) \/ FetchFails(q)
    \/ \E m \in Mutations : Apply(m)
    \/ \E i \in DOMAIN log : Confirm(i)

ConsoleSpec == ConsoleInit /\ [][ConsoleNext]_consoleVars

-----------------------------------------------------------------------------
\* Nothing more is under way for a view, and the cache takes it for current.
Settled(e) == e.data # NoData /\ e.fetch = Idle /\ ~e.invalid

\* The confirmed mutations a view's data does not show.
Lacks(q) ==
    { log[i].by : i \in {j \in DOMAIN log :
        /\ log[j].confirmed
        /\ j > cache[q].data
        /\ log[j].by.changes \cap q.reads # {} } }

\* The mutations whose effect on a view the console overlooks.
Overlooked ==
    [ useLedgerAudit |-> {"useCreateLedger", "useCreateSubledger", "useCreateAccount",
                          "useOpenDepositAccount", "useFundDeposit"},
      useAllAccounts |-> {"useCreateAccount", "useOpenDepositAccount"},
      useAccounts |-> {"useOpenDepositAccount"},
      useAccountBalance |-> {"useFundDeposit"},
      useTransactions |-> {"useFundDeposit"},
      useTransaction |-> {"useReverseTransaction"},
      useDepositBalance |-> {"usePostTransaction", "useReverseTransaction"},
      useReserves |-> {"useAddParticipant"},
      useCentralBankAudit |-> {"useAddParticipant"} ]

OverlookedBy(hook) == IF hook \in DOMAIN Overlooked THEN Overlooked[hook] ELSE {}

(* The console's promise about its cache (query-keys.ts:1-3): whatever     *)
(* fetches and mutations overlap, a view that is not being reloaded shows  *)
(* every mutation the console was told has succeeded; but for the pairs    *)
(* above, and for a fetch that was overtaken by the confirmation.  In      *)
(* particular invalidateDeposits and invalidateNetwork are, as their       *)
(* comments say (hooks.ts:195-198, 380-383), always correct.               *)
ViewsFollow ==
    \A q \in DOMAIN cache :
        Settled(cache[q]) /\ ~cache[q].overtaken =>
            \A m \in Lacks(q) : m.hook \in OverlookedBy(q.hook)

=============================================================================
