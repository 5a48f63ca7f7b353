# A verification of the core banking system

The repository is a small core banking system in Go: a double-entry ledger, a
demand-deposit layer on top of it, and an interbank payment network on top of
both, served over HTTP to a web console in TypeScript. This directory holds
TLA+ modules that model the three stateful layers, the console's cache of them,
its forms and the calls it makes, TLC configurations that check them on small
instances, and TLAPS proofs about them for every value of the constants.

Line numbers below are of the files under `src/`.

## 1. The system

```
web console ──HTTP──> api.Server ──> payment.Network ──> one Participant per bank
                         │                │                ├── deposit.Register ──┐
                         │                │                └── ledger.Book <──────┘
                         │                └── central bank: ledger.Book
                         └── also calls each bank's Register and Book directly
```

Everything is in memory, in one process. Each `Book`, each `Register` and the
`Network` has a read-write mutex of its own; every public method takes its
object's lock for its whole duration. Locks are always taken downwards (network,
register, book). HTTP handlers run concurrently and may enter at any level, so
while the network or a register is in the middle of a method, its bank's book
may be moved by another request.

| Component | State | Operations that change state | What is hard | What makes it correct |
|---|---|---|---|---|
| `ledger.Book` (`service.go`) | chart of accounts, transactions, idempotency index, audit log | `CreateLedger/Subledger/Account`, `PostTransaction`, `ReverseTransaction` | retries under one key, reversals of reversals, netting of several entries on one account, replayed balances, 64-bit sums | accounting equation; each transaction undone at most once and exactly; keys used once; the audit log replays to the balances |
| `deposit.Register` (`deposit/register.go`) | accounts with status and overdraft, holds, snapshots, audit log | `OpenAccount`, `Freeze`, `Unfreeze`, `MarkDormant`, `Reactivate`, `Close`, `CreateHold`, `ReleaseHold`, `CaptureHold`, `TakeEndOfDaySnapshot` | the balance belongs to another object with another lock; expiry by the clock; captures that exceed the hold | what a method checked still holds when it acts; a hold settles once; nothing is overdrawn but by a named override |
| `payment.Network` (`payment/system.go`, `scheme.go`) | participants, mandates, cycles, payments, settlements, open-cycle and reference indexes; the central bank's book | `AddParticipant`, `Deposit`, `Create/RevokeMandate`, `Open/Close/SettleCycle`, `Initiate/Reject/ReturnPayment` | a method posts to several books with no atomicity; an error half way leaves the earlier postings; retries are refused by idempotency keys; cycles overlap | payment and cycle lifecycles agree; the legs posted are those the status claims; no money is lost in suspense; reserves mirror the central bank |
| listing (`list.go`, `deposit/list.go`, `payment/list.go`) | none | none | maps have no order; many items of one instant; IDs compared as text | nothing changes places between two answers |
| the locks of all of these | a `sync.RWMutex` per object, goroutines with calls under way | every request | nested locks, read locks taken twice, early returns | no circle of waits; every request is answered |
| `api.Server` (`api/`) | none | each handler calls one method, a few call several | several reads without a lock around them | answers are of one moment |
| `cmd/server` | none | start and shut down | all state is lost at exit | – |
| console: query cache (`web/src/lib/api`) | query results, by key | each mutation invalidates a list of queries | which server state a mutation changes; invalidations that meet fetches | a view taken for current shows every confirmed mutation |
| console: forms (`web/src/components/forms`, dialogs of the pages) | open or not, inputs, idempotency key, the call that is out | opening, filling in, submitting, being answered | double clicks, lost and late answers, a dialog reopened or left meanwhile, legs edited and removed | nothing is done twice that must be done once; what is sent is readable, postable and what the screen shows |
| console: pages (`web/src/app`) | the object read, the row selected | none of their own | the page's idea of a status against the server's; errors that replace a page | an operation is offered when it is allowed |

The hazards, each at its line with the properties aimed at it, are in
`PROJECT.json`.

## 2. The modules

| Module | What it is |
|---|---|
| `Ledger` | `ledger.Book`: one action per method |
| `Journal` | what a book promises: balances that only move by balanced moves, each undone at most once |
| `MCLedger` | small instances of `Ledger`, and the mapping under which it implements `Journal` |
| `LedgerProofs` | theorems about `Ledger`: its lifecycle, its sums, and that it implements `Journal` |
| `Deposit` | `deposit.Register` at the granularity of its lock, the book moving underneath |
| `MCDeposit` | small instances of `Deposit`, remembering what a snapshot could have seen |
| `DepositProofs` | theorems about `Deposit` |
| `Payment` | `payment.Network` and its two schemes, over several banks' books |
| `Transfers` | what the network promises its customers: transfers delivered once or given back once, implemented by `Payment` |
| `MCPayment` | small instances of `Payment` |
| `PaymentLedger`, `MCPaymentLedger` | `Payment` while its legs are reversed through the ledger's own route |
| `PaymentProofs` | theorems about `Payment`: lifecycles, legs, and that it implements `Transfers` |
| `MoneyProofs` | theorems about the sums of `Payment` (types, nets, suspense, mirrored reserves, books that balance) and of `PaymentLedger` |
| `Locks`, `MCLocks` | goroutines serving requests under the nested locks |
| `LocksProofs` | theorems about `Locks` |
| `Routes` | the HTTP routes: the parts of the server's state each reads or changes |
| `Console` | the web console's query cache over `Routes` |
| `MCConsole` | small instances of `Console` |
| `Wire` | the console's calls with their bodies, beside the server's routes and what their handlers decode |
| `Screens` | the console's 27 forms and confirmations as records, and the moves the server allows an object |
| `Dialogs` | one form in use: page, dialog, key, attempts, other clients |
| `MCDialogs` | small instances of `Dialogs` |
| `DialogsProofs` | theorems about `Dialogs` |
| `LegEditor` | the legs of the form for a transaction, and its money inputs |
| `MCLegEditor` | small instances of `LegEditor` |
| `ConsoleProofs` | theorems about `Console`, and about `LegEditor` |
| `Sums` | lemmas about sums of functions over finite sets, used by the theorems about money |

Operators marked "Fault" in the component modules are not part of the model:
each is a plausible wrong version of the definition after it, against which the
properties are tried out.

### Ledger

`transactions` is the sequence of posted transactions, and a transaction's ID is
its position. `BookBalance` replays all of them, Reversed ones included, as
`computeBookBalance` (574-592) does; no balance is stored. `PostTransaction` has
the code's guards in the code's order: entries present, amounts positive,
accounts known, key unused, sides equal, Asset and Expense accounts covered.
`ReverseTransaction` checks only that the transaction is not already Reversed.
Sums wrap at `HalfRange`, the code's 2^63. The payload of a posted audit event
is a pointer to the live transaction (368), so what a reader sees of the log
(`AuditView`) is computed from the current transactions.

### Deposit

A register method that reads or posts to the book is two actions: `Begin...`
takes the lock (`writer`) and reads the balance, `End...` does the rest and
lets go. Between the two, the book moves (`Credit`, `Debit`, `EndPayment`), but
no other register method does. A payment (`payer`) asks `CheckWithdrawal` under
the register's lock, releases it, and posts afterwards (`payment/system.go`
498-525), and remembers what it was told (`payer.available`). `CaptureRefused` is the error
path of `CaptureHold`: the book refuses the posting and the hold stays active.

### Payment

A method of the network is one action, since its mutex covers the method; a
method that can fail after some of its postings has a second action for that
run: `SettlePartly` and `ReturnPartly`. In `SettlePartly` the central bank has
settled and any set of the banks able to mirror has done so, because the code
walks a Go map. Idempotency keys already used are in `posted`, which is what
refuses a retry. A bank's book is reduced to the balances of suspense, reserve
and customers, which is what `Journal` promises of a book; the only Asset among
them is the reserve, so the book's sufficiency check is `ReserveCovers`. The
customer accounts' GL accounts and reserves are moved only by the network in
this module. A failing first posting changes nothing, and such a call is a
stutter.

Transitions `Initiated` to `Accepted` happen inside `InitiatePayment`; a
payment that fails validation is never stored, so no stored payment is
`Initiated` and no action starts from there but the guard of `RejectPayment`.

`Transfers` forgets banks, books, cycles, schemes and keys. It keeps what each
account's customer has, and the transfers with their place: in transit,
delivered, bounced, returned, compensated. `Customers` in `Payment` is the
mapping: `balance` is `customer`, and a payment's place follows from its status
and, for a return that stopped half way, from the refund's key. Only moving
money is a step of `Transfers`; a settlement is one delivery of a whole cycle's
transfers, and a closed cycle, a halted one or a mandate is a stutter.

### PaymentLedger

`ReverseTransaction` is open to clients for every transaction of a bank's book,
the network's legs included. `reversals` counts, for each leg posted, the chain of
reversals behind it; the last of a chain is the only one that can be reversed
again, so the parity says whether the leg is in force. `CallNetwork` is any
method of `Payment`; a rejection needs a leg without a chain, and starts one.
Only legs of payments and cycles are reversed, not cash paid in, and clients post
nothing of their own.

### Locks

A method is the lock it takes (of the network, of a bank's register or book, of the
central bank's book), for reading or writing, and the calls it makes under it; a
handler is a sequence of calls. A goroutine serves one request at a time with a
stack of the methods it is in. A method makes its calls in order, and may instead
return at any point with an error, which goes up through the stack as Go's `defer`
unlocks (`Fail`). The mutex is Go's: a writer announces
itself and from then on new readers are parked; parked readers go in together
when the writer lets go, so a reader waits for at most one writer, and a writer
for the readers there when it announced itself.

### Console

`Routes` says of each route, under the console's name for it, which parts of the
server's state its answer depends on and which it changes; `Console` adds the
hooks of `hooks.ts`: the key of each query, and the keys each mutation
invalidates when it succeeds. A key is a sequence, and an invalidation reaches
the keys it is a prefix of. The server itself is the `log` of the mutations it
has applied; the data of a view is the length of the log when it was read. A
view is mounted, fetched, answered (the server reads), delivered, left on screen
or left behind, and dropped; a mutation is applied (`Apply`) and, separately,
confirmed to the console (`Confirm`) or never.

The cache is a library outside the repository. Modelled is what the code relies
on: mounting fetches what is missing, invalid or older than the `staleTime` of
`providers.tsx` (age is a free choice); invalidating marks every match, restarts
the fetches of views on screen, and leaves alone a first load and the fetch of a
view no page shows, whose answer then passes for current (`overtaken`). Failed
fetches are not retried (`retry: false`).

### Wire, Screens and Dialogs

`Wire` has one record per function of `endpoints.ts` and one per route of
`handlers_*.go`; a body is the set of its fields with the kinds of value they
may hold. `Served` says that the proxy hands the call on, that a route matches,
and that the handler's `DisallowUnknownFields` decoder takes the body. An amount is
a double on the console's side and an `int64` on the server's: it may be an
integer that fits, one beyond `int64` (`parseDollars` takes 1e20), or the `null` JSON
makes of an infinity, which Go decodes as 0. `Served` is said of a body whose amounts
fit, `ServedWhole` of any.

`Screens` has one record per form or confirmation: its call, the reads of its
page, the kind of object and the statuses in which the page offers it, the
inputs its button waits for and those a success leaves filled, whether it
awaits the call (`mutateAsync`) or passes callbacks (`mutate`), which component
owns the `useMutation`, and whether a success moves the user. Many forms share
one behaviour, so these fields are all that tells them apart. Beside them,
`Moves` is the server's side: which operation takes an object of which kind
from which status to which, from the Go methods.

`Dialogs` puts any one of them in use. The page reads its object (`Load`,
`LoadFails`), is left (`Leave`) and visited again (`Arrive`); the dialog is
opened, closed, filled in, submitted; the object is moved by other clients
(`MovedElsewhere`). An attempt is applied or refused by the server at any time,
and the form is told, wrongly or rightly, at any time: `Fail` covers refusals,
lost answers and a server that was never reached. A call that carries an amount may
be refused as unreadable because the amount is beyond `int64`; a call without
a route or a decoder that takes it is refused as `malformed`. A success runs the code after
the `await`, or the callback, with the rules of React and TanStack Query that
the forms rely on (stated at the head of the module, and marked external in the
map). The button learns of a pending call one `Redraw` late, so double clicks
happen. Left out: optional inputs, the toasts, and that a return is offered only once
the schemes are loaded and if the payment's allows it
(`web/src/app/payments/[payid]/page.tsx:55-60`; both schemes do). The mutations of
`ReleaseHold`, `RevokeMandate`, `NewSubledger` and `NewAccount` belong to a row of the
page (`deposit-accounts/[did]/page.tsx:117`), which goes when the page shows an error
in place of the rows; the model has them belong to the page.

### LegEditor

The form for a transaction holds a list of legs; each `MoneyInput` keeps the text it
shows in a state of its own, by position, because the legs are rendered with
their index as key. A text is abstracted to the number it spells, in cents, and
whether it is spelled as `centsToInput` would.

The form's amounts and sums are doubles, the server's are `int64`s, and the module has
both. `Plus` adds two doubles: exactly up to `Safe` (2^53 cents), beyond it rounded to
the nearest double, ties to even (`Rounded`), and above `MaxDouble` to infinity, which
`Number()` also takes from a text. `Total` takes the sum leg by leg, as the form does.
`Arrives` is the set of integers an amount may be read as: itself up to `Safe`, one
that rounds to it beyond, 0 for an infinity (JSON sends `null`). `Postable` is what
the server asks of the entries that arrive: every amount an `int64` above 0, accounts
named, and the two sides equal after wrapping at 2^63. `centsToInput` divides by 100
and loses nothing up to `Legible` (2^51 cents); a greater amount may be shown, when its
input is left, as a double next to it (`Spelling`).

## 3. The runs

Deadlock is checked in `MCLocks`, where requests keep coming. In the others the
operations are calls of clients, who may stop calling, and each has bounds at
which no call is left.

| Run | What it asks | Instance |
|---|---|---|
| `MCLedger` | types, `DoubleEntry`, `ReversalLinks`, `IdempotencyExact`, `BalanceSheet`, `AuditReconciles`, and that the book implements `Journal` | three accounts of three types, two keys, two instants, up to 4 transactions |
| `MCPayment` | types, lifecycles (`CycleAgreement`), `LegsAgree`, `EndToEndOnce`, `BooksBalance`, `NetsSumToZero`, `SuspenseExact`, `MirrorExact`, that only a return overdraws an account (`OverdrawnOnlyByReturn`), and that the network implements `Transfers` (`ImplementsTransfers`) | two banks, a customer each, one with an overdraft; 3 payments, 2 cycles |
| `MCPaymentClean` | without overdrafts and returns, in both schemes with a mandate: `SuspenseExact`, and every closed cycle settles (`ClosedCycleSettles`) | 2 payments, a cycle of each scheme open at once, one account frozen, dormant or closed at any time |
| `MCPaymentLedger` | what reversals by hand leave in suspense and reserves (`SuspenseTraced`, `ReserveTraced`) | two banks, 2 payments, 2 cycles, a return; each leg reversed, and its reversal |
| `MCDeposit` | types, `LockProtects`, `HoldSettlesOnce`, `ChecksStayTrue`, that funds fall below zero only by a named override or race (`OverdrawnOnlyByOverride`), and that a snapshot was so at one moment (`SnapshotWasSo`), with everything interleaved | one account, 2 holds, expiry, snapshots, over-capture |
| `MCLocks` | types, `NoCircularWait`, no deadlock, and `RequestsAnswered` | two goroutines, two banks, every request, errors anywhere |
| `MCConsole` | `ViewsFollow`: every view is current after every confirmed mutation, but for the pairs in `Overlooked` | two banks, every view, every mutation, up to 2 mutations |
| `MCDialogs` | `OncePerSitting`, `FinalOnce`, `SuccessDisarms`, `OffersExact`, `NothingMalformed`, `NoLateMove` | every form, 2 attempts, 3 keys; amounts that fit and that do not |
| `MCLegEditor` | types, `SentPostable`, `OnlyRemovalParts` | up to 3 legs; 8 stands for 2^53 and 16 for 2^63; amounts 1, 8, 10, 16 and an infinity |
| `MCLedgerAudit` | refutes "entries are never modified" of the audit log | as `MCLedger` |
| `MCPaymentOverdraft` | refutes that a closed cycle always settles | one payment from an overdraft |
| `MCLegEditorShown` | refutes that the form sends what the screen shows | as `MCLegEditor`, with two small amounts |

What the last three found is quoted against the code in `PROJECT.json`
("findings"). In short:

- a reversal changes what earlier audit events show, because they point to the
  live transaction;
- a payer's overdraft is a promise of its bank about the ledger, not about the
  bank's reserves: if the reserve is short at settlement, the central bank has
  already moved the money, the retry is refused by the key of that very
  posting, and the cycle stays Closed for ever with its payees unpaid. The
  routes can open an account with an overdraft (`api/handlers_deposit.go:41`);
- after a leg that is not the last is removed, the amounts on the screen are not
  those the form sends.

`SuspenseExact` and `MirrorExact` hold all the same: they say precisely what a
run that stopped half way leaves behind, and that it leaves nothing else.
`SuspenseTraced` and `ReserveTraced` say the same of reversals by hand: the
difference is the legs whose chain contradicts the network's records, each once.
Among the states they allow is a payment whose debtor leg was reversed by hand:
it cannot be rejected any more (`payment/system.go:554` refuses, against
540-541), and is settled although its payer has the money back.

`ImplementsTransfers` is what the customers see of all this. A return that stopped
half way is its one addition to a transfer's life (`Compensate`): the payer has
been refunded and the payee not asked. A halted settlement shows as transfers
that stay in transit.

`ViewsFollow` confirms the comments that call `invalidateDeposits` and
`invalidateNetwork` always correct, for their own mutations. The table
`Overlooked` is exact: TLC finds `ViewsFollow` violated without any one of its
pairs. They are what the hooks leave stale: the ledger audit log after every
change of the chart of accounts, after opening a deposit account and after
funding; the ledger balances and transactions after funding (against the
example of `query-keys.ts:2`); deposit balances after a posting or reversal made
in the ledger pages; the account lists after opening a deposit account; a single
transaction after its reversal; the reserves and the central bank's audit log
after adding a bank. Mutations that fail half way, or whose answer is lost,
invalidate nothing at all.

`OverdrawnOnlyByOverride` names every way below zero there is: a capture of more
than is available (the code's override), and the two races `HoldOvertaken` and
`PaymentOvertaken`, where the book moved between a check and what relied on it.
Each name stands for a promise the code does not keep: `CreateHold` is said to
be refused if it would overdraw (`deposit/register.go:297`), and an expired hold
to be void (`deposit/register.go:280-281`) while `CaptureHold` looks at neither
expiry nor the account's status. `SnapshotWasSo` is what is left of "a
point-in-time record" (`deposit/types.go:107`): the three numbers of a snapshot
were true together at a moment between its two readings, unless a hold expired
in between.

`OffersExact` is exact as well: its tables name the statuses in which a page
offers what the server refuses (`Reject` on a Cleared payment, a hold on an
account that is not Active) and those in which it withholds what the server
would do (funding a Closed account, revoking a revoked mandate).
`OncePerSitting` is the form's promise together with the book's: once per time a
key is taken, however often it is submitted. Operations that create something
and carry no key are done twice when repeated; `Dialogs` reaches those states,
and no property denies them. `NoLateMove` names the two forms whose answer moves
the user wherever they have gone by then.

`NothingMalformed` and `SentPostable` name what amounts do at the ends of their
ranges. `money.ts` sets no limit: 99999999999999999 typed for an amount is sent as an
integer that is no `int64`, and the handler answers 400 (`NothingMalformed` says from
which eight forms this can happen). Debits of 2^53 and 1 cent against a credit of
2^53 balance in the form's doubles and not in the ledger's integers; two sides that
both add up to infinity are equal. `SentPostable` says that below these ends, with
every amount finite and neither side above 2^53 cents, what the form takes for ready
is what the server reads and the ledger's checks of the entries pass.

### Bounds

`MaxTransactions` 4 fits a posting, its reversal, the reversal of that and one
more, or a posting, its spending, and both reversed. `MaxPayments` 3 and
`MaxCycles` 2 fit opposite flows that net to zero, an on-us payment, a
rejected one, and a cycle that halts while the next one fills. `MaxHolds` 2 fits
two holds competing for the same funds. `MaxFunds` bounds the money paid in, in
`Payment`, and the size of a balance, in `Deposit`; the amounts 1 and 2 are
enough to be short, exact or in excess. `MaxTime` 1 lets an expiry of 0 pass.
`MaxReversals` 2 lets a leg be undone and done again, by hand or after a rejection;
with `MaxFunds` 1 a payer refunded by hand can spend the same unit twice, and
settlements stop half way. In `Locks`, two goroutines are enough to close any
circle the lock order allows, since each can be in all layers at once. `MaxMandates` 1 fits one mandate used, exceeded, mismatched or revoked.
`Managed` and `Returnable` choose which accounts change status and which
payments are returned in a run; they are everything or nothing but where one
account suffices. In `Console`, `MaxViews` 1 loses nothing, because no action
relates two views, and `MaxMutations` 2 lets a second mutation overtake the
reload the first one caused; only mutations that concern a cached view count
(`Concerns`), since the others change nothing the model has. The moves of the abstract
journal are the effects of the book's own requests (`MoveOf`). In `Dialogs`, `MaxAttempts`
2 fits a double click, a retry, or an attempt from each of two visits; the
properties relate two attempts, and the theorems hold for any number;
`MaxSittings` 3 lets a key be kept, regenerated and taken anew. In `LegEditor`,
`MaxLegs` 3 is the least with a leg to remove that is not the last. With `Safe` 8,
`HalfRange` 16 and `MaxDouble` 24, the amounts 8 and 1 add up to 8 (9 is no double), 10
is where they may be shown as or read from a neighbour, 16 is a double that is no
`int64`, and two of it are an infinity, so each end is reached with three legs.

### Fairness

Nothing in the code calls a method by itself: a cycle is settled by a request
of its operator. `FairSpec` assumes only that the operator of a closed cycle
calls `SettleCycle` again until it succeeds (weak fairness of `SettleCycle`, per
cycle). `MCPaymentClean` shows what this is worth without overdrafts and
returns, and `MCPaymentOverdraft` that with an overdraft it is worth nothing:
there the calls go on, and are all refused.

`Locks` has the fairness of Go's scheduler and mutex: a goroutine that can go on
does (weak fairness of `Proceed`, per goroutine), and a writer that finds the
writers' mutex free again and again takes it at last (strong fairness of
`Announce`: `sync.Mutex` hands over to a goroutine that has waited for a
millisecond). Nothing else is assumed: that readers do not starve writers, nor
writers readers, follows from how the RWMutex parks readers.

## 4. The proofs

All theorems are proved by TLAPS for every value of the constants satisfying the
named assumptions of the modules. These say that inputs have the types the code
gives them, that sentinels (no key, no date, no expiry, no data) are none of the
values they stand for, that bounds are numbers, and, in `Payment`, that banks and
accounts are finitely many, as they are in a program that keeps them in maps: sums
over them would mean nothing otherwise. In `Ledger` it is an invariant that the chart of
accounts is finite.

**Sums.** The books' properties are about sums over sets that change. `Sums`
proves what is needed of the community modules' `SumFunctionOnSet`, which is a
fold with a choice of the next element: that it does not depend on the choice
(`SumsUnique`), unfolds, and behaves under a changed value, an added or removed
element, a union, a sum or difference of functions, and grouping
(`SumGroups`: summed class by class). The library's induction theorems take the
induction's predicate as a parameter, which the provers cannot instantiate. Here
the predicate is a set: `StrongSetInduction` says that a set of subsets of a finite
set S that has every subset all of whose proper subsets it has, has S; it follows
from the well-foundedness of strict inclusion, and each lemma applies it to the set of
subsets for which its claim holds.

**Ledger.** `TypeCorrect` is inductive as it stands. `DoubleEntryAlways` rests on
`FlipSides`: flipping every direction swaps the two sides of an entry list, so a
reversal of a balanced transaction balances although no check is made of it.
`IdempotencyAlways` and `ReversalLinksAlways` are inductive together with
the types; the second is split in `ReversalLinksParts` into the three facts a
reversal can disturb.

`BalanceSheetAlways` and `AuditReconcilesAlways` are about `BookBalance`, the replay
of all entries, and about integers that wrap. `BookInv` has that the chart is
finite, that the balances of all accounts, counted on the debit side, add up to 0
up to wrapping (`NetSum`), and that replaying the audit log gives the entries
posted (`Replays`). A posted transaction adds to that sum what its entries add up
to, account by account (`BalancedImpacts`, by `SumGroups`), which is its debit side
less its credit side; an account opened adds nothing. That wrapping early or late
makes no difference is `SameWrap`, from the uniqueness of remainders.

`BookImplementsJournal` is the refinement: with the mapping of `MCLedger`, every step
of a book is a step of `Journal` or none. It needs that an account's type is the one
requested for its ID (`TypesGiven`), so that a transaction's effect on the balances can
be computed before its accounts are looked up; then `PostIsMake`, and
`ReverseIsUndo`, because a flipped list has the opposite effect on each account.

**Payment.** `CycleAgreement` is not inductive alone: the argument needs the
shapes of the stored records, and membership in both directions. The inductive
invariant `LifecycleInv` is `Shape`, `OpenCycleIndex`, `PaymentsFollowCycle` and
`EndToEndOnce`, beside `MandatesTyped`; one lemma per action shows that it is
kept. Its consequence for the code is that the transitions attempted one by
one inside `CloseCycle` and `SettleCycle` are never refused half way through
the loop, for any number of payments and cycles. That is also why the model needs no
action for such a failure.

**Transfers.** `LegsAgree` is inductive with two additions (`LegsInv`): a payment
is refunded only after it settled, and no key names a payment still to come, for
else a new payment would be born with legs. That every step of the network is a
step of `Transfers` or none (`NextTransfers`) rests on this and on the lifecycles:
a closed cycle's payments are all in transit, so a settlement delivers each of them
once, and a refund's key is what tells a payment compensated from one delivered.
The sum a settlement brings an account is the same sum on both sides, so nothing
need be known of sums here.

**Money.** `FundsInv` adds to the legs what the sums need: numbers in the books, in
the nets and in the payments, amounts above 0; that a stored payment is never
`Initiated`; that settlement keys belong to cycles no longer open with something
to settle, the banks' after the central bank's (`SettleKeysInv`); and that a closed
cycle's net positions are computed from its members, who do not change any more
(`ClosedNets`). `NetsSumToZeroAlways` is part of it: of a payment between two banks one
net gains what the other loses (`NetsCancel`).

`TypesAlways` adds that reserves are never negative, which is not inductive without
`NetsTyped`, and rests on each posting's own check. `OverdrawnOnlyByReturnAlways`
needs that what settlement credits is a sum of positive amounts.
`SuspenseExactAlways` compares what a bank holds in suspense with the payments
on the way and the nets of halted cycles it has mirrored. Each action either
leaves the halted cycles alone (`HaltsStay`), and then moves suspense and the payments
by the same amounts, or halts one more (`HaltsOneMore`), and then only the nets
move. `MirrorExactAlways` does the same for reserve against the central bank's
record, with the refunds of returns that stopped half way. `BooksBalanceAlways` is the
accounting equation of each bank's book and of the central bank's; the settlement
needs that the credits to a bank's customers, added up by account, are what its
suspense releases, added up by payment (`CreditsAreReleased`, again `SumGroups`).

Both exactness proofs are done for suspense and reserve shifted by any amount d
(`Explained(b, d)`, `Mirrors(b, d)`). With d = 0 they are the theorems above; with d the
sum of the legs undone or redone by hand (`HandSum`), which a leg's first reversal
moves by just what it takes from the book (`ReversalMoves`), they are
`SuspenseTracedAlways` and `ReserveTracedAlways`. `LedgerInv` is what this takes beyond
`FundsInv`: that there is a chain of reversals to each leg posted and no other, and
that debtor legs are posted in the debtor's book.

**Deposit.** `LockInv` is the control part of the types, `LockProtects` and
`HoldSettlesOnce`. That a hold is captured once rests on `LockProtects`: the hold
being captured is still active, so no earlier capture took it. `ChecksStayTrue`
follows from the same invariant. Nothing in that argument depends on the
balance, which other callers move freely.

`TypesAlways` and `OverdrawnOnlyByOverrideAlways` depend on it: what is held is a sum
over the active holds (`HeldOf`), a natural number that a new hold raises by its
amount (`HeldAfterAppend`) and a settled one lowers (`HeldAfterMark`). `RegisterInv` adds
that a payment was told it is covered (`PayerCovered`). Each action that takes funds
then either keeps them at or above zero, or is one of the overrides and
races named. `SnapshotWasSoAlways` is about the specification that remembers moments
(`MCSpec`), and its invariant is that while a snapshot is being taken, one of the
moments remembered agrees with what was read so far (`SeenHolds`).

**Console.** The data of the model is finite tables, and `Coverage` is the fact about
them: if a mutation changes what a query reads, it invalidates a key the query's
key begins with, or `Overlooked` names the pair. It is proved table by table, from
which query reads which part of the server's state (`Readers`) and which keys are
prefixes of which (`KeyPrefixes`), for any set of banks. The dynamic part is
`FollowInv`: for each confirmed mutation and each view it invalidates, a view that
counts as settled was read after the mutation, and so was the answer on its way to a
view, unless it was overtaken (`Fresh`). Confirming a mutation makes this true
of every view it matches, because what is out is restarted or marked.

**Dialogs.** `OncePerSitting` is not inductive: an attempt may be applied long
after the key it carries was given up. `KeyInv` adds that attempts of one
sitting carry one key, that those of the current sitting carry the form's key
while it is open, that none carries a later key or sitting than the form's, and
that no two attempts with one key were applied.
`FinalOnce` needs to know that an object never comes back to a status in which
the operation is possible: `PastInv` says that once an attempt was applied the
object is in a status past it, by tables over the server's moves (`Past`), which
every move, also of other clients, keeps.

`SuccessDisarmsAlways` needs the same of the inputs: `DisarmInv` says that as long as
nothing was touched since a success, some input the button waits for is empty, and
`FormsWait` that each of the forms waits for one a success clears.
`NoLateMoveAlways` rests on `AwayInv`: away from its page a form is neither shown nor
told of an answer, unless it is the shell's.
`OffersExactAlways` is `StatusInv`, that the object is in a status of its kind, with a
table per operation; `NothingMalformedAlways` is that every call and every read of
every form finds a route and a decoder that takes it (`FormsServed`), route by route,
and that a form other than the eight of `AmountForms` is served whatever amounts there
are (`FormsWhole`), because its body carries none.

**LegEditor.** `LegInv` is the types with `SentPostable`. That a ready form is
postable compares two sums made in two ways: the form's, taken leg by leg in doubles,
and the ledger's, a sum of integers that wraps. As long as neither side exceeds
`Safe`, every partial sum of amounts above 0 is below it too (`PartSums`, from `Sums`), so
each step of the form's sum is exact (`AddedExactly`, by induction over the legs) and
so is its total (`TotalExact`); `Safe < HalfRange` does the rest, since nothing arrives
changed or wraps (`AmountsSafe`, `ReadyIsPostable`). `OnlyRemovalPartsHolds` is an action
property: one lemma shows that editing a leg keeps screen and state together, one that
removing the last does, one (`LegibleBlur`) that leaving an input does up to `Legible`.

**Locks.** A goroutine's stack descends strictly through three layers (network;
registers; books), by induction over calls: `LocksInv` is the types, `Layered`
(each call on the stack, or still to be made, is into a lower layer), `ParkedCall`
(a parked goroutine waits for the lock of its topmost call) and `WriterCalls`. So
each of a circle of waits would be for a lock of lower rank than the one before,
which `NoCircularWaitAlways` turns into a contradiction for any number of
goroutines and banks. A read lock taken again by a goroutine that holds it, which Go
forbids, would be a circle with the writer that waits in between.

**Only model-checked.** Every safety invariant and action property that the passing
runs check is stated by a theorem. Liveness (`ClosedCycleSettles`,
`RequestsAnswered`) is out of the prover's reach, and so is `ENABLED`: no theorem says
that there is no deadlock, only that there is no circle of waits. That the three
refuted properties fail is shown by TLC's counterexamples.

## 5. Not modelled

- Names, descriptions, metadata, entry IDs, time stamps that no decision reads.
- The register's audit log, which has the shape of the ledger's.
- `RegisterScheme` after start-up, which nothing calls.
- Holds together with the network's payments, and postings by clients together
  with both: each layer's module takes its neighbours' effects as inputs.
- Crashes: nothing is stored, so nothing is recovered.
- The listing methods and their orders, but for the locks they take: pure reads that
  filter and sort copies of the maps.
- Torn reads and error mapping of the HTTP layer; the middleware; the answers'
  bodies.
- The IBAN of a party, a free text that a mandate's debtor is compared by as well as by
  bank and account (`payment/scheme.go:114`).
- Minus infinity as an amount: no form is ready with it.
- Optional inputs of the forms (descriptions, dates, IBANs); a hold's expiry date is
  sent as midnight UTC at its start, so a hold that expires today is void at once
  (`web/src/components/forms/create-hold-form.tsx:39`).
- Pages and widgets that only display, and the vendored components of
  `web/src/components/ui`.

Divergences of documentation and code that were read and are not runs:
a return refused by the creditor bank's reserve leaves the debtor refunded and
its bank's reserve above the central bank's record, with no way to retry
(`payment/participant.go:25-27`; `MirrorExact` counts these); `Close` reads a
balance that may change before the account is closed (`deposit/register.go:236-237`);
a credit does not reactivate a Dormant account (`deposit/types.go:24-25`,
`README.md:417`); only Active accounts can be frozen, and no previous state is
kept (`README.md:418`); `Close` ignores pending holds (`README.md:419`); a frozen
account is debited by captures (`deposit/register.go:152-153`); a closed account
still receives deposits and settlements (`deposit/types.go:30-31`); a reversal
may take an Asset below zero (`errors.go:58-61`); sums that wrap around can pass
`validateBalance` (`service.go:19-21`); a bank's suspense is not zero after a
settlement when a later cycle is already filling (`payment/participant.go:22-24`);
a negative overdraft limit is accepted (`deposit/register.go:110-111`);
an account picker does not refetch when its form opens within five seconds of
its last fetch, and creating an account does not invalidate it, although it is
said to be fetched on demand (`web/src/lib/api/hooks.ts:128-129`,
`web/src/components/providers.tsx:19`); a key is said to be fresh per attempt and
is kept over failed attempts, as it must be (`web/src/lib/idempotency.ts:3`,
against `web/src/components/hint-content.ts:50`); only legal operations are said
to be shown, and `Reject` is shown on Cleared payments
(`web/src/app/participants/[pid]/deposit-accounts/[did]/page.tsx:39-41`,
`web/src/app/payments/[payid]/page.tsx:59`); an amount that is no number is said
to be refused, and infinities are taken, as are amounts beyond `int64` and beyond
where the form adds exactly (`web/src/lib/money.ts:24-25`). That
postings to several books are not atomic is acknowledged (`README.md:615`).

## 6. The plan

In the order of importance; 1 to 3, 5 and 6 are done, and of 4 the locks and the
debtor leg reversed by hand:

1. `Ledger` with `Journal`: everything else rests on the book.
2. `Payment` over books as `Journal` promises them.
3. `Deposit` at the granularity of its lock.
4. A module that composes `Payment`, `Deposit` and client ledger calls on one bank's
   accounts: holds that compete with payments, a debtor leg reversed by hand, and
   the locks of network, register and book taken in their order (no deadlock,
   and the atomicity that `Payment` assumes of its methods).
5. An abstract specification of a payment (the money is with the payer, in transit,
   or with the payee) that `Payment` implements.
6. The console: its cache against the server's state (`Console`), its calls
   (`Wire`), its forms (`Screens`, `Dialogs`) and the legs of a transaction
   (`LegEditor`).
7. Reads of several calls in the API (reserves, statements) as torn reads, and the
   orders of the listing functions.
8. Proofs: done for every safety property checked, and for both refinements
   (`BookImplementsJournal`, `NetworkImplementsTransfers`). Left is what composing the
   layers (4) would bring.
