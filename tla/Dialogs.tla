------------------------------ MODULE Dialogs -------------------------------
(***************************************************************************)
(* One form of the web console in use: it is opened and filled in, left    *)
(* and reopened while its call is out, submitted again when an answer is   *)
(* lost; other clients move the object it is about; the page reloads, or   *)
(* is left, before the answer arrives.                                     *)
(*                                                                         *)
(* A call's answers follow TanStack Query and React, outside the           *)
(* repository, as the forms use them.  What follows an await runs even     *)
(* when the form has gone, but the state it sets is that of the form that  *)
(* submitted.  The callbacks given to mutate run only while the component  *)
(* that owns the mutation is on screen, and for its last call only.  That  *)
(* a call is pending reaches the button a moment after it was made.        *)
(***************************************************************************)
EXTENDS Integers, Sequences, Screens

CONSTANTS
    Shown,          \* the names of the forms looked at
    MaxAttempts,    \* bound on the calls made
    MaxSittings     \* bound on the keys asked for

ASSUME ShownAssumption == Shown \subseteq DOMAIN Forms
ASSUME BoundAssumption == MaxAttempts \in Nat /\ MaxSittings \in Nat

VARIABLES
    form,        \* the name of the form
    at,          \* where the user is: "page", "target" of the form, "elsewhere"
    status,      \* the object's status, on the server
    view,        \* what the page shows of it
    open,        \* the dialog is open
    filled,      \* the required inputs that are filled in
    key,         \* the form's idempotency key; a greater number is a newer one
    sitting,     \* counts the times a key was asked for: on opening the form, or
                 \* by its Regenerate button
    redrawn,     \* the button shows whether a call is pending
    attempts     \* the calls made, oldest first

The == Forms[form]

\* The forms whose page the server lets them load, and whose call it can read if
\* no amount in it is beyond int64.
Loadable == {name \in DOMAIN Forms : \A call \in Forms[name].reads : Served(call)}
Readable == {name \in DOMAIN Forms : Served(Forms[name].call)}

page == <<at, view>>
inputs == <<open, filled, key, sitting, redrawn>>
vars == <<form, at, status, view, open, filled, key, sitting, redrawn, attempts>>

Fate == {"sent", "applied", "refused", "beyond int64", "malformed"}

Attempt ==
    [ key : Nat, sitting : Nat,
      untouched : BOOLEAN,       \* nothing was typed since
      formAlive : BOOLEAN,       \* the form that made it is still on screen
      hookAlive : BOOLEAN,       \* so is the owner of its mutation
      fate : Fate,               \* at the server
      told : {"waiting", "success", "error", "unheard"} ]    \* at the form

Init ==
    /\ form \in Shown
    /\ at = "page"
    /\ status = Created(The.of)
    /\ view = Loading
    /\ open = (The.inline /\ Loading \in The.offered)
    /\ filled = The.initial
    /\ key = 0
    /\ sitting = 0
    /\ redrawn = TRUE
    /\ attempts = <<>>

-----------------------------------------------------------------------------
\* The page and the form on it.

OnScreen == at = "page" \/ The.hook = "shell"
Offered == OnScreen /\ view \in The.offered

Ready == The.required \subseteq filled

\* The form appears, as it is at first.
Appear(v) ==
    /\ open' = (The.inline /\ v \in The.offered)
    /\ filled' = The.initial
    /\ key' = IF The.keyed THEN key + 1 ELSE key
    /\ sitting' = IF The.keyed THEN sitting + 1 ELSE sitting
    /\ redrawn' = TRUE

\* Attempts as whose form is no longer shown; its page may be left as well.
Hidden(as, left) ==
    [i \in DOMAIN as |->
        [as[i] EXCEPT !.formAlive = FALSE,
                      !.hookAlive = @ /\ ~left /\ The.hook # "form"]]

\* The page shows v of the object, and the attempts become as but for that.
See(v, as) ==
    /\ view' = v
    /\ IF view \in The.offered /\ v \in The.offered /\ ~The.copied
       THEN attempts' = as /\ UNCHANGED inputs
       ELSE attempts' = Hidden(as, FALSE) /\ Appear(v)
    /\ UNCHANGED <<form, at, status>>

\* The page reads the object, at first or anew.  A row of which the page shows a
\* copy is clicked.
Load ==
    /\ at = "page"
    /\ The.copied => view = Loading
    /\ See(IF form \in Loadable THEN status ELSE "malformed", attempts)

\* A read fails: an error takes the place of what the page showed.
LoadFails ==
    /\ at = "page"
    /\ ~The.copied
    /\ See(Failed, attempts)

\* The copy is put away.
Deselect ==
    /\ The.copied
    /\ ~open
    /\ at = "page"
    /\ See(Loading, attempts)

\* Leaving the page takes the form with it, unless it is the shell's.
Left(to, as) ==
    /\ at' = to
    /\ IF The.hook = "shell"
       THEN attempts' = as /\ UNCHANGED inputs
       ELSE /\ attempts' = Hidden(as, TRUE)
            /\ open' = FALSE
            /\ filled' = The.initial
            /\ redrawn' = TRUE
            /\ UNCHANGED <<key, sitting>>
    /\ UNCHANGED <<form, status, view>>

Leave ==
    /\ at = "page"
    /\ Left("elsewhere", attempts)

\* The page is opened again, and shows what the cache has kept for it or not.
Arrive ==
    /\ at # "page"
    /\ The.keyed => sitting < MaxSittings
    /\ at' = "page"
    /\ \/ The.hook = "shell" /\ UNCHANGED <<view, inputs>>
       \/ /\ The.hook # "shell"
          /\ \E v \in {Loading} \cup (IF The.copied THEN {} ELSE {view}) :
                view' = v /\ Appear(v)
    /\ UNCHANGED <<form, status, attempts>>

-----------------------------------------------------------------------------
\* The user.

\* The form for a transaction starts anew whenever it is opened; the others
\* still hold what they held when they were closed.
Open ==
    /\ Offered
    /\ ~open
    /\ open' = TRUE
    /\ IF The.keyed
       THEN /\ sitting < MaxSittings
            /\ filled' = The.initial
            /\ key' = key + 1
            /\ sitting' = sitting + 1
       ELSE UNCHANGED <<filled, key, sitting>>
    /\ UNCHANGED <<page, form, status, redrawn, attempts>>

Close ==
    /\ open
    /\ ~The.inline
    /\ open' = FALSE
    /\ UNCHANGED <<page, form, status, filled, key, sitting, redrawn, attempts>>

\* An input is filled in, or emptied.
Type ==
    /\ open
    /\ \E input \in The.required :
          \/ filled' = filled \cup {input}
          \/ filled' = filled \ {input}
    /\ attempts' = [i \in DOMAIN attempts |-> [attempts[i] EXCEPT !.untouched = FALSE]]
    /\ UNCHANGED <<page, form, status, open, key, sitting, redrawn>>

Regenerate ==
    /\ open
    /\ The.keyed
    /\ sitting < MaxSittings
    /\ key' = key + 1
    /\ sitting' = sitting + 1
    /\ UNCHANGED <<page, form, status, open, filled, redrawn, attempts>>

Latest(i) == i = Len(attempts)
Pending ==
    \E i \in DOMAIN attempts :
        Latest(i) /\ attempts[i].hookAlive /\ attempts[i].told = "waiting"

\* The button is enabled, and not yet redrawn if a call is pending.
Submit ==
    /\ open
    /\ Ready
    /\ Pending => ~redrawn
    /\ Len(attempts) < MaxAttempts
    /\ attempts' = Append(attempts,
            [ key |-> key, sitting |-> sitting, untouched |-> TRUE,
              formAlive |-> TRUE, hookAlive |-> TRUE, fate |-> "sent", told |-> "waiting" ])
    /\ redrawn' = FALSE
    /\ UNCHANGED <<page, form, status, open, filled, key, sitting>>

Redraw ==
    /\ ~redrawn
    /\ redrawn' = TRUE
    /\ UNCHANGED <<page, form, status, open, filled, key, sitting, attempts>>

-----------------------------------------------------------------------------
\* The server.  It may get to a call long after the console has given it up.

\* Only the ledger is sent a key; it posts no second transaction with one.
KeyUnused(i) ==
    The.keyed =>
        \A j \in DOMAIN attempts :
            attempts[j].fate = "applied" => attempts[j].key # attempts[i].key

\* The moves that the form asks for and that the object can make.
Possible ==
    {m \in Moves : m.kind = The.of /\ m.op = The.op /\ m.from = status}

Apply(i) ==
    /\ attempts[i].fate = "sent"
    /\ form \in Readable
    /\ KeyUnused(i)
    /\ \E m \in Possible : status' = m.to
    /\ attempts' = [attempts EXCEPT ![i].fate = "applied"]
    /\ UNCHANGED <<page, form, inputs>>

\* How a call may be refused: because it cannot be read, or because an amount in
\* it, of which the call here tells nothing, turns out to be beyond int64; because it
\* comes too late, or for a reason of the server's: a balance, a key it knows.
Refusals ==
    IF form \notin Readable THEN {"malformed"}
    ELSE {"refused"} \cup (IF ServedWhole(The.call) THEN {} ELSE {"beyond int64"})

Refuse(i) ==
    /\ attempts[i].fate = "sent"
    /\ \E fate \in Refusals : attempts' = [attempts EXCEPT ![i].fate = fate]
    /\ UNCHANGED <<page, form, status, inputs>>

\* Another client, or the course of things, moves the object.
MovedElsewhere ==
    /\ \E m \in Moves :
          /\ m.kind = The.of
          /\ m.from = status
          /\ m.to # status
          /\ status' = m.to
    /\ UNCHANGED <<page, form, inputs, attempts>>

-----------------------------------------------------------------------------
\* The answers.

\* Fault: the callbacks run wherever the user has gone.
HeardAnywhere(i) == Latest(i)
Heard(i) == attempts[i].hookAlive /\ Latest(i)
Clears(i) == IF The.settles = "callback" THEN Heard(i) ELSE attempts[i].formAlive
Goes(i) == The.goes = "await" \/ (The.goes = "callback" /\ Heard(i))

Told(i, answer) ==
    [attempts EXCEPT ![i].told =
        IF The.settles = "await" \/ Heard(i) THEN answer ELSE "unheard"]

\* Fault: the dialog is closed with its inputs in it.
OnlyClosed ==
    /\ open' = The.inline
    /\ key' = IF The.keyed THEN key + 1 ELSE key
    /\ UNCHANGED <<filled, sitting, redrawn>>

\* The inputs after a success: emptied, and the dialog closed.
Cleared ==
    /\ open' = The.inline
    /\ filled' = filled \cap The.kept
    /\ key' = IF The.keyed THEN key + 1 ELSE key
    /\ UNCHANGED <<sitting, redrawn>>

Answered(i) ==
    /\ attempts[i].fate = "applied"
    /\ attempts[i].told = "waiting"

\* A success that takes the user away: to the settlement, the new participant,
\* the list of accounts.
SucceedAndGo(i) ==
    /\ Answered(i)
    /\ Goes(i)
    /\ \/ The.hook = "shell"
          /\ at' = "target"
          /\ Cleared
          /\ attempts' = Told(i, "success")
          /\ UNCHANGED <<form, status, view>>
       \/ The.hook # "shell" /\ Left("target", Told(i, "success"))

\* The success of a reversal puts the copy away.
SucceedAndDeselect(i) ==
    /\ Answered(i)
    /\ The.copied
    /\ Heard(i)
    /\ See(Loading, Told(i, "success"))

Succeed(i) ==
    /\ Answered(i)
    /\ ~Goes(i)
    /\ ~(The.copied /\ Heard(i))
    /\ \/ Clears(i) /\ Cleared
       \/ ~Clears(i) /\ UNCHANGED inputs
    /\ attempts' = Told(i, "success")
    /\ UNCHANGED <<page, form, status>>

\* Fault: a fresh key per attempt.
FailAndRenew(i) ==
    /\ attempts[i].told = "waiting"
    /\ attempts' = Told(i, "error")
    /\ key' = IF The.keyed THEN key + 1 ELSE key
    /\ UNCHANGED <<page, form, status, open, filled, sitting, redrawn>>

\* The server refused, or its answer was lost, or it was not reached: the error
\* is shown, and nothing else changes.
Fail(i) ==
    /\ attempts[i].told = "waiting"
    /\ attempts' = Told(i, "error")
    /\ UNCHANGED <<page, form, status, inputs>>

Next ==
    \/ Load \/ LoadFails \/ Deselect \/ Leave \/ Arrive
    \/ Open \/ Close \/ Type \/ Regenerate \/ Submit \/ Redraw
    \/ MovedElsewhere
    \/ \E i \in DOMAIN attempts :
          \/ Apply(i) \/ Refuse(i)
          \/ SucceedAndGo(i) \/ SucceedAndDeselect(i) \/ Succeed(i) \/ Fail(i)

Spec == Init /\ [][Next]_vars

-----------------------------------------------------------------------------
(* "the backend rejects a second transaction with the same key, so a       *)
(* network retry can't double-post" (idempotency.ts:1-3): however often    *)
(* the form for a transaction is submitted between two times it took a     *)
(* key, by a double click, or again after an error, with other values or   *)
(* the same, the ledger posts once at most.                                *)
OncePerSitting ==
    The.keyed =>
        \A i, j \in DOMAIN attempts :
            /\ attempts[i].fate = "applied" /\ attempts[j].fate = "applied"
            /\ attempts[i].sitting = attempts[j].sitting
            => i = j

(* What cannot be undone is done once: a transaction is reversed, a hold   *)
(* released or captured, an account closed, a cycle closed or settled, a   *)
(* payment rejected or returned, by one of the attempts at it at most,     *)
(* over every visit to the page.                                           *)
Final == {"reverse", "release", "capture", "close", "closeCycle", "settleCycle",
          "reject", "return"}

FinalOnce ==
    The.op \in Final =>
        \A i, j \in DOMAIN attempts :
            attempts[i].fate = "applied" /\ attempts[j].fate = "applied" => i = j

(* Once a form has been told of a success it cannot be submitted again as  *)
(* it stands: it was closed, or some input must be filled in first, though *)
(* it may have been closed and reopened before the answer came.            *)
SuccessDisarms ==
    \A i \in DOMAIN attempts :
        LET a == attempts[i] IN
        a.told = "success" /\ a.formAlive /\ a.untouched /\ The.required # {} =>
            ~(open /\ Ready)

\* The exceptions: the statuses in which a page offers an operation that the
\* server refuses, and those in which it keeps back one that would be allowed.
OfferedAnyway ==
    [ reject |-> {"Cleared"}, hold |-> {"Frozen", "Dormant", "Closed"} ]
NotOffered ==
    [ fund |-> {"Closed"}, revoke |-> {"Revoked"} ]
Excepted(table) == IF The.op \in DOMAIN table THEN table[The.op] ELSE {}

(* A page that shows an object as it is offers an operation exactly when   *)
(* the server allows it, but for the exceptions named: "only showing the   *)
(* legal ones keeps the UI honest" (the deposit account's page, 39-41).    *)
OffersExact ==
    at = "page" /\ view = status =>
        /\ Possible = {} => (Offered <=> status \in Excepted(OfferedAnyway))
        /\ Possible # {} => (Offered <=> status \notin Excepted(NotOffered))

\* The forms in which an amount is typed.
AmountForms ==
    { "PostTransaction", "OpenDepositAccount", "Fund", "NewHold", "CaptureHold",
      "NewMandate", "InitiatePush", "InitiatePull" }

(* The console sends nothing that the server cannot read: every call of a  *)
(* form and every read of its page has a route, and a body the handler     *)
(* decodes (types.ts:3-4: "the backend uses DisallowUnknownFields()").     *)
(* The exception is an amount beyond int64, which money.ts lets a user     *)
(* type: it makes a call unreadable from eight forms, and from no other.   *)
NothingMalformed ==
    /\ view # "malformed"
    /\ \A i \in DOMAIN attempts :
          /\ attempts[i].fate # "malformed"
          /\ attempts[i].fate = "beyond int64" => form \in AmountForms

(* An answer takes the user to another page only from the visit to the     *)
(* page on which the operation was confirmed, except that settling a cycle *)
(* does wherever the user has gone, and so does the form in the top bar.   *)
NoLateMove ==
    [][ at' = "target" /\ at # "target" /\ form \notin {"SettleCycle", "NewParticipantTopbar"} =>
            /\ at = "page"
            /\ \E i \in DOMAIN attempts :
                  /\ attempts[i].hookAlive
                  /\ attempts[i].told = "waiting"
                  /\ attempts'[i].told # "waiting" ]_vars

=============================================================================
