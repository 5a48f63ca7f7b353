----------------------------- MODULE LegEditor ------------------------------
(***************************************************************************)
(* The legs of the form for a transaction (PostTransactionForm, with its   *)
(* MoneyInputs and money.ts): accounts, directions and amounts are edited, *)
(* legs added and removed, and the entries sent to the ledger, which       *)
(* checks them.                                                            *)
(*                                                                         *)
(* A leg holds its amount in cents; the input for it holds the text it     *)
(* shows in a state of its own.  The legs are rendered with their index as *)
(* the key, so an input belongs to a position and not to a leg.            *)
(*                                                                         *)
(* The form computes with doubles, whose integers are exact up to 2^53 and *)
(* rounded beyond; the ledger reads and adds int64s, which wrap around.    *)
(***************************************************************************)
EXTENDS Integers, Sequences, SequencesExt

CONSTANTS
    Account,        \* the GL accounts the picker offers
    NoAccount,      \* the empty string
    Cents,          \* the finite amounts looked at, in cents: integers that are doubles
    Infinity,       \* what Number() makes of "Infinity" or "1e999"
    Null,           \* no amount
    NoCall,
    Typed,          \* the texts typed
    MaxLegs,        \* bound on the legs
    Safe,           \* 2^53: every integer up to it is a double
    MaxDouble,      \* the greatest double
    HalfRange       \* 2^63: an int64 lies in -HalfRange .. HalfRange - 1

Direction == {"Debit", "Credit"}
Amount == Cents \cup {Infinity}

-----------------------------------------------------------------------------
\* Doubles.  Minus infinity is left out: like every amount that is not positive,
\* it keeps the form from being ready, whatever the sums.

Magnitude(n) == IF n < 0 THEN -n ELSE n

\* The distance of the doubles about a magnitude, among the integers.
Spacing[n \in Nat] == IF n < Safe THEN 1 ELSE 2 * Spacing[n \div 2]

\* The nearest double to a magnitude, of two as near the one whose last bit is 0.
Nearest(n) ==
    LET u == Spacing[n]
        below == n \div u
        up == 2 * (n % u) > u \/ (2 * (n % u) = u /\ below % 2 = 1)
    IN  u * (IF up THEN below + 1 ELSE below)

Rounded(n) ==
    IF Magnitude(n) <= Safe THEN n
    ELSE IF n < 0 THEN -Nearest(-n)
    ELSE IF Nearest(n) > MaxDouble THEN Infinity ELSE Nearest(n)

Plus(a, b) == IF Infinity \in {a, b} THEN Infinity ELSE Rounded(a + b)

\* int64s.
Wrap(n) == ((n + HalfRange) % (2 * HalfRange)) - HalfRange
Int64 == -HalfRange .. HalfRange - 1

ASSUME AmountAssumption ==
    /\ Safe \in Nat \ {0} /\ HalfRange \in Nat /\ Safe < HalfRange
    /\ Cents \subseteq Int /\ \A c \in Cents : Rounded(c) = c
    /\ Infinity \notin Int /\ Null \notin Int /\ Infinity # Null
ASSUME AccountAssumption == NoAccount \notin Account
ASSUME BoundAssumption == MaxLegs \in Nat /\ MaxLegs >= 2

-----------------------------------------------------------------------------
\* A text is known by the amount parseDollars makes of it, if any, and whether it
\* is written as centsToInput would.

Text == [spells : Amount \cup {Null}, tidy : BOOLEAN]
EmptyText == [spells |-> Null, tidy |-> TRUE]

ASSUME TypedAssumption == Typed \subseteq Text

\* parseDollars: null for an empty text and for what is no number, else rounded
\* to cents.
ParseDollars(text) == text.spells

\* centsToInput divides by 100 and parseDollars multiplies by it.  Up to a quarter
\* of Safe neither loses a cent; beyond, the text may spell a double next to the
\* amount it was made of.
Legible == Safe \div 4
Spelling(cents) ==
    IF cents = Infinity \/ Magnitude(cents) <= Legible THEN {cents}
    ELSE {c \in Cents : Magnitude(c - cents) <= Spacing[Magnitude(cents)]}
CentsToInput(cents) == {[spells |-> c, tidy |-> TRUE] : c \in Spelling(cents)}

-----------------------------------------------------------------------------
VARIABLES
    open,      \* the dialog is open
    legs,      \* the legs the form holds
    texts,     \* the text each MoneyInput shows, by position
    sent       \* what holds of the entries of the call that is out, or NoCall

vars == <<open, legs, texts, sent>>

Leg == [account : Account \cup {NoAccount}, direction : Direction, cents : Amount \cup {Null}]
EmptyLeg(direction) == [account |-> NoAccount, direction |-> direction, cents |-> Null]
EmptyLegs == <<EmptyLeg("Debit"), EmptyLeg("Credit")>>

\* Of the entries sent: the server reads them and the ledger takes them, their sums
\* are within the range where doubles are exact, and the screen showed them so.
Call == [postable : BOOLEAN, safe : BOOLEAN, asShown : BOOLEAN]

\* The inputs of a new form: all are empty.
Shown(lines) == [i \in DOMAIN lines |-> EmptyText]

Init ==
    /\ open = FALSE
    /\ legs = EmptyLegs
    /\ texts = Shown(EmptyLegs)
    /\ sent = NoCall

\* The text shown for a leg spells its amount.
Agree(i) == ParseDollars(texts[i]) = legs[i].cents

\* What each leg, or entry, adds to its side, nulls counting as nothing.
Side(direction, amounts) ==
    [i \in DOMAIN legs |->
        IF legs[i].direction = direction /\ amounts[i] # Null THEN amounts[i] ELSE 0]

Held == [i \in DOMAIN legs |-> legs[i].cents]

\* The form's sum of a side, taken from the first leg to the last.
Total(direction) ==
    LET sum[n \in 0 .. Len(legs)] ==
            IF n = 0 THEN 0 ELSE Plus(sum[n - 1], Side(direction, Held)[n])
    IN  sum[Len(legs)]

Positive(cents) == cents # Null /\ (cents # Infinity => cents > 0)

Balanced ==
    /\ Total("Debit") = Total("Credit")
    /\ Positive(Total("Debit"))

\* Fault: the form looks at the balance only.
BalancedOnly ==
    /\ Balanced
    /\ \A i \in DOMAIN legs : legs[i].account # NoAccount

Ready ==
    /\ Balanced
    /\ \A i \in DOMAIN legs : legs[i].account # NoAccount /\ Positive(legs[i].cents)

\* The form is opened: it starts anew, its inputs with it.
Open ==
    /\ ~open
    /\ open' = TRUE
    /\ legs' = EmptyLegs
    /\ texts' = Shown(EmptyLegs)
    /\ UNCHANGED sent

\* What the form held stays until it is opened again.
Close ==
    /\ open
    /\ open' = FALSE
    /\ UNCHANGED <<legs, texts, sent>>

PickAccount(i) ==
    /\ open
    /\ \E a \in Account : legs' = [legs EXCEPT ![i].account = a]
    /\ UNCHANGED <<open, texts, sent>>

PickDirection(i) ==
    /\ open
    /\ \E d \in Direction : legs' = [legs EXCEPT ![i].direction = d]
    /\ UNCHANGED <<open, texts, sent>>

\* Fault: the cents are set on leaving the input.
TypeText(i) ==
    /\ open
    /\ \E text \in Typed : texts' = [texts EXCEPT ![i] = text]
    /\ UNCHANGED <<open, legs, sent>>

\* Every keystroke sets both the text and the leg's cents.
TypeAmount(i) ==
    /\ open
    /\ \E text \in Typed :
          /\ texts' = [texts EXCEPT ![i] = text]
          /\ legs' = [legs EXCEPT ![i].cents = ParseDollars(text)]
    /\ UNCHANGED <<open, sent>>

\* Leaving an input tidies the text, whatever the leg's cents are.
Blur(i) ==
    /\ open
    /\ ParseDollars(texts[i]) # Null
    /\ \E text \in CentsToInput(ParseDollars(texts[i])) :
          texts' = [texts EXCEPT ![i] = text]
    /\ UNCHANGED <<open, legs, sent>>

AddLeg ==
    /\ open
    /\ Len(legs) < MaxLegs
    /\ legs' = Append(legs, EmptyLeg("Credit"))
    /\ texts' = Append(texts, EmptyText)
    /\ UNCHANGED <<open, sent>>

\* Fault: the button to remove a leg is not disabled with two left.
RemoveAny(i) ==
    /\ open
    /\ legs' = RemoveAt(legs, i)
    /\ texts' = SubSeq(texts, 1, Len(texts) - 1)
    /\ UNCHANGED <<open, sent>>

\* The legs behind it move up; the inputs keep their places and the last goes.
RemoveLeg(i) ==
    /\ open
    /\ Len(legs) > 2
    /\ legs' = RemoveAt(legs, i)
    /\ texts' = SubSeq(texts, 1, Len(texts) - 1)
    /\ UNCHANGED <<open, sent>>

\* An amount on its way: none is sent as 0; JSON has no infinity and sends null,
\* which the server decodes as 0; a double beyond Safe is printed with the fewest
\* digits that tell it from the next, and so is read as an integer near it.
Arrives(cents) ==
    IF cents \in {Null, Infinity} THEN {0}
    ELSE IF Magnitude(cents) <= Safe THEN {cents}
    ELSE LET u == Spacing[Magnitude(cents)]
         IN  {n \in cents - u .. cents + u : Rounded(n) = cents}

\* The server decodes the amounts, and they are what the ledger asks of the entries
\* alone.
Postable(amounts) ==
    /\ legs # <<>>
    /\ \A i \in DOMAIN legs :
          amounts[i] \in Int64 /\ amounts[i] > 0 /\ legs[i].account # NoAccount
    /\ Wrap(SumFunction(Side("Debit", amounts))) = Wrap(SumFunction(Side("Credit", amounts)))

\* Every amount is a finite number, and neither side exceeds Safe.
WithinSafe ==
    /\ \A i \in DOMAIN legs : legs[i].cents # Infinity
    /\ \A direction \in Direction : SumFunction(Side(direction, Held)) <= Safe

\* The button waits for the call that is out.
Submit ==
    /\ open
    /\ Ready
    /\ sent = NoCall
    /\ \E amounts \in [DOMAIN legs -> UNION {Arrives(legs[i].cents) : i \in DOMAIN legs}] :
          /\ \A i \in DOMAIN legs : amounts[i] \in Arrives(legs[i].cents)
          /\ sent' = [ postable |-> Postable(amounts),
                       safe |-> WithinSafe,
                       asShown |-> \A i \in DOMAIN legs : Agree(i) ]
    /\ UNCHANGED <<open, legs, texts>>

\* The ledger posts them: the form is reset and closed, even if it was closed
\* and opened again meanwhile.
Posted ==
    /\ sent # NoCall
    /\ sent.postable
    /\ open' = FALSE
    /\ legs' = EmptyLegs
    /\ texts' = Shown(EmptyLegs)
    /\ sent' = NoCall

\* It refuses, or the answer is lost.
NotPosted ==
    /\ sent # NoCall
    /\ sent' = NoCall
    /\ UNCHANGED <<open, legs, texts>>

Next ==
    \/ Open \/ Close \/ AddLeg \/ Submit \/ Posted \/ NotPosted
    \/ \E i \in DOMAIN legs :
          \/ PickAccount(i) \/ PickDirection(i) \/ TypeAmount(i)
          \/ Blur(i) \/ RemoveLeg(i)

Spec == Init /\ [][Next]_vars

-----------------------------------------------------------------------------
(* The variables keep to their types: there is one input to each leg, and  *)
(* never fewer than two.                                                   *)
TypeOK ==
    /\ open \in BOOLEAN
    /\ legs \in Seq(Leg) /\ Len(legs) >= 2
    /\ texts \in Seq(Text) /\ Len(texts) = Len(legs)
    /\ sent \in Call \cup {NoCall}

(* The form's check in doubles stands for the ledger's in int64s: what it  *)
(* sends the server can read, and it balances, in positive amounts.  The   *)
(* exceptions are an amount that is no finite number, and a side that adds *)
(* up to more than 2^53 cents: the form may then take for balanced what is *)
(* not, or send amounts beyond int64, which the server cannot read.        *)
SentPostable ==
    sent # NoCall /\ sent.safe => sent.postable

TextsAgree == \A i \in DOMAIN legs : Agree(i)

(* Of amounts up to Legible, 2^51 cents, those shown and those held part   *)
(* company in one way only: by removing a leg that is not the last.        *)
(* Typing, leaving an input, adding a leg, closing and opening the form,   *)
(* and an answer keep them together.  A greater amount may be shown as     *)
(* another when its input is left, and only then.                          *)
OnlyRemovalParts ==
    [][ TextsAgree /\ ~TextsAgree' =>
            \E i \in DOMAIN legs :
                \/ i # Len(legs) /\ RemoveLeg(i)
                \/ Blur(i) /\ legs[i].cents # Infinity /\ Magnitude(legs[i].cents) > Legible ]_vars

(* The amounts sent are those on the screen (money.tsx:49, of valueCents:  *)
(* "Current value in integer cents, or null when empty").                  *)
ShownIsSent == sent # NoCall => sent.asShown

=============================================================================
