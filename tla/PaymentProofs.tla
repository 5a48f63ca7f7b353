--------------------------- MODULE PaymentProofs ----------------------------
(***************************************************************************)
(* Theorems about the payment network, for any number of banks, accounts,  *)
(* payments and cycles: the lifecycles of payments and cycles agree, a     *)
(* client reference is used once, the legs posted are those a payment's    *)
(* status claims, and to its customers the network is a set of transfers.  *)
(* None of it reads the sums the network computes, and so the net          *)
(* positions are not typed here: MoneyProofs is about those.               *)
(***************************************************************************)
EXTENDS Payment, TLAPS, SequenceTheorems

PaymentRecord ==
  [scheme: Scheme, debtor: Account, creditor: Account, amount: Sum, mandate: Nat,
   endToEnd: EndToEnd \cup {NoEndToEnd}, status: PaymentStatus, cycle: Nat]

CycleRecord(Nets) ==
  [scheme: Scheme, status: {"Open", "Closed", "Settled"}, payments: SUBSET Nat, net: Nets]

(* A list of cycle records, whatever their net positions. *)
CycleList(cs) == \E Nets : cs \in Seq(CycleRecord(Nets))

(* The cycles with cycle c's status, payments and net positions replaced. *)
WithCycle(c, st, S, net) ==
  [cycles EXCEPT ![c] = [cycles[c] EXCEPT !.status = st, !.payments = S, !.net = net]]

(* What the lifecycles need of the types. *)
Shape ==
  /\ payments \in Seq(PaymentRecord)
  /\ openCycle \in [Scheme -> Nat]
  /\ CycleList(cycles)

LifecycleInv == Shape /\ OpenCycleIndex /\ PaymentsFollowCycle /\ EndToEndOnce
-----------------------------------------------------------------------------
(* What appending does to a sequence. *)
LEMMA Appended ==
  ASSUME NEW S, NEW seq \in Seq(S), NEW e \in S
  PROVE  /\ Append(seq, e) \in Seq(S)
         /\ DOMAIN Append(seq, e) = DOMAIN seq \cup {Len(seq) + 1}
         /\ Len(seq) \in Nat /\ Len(seq) + 1 \notin DOMAIN seq
         /\ \A i \in DOMAIN seq : Append(seq, e)[i] = seq[i]
         /\ Append(seq, e)[Len(seq) + 1] = e
         /\ DOMAIN seq \subseteq Nat \ {0}
  BY AppendProperties, LenProperties

(* What updating one position does to a sequence. *)
LEMMA Updated ==
  ASSUME NEW S, NEW seq \in Seq(S), NEW i \in DOMAIN seq, NEW e \in S
  PROVE  /\ [seq EXCEPT ![i] = e] \in Seq(S)
         /\ DOMAIN [seq EXCEPT ![i] = e] = DOMAIN seq
         /\ [seq EXCEPT ![i] = e][i] = e
         /\ \A j \in DOMAIN seq \ {i} : [seq EXCEPT ![i] = e][j] = seq[j]
  BY ExceptSeq, LenProperties

(* Every payment of the network is a payment record, and every cycle one.   *)
LEMMA Records ==
  ASSUME Shape
  PROVE  /\ \A n \in DOMAIN payments : payments[n] \in PaymentRecord
         /\ \E Nets : /\ cycles \in Seq(CycleRecord(Nets))
                      /\ \A c \in DOMAIN cycles : cycles[c] \in CycleRecord(Nets)
         /\ DOMAIN payments \subseteq Nat \ {0} /\ DOMAIN cycles \subseteq Nat \ {0}
  <1>1. payments \in Seq(PaymentRecord)
    BY DEF Shape
  <1>2. PICK Nets : cycles \in Seq(CycleRecord(Nets))
    BY DEF Shape, CycleList
  <1>3. \A n \in DOMAIN payments : payments[n] \in PaymentRecord
    BY <1>1, ElementOfSeq, LenProperties
  <1>4. \A c \in DOMAIN cycles : cycles[c] \in CycleRecord(Nets)
    BY <1>2, ElementOfSeq, LenProperties
  <1>5. DOMAIN payments \subseteq Nat \ {0} /\ DOMAIN cycles \subseteq Nat \ {0}
    BY <1>1, <1>2, LenProperties
  <1>6. QED BY <1>2, <1>3, <1>4, <1>5

(* Marking payments changes their status and nothing else. *)
LEMMA Marked ==
  ASSUME Shape, NEW S, NEW to \in PaymentStatus
  PROVE  /\ Mark(S, to) \in Seq(PaymentRecord)
         /\ DOMAIN Mark(S, to) = DOMAIN payments
         /\ \A n \in DOMAIN payments :
              /\ Mark(S, to)[n].cycle = payments[n].cycle
              /\ Mark(S, to)[n].scheme = payments[n].scheme
              /\ Mark(S, to)[n].endToEnd = payments[n].endToEnd
              /\ Mark(S, to)[n].status = IF n \in S THEN to ELSE payments[n].status
  <1>1. PICK m \in Nat : payments \in [1 .. m -> PaymentRecord]
    BY SeqDef DEF Shape
  <1>2. \A n \in DOMAIN payments : [payments[n] EXCEPT !.status = to] \in PaymentRecord
    BY <1>1 DEF PaymentRecord
  <1>3. Mark(S, to) \in [1 .. m -> PaymentRecord]
    BY <1>1, <1>2 DEF Mark
  <1>4. \A n \in DOMAIN payments :
          /\ [payments[n] EXCEPT !.status = to].cycle = payments[n].cycle
          /\ [payments[n] EXCEPT !.status = to].scheme = payments[n].scheme
          /\ [payments[n] EXCEPT !.status = to].endToEnd = payments[n].endToEnd
          /\ [payments[n] EXCEPT !.status = to].status = to
    BY <1>1 DEF PaymentRecord
  <1>5. QED BY <1>1, <1>3, <1>4, SeqDef DEF Mark
-----------------------------------------------------------------------------
(* A step that marks payments and leaves their references alone keeps       *)
(* EndToEndOnce.                                                            *)
LEMMA MarkKeepsReferences ==
  ASSUME LifecycleInv, NEW S, NEW to \in PaymentStatus,
         payments' = Mark(S, to), endToEndIndex' = endToEndIndex
  PROVE  EndToEndOnce'
  <1>1. Shape
    BY DEF LifecycleInv
  <1>2. /\ DOMAIN payments' = DOMAIN payments
        /\ \A n \in DOMAIN payments : payments'[n].endToEnd = payments[n].endToEnd
    BY <1>1, Marked
  <1>3. {payments'[n].endToEnd : n \in DOMAIN payments'} = {payments[n].endToEnd : n \in DOMAIN payments}
    BY <1>2
  <1>4. QED BY <1>2, <1>3 DEF LifecycleInv, EndToEndOnce

(* Changing cycle c to r, a record of the same scheme with other payments,  *)
(* status and net positions, keeps the cycles well shaped.                  *)
LEMMA ChangedCycle ==
  ASSUME Shape, NEW c \in DOMAIN cycles, NEW st \in {"Open", "Closed", "Settled"},
         NEW S \in SUBSET Nat, NEW net
  PROVE  LET changed == WithCycle(c, st, S, net)
         IN  /\ CycleList(changed)
             /\ DOMAIN changed = DOMAIN cycles
             /\ changed[c].status = st /\ changed[c].payments = S
             /\ changed[c].scheme = cycles[c].scheme
             /\ \A d \in DOMAIN cycles \ {c} : changed[d] = cycles[d]
  <1> DEFINE r == [cycles[c] EXCEPT !.status = st, !.payments = S, !.net = net]
             changed == [cycles EXCEPT ![c] = r]
  <1>1. PICK Nets : cycles \in Seq(CycleRecord(Nets)) /\ cycles[c] \in CycleRecord(Nets)
    BY Records
  <1> DEFINE More == Nets \cup {net}
  <1>2. CycleRecord(Nets) \subseteq CycleRecord(More)
    BY DEF CycleRecord
  <1>3. cycles \in Seq(CycleRecord(More))
    BY <1>1, <1>2, SeqMonotonic
  <1>4. r \in CycleRecord(More) /\ r.status = st /\ r.payments = S /\ r.scheme = cycles[c].scheme
    BY <1>1 DEF CycleRecord
  <1> HIDE DEF More, r
  <1>5. /\ changed \in Seq(CycleRecord(More)) /\ DOMAIN changed = DOMAIN cycles
        /\ changed[c] = r /\ \A d \in DOMAIN cycles \ {c} : changed[d] = cycles[d]
    BY <1>3, <1>4, Updated
  <1>6. CycleList(changed)
    BY <1>5 DEF CycleList
  <1>7. QED BY <1>4, <1>5, <1>6 DEF r, WithCycle

(* A new cycle is open, empty and the open cycle of its scheme. *)
LEMMA OpenCycleKeeps ==
  ASSUME LifecycleInv, NEW scheme \in Scheme, OpenCycle(scheme)
  PROVE  LifecycleInv'
  <1> DEFINE c == Len(cycles) + 1
             net0 == [b \in Participant |-> 0]
             new == [scheme |-> scheme, status |-> "Open", payments |-> {}, net |-> net0]
  <1>1. Shape /\ OpenCycleIndex /\ PaymentsFollowCycle /\ EndToEndOnce
    BY DEF LifecycleInv
  <1>2. PICK Nets : cycles \in Seq(CycleRecord(Nets))
    BY <1>1 DEF Shape, CycleList
  <1> DEFINE More == Nets \cup {net0}
  <1>3. cycles \in Seq(CycleRecord(More))
    <2>1. CycleRecord(Nets) \subseteq CycleRecord(More)
      BY DEF CycleRecord
    <2>2. QED BY <1>2, <2>1, SeqMonotonic
  <1>4. new \in CycleRecord(More)
    BY DEF CycleRecord
  <1>5. /\ cycles' = Append(cycles, new) /\ UNCHANGED <<payments, endToEndIndex>>
        /\ openCycle[scheme] = 0 /\ openCycle' = [openCycle EXCEPT ![scheme] = c]
    BY DEF OpenCycle
  <1> HIDE DEF More
  <1>6. /\ cycles' \in Seq(CycleRecord(More))
        /\ DOMAIN cycles' = DOMAIN cycles \cup {c} /\ c \notin DOMAIN cycles /\ c \in Nat \ {0}
        /\ \A d \in DOMAIN cycles : cycles'[d] = cycles[d]
        /\ cycles'[c] = new
    BY <1>3, <1>4, <1>5, Appended
  <1>7. openCycle' \in [Scheme -> Nat] /\ openCycle'[scheme] = c
          /\ \A s \in Scheme \ {scheme} : openCycle'[s] = openCycle[s]
    BY <1>1, <1>5, <1>6 DEF Shape
  <1>8. \A d \in DOMAIN cycles : cycles[d].scheme \in Scheme
    <2>1. \A d \in DOMAIN cycles : cycles[d] \in CycleRecord(More)
      BY <1>3, ElementOfSeq, LenProperties
    <2>2. QED BY <2>1 DEF CycleRecord
  <1>9. Shape'
    BY <1>1, <1>5, <1>6, <1>7 DEF Shape, CycleList
  <1>10. OpenCycleIndex'
    <2>1. \A d \in DOMAIN cycles : cycles[d].status = "Open" => cycles[d].scheme # scheme
      BY <1>1, <1>5, <1>6, Records DEF OpenCycleIndex
    <2>2. QED BY <1>1, <1>6, <1>7, <1>8, <2>1 DEF OpenCycleIndex
  <1>11. PaymentsFollowCycle'
    BY <1>1, <1>5, <1>6 DEF PaymentsFollowCycle, Members
  <1>12. EndToEndOnce'
    BY <1>1, <1>5 DEF EndToEndOnce
  <1>13. QED BY <1>9, <1>10, <1>11, <1>12 DEF LifecycleInv

(* The cycle a step leaves with its payments is well described by its       *)
(* record's fields.                                                         *)
LEMMA CycleFields ==
  ASSUME Shape, NEW c \in DOMAIN cycles
  PROVE  /\ cycles[c].scheme \in Scheme
         /\ cycles[c].payments \in SUBSET Nat
         /\ cycles[c].status \in {"Open", "Closed", "Settled"}
         /\ c \in Nat \ {0}
         /\ \A st, net :
              [cycles EXCEPT ![c].status = st, ![c].net = net]
                = WithCycle(c, st, cycles[c].payments, net)
         /\ \A st :
              [cycles EXCEPT ![c].status = st]
                = WithCycle(c, st, cycles[c].payments, cycles[c].net)
         /\ \A S :
              [cycles EXCEPT ![c].payments = S]
                = WithCycle(c, cycles[c].status, S, cycles[c].net)
  <1>1. PICK Nets : cycles \in Seq(CycleRecord(Nets)) /\ cycles[c] \in CycleRecord(Nets)
    BY Records
  <1>2. DOMAIN cycles \subseteq Nat \ {0}
    BY Records
  <1>3. \A st, net : [[cycles[c] EXCEPT !.status = st] EXCEPT !.net = net]
          = [cycles[c] EXCEPT !.status = st, !.payments = cycles[c].payments, !.net = net]
    BY <1>1 DEF CycleRecord
  <1>4. \A st : [cycles[c] EXCEPT !.status = st]
          = [cycles[c] EXCEPT !.status = st, !.payments = cycles[c].payments, !.net = cycles[c].net]
    BY <1>1 DEF CycleRecord
  <1>5. \A S : [cycles[c] EXCEPT !.payments = S]
          = [cycles[c] EXCEPT !.status = cycles[c].status, !.payments = S, !.net = cycles[c].net]
    BY <1>1 DEF CycleRecord
  <1>6. \A st, net : [cycles EXCEPT ![c].status = st, ![c].net = net]
          = [cycles EXCEPT ![c] = [[cycles[c] EXCEPT !.status = st] EXCEPT !.net = net]]
    OBVIOUS
  <1>7. cycles[c].scheme \in Scheme /\ cycles[c].payments \in SUBSET Nat
          /\ cycles[c].status \in {"Open", "Closed", "Settled"} /\ c \in Nat \ {0}
    BY <1>1, <1>2 DEF CycleRecord
  <1>8. \A st, net :
          [cycles EXCEPT ![c].status = st, ![c].net = net]
            = WithCycle(c, st, cycles[c].payments, net)
    <2> TAKE st, net
    <2>1. [cycles EXCEPT ![c].status = st, ![c].net = net]
            = [cycles EXCEPT ![c] = [[cycles[c] EXCEPT !.status = st] EXCEPT !.net = net]]
      BY <1>6
    <2>2. [[cycles[c] EXCEPT !.status = st] EXCEPT !.net = net]
            = [cycles[c] EXCEPT !.status = st, !.payments = cycles[c].payments, !.net = net]
      BY <1>3
    <2>3. QED BY <2>1, <2>2 DEF WithCycle
  <1>9. \A st :
          [cycles EXCEPT ![c].status = st]
            = WithCycle(c, st, cycles[c].payments, cycles[c].net)
    BY <1>4 DEF WithCycle
  <1>10. \A S :
          [cycles EXCEPT ![c].payments = S]
            = WithCycle(c, cycles[c].status, S, cycles[c].net)
    BY <1>5 DEF WithCycle
  <1>11. QED BY <1>7, <1>8, <1>9, <1>10

(* Closing a cycle clears the payments it lists and frees its scheme. *)
LEMMA CloseCycleKeeps ==
  ASSUME LifecycleInv, NEW c \in DOMAIN cycles, CloseCycle(c)
  PROVE  LifecycleInv'
  <1> DEFINE net == [b \in Participant |-> NetPosition(Members(c), b)]
  <1>1. Shape /\ OpenCycleIndex /\ PaymentsFollowCycle /\ EndToEndOnce
    BY DEF LifecycleInv
  <1>2. /\ cycles[c].status = "Open"
        /\ payments' = Mark(Members(c), "Cleared") /\ endToEndIndex' = endToEndIndex
        /\ cycles' = [cycles EXCEPT ![c].status = "Closed", ![c].net = net]
        /\ openCycle' = [openCycle EXCEPT ![cycles[c].scheme] = 0]
    BY DEF CloseCycle
  <1> HIDE DEF net
  <1>3. /\ CycleList(cycles')
        /\ DOMAIN cycles' = DOMAIN cycles
        /\ cycles'[c].status = "Closed" /\ cycles'[c].payments = cycles[c].payments
        /\ cycles'[c].scheme = cycles[c].scheme
        /\ \A d \in DOMAIN cycles \ {c} : cycles'[d] = cycles[d]
    <2>1. cycles' = WithCycle(c, "Closed", cycles[c].payments, net)
      BY <1>1, <1>2, CycleFields
    <2>2. cycles[c].payments \in SUBSET Nat
      BY <1>1, CycleFields
    <2>3. QED BY <1>1, <2>1, <2>2, ChangedCycle
  <1>4. /\ payments' \in Seq(PaymentRecord) /\ DOMAIN payments' = DOMAIN payments
        /\ \A n \in DOMAIN payments :
             /\ payments'[n].cycle = payments[n].cycle
             /\ payments'[n].scheme = payments[n].scheme
             /\ payments'[n].status = IF n \in Members(c) THEN "Cleared" ELSE payments[n].status
    BY <1>1, <1>2, Marked DEF PaymentStatus
  <1>5. cycles[c].scheme \in Scheme /\ openCycle \in [Scheme -> Nat]
    BY <1>1, CycleFields DEF Shape
  <1>6. Shape'
    BY <1>2, <1>3, <1>4, <1>5 DEF Shape
  <1>7. OpenCycleIndex'
    <2>1. \A d \in DOMAIN cycles : cycles[d].scheme \in Scheme
      BY <1>1, CycleFields
    <2>2. openCycle[cycles[c].scheme] = c
      BY <1>1, <1>2 DEF OpenCycleIndex
    <2>3. \A s \in Scheme : openCycle'[s] = IF s = cycles[c].scheme THEN 0 ELSE openCycle[s]
      BY <1>2, <1>5
    <2>4. \A d \in DOMAIN cycles' : cycles'[d].scheme = cycles[d].scheme
      BY <1>3
    <2>5. \A s \in Scheme : openCycle'[s] # 0 =>
            /\ openCycle'[s] \in DOMAIN cycles'
            /\ cycles'[openCycle'[s]].status = "Open" /\ cycles'[openCycle'[s]].scheme = s
      BY <1>1, <1>3, <2>3 DEF OpenCycleIndex
    <2>6. \A d \in DOMAIN cycles' : cycles'[d].status = "Open" => openCycle'[cycles'[d].scheme] = d
      <3> SUFFICES ASSUME NEW d \in DOMAIN cycles', cycles'[d].status = "Open"
                   PROVE  openCycle'[cycles'[d].scheme] = d
        OBVIOUS
      <3>1. d # c /\ d \in DOMAIN cycles /\ cycles'[d] = cycles[d]
        BY <1>3
      <3>2. openCycle[cycles[d].scheme] = d
        BY <1>1, <3>1 DEF OpenCycleIndex
      <3>3. cycles[d].scheme # cycles[c].scheme
        BY <2>2, <3>1, <3>2
      <3>4. QED BY <2>1, <2>3, <3>1, <3>2, <3>3
    <2>7. QED BY <2>5, <2>6 DEF OpenCycleIndex
  <1>8. PaymentsFollowCycle'
    <2>1. \A d \in DOMAIN cycles : cycles'[d].payments = cycles[d].payments
                                      /\ cycles'[d].scheme = cycles[d].scheme
      BY <1>3
    <2>2. \A d \in DOMAIN cycles' : cycles'[d].payments \subseteq DOMAIN payments'
      BY <1>1, <1>3, <1>4, <2>1 DEF PaymentsFollowCycle, Members
    <2>3. ASSUME NEW n \in DOMAIN payments
          PROVE  /\ payments'[n].cycle \in DOMAIN cycles'
                 /\ \A d \in DOMAIN cycles' :
                      n \in cycles'[d].payments
                        <=> (d = payments'[n].cycle /\ payments'[n].status # "Rejected")
                 /\ cycles'[payments'[n].cycle].scheme = payments'[n].scheme
                 /\ payments'[n].status # "Rejected" =>
                      cycles'[payments'[n].cycle].status = CycleStatusFor(payments'[n].status)
      <3>1. /\ payments[n].cycle \in DOMAIN cycles
            /\ \A d \in DOMAIN cycles :
                 n \in cycles[d].payments
                   <=> (d = payments[n].cycle /\ payments[n].status # "Rejected")
            /\ cycles[payments[n].cycle].scheme = payments[n].scheme
            /\ payments[n].status # "Rejected" =>
                 cycles[payments[n].cycle].status = CycleStatusFor(payments[n].status)
        BY <1>1 DEF PaymentsFollowCycle, Members
      <3>2. CASE n \in Members(c)
        <4>1. payments[n].cycle = c /\ payments'[n].status = "Cleared"
          BY <1>4, <3>1, <3>2 DEF Members
        <4>2. QED BY <1>3, <1>4, <2>1, <3>1, <3>2, <4>1 DEF CycleStatusFor, Members
      <3>3. CASE n \notin Members(c)
        <4>1. payments'[n].status = payments[n].status /\ payments'[n].cycle = payments[n].cycle
          BY <1>4, <3>3
        <4>2. payments[n].status # "Rejected" => payments[n].cycle # c
          BY <3>1, <3>3 DEF Members
        <4>3. QED BY <1>3, <1>4, <2>1, <3>1, <4>1, <4>2
      <3>4. QED BY <3>2, <3>3
    <2>4. QED BY <1>4, <2>2, <2>3 DEF PaymentsFollowCycle, Members
  <1>9. EndToEndOnce'
    BY <1>2, MarkKeepsReferences DEF PaymentStatus
  <1>10. QED BY <1>6, <1>7, <1>8, <1>9 DEF LifecycleInv

(* Settling a cycle in full settles the payments it lists. *)
LEMMA SettleInFullKeeps ==
  ASSUME LifecycleInv, NEW c \in DOMAIN cycles, SettleInFull(c)
  PROVE  LifecycleInv'
  <1>1. Shape /\ OpenCycleIndex /\ PaymentsFollowCycle /\ EndToEndOnce
    BY DEF LifecycleInv
  <1>2. /\ cycles[c].status = "Closed"
        /\ payments' = Mark(Members(c), "Settled")
        /\ cycles' = [cycles EXCEPT ![c].status = "Settled"]
        /\ UNCHANGED <<openCycle, endToEndIndex>>
    BY DEF SettleInFull, CanSettle
  <1>3. /\ CycleList(cycles')
        /\ DOMAIN cycles' = DOMAIN cycles
        /\ cycles'[c].status = "Settled" /\ cycles'[c].payments = cycles[c].payments
        /\ cycles'[c].scheme = cycles[c].scheme
        /\ \A d \in DOMAIN cycles \ {c} : cycles'[d] = cycles[d]
    <2>1. cycles' = WithCycle(c, "Settled", cycles[c].payments, cycles[c].net)
      BY <1>1, <1>2, CycleFields
    <2>2. cycles[c].payments \in SUBSET Nat
      BY <1>1, CycleFields
    <2>3. QED BY <1>1, <2>1, <2>2, ChangedCycle
  <1>4. /\ payments' \in Seq(PaymentRecord) /\ DOMAIN payments' = DOMAIN payments
        /\ \A n \in DOMAIN payments :
             /\ payments'[n].cycle = payments[n].cycle
             /\ payments'[n].scheme = payments[n].scheme
             /\ payments'[n].status = IF n \in Members(c) THEN "Settled" ELSE payments[n].status
    BY <1>1, <1>2, Marked DEF PaymentStatus
  <1>5. Shape'
    BY <1>1, <1>2, <1>3, <1>4 DEF Shape
  <1>6. OpenCycleIndex'
    BY <1>1, <1>2, <1>3 DEF OpenCycleIndex
  <1>7. PaymentsFollowCycle'
    <2>1. \A d \in DOMAIN cycles : cycles'[d].payments = cycles[d].payments
                                      /\ cycles'[d].scheme = cycles[d].scheme
      BY <1>3
    <2>2. \A d \in DOMAIN cycles' : cycles'[d].payments \subseteq DOMAIN payments'
      BY <1>1, <1>3, <1>4, <2>1 DEF PaymentsFollowCycle, Members
    <2>3. ASSUME NEW n \in DOMAIN payments
          PROVE  /\ payments'[n].cycle \in DOMAIN cycles'
                 /\ \A d \in DOMAIN cycles' :
                      n \in cycles'[d].payments
                        <=> (d = payments'[n].cycle /\ payments'[n].status # "Rejected")
                 /\ cycles'[payments'[n].cycle].scheme = payments'[n].scheme
                 /\ payments'[n].status # "Rejected" =>
                      cycles'[payments'[n].cycle].status = CycleStatusFor(payments'[n].status)
      <3>1. /\ payments[n].cycle \in DOMAIN cycles
            /\ \A d \in DOMAIN cycles :
                 n \in cycles[d].payments
                   <=> (d = payments[n].cycle /\ payments[n].status # "Rejected")
            /\ cycles[payments[n].cycle].scheme = payments[n].scheme
            /\ payments[n].status # "Rejected" =>
                 cycles[payments[n].cycle].status = CycleStatusFor(payments[n].status)
        BY <1>1 DEF PaymentsFollowCycle, Members
      <3>2. CASE n \in Members(c)
        <4>1. payments[n].cycle = c /\ payments'[n].status = "Settled"
          BY <1>4, <3>1, <3>2 DEF Members
        <4>2. QED BY <1>3, <1>4, <2>1, <3>1, <3>2, <4>1 DEF CycleStatusFor, Members
      <3>3. CASE n \notin Members(c)
        <4>1. payments'[n].status = payments[n].status /\ payments'[n].cycle = payments[n].cycle
          BY <1>4, <3>3
        <4>2. payments[n].status # "Rejected" => payments[n].cycle # c
          BY <3>1, <3>3 DEF Members
        <4>3. QED BY <1>3, <1>4, <2>1, <3>1, <4>1, <4>2
      <3>4. QED BY <3>2, <3>3
    <2>4. QED BY <1>4, <2>2, <2>3 DEF PaymentsFollowCycle, Members
  <1>8. EndToEndOnce'
    BY <1>2, MarkKeepsReferences DEF PaymentStatus
  <1>9. QED BY <1>5, <1>6, <1>7, <1>8 DEF LifecycleInv

(* A rejected payment leaves its cycle; its reference stays taken. *)
LEMMA RejectKeeps ==
  ASSUME LifecycleInv, NEW n \in DOMAIN payments, RejectPayment(n)
  PROVE  LifecycleInv'
  <1> DEFINE c == payments[n].cycle
             rest == Members(c) \ {n}
  <1>1. Shape /\ OpenCycleIndex /\ PaymentsFollowCycle /\ EndToEndOnce
    BY DEF LifecycleInv
  <1>2. /\ payments[n].status \in {"Initiated", "Accepted"}
        /\ cycles' = [cycles EXCEPT ![c].payments = rest]
        /\ payments' = Mark({n}, "Rejected")
        /\ UNCHANGED <<openCycle, endToEndIndex>>
    BY DEF RejectPayment, RemoveFromCycle
  <1>3. c \in DOMAIN cycles /\ rest \in SUBSET Nat
    BY <1>1, CycleFields DEF PaymentsFollowCycle, Members
  <1>4. /\ CycleList(cycles')
        /\ DOMAIN cycles' = DOMAIN cycles
        /\ cycles'[c].status = cycles[c].status /\ cycles'[c].payments = rest
        /\ cycles'[c].scheme = cycles[c].scheme
        /\ \A d \in DOMAIN cycles \ {c} : cycles'[d] = cycles[d]
    <2> HIDE DEF c, rest
    <2>1. cycles' = WithCycle(c, cycles[c].status, rest, cycles[c].net)
      BY <1>1, <1>2, <1>3, CycleFields
    <2>2. cycles[c].status \in {"Open", "Closed", "Settled"}
      BY <1>1, <1>3, CycleFields
    <2>3. QED BY <1>1, <1>3, <2>1, <2>2, ChangedCycle
  <1>5. /\ payments' \in Seq(PaymentRecord) /\ DOMAIN payments' = DOMAIN payments
        /\ \A m \in DOMAIN payments :
             /\ payments'[m].cycle = payments[m].cycle
             /\ payments'[m].scheme = payments[m].scheme
             /\ payments'[m].status = IF m = n THEN "Rejected" ELSE payments[m].status
    BY <1>1, <1>2, Marked DEF PaymentStatus
  <1>6. Shape'
    BY <1>1, <1>2, <1>4, <1>5 DEF Shape
  <1>7. OpenCycleIndex'
    <2> HIDE DEF c, rest
    <2>1. \A d \in DOMAIN cycles : cycles'[d].status = cycles[d].status
                                      /\ cycles'[d].scheme = cycles[d].scheme
      BY <1>4
    <2>2. QED BY <1>1, <1>2, <1>4, <2>1 DEF OpenCycleIndex
  <1>8. PaymentsFollowCycle'
    <2>1. \A d \in DOMAIN cycles : /\ cycles'[d].status = cycles[d].status
                                     /\ cycles'[d].scheme = cycles[d].scheme
                                     /\ cycles'[d].payments \subseteq cycles[d].payments
      BY <1>4 DEF Members
    <2>2. \A d \in DOMAIN cycles' : cycles'[d].payments \subseteq DOMAIN payments'
      BY <1>1, <1>4, <1>5, <2>1 DEF PaymentsFollowCycle, Members
    <2>3. ASSUME NEW m \in DOMAIN payments
          PROVE  /\ payments'[m].cycle \in DOMAIN cycles'
                 /\ \A d \in DOMAIN cycles' :
                      m \in cycles'[d].payments
                        <=> (d = payments'[m].cycle /\ payments'[m].status # "Rejected")
                 /\ cycles'[payments'[m].cycle].scheme = payments'[m].scheme
                 /\ payments'[m].status # "Rejected" =>
                      cycles'[payments'[m].cycle].status = CycleStatusFor(payments'[m].status)
      <3>1. /\ payments[m].cycle \in DOMAIN cycles
            /\ \A d \in DOMAIN cycles :
                 m \in cycles[d].payments
                   <=> (d = payments[m].cycle /\ payments[m].status # "Rejected")
            /\ cycles[payments[m].cycle].scheme = payments[m].scheme
            /\ payments[m].status # "Rejected" =>
                 cycles[payments[m].cycle].status = CycleStatusFor(payments[m].status)
        BY <1>1 DEF PaymentsFollowCycle, Members
      <3>2. CASE m = n
        BY <1>4, <1>5, <2>1, <3>1, <3>2 DEF Members
      <3>3. CASE m # n
        <4>1. payments'[m].status = payments[m].status /\ payments'[m].cycle = payments[m].cycle
                /\ payments'[m].scheme = payments[m].scheme
          BY <1>5, <3>3
        <4>2. \A d \in DOMAIN cycles : m \in cycles'[d].payments <=> m \in cycles[d].payments
          BY <1>4, <3>3 DEF Members
        <4>3. QED BY <1>4, <2>1, <3>1, <4>1, <4>2
      <3>4. QED BY <3>2, <3>3
    <2>4. QED BY <1>5, <2>2, <2>3 DEF PaymentsFollowCycle, Members
  <1>9. EndToEndOnce'
    BY <1>2, MarkKeepsReferences DEF PaymentStatus
  <1>10. QED BY <1>6, <1>7, <1>8, <1>9 DEF LifecycleInv

(* A returned payment stays with its settled cycle. *)
LEMMA ReturnInFullKeeps ==
  ASSUME LifecycleInv, NEW n \in DOMAIN payments, ReturnInFull(n)
  PROVE  LifecycleInv'
  <1>1. Shape /\ OpenCycleIndex /\ PaymentsFollowCycle /\ EndToEndOnce
    BY DEF LifecycleInv
  <1>2. /\ payments[n].status = "Settled"
        /\ payments' = Mark({n}, "Returned")
        /\ UNCHANGED <<cycles, openCycle, endToEndIndex>>
    BY DEF ReturnInFull, CanReturn
  <1>3. /\ payments' \in Seq(PaymentRecord) /\ DOMAIN payments' = DOMAIN payments
        /\ \A m \in DOMAIN payments :
             /\ payments'[m].cycle = payments[m].cycle
             /\ payments'[m].scheme = payments[m].scheme
             /\ payments'[m].status = IF m = n THEN "Returned" ELSE payments[m].status
    BY <1>1, <1>2, Marked DEF PaymentStatus
  <1>4. Shape'
    BY <1>1, <1>2, <1>3 DEF Shape
  <1>5. OpenCycleIndex'
    BY <1>1, <1>2 DEF OpenCycleIndex
  <1>6. PaymentsFollowCycle'
    <2>1. cycles' = cycles
      BY <1>2
    <2>2. ASSUME NEW m \in DOMAIN payments
          PROVE  /\ payments'[m].cycle \in DOMAIN cycles
                 /\ \A d \in DOMAIN cycles :
                      m \in cycles[d].payments
                        <=> (d = payments'[m].cycle /\ payments'[m].status # "Rejected")
                 /\ cycles[payments'[m].cycle].scheme = payments'[m].scheme
                 /\ payments'[m].status # "Rejected" =>
                      cycles[payments'[m].cycle].status = CycleStatusFor(payments'[m].status)
      <3>1. /\ payments[m].cycle \in DOMAIN cycles
            /\ \A d \in DOMAIN cycles :
                 m \in cycles[d].payments
                   <=> (d = payments[m].cycle /\ payments[m].status # "Rejected")
            /\ cycles[payments[m].cycle].scheme = payments[m].scheme
            /\ payments[m].status # "Rejected" =>
                 cycles[payments[m].cycle].status = CycleStatusFor(payments[m].status)
        BY <1>1 DEF PaymentsFollowCycle, Members
      <3>2. CASE m = n
        BY <1>2, <1>3, <3>1, <3>2 DEF CycleStatusFor
      <3>3. CASE m # n
        BY <1>3, <3>1, <3>3
      <3>4. QED BY <3>2, <3>3
    <2>3. QED BY <1>1, <1>3, <2>1, <2>2 DEF PaymentsFollowCycle, Members
  <1>7. EndToEndOnce'
    BY <1>2, MarkKeepsReferences DEF PaymentStatus
  <1>8. QED BY <1>4, <1>5, <1>6, <1>7 DEF LifecycleInv

(* A new payment joins the open cycle of its scheme, under a new reference. *)
LEMMA InitiateKeeps ==
  ASSUME LifecycleInv, NEW scheme \in Scheme, NEW debtor \in Account, NEW creditor \in Account,
         NEW amount \in Sum, NEW mandate \in Nat, NEW endToEnd \in EndToEnd \cup {NoEndToEnd},
         InitiatePayment(scheme, debtor, creditor, amount, mandate, endToEnd)
  PROVE  LifecycleInv'
  <1> DEFINE n == Len(payments) + 1
             c == openCycle[scheme]
             p == [scheme |-> scheme, debtor |-> debtor, creditor |-> creditor, amount |-> amount,
                   mandate |-> mandate, endToEnd |-> endToEnd, status |-> "Accepted", cycle |-> c]
             more == Members(c) \cup {n}
  <1>1. Shape /\ OpenCycleIndex /\ PaymentsFollowCycle /\ EndToEndOnce
    BY DEF LifecycleInv
  <1>2. /\ c # 0 /\ ReferenceFree(endToEnd)
        /\ payments' = Append(payments, p)
        /\ cycles' = [cycles EXCEPT ![c].payments = more]
        /\ endToEndIndex' = endToEndIndex \cup ({endToEnd} \ {NoEndToEnd})
        /\ UNCHANGED openCycle
    BY DEF InitiatePayment, Members
  <1>3. c \in DOMAIN cycles /\ cycles[c].status = "Open" /\ cycles[c].scheme = scheme
    BY <1>1, <1>2 DEF OpenCycleIndex
  <1>4. p \in PaymentRecord
    BY <1>1 DEF PaymentRecord, PaymentStatus, Shape
  <1>5. /\ payments' \in Seq(PaymentRecord)
        /\ DOMAIN payments' = DOMAIN payments \cup {n} /\ n \notin DOMAIN payments /\ n \in Nat
        /\ \A m \in DOMAIN payments : payments'[m] = payments[m]
        /\ payments'[n] = p
    <2> HIDE DEF p
    <2>1. payments \in Seq(PaymentRecord)
      BY <1>1 DEF Shape
    <2>2. QED BY <1>2, <1>4, <2>1, Appended
  <1>6. /\ payments'[n].status = "Accepted" /\ payments'[n].cycle = c
        /\ payments'[n].scheme = scheme /\ payments'[n].endToEnd = endToEnd
    BY <1>5
  <1> HIDE DEF n, c, p, more
  <1>7. more \in SUBSET Nat
    BY <1>1, <1>3, <1>5, CycleFields DEF more, Members
  <1>8. /\ CycleList(cycles')
        /\ DOMAIN cycles' = DOMAIN cycles
        /\ cycles'[c].status = cycles[c].status /\ cycles'[c].payments = more
        /\ cycles'[c].scheme = cycles[c].scheme
        /\ \A d \in DOMAIN cycles \ {c} : cycles'[d] = cycles[d]
    <2>1. cycles' = WithCycle(c, cycles[c].status, more, cycles[c].net)
      BY <1>1, <1>2, <1>3, CycleFields
    <2>2. cycles[c].status \in {"Open", "Closed", "Settled"}
      BY <1>1, <1>3, CycleFields
    <2>3. QED BY <1>1, <1>3, <1>7, <2>1, <2>2, ChangedCycle
  <1>9. \A d \in DOMAIN cycles : /\ cycles'[d].status = cycles[d].status
                                   /\ cycles'[d].scheme = cycles[d].scheme
    BY <1>8
  <1>10. Shape'
    BY <1>1, <1>2, <1>5, <1>8 DEF Shape
  <1>11. OpenCycleIndex'
    BY <1>1, <1>2, <1>8, <1>9 DEF OpenCycleIndex
  <1>12. PaymentsFollowCycle'
    <2>1. \A d \in DOMAIN cycles : Members(d) \subseteq DOMAIN payments
      BY <1>1 DEF PaymentsFollowCycle
    <2>2. \A d \in DOMAIN cycles :
            cycles'[d].payments = IF d = c THEN cycles[d].payments \cup {n} ELSE cycles[d].payments
      BY <1>8 DEF more, Members
    <2>3. \A d \in DOMAIN cycles' : cycles'[d].payments \subseteq DOMAIN payments'
      BY <1>5, <1>8, <2>1, <2>2 DEF Members
    <2>4. ASSUME NEW m \in DOMAIN payments'
          PROVE  /\ payments'[m].cycle \in DOMAIN cycles'
                 /\ \A d \in DOMAIN cycles' :
                      m \in cycles'[d].payments
                        <=> (d = payments'[m].cycle /\ payments'[m].status # "Rejected")
                 /\ cycles'[payments'[m].cycle].scheme = payments'[m].scheme
                 /\ payments'[m].status # "Rejected" =>
                      cycles'[payments'[m].cycle].status = CycleStatusFor(payments'[m].status)
      <3>1. CASE m = n
        <4>1. \A d \in DOMAIN cycles : n \notin cycles[d].payments
          BY <1>5, <2>1 DEF Members
        <4>2. QED BY <1>3, <1>6, <1>8, <1>9, <2>2, <3>1, <4>1 DEF CycleStatusFor
      <3>2. CASE m # n
        <4>1. m \in DOMAIN payments /\ payments'[m] = payments[m]
          BY <1>5, <3>2
        <4>2. /\ payments[m].cycle \in DOMAIN cycles
              /\ \A d \in DOMAIN cycles :
                   m \in cycles[d].payments
                     <=> (d = payments[m].cycle /\ payments[m].status # "Rejected")
              /\ cycles[payments[m].cycle].scheme = payments[m].scheme
              /\ payments[m].status # "Rejected" =>
                   cycles[payments[m].cycle].status = CycleStatusFor(payments[m].status)
          BY <1>1, <4>1 DEF PaymentsFollowCycle, Members
        <4>3. payments'[m].cycle \in DOMAIN cycles'
          BY <1>8, <4>1, <4>2
        <4>4. \A d \in DOMAIN cycles : m \in cycles'[d].payments <=> m \in cycles[d].payments
          BY <2>2, <3>2
        <4>5. \A d \in DOMAIN cycles' :
                m \in cycles'[d].payments
                  <=> (d = payments'[m].cycle /\ payments'[m].status # "Rejected")
          BY <1>8, <4>1, <4>2, <4>4
        <4>6. cycles'[payments'[m].cycle].scheme = payments'[m].scheme
          BY <1>9, <4>1, <4>2
        <4>7. payments'[m].status # "Rejected" =>
                cycles'[payments'[m].cycle].status = CycleStatusFor(payments'[m].status)
          BY <1>9, <4>1, <4>2
        <4>8. QED BY <4>3, <4>5, <4>6, <4>7
      <3>3. QED BY <3>1, <3>2
    <2>5. QED BY <2>3, <2>4 DEF PaymentsFollowCycle, Members
  <1>13. EndToEndOnce'
    <2>1. {payments'[m].endToEnd : m \in DOMAIN payments'}
            = {payments[m].endToEnd : m \in DOMAIN payments} \cup {endToEnd}
      BY <1>5, <1>6
    <2>2. {payments'[m].endToEnd : m \in DOMAIN payments'} \ {NoEndToEnd} = endToEndIndex'
      BY <1>1, <1>2, <2>1 DEF EndToEndOnce
    <2>3. endToEnd = NoEndToEnd \/ \A m \in DOMAIN payments : payments[m].endToEnd # endToEnd
      BY <1>1, <1>2 DEF EndToEndOnce, ReferenceFree
    <2>4. \A n1, n2 \in DOMAIN payments' :
            payments'[n1].endToEnd = payments'[n2].endToEnd /\ payments'[n1].endToEnd # NoEndToEnd
              => n1 = n2
      BY <1>1, <1>5, <1>6, <2>3 DEF EndToEndOnce
    <2>5. QED BY <2>2, <2>4 DEF EndToEndOnce
  <1>14. QED BY <1>10, <1>11, <1>12, <1>13 DEF LifecycleInv
-----------------------------------------------------------------------------
(* The steps that leave payments, cycles and the two indexes alone. *)
LEMMA OthersKeep ==
  ASSUME LifecycleInv, UNCHANGED <<payments, cycles, openCycle, endToEndIndex>>
  PROVE  LifecycleInv'
  BY DEF LifecycleInv, Shape, CycleList, OpenCycleIndex, PaymentsFollowCycle, Members, EndToEndOnce

MandateRecord ==
  [debtor: Account, creditor: Account, max: MandateMax, status: {"Active", "Revoked"}]

MandatesTyped == mandates \in Seq(MandateRecord)

(* Mandates are appended and revoked, never removed. *)
LEMMA NextMandatesTyped == MandatesTyped /\ [Next]_vars => MandatesTyped'
  <1> SUFFICES ASSUME MandatesTyped, [Next]_vars PROVE MandatesTyped'
    OBVIOUS
  <1>1. CASE mandates' = mandates
    BY <1>1 DEF MandatesTyped
  <1>2. ASSUME NEW debtor \in Account, NEW creditor \in Account, NEW max \in MandateMax,
               CreateMandate(debtor, creditor, max)
        PROVE  MandatesTyped'
    <2> DEFINE m == [debtor |-> debtor, creditor |-> creditor, max |-> max, status |-> "Active"]
    <2>1. m \in MandateRecord /\ mandates' = Append(mandates, m)
      BY <1>2 DEF CreateMandate, MandateRecord
    <2>2. QED BY <2>1, Appended DEF MandatesTyped
  <1>3. ASSUME NEW m \in DOMAIN mandates, RevokeMandate(m) PROVE MandatesTyped'
    <2> DEFINE r == [mandates[m] EXCEPT !.status = "Revoked"]
    <2>1. mandates[m] \in MandateRecord
      BY ElementOfSeq, LenProperties DEF MandatesTyped
    <2>2. r \in MandateRecord
      BY <2>1 DEF MandateRecord
    <2>3. mandates' = [mandates EXCEPT ![m] = r]
      BY <1>3 DEF RevokeMandate
    <2> HIDE DEF r
    <2>4. QED BY <2>2, <2>3, Updated DEF MandatesTyped
  <1>4. CASE UNCHANGED vars
    BY <1>1, <1>4 DEF vars, network
  <1>5. CASE \/ \E b \in Participant : AddParticipant(b)
             \/ \E a \in Account : OpenAccount(a)
             \/ \E a \in Managed, to \in AccountStatus : ChangeStatus(a, to)
             \/ \E a \in Managed : Close(a)
             \/ \E a \in Account, amount \in Sum : Deposit(a, amount)
    BY <1>1, <1>5 DEF AddParticipant, OpenAccount, ChangeStatus, Close, Deposit, network
  <1>6. CASE \/ \E scheme \in Scheme : OpenCycle(scheme)
             \/ \E c \in DOMAIN cycles : CloseCycle(c) \/ SettleCycle(c)
             \/ \E n \in DOMAIN payments : RejectPayment(n)
             \/ \E n \in DOMAIN payments \cap Returnable : ReturnPayment(n)
    BY <1>1, <1>6 DEF OpenCycle, CloseCycle, SettleCycle, SettleInFull, SettlePartly,
       RejectPayment, ReturnPayment, ReturnInFull, ReturnPartly, network
  <1>7. CASE \E scheme \in Scheme, debtor, creditor \in Account, amount \in Sum,
                endToEnd \in EndToEnd \cup {NoEndToEnd} :
               \E mandate \in MandateChoice(scheme) :
                 InitiatePayment(scheme, debtor, creditor, amount, mandate, endToEnd)
    BY <1>1, <1>7 DEF InitiatePayment
  <1>8. QED BY <1>2, <1>3, <1>4, <1>5, <1>6, <1>7 DEF Next

(* The network starts with no payment and no cycle. *)
LEMMA InitLifecycle == Init => LifecycleInv /\ MandatesTyped
  <1> SUFFICES ASSUME Init PROVE LifecycleInv /\ MandatesTyped
    OBVIOUS
  <1>1. cycles \in Seq(CycleRecord({}))
    BY DEF Init
  <1>2. Shape
    BY <1>1 DEF Init, Shape, CycleList
  <1>3. OpenCycleIndex /\ PaymentsFollowCycle /\ EndToEndOnce /\ MandatesTyped
    BY DEF Init, OpenCycleIndex, PaymentsFollowCycle, EndToEndOnce, MandatesTyped
  <1>4. QED BY <1>2, <1>3 DEF LifecycleInv

(* Every step keeps the lifecycles in agreement. *)
LEMMA NextLifecycle == LifecycleInv /\ MandatesTyped /\ [Next]_vars => LifecycleInv'
  <1> SUFFICES ASSUME LifecycleInv, MandatesTyped, [Next]_vars PROVE LifecycleInv'
    OBVIOUS
  <1>1. CASE UNCHANGED vars
    BY <1>1, OthersKeep DEF vars, network
  <1>2. CASE \/ \E b \in Participant : AddParticipant(b)
             \/ \E a \in Account : OpenAccount(a)
             \/ \E a \in Managed, to \in AccountStatus : ChangeStatus(a, to)
             \/ \E a \in Managed : Close(a)
             \/ \E a \in Account, amount \in Sum : Deposit(a, amount)
    BY <1>2, OthersKeep DEF AddParticipant, OpenAccount, ChangeStatus, Close, Deposit, network
  <1>3. CASE \/ \E debtor, creditor \in Account, max \in MandateMax :
                  CreateMandate(debtor, creditor, max)
             \/ \E m \in DOMAIN mandates : RevokeMandate(m)
    BY <1>3, OthersKeep DEF CreateMandate, RevokeMandate
  <1>4. CASE \E scheme \in Scheme : OpenCycle(scheme)
    BY <1>4, OpenCycleKeeps
  <1>5. CASE \E c \in DOMAIN cycles : CloseCycle(c)
    BY <1>5, CloseCycleKeeps
  <1>6. CASE \E c \in DOMAIN cycles : SettleCycle(c)
    <2>1. PICK c \in DOMAIN cycles : SettleInFull(c) \/ SettlePartly(c)
      BY <1>6 DEF SettleCycle
    <2>2. CASE SettleInFull(c)
      BY <2>2, SettleInFullKeeps
    <2>3. CASE SettlePartly(c)
      BY <2>3, OthersKeep DEF SettlePartly, network
    <2>4. QED BY <2>1, <2>2, <2>3
  <1>7. ASSUME NEW scheme \in Scheme, NEW debtor \in Account, NEW creditor \in Account,
               NEW amount \in Sum, NEW endToEnd \in EndToEnd \cup {NoEndToEnd},
               NEW mandate \in MandateChoice(scheme),
               InitiatePayment(scheme, debtor, creditor, amount, mandate, endToEnd)
        PROVE  LifecycleInv'
    <2>1. Len(mandates) \in Nat
      BY LenProperties DEF MandatesTyped
    <2>2. mandate \in Nat
      BY <2>1 DEF MandateChoice
    <2>3. QED BY <1>7, <2>2, InitiateKeeps
  <1>8. CASE \E n \in DOMAIN payments : RejectPayment(n)
    BY <1>8, RejectKeeps
  <1>9. CASE \E n \in DOMAIN payments \cap Returnable : ReturnPayment(n)
    <2>1. PICK n \in DOMAIN payments : ReturnInFull(n) \/ ReturnPartly(n)
      BY <1>9 DEF ReturnPayment
    <2>2. CASE ReturnInFull(n)
      BY <2>2, ReturnInFullKeeps
    <2>3. CASE ReturnPartly(n)
      BY <2>3, OthersKeep DEF ReturnPartly, network
    <2>4. QED BY <2>1, <2>2, <2>3
  <1>10. QED BY <1>1, <1>2, <1>3, <1>4, <1>5, <1>6, <1>7, <1>8, <1>9 DEF Next

(* The inductive invariant holds in every reachable state. *)
THEOREM LifecycleInvariant == Spec => [](LifecycleInv /\ MandatesTyped)
  <1>1. LifecycleInv /\ MandatesTyped /\ [Next]_vars => (LifecycleInv /\ MandatesTyped)'
    BY NextLifecycle, NextMandatesTyped
  <1>2. QED BY InitLifecycle, <1>1, PTL DEF Spec

(* The open-cycle index names exactly the open cycles, a cycle lists the    *)
(* payments submitted to it but for those rejected, and a payment's status  *)
(* follows its cycle's: so no status transition that CloseCycle or          *)
(* SettleCycle attempts is ever refused half way (system.go:261-417,        *)
(* 697-739).                                                                *)
THEOREM CycleAgreementAlways == Spec => []CycleAgreement
  <1>1. LifecycleInv => CycleAgreement
    BY DEF LifecycleInv, CycleAgreement
  <1>2. QED BY LifecycleInvariant, <1>1, PTL

(* A client reference names one payment for ever (system.go:469-473).       *)
THEOREM EndToEndOnceAlways == Spec => []EndToEndOnce
  <1>1. LifecycleInv => EndToEndOnce
    BY DEF LifecycleInv
  <1>2. QED BY LifecycleInvariant, <1>1, PTL
-----------------------------------------------------------------------------
Books == Participant \cup {CentralBank}

(* The legs posted under the number of a payment. *)
PaymentLegs == {"debit", "credit", "return-debit", "return-credit", "return-settle"}

Has(leg, n) == \E b \in Books : <<b, leg, n>> \in posted

(* LegsAgree of one payment, and that only the settled are refunded. *)
LegsOf(n) ==
  /\ <<DebtorBank(payments[n]), "debit", n>> \in posted
  /\ Has("credit", n) <=> payments[n].status \in {"Settled", "Returned"}
  /\ payments[n].status = "Returned" <=> Has("return-settle", n)
  /\ Has("return-settle", n) <=> Has("return-credit", n)
  /\ Has("return-credit", n) => Has("return-debit", n)
  /\ Has("return-debit", n) => payments[n].status \in {"Settled", "Returned"}

(* No leg is posted under the number of a payment still to come. *)
LegsKnown == \A k \in posted : k[2] \in PaymentLegs => k[3] \in DOMAIN payments

LegsInv == LegsKnown /\ \A n \in DOMAIN payments : LegsOf(n)
-----------------------------------------------------------------------------
(* Marking payments leaves their parties and amounts alone. *)
LEMMA MarkedParties ==
  ASSUME Shape, NEW S, NEW to
  PROVE  /\ DOMAIN Mark(S, to) = DOMAIN payments
         /\ \A n \in DOMAIN payments :
              /\ Mark(S, to)[n].debtor = payments[n].debtor
              /\ Mark(S, to)[n].creditor = payments[n].creditor
              /\ Mark(S, to)[n].amount = payments[n].amount
              /\ Mark(S, to)[n].status = IF n \in S THEN to ELSE payments[n].status
  <1>1. \A n \in DOMAIN payments : payments[n] \in PaymentRecord
    BY Records
  <1>2. \A n \in DOMAIN payments :
          /\ [payments[n] EXCEPT !.status = to].debtor = payments[n].debtor
          /\ [payments[n] EXCEPT !.status = to].creditor = payments[n].creditor
          /\ [payments[n] EXCEPT !.status = to].amount = payments[n].amount
          /\ [payments[n] EXCEPT !.status = to].status = to
    BY <1>1 DEF PaymentRecord
  <1>3. QED BY <1>2 DEF Mark

(* The parties of a payment are accounts, and their banks keep books. *)
LEMMA Parties ==
  ASSUME Shape, NEW n \in DOMAIN payments
  PROVE  /\ payments[n].debtor \in Account /\ payments[n].creditor \in Account
         /\ payments[n].amount \in Sum /\ payments[n].status \in PaymentStatus
         /\ DebtorBank(payments[n]) \in Books /\ CreditorBank(payments[n]) \in Books
  <1>1. payments[n] \in PaymentRecord
    BY Records
  <1>2. payments[n].debtor \in Account /\ payments[n].creditor \in Account
          /\ payments[n].amount \in Sum /\ payments[n].status \in PaymentStatus
    BY <1>1 DEF PaymentRecord
  <1>3. QED BY <1>2, AccountAssumption DEF DebtorBank, CreditorBank, Books

(* A payment keeps its legs in agreement through a step that posts none of  *)
(* them and does not settle or return it.                                   *)
LEMMA UntouchedLegs ==
  ASSUME NEW n, LegsOf(n), payments'[n].debtor = payments[n].debtor,
         \/ payments'[n].status = payments[n].status
         \/ {payments[n].status, payments'[n].status} \cap {"Settled", "Returned"} = {},
         \A b \in Books, leg \in PaymentLegs : <<b, leg, n>> \in posted' <=> <<b, leg, n>> \in posted,
         DebtorBank(payments[n]) \in Books
  PROVE  LegsOf(n)'
  <1>1. \A leg \in PaymentLegs : Has(leg, n)' <=> Has(leg, n)
    BY DEF Has
  <1>2. DebtorBank(payments[n])' = DebtorBank(payments[n])
    BY DEF DebtorBank
  <1>3. <<DebtorBank(payments[n]), "debit", n>> \in posted'
    BY DEF LegsOf, PaymentLegs
  <1>4. /\ Has("credit", n)' <=> Has("credit", n)
        /\ Has("return-debit", n)' <=> Has("return-debit", n)
        /\ Has("return-credit", n)' <=> Has("return-credit", n)
        /\ Has("return-settle", n)' <=> Has("return-settle", n)
    BY <1>1 DEF PaymentLegs
  <1>5. /\ payments'[n].status \in {"Settled", "Returned"}
             <=> payments[n].status \in {"Settled", "Returned"}
        /\ payments'[n].status = "Returned" <=> payments[n].status = "Returned"
    OBVIOUS
  <1>6. QED BY <1>2, <1>3, <1>4, <1>5 DEF LegsOf

(* So a step that posts no leg of a payment, and moves payments, if any,    *)
(* between statuses before settlement, keeps LegsInv.                       *)
LEMMA NoLegsPosted ==
  ASSUME LegsInv, Shape, NEW S, NEW to, to \notin {"Settled", "Returned"},
         \A n \in S : payments[n].status \notin {"Settled", "Returned"},
         payments' = Mark(S, to),
         \A k \in posted' : k \in posted \/ k[2] \notin PaymentLegs,
         posted \subseteq posted'
  PROVE  LegsInv'
  <1>1. LegsKnown'
    BY MarkedParties DEF LegsInv, LegsKnown
  <1>2. ASSUME NEW n \in DOMAIN payments PROVE LegsOf(n)'
    <2>1. \A b \in Books, leg \in PaymentLegs :
            <<b, leg, n>> \in posted' <=> <<b, leg, n>> \in posted
      <3> SUFFICES ASSUME NEW b \in Books, NEW leg \in PaymentLegs, <<b, leg, n>> \in posted'
                   PROVE  <<b, leg, n>> \in posted
        OBVIOUS
      <3>1. <<b, leg, n>>[2] = leg
        OBVIOUS
      <3>2. QED BY <3>1
    <2>2. payments'[n].debtor = payments[n].debtor
            /\ payments'[n].status = IF n \in S THEN to ELSE payments[n].status
      BY MarkedParties
    <2>3. QED BY <2>1, <2>2, Parties, UntouchedLegs DEF LegsInv
  <1>3. QED BY <1>1, <1>2, MarkedParties DEF LegsInv

(* A step that leaves the payments alone and posts no leg of theirs. *)
LEMMA NoLegsNorPayments ==
  ASSUME LegsInv, Shape, payments' = payments,
         \A k \in posted' : k \in posted \/ k[2] \notin PaymentLegs,
         posted \subseteq posted'
  PROVE  LegsInv'
  <1>1. Mark({}, "Accepted") = payments
    BY Records DEF Mark, Shape
  <1>2. QED BY <1>1, NoLegsPosted
-----------------------------------------------------------------------------
(* A new payment posts its debtor leg, and no other was there before it. *)
LEMMA InitiateLegs ==
  ASSUME LegsInv, Shape, NEW scheme \in Scheme, NEW debtor \in Account, NEW creditor \in Account,
         NEW amount \in Sum, NEW mandate \in Nat, NEW endToEnd \in EndToEnd \cup {NoEndToEnd},
         InitiatePayment(scheme, debtor, creditor, amount, mandate, endToEnd)
  PROVE  LegsInv'
  <1>0. PICK n : n = Len(payments) + 1
    OBVIOUS
  <1> DEFINE p == [scheme |-> scheme, debtor |-> debtor, creditor |-> creditor, amount |-> amount,
                   mandate |-> mandate, endToEnd |-> endToEnd, status |-> "Accepted",
                   cycle |-> openCycle[scheme]]
             key == <<BankOf[debtor], "debit", n>>
  <1>1. payments' = Append(payments, p) /\ posted' = posted \cup {key}
    BY <1>0 DEF InitiatePayment
  <1>2. p \in PaymentRecord /\ payments \in Seq(PaymentRecord)
    BY DEF PaymentRecord, PaymentStatus, Shape
  <1>3. p.debtor = debtor /\ p.status = "Accepted"
    OBVIOUS
  <1> HIDE DEF p
  <1>4. /\ DOMAIN payments' = DOMAIN payments \cup {n} /\ n \notin DOMAIN payments
        /\ \A m \in DOMAIN payments : payments'[m] = payments[m]
        /\ payments'[n] = p
    BY <1>0, <1>1, <1>2, Appended
  <1>5. LegsKnown'
    <2>1. key[3] = n
      OBVIOUS
    <2>2. QED BY <1>1, <1>4, <2>1 DEF LegsInv, LegsKnown
  <1>6. ASSUME NEW m \in DOMAIN payments PROVE LegsOf(m)'
    <2>1. \A b \in Books, leg \in PaymentLegs : <<b, leg, m>> # key
      BY <1>4
    <2>2. QED BY <1>1, <1>4, <2>1, Parties, UntouchedLegs DEF LegsInv
  <1>7. LegsOf(n)'
    <2>1. \A b \in Books, leg \in PaymentLegs : <<b, leg, n>> \notin posted
      <3> SUFFICES ASSUME NEW b \in Books, NEW leg \in PaymentLegs, <<b, leg, n>> \in posted
                   PROVE  FALSE
        OBVIOUS
      <3>1. <<b, leg, n>>[2] = leg /\ <<b, leg, n>>[3] = n
        OBVIOUS
      <3>2. QED BY <1>4, <3>1 DEF LegsInv, LegsKnown
    <2>2. \A leg \in {"credit", "return-debit", "return-credit", "return-settle"} : ~Has(leg, n)'
      BY <1>1, <2>1 DEF Has, PaymentLegs
    <2>3. DebtorBank(payments[n])' = BankOf[debtor] /\ payments'[n].status = "Accepted"
      BY <1>3, <1>4 DEF DebtorBank
    <2>4. QED BY <1>1, <2>2, <2>3 DEF LegsOf
  <1>8. QED BY <1>4, <1>5, <1>6, <1>7 DEF LegsInv

(* A settled cycle credits each of its payments, none of which was before.  *)
LEMMA SettleInFullLegs ==
  ASSUME LegsInv, LifecycleInv, NEW c \in DOMAIN cycles, SettleInFull(c)
  PROVE  LegsInv'
  <1> DEFINE credit(n) == <<CreditorBank(payments[n]), "credit", n>>
             credits == {credit(n) : n \in Members(c)}
             keys == SettleKeys(c, Netted(c))
  <1>1. /\ \A n \in Members(c) : Transition(payments[n].status, "Settled")
        /\ payments' = Mark(Members(c), "Settled")
        /\ posted' = (posted \cup keys) \cup credits
    BY DEF SettleInFull
  <1>2. Shape /\ Members(c) \subseteq DOMAIN payments
    BY DEF LifecycleInv, PaymentsFollowCycle
  <1>3. \A n \in Members(c) : payments[n].status = "Cleared"
    BY <1>1 DEF Transition
  <1>4. /\ DOMAIN payments' = DOMAIN payments
        /\ \A n \in DOMAIN payments :
              /\ payments'[n].debtor = payments[n].debtor
              /\ payments'[n].status = IF n \in Members(c) THEN "Settled" ELSE payments[n].status
    BY <1>1, <1>2, MarkedParties
  <1>5. \A b, leg, n : <<b, leg, n>> \in keys => leg \notin PaymentLegs
    BY DEF SettleKeys, PaymentLegs
  <1>6. \A k \in keys : k[2] \notin PaymentLegs
    BY DEF SettleKeys, PaymentLegs
  <1>7. \A k \in credits : k[3] \in Members(c)
    OBVIOUS
  <1>8. \A b, leg, n : <<b, leg, n>> \in credits
                         <=> n \in Members(c) /\ b = CreditorBank(payments[n]) /\ leg = "credit"
    OBVIOUS
  <1> HIDE DEF keys, credits
  <1>9. LegsKnown'
    BY <1>1, <1>2, <1>4, <1>6, <1>7 DEF LegsInv, LegsKnown
  <1>10. ASSUME NEW n \in DOMAIN payments PROVE LegsOf(n)'
    <2>1. CASE n \notin Members(c)
      <3>1. \A b \in Books, leg \in PaymentLegs :
              <<b, leg, n>> \in posted' <=> <<b, leg, n>> \in posted
        BY <1>1, <1>5, <1>8, <2>1
      <3>2. QED BY <1>2, <1>4, <2>1, <3>1, Parties, UntouchedLegs DEF LegsInv
    <2>2. CASE n \in Members(c)
      <3>1. /\ <<DebtorBank(payments[n]), "debit", n>> \in posted
            /\ ~Has("return-debit", n) /\ ~Has("return-credit", n) /\ ~Has("return-settle", n)
        BY <1>3, <2>2 DEF LegsInv, LegsOf
      <3>2. ~Has("return-debit", n)' /\ ~Has("return-credit", n)' /\ ~Has("return-settle", n)'
        BY <1>1, <1>5, <1>8, <3>1 DEF Has, PaymentLegs
      <3>3. Has("credit", n)'
        BY <1>1, <1>2, <1>8, <2>2, Parties DEF Has
      <3>4. payments'[n].status = "Settled" /\ DebtorBank(payments[n])' = DebtorBank(payments[n])
        BY <1>4, <2>2 DEF DebtorBank
      <3>5. QED BY <1>1, <3>1, <3>2, <3>3, <3>4 DEF LegsOf
    <2>3. QED BY <2>1, <2>2
  <1>11. QED BY <1>4, <1>9, <1>10 DEF LegsInv

(* A return that goes through posts its legs in all three books. *)
LEMMA ReturnInFullLegs ==
  ASSUME LegsInv, Shape, NEW n \in DOMAIN payments, ReturnInFull(n)
  PROVE  LegsInv'
  <1> DEFINE p == payments[n]
             keys == {<<DebtorBank(p), "return-debit", n>>, <<CreditorBank(p), "return-credit", n>>,
                      <<CentralBank, "return-settle", n>>}
  <1>1. /\ p.status = "Settled" /\ payments' = Mark({n}, "Returned")
        /\ posted' = posted \cup keys
    BY DEF ReturnInFull, CanReturn
  <1>2. /\ DOMAIN payments' = DOMAIN payments
        /\ \A m \in DOMAIN payments :
              /\ payments'[m].debtor = payments[m].debtor
              /\ payments'[m].status = IF m = n THEN "Returned" ELSE payments[m].status
    BY <1>1, MarkedParties
  <1>3. \A k \in keys : k[3] = n
    OBVIOUS
  <1>4. \A b, leg, m : <<b, leg, m>> \in keys => m = n /\ leg # "debit" /\ leg # "credit"
    OBVIOUS
  <1>5. LegsKnown'
    BY <1>1, <1>2, <1>3 DEF LegsInv, LegsKnown
  <1>6. ASSUME NEW m \in DOMAIN payments, m # n PROVE LegsOf(m)'
    <2>1. \A b \in Books, leg \in PaymentLegs :
            <<b, leg, m>> \in posted' <=> <<b, leg, m>> \in posted
      BY <1>1, <1>4, <1>6
    <2>2. QED BY <1>2, <1>6, <2>1, Parties, UntouchedLegs DEF LegsInv
  <1>7. LegsOf(n)'
    <2>1. Has("return-debit", n)' /\ Has("return-credit", n)' /\ Has("return-settle", n)'
      BY <1>1, Parties DEF Has, Books
    <2>2. Has("credit", n)'
      BY <1>1 DEF LegsInv, LegsOf, Has
    <2>3. DebtorBank(payments[n])' = DebtorBank(payments[n]) /\ payments'[n].status = "Returned"
      BY <1>2 DEF DebtorBank
    <2>4. QED BY <1>1, <2>1, <2>2, <2>3 DEF LegsInv, LegsOf
  <1>8. QED BY <1>2, <1>5, <1>6, <1>7 DEF LegsInv

(* A return that stops half way has refunded a settled payment. *)
LEMMA ReturnPartlyLegs ==
  ASSUME LegsInv, Shape, NEW n \in DOMAIN payments, ReturnPartly(n)
  PROVE  LegsInv'
  <1> DEFINE key == <<DebtorBank(payments[n]), "return-debit", n>>
  <1>1. payments[n].status = "Settled" /\ payments' = payments /\ posted' = posted \cup {key}
    BY DEF ReturnPartly, CanReturn, network
  <1>2. key[3] = n
    OBVIOUS
  <1>3. LegsKnown'
    BY <1>1, <1>2 DEF LegsInv, LegsKnown
  <1>4. ASSUME NEW m \in DOMAIN payments, m # n PROVE LegsOf(m)'
    <2>1. \A b \in Books, leg \in PaymentLegs :
            <<b, leg, m>> \in posted' <=> <<b, leg, m>> \in posted
      BY <1>1, <1>4
    <2>2. QED BY <1>1, <2>1, Parties, UntouchedLegs DEF LegsInv
  <1>5. LegsOf(n)'
    <2>1. Has("return-debit", n)'
      BY <1>1, Parties DEF Has
    <2>2. /\ Has("credit", n)' <=> Has("credit", n)
          /\ Has("return-credit", n)' <=> Has("return-credit", n)
          /\ Has("return-settle", n)' <=> Has("return-settle", n)
      BY <1>1 DEF Has
    <2>3. DebtorBank(payments[n])' = DebtorBank(payments[n])
      BY <1>1 DEF DebtorBank
    <2>4. QED BY <1>1, <2>1, <2>2, <2>3 DEF LegsInv, LegsOf
  <1>6. QED BY <1>1, <1>3, <1>4, <1>5 DEF LegsInv
-----------------------------------------------------------------------------
(* A step of the network that posts none of the legs of a payment. *)
LEMMA QuietLegs ==
  ASSUME LegsInv, LifecycleInv, posted' = posted,
         \/ payments' = payments
         \/ \E c \in DOMAIN cycles : CloseCycle(c)
         \/ \E n \in DOMAIN payments : RejectPayment(n)
  PROVE  LegsInv'
  <1>1. Shape
    BY DEF LifecycleInv
  <1>2. CASE payments' = payments
    BY <1>1, <1>2, NoLegsNorPayments
  <1>3. ASSUME NEW c \in DOMAIN cycles, CloseCycle(c) PROVE LegsInv'
    <2>1. \A n \in Members(c) : Transition(payments[n].status, "Cleared")
            /\ payments' = Mark(Members(c), "Cleared")
      BY <1>3 DEF CloseCycle
    <2>2. \A n \in Members(c) : payments[n].status \notin {"Settled", "Returned"}
      BY <2>1 DEF Transition
    <2>3. payments' = Mark(Members(c), "Cleared")
      BY <1>3 DEF CloseCycle
    <2>4. QED BY <1>1, <2>2, <2>3, NoLegsPosted
  <1>4. ASSUME NEW n \in DOMAIN payments, RejectPayment(n) PROVE LegsInv'
    <2>1. payments[n].status \in {"Initiated", "Accepted"} /\ payments' = Mark({n}, "Rejected")
      BY <1>4 DEF RejectPayment
    <2>2. QED BY <1>1, <2>1, NoLegsPosted
  <1>5. QED BY <1>2, <1>3, <1>4

(* Every step keeps the legs and the statuses in agreement. *)
LEMMA NextLegs == LegsInv /\ LifecycleInv /\ MandatesTyped /\ [Next]_vars => LegsInv'
  <1> SUFFICES ASSUME LegsInv, LifecycleInv, MandatesTyped, [Next]_vars PROVE LegsInv'
    OBVIOUS
  <1>1. Shape
    BY DEF LifecycleInv
  <1>2. CASE UNCHANGED vars
    BY <1>2, QuietLegs DEF vars, network, books
  <1>3. CASE \/ \E b \in Participant : AddParticipant(b)
             \/ \E a \in Account : OpenAccount(a)
             \/ \E a \in Managed, to \in AccountStatus : ChangeStatus(a, to)
             \/ \E a \in Managed : Close(a)
             \/ \E a \in Account, amount \in Sum : Deposit(a, amount)
    BY <1>3, QuietLegs DEF AddParticipant, OpenAccount, ChangeStatus, Close, Deposit, network, books
  <1>4. CASE \/ \E debtor, creditor \in Account, max \in MandateMax :
                  CreateMandate(debtor, creditor, max)
             \/ \E m \in DOMAIN mandates : RevokeMandate(m)
             \/ \E scheme \in Scheme : OpenCycle(scheme)
    BY <1>4, QuietLegs DEF CreateMandate, RevokeMandate, OpenCycle, books
  <1>5. CASE \/ \E c \in DOMAIN cycles : CloseCycle(c)
             \/ \E n \in DOMAIN payments : RejectPayment(n)
    <2>1. posted' = posted
      BY <1>5 DEF CloseCycle, RejectPayment, books
    <2>2. QED BY <1>5, <2>1, QuietLegs
  <1>6. ASSUME NEW c \in DOMAIN cycles, SettleCycle(c) PROVE LegsInv'
    <2>1. CASE SettleInFull(c)
      BY <2>1, SettleInFullLegs
    <2>2. CASE SettlePartly(c)
      <3>1. PICK done : posted' = posted \cup SettleKeys(c, done) /\ payments' = payments
        BY <2>2 DEF SettlePartly, network
      <3>2. \A k \in SettleKeys(c, done) : k[2] \notin PaymentLegs
        BY DEF SettleKeys, PaymentLegs
      <3>3. QED BY <1>1, <3>1, <3>2, NoLegsNorPayments
    <2>3. QED BY <1>6, <2>1, <2>2 DEF SettleCycle
  <1>7. ASSUME NEW scheme \in Scheme, NEW debtor \in Account, NEW creditor \in Account,
               NEW amount \in Sum, NEW endToEnd \in EndToEnd \cup {NoEndToEnd},
               NEW mandate \in MandateChoice(scheme),
               InitiatePayment(scheme, debtor, creditor, amount, mandate, endToEnd)
        PROVE  LegsInv'
    <2>1. Len(mandates) \in Nat
      BY LenProperties DEF MandatesTyped
    <2>2. mandate \in Nat
      BY <2>1 DEF MandateChoice
    <2>3. QED BY <1>1, <1>7, <2>2, InitiateLegs
  <1>8. ASSUME NEW n \in DOMAIN payments, ReturnPayment(n) PROVE LegsInv'
    BY <1>1, <1>8, ReturnInFullLegs, ReturnPartlyLegs DEF ReturnPayment
  <1>9. QED BY <1>2, <1>3, <1>4, <1>5, <1>6, <1>7, <1>8 DEF Next

MoneyInv == LegsInv /\ LifecycleInv /\ MandatesTyped

LEMMA MoneyInvariant == Spec => []MoneyInv
  <1>1. Init => LegsInv
    BY DEF Init, LegsInv, LegsKnown
  <1>2. MoneyInv /\ [Next]_vars => MoneyInv'
    BY NextLegs, NextLifecycle, NextMandatesTyped DEF MoneyInv
  <1>3. Init => MoneyInv
    BY <1>1, InitLifecycle DEF MoneyInv
  <1>4. QED BY <1>2, <1>3, PTL DEF Spec

(* The legs a payment has posted are the ones its status claims, in every   *)
(* book and whichever runs stopped half way (system.go:498-521, 391-417,    *)
(* 595-636).                                                                *)
THEOREM LegsAgreeAlways == Spec => []LegsAgree
  <1>1. MoneyInv => LegsAgree
    BY DEF MoneyInv, LegsInv, LegsOf, LegsAgree, Has, Books, Unused
  <1>2. QED BY MoneyInvariant, <1>1, PTL
-----------------------------------------------------------------------------
(* The payments as their customers see them. *)
Transferred == [n \in DOMAIN payments |-> TransferOf(n)]

Refunded(n) == <<DebtorBank(payments[n]), "return-debit", n>> \in posted

(* Where a payment's money is depends on its status and its refund. *)
LEMMA PlaceKept ==
  ASSUME NEW n, payments'[n].debtor = payments[n].debtor,
         payments'[n].status = payments[n].status, Refunded(n)' <=> Refunded(n)
  PROVE  PlaceOf(n)' = PlaceOf(n)
  <1>1. DebtorBank(payments[n])' = DebtorBank(payments[n])
    BY DEF DebtorBank
  <1>2. QED BY <1>1 DEF PlaceOf, Unused, Refunded

LEMMA Places ==
  ASSUME NEW n
  PROVE  /\ payments[n].status \in {"Accepted", "Cleared"} => PlaceOf(n) = "transit"
         /\ payments[n].status = "Rejected" => PlaceOf(n) = "bounced"
         /\ payments[n].status = "Returned" => PlaceOf(n) = "returned"
         /\ payments[n].status = "Settled" /\ ~Refunded(n) => PlaceOf(n) = "delivered"
         /\ payments[n].status = "Settled" /\ Refunded(n) => PlaceOf(n) = "compensated"
  BY DEF PlaceOf, Unused, Refunded

(* Only a settled payment is refunded. *)
LEMMA RefundedSettled ==
  ASSUME MoneyInv, NEW n \in DOMAIN payments, Refunded(n)
  PROVE  payments[n].status \in {"Settled", "Returned"}
  BY Parties DEF MoneyInv, LifecycleInv, LegsInv, LegsOf, Has, Refunded

(* A step that brings the payments in S to one place and leaves the others  *)
(* where they are puts their transfers there.                               *)
LEMMA Moved ==
  ASSUME NEW S, NEW place, DOMAIN payments' = DOMAIN payments,
         \A n \in DOMAIN payments :
           /\ payments'[n].debtor = payments[n].debtor
           /\ payments'[n].creditor = payments[n].creditor
           /\ payments'[n].amount = payments[n].amount
           /\ PlaceOf(n)' = IF n \in S THEN place ELSE PlaceOf(n)
  PROVE  Transferred' = Customers!Put(S, place)
  <1>1. \A n \in DOMAIN payments :
          TransferOf(n)' = IF n \in S THEN [TransferOf(n) EXCEPT !.place = place] ELSE TransferOf(n)
    BY DEF TransferOf
  <1>2. QED BY <1>1 DEF Transferred, Customers!Put

(* A step that moves no payment's money is none for the customers. *)
LEMMA NothingMoved ==
  ASSUME customer' = customer, DOMAIN payments' = DOMAIN payments,
         \A n \in DOMAIN payments :
           /\ payments'[n].debtor = payments[n].debtor
           /\ payments'[n].creditor = payments[n].creditor
           /\ payments'[n].amount = payments[n].amount
           /\ PlaceOf(n)' = PlaceOf(n)
  PROVE  UNCHANGED Customers!vars
  BY DEF TransferOf, Customers!vars

LEMMA NoPaymentMoved ==
  ASSUME customer' = customer, payments' = payments,
         \A k \in posted' : k \in posted \/ k[2] \notin PaymentLegs, posted \subseteq posted'
  PROVE  UNCHANGED Customers!vars
  <1>1. ASSUME NEW n \in DOMAIN payments PROVE PlaceOf(n)' = PlaceOf(n)
    <2>1. Refunded(n)' <=> Refunded(n)
      <3>1. \A b : <<b, "return-debit", n>>[2] \in PaymentLegs
        BY DEF PaymentLegs
      <3>2. QED BY <3>1 DEF Refunded, DebtorBank
    <2>2. QED BY <2>1, PlaceKept
  <1>2. QED BY <1>1, NothingMoved
-----------------------------------------------------------------------------
(* Closing a cycle clears payments, whose money stays in transit. *)
LEMMA CloseCycleIsQuiet ==
  ASSUME MoneyInv, NEW c \in DOMAIN cycles, CloseCycle(c)
  PROVE  UNCHANGED Customers!vars
  <1>1. /\ payments' = Mark(Members(c), "Cleared") /\ posted' = posted /\ customer' = customer
        /\ \A n \in Members(c) : Transition(payments[n].status, "Cleared")
    BY DEF CloseCycle, deposits, books
  <1>2. \A n \in Members(c) : payments[n].status = "Accepted"
    BY <1>1 DEF Transition
  <1>3. /\ DOMAIN payments' = DOMAIN payments
        /\ \A n \in DOMAIN payments :
              /\ payments'[n].debtor = payments[n].debtor
              /\ payments'[n].creditor = payments[n].creditor
              /\ payments'[n].amount = payments[n].amount
              /\ payments'[n].status = IF n \in Members(c) THEN "Cleared" ELSE payments[n].status
    BY <1>1, MarkedParties DEF MoneyInv, LifecycleInv
  <1>4. ASSUME NEW n \in DOMAIN payments PROVE PlaceOf(n)' = PlaceOf(n)
    <2>1. CASE n \in Members(c)
      <3>1. PlaceOf(n) = "transit"
        BY <1>2, <2>1, Places
      <3>2. PlaceOf(n)' = "transit"
        BY <1>3, <2>1 DEF PlaceOf
      <3>3. QED BY <3>1, <3>2
    <2>2. CASE n \notin Members(c)
      <3>1. Refunded(n)' <=> Refunded(n)
        BY <1>1, <1>3 DEF Refunded, DebtorBank
      <3>2. QED BY <1>3, <2>2, <3>1, PlaceKept
    <2>3. QED BY <2>1, <2>2
  <1>5. QED BY <1>1, <1>3, <1>4, NothingMoved

(* Both modules mean the same by a sum. *)
LEMMA SameSum ==
  ASSUME NEW f, NEW S
  PROVE  Customers!SumFunctionOnSet(f, S) = SumFunctionOnSet(f, S)
  BY Zenon DEF SumFunctionOnSet, FoldFunctionOnSet, MapThenFoldSet,
     Customers!SumFunctionOnSet, Customers!FoldFunctionOnSet, Customers!MapThenFoldSet

(* A settlement delivers the payments of its cycle, all at once. *)
LEMMA SettleInFullDelivers ==
  ASSUME MoneyInv, NEW c \in DOMAIN cycles, SettleInFull(c)
  PROVE  Members(c) \subseteq DOMAIN payments /\ Customers!Deliver(Members(c))
  <1> DEFINE credits == {<<CreditorBank(payments[n]), "credit", n>> : n \in Members(c)}
  <1>1. /\ payments' = Mark(Members(c), "Settled")
        /\ \A n \in Members(c) : Transition(payments[n].status, "Settled")
        /\ customer' = [a \in Account |-> customer[a] + CreditedTo(c, a)]
        /\ posted' = (posted \cup SettleKeys(c, Netted(c))) \cup credits
    BY DEF SettleInFull
  <1>2. Members(c) \subseteq DOMAIN payments /\ Shape
    BY DEF MoneyInv, LifecycleInv, PaymentsFollowCycle
  <1>3. \A n \in Members(c) : payments[n].status = "Cleared"
    BY <1>1 DEF Transition
  <1>4. /\ DOMAIN payments' = DOMAIN payments
        /\ \A n \in DOMAIN payments :
              /\ payments'[n].debtor = payments[n].debtor
              /\ payments'[n].creditor = payments[n].creditor
              /\ payments'[n].amount = payments[n].amount
              /\ payments'[n].status = IF n \in Members(c) THEN "Settled" ELSE payments[n].status
    BY <1>1, <1>2, MarkedParties
  <1>5. \A b, n : <<b, "return-debit", n>> \in posted' <=> <<b, "return-debit", n>> \in posted
    BY <1>1 DEF SettleKeys
  <1>6. \A n \in DOMAIN payments : Refunded(n)' <=> Refunded(n)
    BY <1>4, <1>5 DEF Refunded, DebtorBank
  <1>7. \A n \in Members(c) : PlaceOf(n) = "transit" /\ ~Refunded(n)
    BY <1>2, <1>3, Places, RefundedSettled
  <1>8. ASSUME NEW n \in DOMAIN payments
        PROVE  PlaceOf(n)' = IF n \in Members(c) THEN "delivered" ELSE PlaceOf(n)
    <2>1. CASE n \in Members(c)
      BY <1>4, <1>6, <1>7, <2>1 DEF PlaceOf, Unused, Refunded
    <2>2. CASE n \notin Members(c)
      BY <1>4, <1>6, <2>2, PlaceKept
    <2>3. QED BY <2>1, <2>2
  <1>9. Transferred' = Customers!Put(Members(c), "delivered")
    BY <1>4, <1>8, Moved
  <1>10. \A a : CreditedTo(c, a) = Customers!Brought(Members(c), a)
    <2> TAKE a
    <2> DEFINE here == {n \in Members(c) : payments[n].creditor = a}
               there == {n \in Members(c) : Transferred[n].to = a}
    <2>1. here = there
      BY <1>2 DEF Transferred, TransferOf
    <2>2. [n \in here |-> payments[n].amount] = [n \in there |-> Transferred[n].amount]
      BY <1>2, <2>1 DEF Transferred, TransferOf
    <2>3. CreditedTo(c, a) = SumFunctionOnSet([n \in here |-> payments[n].amount], here)
      BY DEF CreditedTo, Total
    <2>4. Customers!Brought(Members(c), a)
            = Customers!SumFunctionOnSet([n \in there |-> Transferred[n].amount], there)
      BY DEF Customers!Brought, Transferred
    <2> HIDE DEF here, there
    <2>5. QED BY <2>1, <2>2, <2>3, <2>4, SameSum
  <1>11. \A n \in Members(c) : Transferred[n].place = "transit"
    BY <1>2, <1>7 DEF Transferred, TransferOf
  <1>12. customer' = [a \in Account |-> customer[a] + Customers!Brought(Members(c), a)]
    BY <1>1, <1>10
  <1>13. QED BY <1>2, <1>9, <1>11, <1>12 DEF Customers!Deliver, Transferred

(* A new payment is sent: its payer no longer has the money. *)
LEMMA InitiateSends ==
  ASSUME MoneyInv, NEW scheme \in Scheme, NEW debtor \in Account, NEW creditor \in Account,
         NEW amount \in Sum, NEW mandate \in Nat, NEW endToEnd \in EndToEnd \cup {NoEndToEnd},
         InitiatePayment(scheme, debtor, creditor, amount, mandate, endToEnd)
  PROVE  Customers!Send(debtor, creditor, amount)
  <1>0. PICK n : n = Len(payments) + 1
    OBVIOUS
  <1> DEFINE p == [scheme |-> scheme, debtor |-> debtor, creditor |-> creditor, amount |-> amount,
                   mandate |-> mandate, endToEnd |-> endToEnd, status |-> "Accepted",
                   cycle |-> openCycle[scheme]]
             t == [from |-> debtor, to |-> creditor, amount |-> amount, place |-> "transit"]
             key == <<BankOf[debtor], "debit", n>>
  <1>1. /\ payments' = Append(payments, p) /\ posted' = posted \cup {key}
        /\ customer' = [customer EXCEPT ![debtor] = @ - amount]
    BY <1>0 DEF InitiatePayment
  <1>2. p \in PaymentRecord /\ payments \in Seq(PaymentRecord)
    BY DEF PaymentRecord, PaymentStatus, Shape, MoneyInv, LifecycleInv
  <1>3. /\ p.debtor = debtor /\ p.creditor = creditor /\ p.amount = amount
        /\ p.status = "Accepted"
    OBVIOUS
  <1> HIDE DEF p
  <1>4. /\ DOMAIN payments' = DOMAIN payments \cup {n} /\ n \notin DOMAIN payments
        /\ \A m \in DOMAIN payments : payments'[m] = payments[m]
        /\ payments'[n] = p
    BY <1>0, <1>1, <1>2, Appended
  <1>5. ASSUME NEW m \in DOMAIN payments PROVE TransferOf(m)' = TransferOf(m)
    <2>1. Refunded(m)' <=> Refunded(m)
      BY <1>1, <1>4 DEF Refunded, DebtorBank
    <2>2. PlaceOf(m)' = PlaceOf(m)
      BY <1>4, <2>1, PlaceKept
    <2>3. QED BY <1>4, <2>2 DEF TransferOf
  <1>6. TransferOf(n)' = t
    <2>1. PlaceOf(n)' = "transit"
      BY <1>3, <1>4 DEF PlaceOf
    <2>2. QED BY <1>3, <1>4, <2>1 DEF TransferOf
  <1>7. Transferred \in Seq({TransferOf(m) : m \in DOMAIN payments} \cup {t})
    <2>1. PICK k \in Nat : DOMAIN payments = 1 .. k
      BY <1>2, LenProperties
    <2>2. QED BY <2>1, SeqDef DEF Transferred
  <1> DEFINE more == Append(Transferred, t)
  <1>8. Len(Transferred) = Len(payments)
    <2>1. Len(payments) \in Nat /\ DOMAIN Transferred = 1 .. Len(payments)
      BY <1>2, LenProperties DEF Transferred
    <2>2. Len(Transferred) \in Nat /\ DOMAIN Transferred = 1 .. Len(Transferred)
      BY <1>7, LenProperties
    <2>3. QED BY <2>1, <2>2
  <1> HIDE DEF t
  <1>9. /\ DOMAIN more = DOMAIN Transferred \cup {n}
        /\ \A m \in DOMAIN Transferred : more[m] = Transferred[m]
        /\ more[n] = t
    BY <1>0, <1>7, <1>8, Appended
  <1>10. more \in Seq({TransferOf(m) : m \in DOMAIN payments} \cup {t})
    BY <1>7, Appended
  <1>11. more = [m \in DOMAIN more |-> more[m]]
    BY <1>10, LenProperties
  <1> HIDE DEF more
  <1>12. DOMAIN more = DOMAIN payments'
    BY <1>4, <1>9 DEF Transferred
  <1>13. \A m \in DOMAIN payments' : more[m] = TransferOf(m)'
    BY <1>4, <1>5, <1>6, <1>9 DEF Transferred
  <1>14. Transferred' = more
    BY <1>11, <1>12, <1>13 DEF Transferred
  <1>15. QED BY <1>1, <1>14 DEF Customers!Send, Transferred, more, t

(* A rejection gives the money back to the payer. *)
LEMMA RejectBounces ==
  ASSUME MoneyInv, NEW n \in DOMAIN payments, RejectPayment(n)
  PROVE  Customers!Bounce(n)
  <1>1. /\ payments[n].status \in {"Initiated", "Accepted"}
        /\ customer' = [customer EXCEPT ![payments[n].debtor] = @ + payments[n].amount]
        /\ payments' = Mark({n}, "Rejected") /\ posted' = posted
    BY DEF RejectPayment
  <1>2. /\ DOMAIN payments' = DOMAIN payments
        /\ \A m \in DOMAIN payments :
              /\ payments'[m].debtor = payments[m].debtor
              /\ payments'[m].creditor = payments[m].creditor
              /\ payments'[m].amount = payments[m].amount
              /\ payments'[m].status = IF m = n THEN "Rejected" ELSE payments[m].status
    BY <1>1, MarkedParties DEF MoneyInv, LifecycleInv
  <1>3. PlaceOf(n) = "transit"
    BY <1>1 DEF PlaceOf
  <1>4. ASSUME NEW m \in DOMAIN payments
        PROVE  PlaceOf(m)' = IF m \in {n} THEN "bounced" ELSE PlaceOf(m)
    <2>1. Refunded(m)' <=> Refunded(m)
      BY <1>1, <1>2 DEF Refunded, DebtorBank
    <2>2. CASE m = n
      BY <1>2, <2>2 DEF PlaceOf
    <2>3. CASE m # n
      BY <1>2, <2>1, <2>3, PlaceKept
    <2>4. QED BY <2>2, <2>3
  <1>5. Transferred' = Customers!Put({n}, "bounced")
    BY <1>2, <1>4, Moved
  <1>6. /\ Transferred[n].place = "transit" /\ Transferred[n].from = payments[n].debtor
        /\ Transferred[n].amount = payments[n].amount
    BY <1>3 DEF Transferred, TransferOf
  <1>7. QED BY <1>1, <1>5, <1>6 DEF Customers!Bounce, Transferred

(* A return takes the money from the payee and gives it to the payer. *)
LEMMA ReturnInFullReturns ==
  ASSUME MoneyInv, NEW n \in DOMAIN payments, ReturnInFull(n)
  PROVE  Customers!Return(n)
  <1> DEFINE keys == {<<DebtorBank(payments[n]), "return-debit", n>>,
                      <<CreditorBank(payments[n]), "return-credit", n>>,
                      <<CentralBank, "return-settle", n>>}
  <1>1. /\ payments[n].status = "Settled" /\ ~Refunded(n)
        /\ customer' = [[customer EXCEPT ![payments[n].debtor] = @ + payments[n].amount]
                          EXCEPT ![payments[n].creditor] = @ - payments[n].amount]
        /\ payments' = Mark({n}, "Returned") /\ posted' = posted \cup keys
    BY DEF ReturnInFull, CanReturn, Unused, Refunded
  <1>2. /\ DOMAIN payments' = DOMAIN payments
        /\ \A m \in DOMAIN payments :
              /\ payments'[m].debtor = payments[m].debtor
              /\ payments'[m].creditor = payments[m].creditor
              /\ payments'[m].amount = payments[m].amount
              /\ payments'[m].status = IF m = n THEN "Returned" ELSE payments[m].status
    BY <1>1, MarkedParties DEF MoneyInv, LifecycleInv
  <1>3. PlaceOf(n) = "delivered"
    BY <1>1, Places
  <1>4. ASSUME NEW m \in DOMAIN payments
        PROVE  PlaceOf(m)' = IF m \in {n} THEN "returned" ELSE PlaceOf(m)
    <2>1. CASE m = n
      BY <1>2, <2>1 DEF PlaceOf
    <2>2. CASE m # n
      <3>1. Refunded(m)' <=> Refunded(m)
        BY <1>1, <1>2, <2>2 DEF Refunded, DebtorBank
      <3>2. QED BY <1>2, <2>2, <3>1, PlaceKept
    <2>3. QED BY <2>1, <2>2
  <1>5. Transferred' = Customers!Put({n}, "returned")
    BY <1>2, <1>4, Moved
  <1>6. /\ Transferred[n].place = "delivered" /\ Transferred[n].from = payments[n].debtor
        /\ Transferred[n].to = payments[n].creditor /\ Transferred[n].amount = payments[n].amount
    BY <1>3 DEF Transferred, TransferOf
  <1>7. QED BY <1>1, <1>5, <1>6 DEF Customers!Return, Transferred

(* A return that stops half way refunds the payer and leaves the payee be.  *)
LEMMA ReturnPartlyCompensates ==
  ASSUME MoneyInv, NEW n \in DOMAIN payments, ReturnPartly(n)
  PROVE  Customers!Compensate(n)
  <1> DEFINE key == <<DebtorBank(payments[n]), "return-debit", n>>
  <1>1. /\ payments[n].status = "Settled" /\ ~Refunded(n)
        /\ customer' = [customer EXCEPT ![payments[n].debtor] = @ + payments[n].amount]
        /\ payments' = payments /\ posted' = posted \cup {key}
    BY DEF ReturnPartly, CanReturn, Unused, Refunded, network
  <1>2. PlaceOf(n) = "delivered"
    BY <1>1, Places
  <1>3. ASSUME NEW m \in DOMAIN payments
        PROVE  PlaceOf(m)' = IF m \in {n} THEN "compensated" ELSE PlaceOf(m)
    <2>1. CASE m = n
      BY <1>1, <2>1 DEF PlaceOf, Unused, DebtorBank
    <2>2. CASE m # n
      <3>1. Refunded(m)' <=> Refunded(m)
        BY <1>1, <2>2 DEF Refunded, DebtorBank
      <3>2. QED BY <1>1, <2>2, <3>1, PlaceKept
    <2>3. QED BY <2>1, <2>2
  <1>4. Transferred' = Customers!Put({n}, "compensated")
    BY <1>1, <1>3, Moved
  <1>5. /\ Transferred[n].place = "delivered" /\ Transferred[n].from = payments[n].debtor
        /\ Transferred[n].amount = payments[n].amount
    BY <1>2 DEF Transferred, TransferOf
  <1>6. QED BY <1>1, <1>4, <1>5 DEF Customers!Compensate, Transferred

(* Every step of the network is a step of the transfers, or none. *)
LEMMA NextTransfers == MoneyInv /\ [Next]_vars => [Customers!Next]_(Customers!vars)
  <1> SUFFICES ASSUME MoneyInv, [Next]_vars PROVE Customers!Next \/ UNCHANGED Customers!vars
    OBVIOUS
  <1>0. DOMAIN Transferred = DOMAIN payments
    BY DEF Transferred
  <1>1. CASE UNCHANGED vars
    BY <1>1, NoPaymentMoved DEF vars, deposits, books, network
  <1>2. CASE \/ \E b \in Participant : AddParticipant(b)
             \/ \E a \in Account : OpenAccount(a)
             \/ \E a \in Managed, to \in AccountStatus : ChangeStatus(a, to)
             \/ \E a \in Managed : Close(a)
             \/ \E debtor, creditor \in Account, max \in MandateMax :
                  CreateMandate(debtor, creditor, max)
             \/ \E m \in DOMAIN mandates : RevokeMandate(m)
             \/ \E scheme \in Scheme : OpenCycle(scheme)
    <2>1. customer' = customer /\ payments' = payments /\ posted' = posted
      BY <1>2 DEF AddParticipant, OpenAccount, ChangeStatus, Close, CreateMandate, RevokeMandate,
         OpenCycle, deposits, books, network
    <2>2. QED BY <2>1, NoPaymentMoved
  <1>3. ASSUME NEW a \in Account, NEW amount \in Sum, Deposit(a, amount)
        PROVE  Customers!Next
    <2>1. /\ customer' = [customer EXCEPT ![a] = @ + amount]
          /\ payments' = payments /\ posted' = posted
      BY <1>3 DEF Deposit, network
    <2>2. \A n : TransferOf(n)' = TransferOf(n)
      BY <2>1 DEF TransferOf, PlaceOf, Unused, DebtorBank
    <2>3. Transferred' = Transferred
      BY <2>1, <2>2 DEF Transferred
    <2>4. Customers!PayIn(a, amount)
      BY <2>1, <2>3 DEF Customers!PayIn, Transferred
    <2>5. QED BY <2>4 DEF Customers!Next
  <1>4. ASSUME NEW c \in DOMAIN cycles, CloseCycle(c) PROVE UNCHANGED Customers!vars
    BY <1>4, CloseCycleIsQuiet
  <1>5. ASSUME NEW c \in DOMAIN cycles, SettleInFull(c) PROVE Customers!Next
    <2>1. Members(c) \in SUBSET DOMAIN Transferred /\ Customers!Deliver(Members(c))
      BY <1>0, <1>5, SettleInFullDelivers
    <2>2. QED BY <2>1 DEF Customers!Next, Transferred
  <1>6. ASSUME NEW c \in DOMAIN cycles, SettlePartly(c) PROVE UNCHANGED Customers!vars
    <2>1. PICK done : posted' = posted \cup SettleKeys(c, done)
                        /\ payments' = payments /\ customer' = customer
      BY <1>6 DEF SettlePartly, network, deposits
    <2>2. \A k \in SettleKeys(c, done) : k[2] \notin PaymentLegs
      BY DEF SettleKeys, PaymentLegs
    <2>3. QED BY <2>1, <2>2, NoPaymentMoved
  <1>7. ASSUME NEW scheme \in Scheme, NEW debtor \in Account, NEW creditor \in Account,
               NEW amount \in Sum, NEW endToEnd \in EndToEnd \cup {NoEndToEnd},
               NEW mandate \in MandateChoice(scheme),
               InitiatePayment(scheme, debtor, creditor, amount, mandate, endToEnd)
        PROVE  Customers!Next
    <2>1. Len(mandates) \in Nat
      BY LenProperties DEF MoneyInv, MandatesTyped
    <2>2. mandate \in Nat
      BY <2>1 DEF MandateChoice
    <2>3. Customers!Send(debtor, creditor, amount)
      BY <1>7, <2>2, InitiateSends
    <2>4. QED BY <2>3 DEF Customers!Next
  <1>8. ASSUME NEW n \in DOMAIN payments, RejectPayment(n) PROVE Customers!Next
    <2>1. n \in DOMAIN Transferred /\ Customers!Bounce(n)
      BY <1>0, <1>8, RejectBounces
    <2>2. QED BY <2>1 DEF Customers!Next, Transferred
  <1>9. ASSUME NEW n \in DOMAIN payments, ReturnPayment(n) PROVE Customers!Next
    <2>1. n \in DOMAIN Transferred /\ (Customers!Return(n) \/ Customers!Compensate(n))
      BY <1>0, <1>9, ReturnInFullReturns, ReturnPartlyCompensates DEF ReturnPayment
    <2>2. QED BY <2>1 DEF Customers!Next, Transferred
  <1>10. QED BY <1>1, <1>2, <1>3, <1>4, <1>5, <1>6, <1>7, <1>8, <1>9 DEF Next, SettleCycle

(* The network starts without transfers. *)
LEMMA InitTransfers == Init => Customers!Init
  <1> SUFFICES ASSUME Init PROVE Customers!Init
    OBVIOUS
  <1>1. DOMAIN payments = {} /\ customer = [a \in Account |-> 0]
    BY DEF Init
  <1>2. Transferred = << >>
    BY <1>1 DEF Transferred
  <1>3. QED BY <1>1, <1>2 DEF Customers!Init, Transferred

(* To its customers the network, with all its books, cycles, keys and runs  *)
(* that stop half way, is a set of transfers: each takes the money from its *)
(* payer once, and brings it to its payee once, with all of its cycle, or   *)
(* back to its payer once (system.go:12-24, 317-320, 540-541, 569-571).     *)
THEOREM NetworkImplementsTransfers == Spec => ImplementsTransfers
  <1>1. MoneyInv /\ [Next]_vars => [Customers!Next]_(Customers!vars)
    BY NextTransfers
  <1>2. QED BY <1>1, InitTransfers, MoneyInvariant, PTL DEF Spec, ImplementsTransfers, Customers!Spec
=============================================================================
