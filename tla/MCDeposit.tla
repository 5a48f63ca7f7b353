----------------------------- MODULE MCDeposit ------------------------------
(***************************************************************************)
(* The deposit register on small instances: alice may not overdraw, bob by *)
(* one unit.  A history variable remembers, of the snapshot under way, the *)
(* moments since its method took the lock at which the account had the     *)
(* book balance that the method has read.                                  *)
(***************************************************************************)
EXTENDS Deposit

CONSTANTS alice, bob

MCLimit == [a \in Account |-> IF a = bob THEN 1 ELSE 0]

VARIABLE moments

TakingSnapshot == writer.call = "TakeEndOfDaySnapshot"

MomentOf(a) ==
  IF balance[a] = writer.book THEN {[holds |-> Held(a), at |-> now]} ELSE {}

MCInit == Init /\ moments = {}

MCNext ==
  /\ Next
  /\ moments' = IF TakingSnapshot'
                THEN (IF TakingSnapshot THEN moments ELSE {}) \cup MomentOf(writer.account)'
                ELSE {}

MCSpec == MCInit /\ [][MCNext]_<<vars, moments>>

(* "Snapshot is a point-in-time record of a deposit account's balance"      *)
(* (deposit/types.go:107).  The book is read first and the clock later, and *)
(* between them postings go on: what a snapshot stores was there at one     *)
(* moment of the call, unless a hold expired during the call               *)
(* (register.go:551-580).                                                  *)
SnapshotWasSo ==
  [][(TakingSnapshot /\ ~TakingSnapshot') =>
       LET a == writer.account
           s == <<a, writer.date>>
       IN  s \in DOMAIN snapshots' /\
           \/ \E m \in moments : m.holds = snapshots'[s].holds
           \/ \E n \in DOMAIN holds, m \in moments :
                /\ holds[n].account = a /\ HoldIsActive(n) /\ Expired(holds[n])
                /\ holds[n].expiresAt >= m.at]_<<vars, moments>>
=============================================================================
