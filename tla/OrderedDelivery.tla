-------------------------- MODULE OrderedDelivery --------------------------
(***************************************************************************)
(* What the webhook outbox promises a receiver, without saying how:        *)
(* numbered deliveries, each addressed to one receiver, that a receiver    *)
(* accepts in the order they were published.  A delivery leaves the        *)
(* pending set only when its receiver has accepted it or when the sender   *)
(* has given it up; only a delivery given up may still arrive later, out   *)
(* of order, because a request already on the network cannot be recalled.  *)
(* A receiver is assumed to drop a delivery id it has already accepted     *)
(* (README.md of the repository: "deduplicate on the delivery-id header"). *)
(***************************************************************************)
EXTENDS Integers, Sequences

CONSTANTS
  Receivers, \* who accepts deliveries
  MaxFanout  \* the most deliveries one event has

VARIABLES
  issued,     \* the ids 1..issued have been published
  pending,    \* pending[u]: the ids addressed to u and not settled yet
  dropped,    \* dropped[u]: the ids addressed to u that the sender gave up
  seen        \* seen[u]: the ids u has accepted, in the order it accepted them

absVars == <<issued, pending, dropped, seen>>

SeenIds(u) == {seen[u][i] : i \in DOMAIN seen[u]}

AbsTypeOK ==
  /\ issued \in Nat
  /\ pending \in [Receivers -> SUBSET (1..issued)]
  /\ dropped \in [Receivers -> SUBSET (1..issued)]
  /\ seen \in [Receivers -> Seq(1..issued)]

AbsInit ==
  /\ issued = 0
  /\ pending = [u \in Receivers |-> {}]
  /\ dropped = [u \in Receivers |-> {}]
  /\ seen = [u \in Receivers |-> <<>>]

(* One event is published to the receivers listed in line, one id each. *)
Publish(line) ==
  /\ issued' = issued + Len(line)
  /\ pending' = [u \in Receivers |->
       pending[u] \cup {issued + i : i \in {j \in DOMAIN line : line[j] = u}}]
  /\ UNCHANGED <<dropped, seen>>

(* u accepts d for the first time: the oldest pending id, or one given up. *)
Accept(u, d) ==
  /\ d \notin SeenIds(u)
  /\ \/ d \in pending[u] /\ \A e \in pending[u] : d <= e
     \/ d \in dropped[u]
  /\ seen' = [seen EXCEPT ![u] = Append(@, d)]
  /\ UNCHANGED <<issued, pending, dropped>>

(* The sender learns that u has accepted d. *)
Settle(u, d) ==
  /\ d \in pending[u] \cap SeenIds(u)
  /\ pending' = [pending EXCEPT ![u] = @ \ {d}]
  /\ UNCHANGED <<issued, dropped, seen>>

(* The sender gives up the oldest deliveries of u, possibly all of them. *)
GiveUp(u, ids) ==
  /\ ids \subseteq pending[u]
  /\ \A d \in ids, e \in pending[u] \ ids : d < e
  /\ pending' = [pending EXCEPT ![u] = @ \ ids]
  /\ dropped' = [dropped EXCEPT ![u] = @ \cup ids]
  /\ UNCHANGED <<issued, seen>>

AbsNext ==
  \/ \E n \in 0..MaxFanout : \E line \in [1..n -> Receivers] : Publish(line)
  \/ \E u \in Receivers, d \in 1..issued : Accept(u, d) \/ Settle(u, d)
  \/ \E u \in Receivers, ids \in SUBSET (1..issued) : GiveUp(u, ids)

AbsSpec == AbsInit /\ [][AbsNext]_absVars

-----------------------------------------------------------------------------
(* What a receiver may rely on.                                            *)

(* A receiver meets the deliveries in the order they were published, except *)
(* those the sender had given up.                                           *)
SeenInOrder ==
  \A u \in Receivers : \A i, j \in DOMAIN seen[u] :
    i < j => seen[u][i] < seen[u][j] \/ seen[u][j] \in dropped[u]

(* A published delivery is still pending, or was accepted, or was given up. *)
NoneForgotten ==
  \A d \in 1..issued : \E u \in Receivers : d \in pending[u] \cup dropped[u] \cup SeenIds(u)
=============================================================================
