------------------------------ MODULE MCEvents ------------------------------
(***************************************************************************)
(* What Apple sends to the TypeScript service, side by side: the envelopes *)
(* it claims (IncomingEvents) and the receipts and errors of the messages  *)
(* it sent (MessageReceipts).  A behaviour is one of the two; the other    *)
(* stays in its initial state.                                             *)
(***************************************************************************)
EXTENDS IncomingEvents, MessageReceipts, TLC

CONSTANTS text, ring, hangup, p1, p2, m1, x1, x2, f1, r1, e1

VARIABLE half

AnyInit == half \in {"envelopes", "receipts"} /\ IncomingInit /\ Init

AnyNext ==
    \/ half = "envelopes" /\ IncomingNext /\ UNCHANGED <<half, vars>>
    \/ half = "receipts" /\ Next /\ UNCHANGED <<half, incomingVars>>

AnySpec == AnyInit /\ [][AnyNext]_<<half, incomingVars, vars>>

MCSymmetry == Permutations({p1, p2}) \cup Permutations({x1, x2})
=============================================================================
