--------------------------- MODULE MCBackfillGate ---------------------------
(* Two conversations with a history of one message each.  To p1 CloudKit adds two *)
(* messages late, and APNs delivers the newer of them.                            *)
EXTENDS BackfillGate, TLC

CONSTANTS p1, p2, c1, c2, h1, h2, l1, l2

MCPortals == {p1, p2}
MCChatIds == {c1, c2}
MCGuids == {h1, h2, l1, l2}
MCChatPortal == c1 :> p1 @@ c2 :> p2
MCHome == h1 :> p1 @@ h2 :> p2 @@ l1 :> p1 @@ l2 :> p1
MCStamp == h1 :> 1 @@ h2 :> 2 @@ l1 :> 3 @@ l2 :> 4
MCAlias == [p \in MCPortals |-> {}]
MCHistory == {h1, h2}
MCLive == {l2}
MCLate == {l1, l2}
MCEarlier == {{}, {h1}}
=============================================================================
