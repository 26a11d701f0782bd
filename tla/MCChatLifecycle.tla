--------------------------- MODULE MCChatLifecycle ---------------------------
(* One chat with an old message and a new one. *)
EXTENDS ChatLifecycle, TLC

CONSTANTS p1, c1, m1, m2

MCPortals == {p1}
MCChatIds == {c1}
MCGuids == {m1, m2}
MCChatPortal == c1 :> p1
MCHome == [m \in MCGuids |-> p1]
MCStamp == m1 :> 1 @@ m2 :> 3
MCAlias == [p \in MCPortals |-> {}]
MCOld == {m1}
=============================================================================
