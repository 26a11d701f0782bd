----------------------------- MODULE MCCloudSync -----------------------------
(* Two chats, each with a portal of its own and one message. *)
EXTENDS CloudSync, TLC

CONSTANTS p1, p2, c1, c2, m1, m2

MCPortals == {p1, p2}
MCChatIds == {c1, c2}
MCGuids == {m1, m2}
MCChatPortal == c1 :> p1 @@ c2 :> p2
MCHome == m1 :> p1 @@ m2 :> p2
MCStamp == m1 :> 1 @@ m2 :> 2
MCAlias == [p \in MCPortals |-> {}]
MCNoChatId == {m2}
MCFirstChats == <<[id |-> c1, gone |-> FALSE]>>
MCFirstMsgs == <<[id |-> m1, gone |-> FALSE]>>
=============================================================================
