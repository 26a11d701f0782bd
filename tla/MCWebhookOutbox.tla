-------------------------- MODULE MCWebhookOutbox --------------------------
(* Values of the constants of WebhookOutbox for TLC. *)
EXTENDS WebhookOutbox

CONSTANTS u1, u2

MCUrl == {u1, u2}
MCEventName == {"new-message", "imessage-aliases-removed"}
TwoSubscriptions == {{"*"}, {"imessage-alias-removed"}}

ShortDelays == <<1, 2>>
=============================================================================
