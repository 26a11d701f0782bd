---------------------------- MODULE MCConnector ----------------------------
(***************************************************************************)
(* What the connector does for its user, side by side: the account it is   *)
(* signed in with (Session), the messages it sends (Outgoing) and the      *)
(* receipts it is given for them (BridgeReceipts).  A behaviour is one of  *)
(* the three; the others stay in their initial states.                     *)
(***************************************************************************)
EXTENDS Session, Outgoing, BridgeReceipts

VARIABLE half

AnyInit ==
    /\ half \in {"account", "sender", "receipts"}
    /\ SessionInit /\ OutgoingInit /\ ReceiptsInit
    /\ half # "sender" => ~flag /\ contactOn /\ relayOn
    /\ half # "receipts" =>
         slow = {} /\ \A o \in Old : cloud[o] = "read" /\ rows[o].key = Direct

AnyNext ==
    \/ half = "account" /\ SessionNext /\ UNCHANGED <<half, outgoingVars, receiptsVars>>
    \/ half = "sender" /\ OutgoingNext /\ UNCHANGED <<half, sessionVars, receiptsVars>>
    \/ half = "receipts" /\ ReceiptsNext /\ UNCHANGED <<half, sessionVars, outgoingVars>>

AnySpec == AnyInit /\ [][AnyNext]_<<half, sessionVars, outgoingVars, receiptsVars>>
=============================================================================
