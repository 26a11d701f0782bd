----------------------------- MODULE MCHistory -----------------------------
(***************************************************************************)
(* What comes to a room beside its new messages, side by side: attachments *)
(* of pushed messages (AttachmentRecovery) and of CloudKit's history       *)
(* (CloudAttachments), shared albums (SharedAlbums), the Mac's own         *)
(* database (ChatHistory), and the notices of FaceTime calls with their    *)
(* links (FaceTimeCalls).  A behaviour is one of the five; the others stay *)
(* in their initial states.                                                *)
(***************************************************************************)
EXTENDS AttachmentRecovery, CloudAttachments, SharedAlbums, ChatHistory, FaceTimeCalls, TLC

CONSTANTS photo, huge, n1, n2

VARIABLE half

(* A Live Photo of unknown size, and an attachment of Wrap + 1 units whose *)
(* size is therefore reported as 1.                                        *)
MCFileSize == (photo :> 0) @@ (huge :> 1)
MCRealSize == (photo :> 3) @@ (huge :> 33)

(* Two numbers of one contact, chats of their own while the contacts are   *)
(* missing, and four messages: the fewest for pages that end apart.        *)
MCContact == (n1 :> "Ann") @@ (n2 :> "Ann")

AnyInit ==
    /\ half \in {"pushed", "stored", "shared", "mac", "phone"}
    /\ RecoveryInit /\ UploadsInit /\ AlbumsInit /\ HistoryInit /\ CallsInit
    /\ half # "pushed" => text = [g \in Guids |-> TRUE]
    /\ half # "mac" => known
    /\ half # "phone" => premint = {}

AnyNext ==
    \/ half = "pushed" /\ RecoveryNext
       /\ UNCHANGED <<half, uploadsVars, albumsVars, historyVars, callsVars>>
    \/ half = "stored" /\ UploadsNext
       /\ UNCHANGED <<half, recoveryVars, albumsVars, historyVars, callsVars>>
    \/ half = "shared" /\ AlbumsNext
       /\ UNCHANGED <<half, recoveryVars, uploadsVars, historyVars, callsVars>>
    \/ half = "mac" /\ HistoryNext
       /\ UNCHANGED <<half, recoveryVars, uploadsVars, albumsVars, callsVars>>
    \/ half = "phone" /\ CallsNext
       /\ UNCHANGED <<half, recoveryVars, uploadsVars, albumsVars, historyVars>>

AnySpec ==
    AnyInit /\ [][AnyNext]_<<half, recoveryVars, uploadsVars, albumsVars, historyVars, callsVars>>
=============================================================================
