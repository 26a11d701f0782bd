------------------------------ MODULE CloudStore ------------------------------
(***************************************************************************)
(* The two tables the Matrix bridge keeps of what CloudKit told it         *)
(* (src/pkg/connector/cloud_backfill_store.go): cloud_chat, one row per    *)
(* chat record, and cloud_message, one row per message GUID.  This module  *)
(* has no variables: every operator is one statement of the store, from    *)
(* the rows before it to the rows after it or to its answer, so that the   *)
(* modules of the sync controller, the backfill gate and the life of a     *)
(* chat say with the same words what they read and write.                  *)
(*                                                                         *)
(* A row that is not there is a row in state "none".  Deleting a chat or a *)
(* message only changes the state of its row to "deleted": the row stays,  *)
(* so that a late copy of the message is still recognised.  The text of a  *)
(* message is kept as one of three values: "text", "none" (a row that only *)
(* remembers the GUID), "scrubbed" (erased on purpose).                    *)
(***************************************************************************)
EXTENDS Integers, FiniteSets

CONSTANTS
  Portals,      \* portal ids, one per conversation
  ChatIds,      \* ids of chat records (cloud_chat_id)
  Guids,        \* message GUIDs
  NoPortal,     \* a message row without a portal
  ChatPortal,   \* the portal a chat record resolves to
  Stamp,        \* the time at which a message was sent
  Alias         \* the chat ids that carry the UUID of a group portal

ASSUME StoreAssumption ==
  /\ NoPortal \notin Portals
  /\ ChatPortal \in [ChatIds -> Portals]
  /\ Stamp \in [Guids -> Nat]
  /\ Alias \in [Portals -> SUBSET ChatIds]

RowStates == {"none", "live", "deleted"}
ChatRow == [state: RowStates, portal: Portals, ts: Nat, fwd: BOOLEAN]
MsgRow == [state: RowStates, portal: Portals \cup {NoPortal}, cloud: BOOLEAN,
           body: {"none", "text", "scrubbed"}]

NoChats == [c \in ChatIds |->
              [state |-> "none", portal |-> ChatPortal[c], ts |-> 0, fwd |-> FALSE]]
NoMsgs == [m \in Guids |->
             [state |-> "none", portal |-> NoPortal, cloud |-> FALSE, body |-> "none"]]

-----------------------------------------------------------------------------
(* Questions about a portal. *)

ChatsOf(chat, p, states) == {c \in ChatIds : chat[c].portal = p /\ chat[c].state \in states}
MsgsOf(msg, p, states) == {m \in Guids : msg[m].portal = p /\ msg[m].state \in states}

\* portalHasChat: some live chat row names the portal.
HasChat(chat, p) == ChatsOf(chat, p, {"live"}) # {}

\* portalIsExplicitlyDeleted: some deleted chat row does, even beside a live one.
ExplicitlyDeleted(chat, p) == ChatsOf(chat, p, {"deleted"}) # {}

\* listDeletedPortalIDs, getSoftDeletedPortalInfo.Deleted: deleted, with no live replacement.
FullyDeleted(chat, p) == ExplicitlyDeleted(chat, p) /\ ~HasChat(chat, p)

\* getSoftDeletedPortalInfo.NewestTS: the newest deleted message, or the time of the chat rows.
DeletedTail(chat, msg, p) ==
  LET times == {0} \cup {Stamp[m] : m \in MsgsOf(msg, p, {"deleted"})}
                   \cup {chat[c].ts : c \in ChatsOf(chat, p, {"live", "deleted"})}
  IN  CHOOSE t \in times : \A u \in times : u <= t

\* hasMessageUUID: the GUID is known, whatever became of its row.
Known(msg, m) == msg[m].state # "none"

\* hasPortalMessages, listLatestMessages: what a backfill may read; rows that
\* only remember a GUID have no record name and are left out.
Backfillable(msg, p) == {m \in MsgsOf(msg, p, {"live"}) : msg[m].cloud}

\* listForwardMessages, listBackwardMessages: on one side of an anchor.
Newer(msg, p, t) == {m \in Backfillable(msg, p) : Stamp[m] > t}
Older(msg, p, ks) == {m \in Backfillable(msg, p) : \A k \in ks : Stamp[m] < Stamp[k]}

\* listPortalIDsWithNewestTimestamp: portals with messages to show, and
\* portals with a live chat row and no live message row at all.
Listed(chat, msg) ==
  {p \in Portals : \/ Backfillable(msg, p) # {}
                   \/ HasChat(chat, p) /\ MsgsOf(msg, p, {"live"}) = {}}

\* isForwardBackfillDone
ForwardDone(chat, p) == \E c \in ChatsOf(chat, p, {"live", "deleted"}) : chat[c].fwd

-----------------------------------------------------------------------------
(* Statements on cloud_chat. *)

\* upsertChatBatch: a new row is live; an old one keeps its state.  at is the
\* time CloudKit gives the record, taken over only when it is newer.
UpsertChat(chat, c, at) ==
  LET old == chat[c] IN
  [chat EXCEPT ![c] = IF old.state = "none"
                      THEN [state |-> "live", portal |-> ChatPortal[c], ts |-> at, fwd |-> FALSE]
                      ELSE [old EXCEPT !.portal = ChatPortal[c], !.ts = IF at >= @ THEN at ELSE @]]

\* lookupPortalIDsByRecordNames: a tombstone names only the record.
PortalsOfRecord(chat, c) == IF chat[c].state = "none" THEN {} ELSE {chat[c].portal}

DeleteRows(chat, C, now) ==
  [c \in ChatIds |-> IF c \in C /\ chat[c].state = "live"
                     THEN [chat[c] EXCEPT !.state = "deleted", !.ts = now] ELSE chat[c]]

\* deleteChatsByRecordNames
TombstoneRecord(chat, c, now) == DeleteRows(chat, {c}, now)

\* insertDeletedChatTombstone: only where there is no row.
InsertTombstone(chat, c, now) ==
  IF chat[c].state # "none" THEN chat
  ELSE [chat EXCEPT ![c] = [state |-> "deleted", portal |-> ChatPortal[c], ts |-> now, fwd |-> FALSE]]

\* deleteLocalChatByPortalID, the chat rows: those of the portal and those
\* that carry its group UUID; rows deleted before keep their time.
DeleteChatsOf(chat, p, now) ==
  DeleteRows(chat, ChatsOf(chat, p, {"live"}) \cup Alias[p], now)

\* undeleteCloudChatByPortalID: the shell of the chat, not its messages.
UndeleteChat(chat, p, now) ==
  [c \in ChatIds |-> IF c \in ChatsOf(chat, p, {"deleted"})
                     THEN [chat[c] EXCEPT !.state = "live", !.ts = now, !.fwd = FALSE]
                     ELSE chat[c]]

\* seedChatFromRecycleBin: a live row, whatever was there.
SeedChat(chat, c, p, now) ==
  [chat EXCEPT ![c] = [state |-> "live", portal |-> p, ts |-> now,
                       fwd |-> @.state # "none" /\ @.fwd]]

\* resetForwardBackfillDone
ResetForward(chat, p) ==
  [c \in ChatIds |-> IF chat[c].portal = p THEN [chat[c] EXCEPT !.fwd = FALSE] ELSE chat[c]]

\* markForwardBackfillDone: every row of the portal, or a row made for it;
\* own is the id of that row ("synthetic:" and the portal).
MarkForwardDone(chat, p, own) ==
  IF ChatsOf(chat, p, {"live", "deleted"}) # {}
  THEN [c \in ChatIds |-> IF chat[c].portal = p /\ chat[c].state # "none"
                          THEN [chat[c] EXCEPT !.fwd = TRUE] ELSE chat[c]]
  ELSE [c \in ChatIds |-> IF c = own /\ chat[c].state = "none"
                          THEN [state |-> "live", portal |-> p, ts |-> 0, fwd |-> TRUE]
                          ELSE chat[c]]

-----------------------------------------------------------------------------
(* Statements on cloud_message. *)

\* upsertMessageBatch: a deleted row stays deleted and an erased text erased;
\* everything else is what CloudKit says now.
UpsertMsg(msg, m, p, deleted) ==
  [msg EXCEPT ![m] = [state |-> IF @.state = "deleted" \/ deleted THEN "deleted" ELSE "live",
                      portal |-> p, cloud |-> TRUE,
                      body |-> IF @.body = "scrubbed" THEN "scrubbed" ELSE "text"]]

\* persistMessageUUID: the GUID of a live message, without its text.
PersistUUID(msg, m, p) ==
  IF Known(msg, m) THEN msg
  ELSE [msg EXCEPT ![m] = [state |-> "live", portal |-> p, cloud |-> FALSE, body |-> "none"]]

EraseRows(msg, S) ==
  [m \in Guids |-> IF m \in S THEN [msg[m] EXCEPT !.state = "deleted", !.body = "scrubbed"]
                   ELSE msg[m]]

\* deleteMessageBatch: CloudKit deleted the record of the message.
DeleteRecords(msg, S) == EraseRows(msg, {m \in S : msg[m].state = "live"})

\* softDeleteMessageByGUID: the same for a message deleted or unsent on a
\* device, leaving a deleted row behind when there was none.
SoftDelete(msg, m) == EraseRows(msg, {m})

\* deleteLocalChatByPortalID, the message rows, by portal and by group UUID;
\* chat is the table after its own rows were deleted.
DeleteMsgsOf(chat, msg, p) ==
  LET doomed == {p} \cup {chat[c].portal : c \in {d \in Alias[p] : chat[d].state # "none"}}
  IN  EraseRows(msg, {m \in Guids : msg[m].state = "live" /\ msg[m].portal \in doomed})

\* undeleteCloudMessagesByPortalID: every deleted row of the portal.
UndeleteMsgs(msg, p) ==
  [m \in Guids |-> IF m \in MsgsOf(msg, p, {"deleted"})
                   THEN [msg[m] EXCEPT !.state = "live"] ELSE msg[m]]

\* clearBodyScrubByPortalID: the next copy from CloudKit may bring the text back.
ClearScrub(msg, p) ==
  [m \in Guids |-> IF msg[m].portal = p /\ msg[m].body = "scrubbed"
                   THEN [msg[m] EXCEPT !.body = "none"] ELSE msg[m]]

\* deleteOrphanedMessages: deleted rows of portals that have no chat row, and
\* old ones without a portal.
DropOrphans(chat, msg, old) ==
  [m \in Guids |->
     IF /\ msg[m].state = "deleted"
        /\ \/ msg[m].portal \in Portals /\ ChatsOf(chat, msg[m].portal, {"live", "deleted"}) = {}
           \/ msg[m].portal = NoPortal /\ m \in old
     THEN NoMsgs[m] ELSE msg[m]]
=============================================================================
