------------------------------ MODULE CloudSync ------------------------------
(***************************************************************************)
(* The goroutine that mirrors CloudKit into the store                      *)
(* (src/pkg/connector/sync_controller.go, runCloudSyncController).  It     *)
(* reads the change feed of the chats, then that of the messages, page by  *)
(* page: the rows of a page are written first, the continuation token      *)
(* after them, each in a statement of its own.  When a first pass has      *)
(* succeeded it asks for the rooms of the portals it found and opens the   *)
(* gate behind which live messages wait; later passes pick up what         *)
(* CloudKit was late with.                                                 *)
(*                                                                         *)
(* Around it: Apple's servers change the feeds, the user deletes chats,    *)
(* CloudKit calls and SQL statements fail, and the process dies between    *)
(* any two steps.  Rows, tokens, versions and rooms survive; recent, the   *)
(* list of portals just deleted, and all of the controller's state do not. *)
(* A page is one record.  What the recycle bin adds is in ChatLifecycle,   *)
(* what the gate does to live messages in BackfillGate.                    *)
(***************************************************************************)
EXTENDS CloudStore, Sequences

CONSTANTS
  Home,        \* the portal resolveConversationID finds for a message
  NoChatId,    \* messages whose record names no chat
  MaxErrors,   \* CloudKit errors in a row that end the paging of a zone (3)
  Passes,      \* delayed passes after the first one (3)
  FirstChats, FirstMsgs,   \* what the feeds hold when the bridge is installed
  Changes, CallFaults, SqlFaults, Deletes, Crashes   \* bounds: how often the surroundings act

ASSUME SyncAssumption ==
  /\ Home \in [Guids -> Portals] /\ NoChatId \subseteq Guids
  /\ MaxErrors \in Nat \ {0} /\ Passes \in Nat
  /\ FirstChats \in Seq([id: ChatIds, gone: BOOLEAN])
  /\ FirstMsgs \in Seq([id: Guids, gone: BOOLEAN])
  /\ {Changes, CallFaults, SqlFaults, Deletes, Crashes} \subseteq Nat

Zones == {"chats", "msgs"}
NoRow == -1     \* cloud_sync_state has no row for the zone, or one without a token
\* A row without a token only tells the controller that a sync was under way.

VARIABLES
  chat, msg,   \* the store
  token,       \* cloud_sync_state: how far each zone was read, or NoRow
  begun,       \* cloud_sync_state has a row of any kind
  ver,         \* the sync versions saved: "none", "chats" (only that of the chat zone), "both"
  room,        \* portals that have a Matrix room
  feed,        \* Apple's change feed of each zone
  pc,          \* where the controller is
  boot,        \* this pass is the bootstrap
  cur,         \* the token in memory, within a zone
  errs,        \* CloudKit errors in a row
  got,         \* the pass received a record
  row,         \* the record of the page being written, and what was decided about it
  recent,      \* recentlyDeletedPortals: "no", "user", "tomb" (isTombstone)
  skip,        \* skipPortals
  todo,        \* portals createPortalsFromCloudSync has still to queue
  left,        \* delayed passes still to come
  gate,        \* cloudSyncDone
  asked,       \* portals for which a ChatResync that creates a room is queued
  forgotten,   \* (history) messages left out of the store, or dropped from it, on purpose
  budget       \* what the surroundings may still do

durable == <<chat, msg, token, begun, ver, room>>
pass == <<cur, errs, got, row>>
outside == <<feed, budget>>
vars == <<chat, msg, token, begun, ver, room, feed, pc, boot, cur, errs, got, row, recent,
          skip, todo, left, gate, asked, forgotten, budget>>

NoRecord == [id |-> NoPortal, deleted |-> FALSE, at |-> 0]
Fail == budget.sql > 0 /\ budget' = [budget EXCEPT !.sql = @ - 1]

Init ==
  /\ chat = NoChats /\ msg = NoMsgs /\ token = [z \in Zones |-> NoRow] /\ begun = FALSE
  /\ ver = "none" /\ room = {} /\ feed = [chats |-> FirstChats, msgs |-> FirstMsgs]
  /\ forgotten = {}
  /\ budget = [changes |-> Changes, call |-> CallFaults, sql |-> SqlFaults,
                deletes |-> Deletes, crashes |-> Crashes]
  /\ pc = "contacts" /\ boot = TRUE /\ cur = NoRow /\ errs = 0 /\ got = FALSE
  /\ row = NoRecord /\ recent = [p \in Portals |-> "no"] /\ skip = {} /\ todo = {}
  /\ left = Passes /\ gate = FALSE /\ asked = {}

-----------------------------------------------------------------------------
(* Before the first pass. *)

\* Without contacts the controller gives up when the bridge stops, and opens
\* the gate on its way out.
Contacts ==
  /\ pc = "contacts"
  /\ \/ pc' = "load" /\ UNCHANGED gate
     \/ pc' = "stopped" /\ gate' = TRUE
  /\ UNCHANGED <<durable, outside, boot, pass, recent, skip, todo, left, asked, forgotten>>

\* (mutant) A restart forgets the deleted chats.
LoadNothing ==
  /\ pc = "load" /\ pc' = "begin"
  /\ UNCHANGED <<durable, outside, boot, pass, recent, skip, todo, left, gate, asked, forgotten>>

\* Chats deleted in an earlier session are remembered as tombstones, whoever
\* deleted them.
LoadDeleted ==
  /\ pc = "load" /\ pc' = "begin"
  /\ recent' = [p \in Portals |-> IF FullyDeleted(chat, p) THEN "tomb" ELSE recent[p]]
  /\ UNCHANGED <<durable, outside, boot, pass, skip, todo, left, gate, asked, forgotten>>

\* runCloudSyncOnce, what a bootstrap throws away before it reads the feeds.
Begin ==
  /\ pc = "begin" /\ pc' = "chats"
  /\ CASE ~boot -> UNCHANGED <<chat, msg, token, begun, ver>>
       [] boot /\ room = {} /\ ~begun ->
            /\ chat' = NoChats /\ msg' = NoMsgs
            /\ token' = [z \in Zones |-> NoRow] /\ ver' = "none" /\ UNCHANGED begun
       [] boot /\ room = {} /\ begun -> UNCHANGED <<chat, msg, token, begun, ver>>
       [] boot /\ room # {} /\ ver # "both" ->
            /\ token' = [z \in Zones |-> NoRow] /\ begun' = FALSE /\ ver' = "none"
            /\ UNCHANGED <<chat, msg>>
       [] OTHER -> UNCHANGED <<chat, msg, token, begun, ver>>
  /\ cur' = token'["chats"] /\ errs' = 0 /\ got' = FALSE
  /\ forgotten' = IF token'["msgs"] = NoRow THEN {} ELSE forgotten
  /\ UNCHANGED <<room, outside, boot, row, recent, skip, todo, left, gate, asked>>

-----------------------------------------------------------------------------
(* Reading a zone. *)

\* The feed gives the last change of each record after the token, oldest first.
Zone == IF pc \in {"chats", "chatClear", "chatRows", "chatToken"} THEN "chats" ELSE "msgs"
Last(f, i) == \A j \in i + 1 .. Len(f) : f[j].id # f[i].id

Ahead == {i \in 1 .. Len(feed[Zone]) : i > cur /\ Last(feed[Zone], i)}
AtEnd == Ahead = {}
Position == CHOOSE i \in Ahead : \A j \in Ahead : i <= j
Record == feed[Zone][Position]

\* The paging of a zone is over.
EndOf(z) == IF z = "chats" THEN "chatsEnd" ELSE "msgsEnd"

\* A CloudKit call fails; the page is asked for again, until there were
\* MaxErrors in a row.  Then the paging of the zone ends, without an error.
FetchFails ==
  /\ pc \in Zones /\ budget.call > 0 /\ budget' = [budget EXCEPT !.call = @ - 1]
  /\ errs' = IF errs + 1 = MaxErrors THEN 0 ELSE errs + 1
  /\ IF errs + 1 = MaxErrors THEN pc' = EndOf(pc) ELSE UNCHANGED pc
  /\ UNCHANGED <<durable, feed, boot, cur, got, row, recent, skip, todo, left, gate, asked, forgotten>>

\* The last page is empty.  Its token is saved with the end of the zone.
LastPage ==
  /\ pc \in Zones /\ AtEnd /\ pc' = EndOf(pc) /\ errs' = 0 /\ cur' = Len(feed[pc])
  /\ UNCHANGED <<durable, outside, boot, got, row, recent, skip, todo, left, gate, asked, forgotten>>

\* (mutant) A bootstrap that failed is given up like a later pass.
PassFailsOnce ==
  /\ pc \in Zones \cup {"msgWrite"} /\ (pc = "msgWrite" \/ ~AtEnd) /\ Fail
  /\ begun' = TRUE /\ row' = NoRecord /\ pc' = "idle" /\ boot' = FALSE
  /\ UNCHANGED <<chat, msg, token, ver, room, feed, cur, errs, got, recent, skip, todo,
                 left, gate, asked, forgotten>>

\* An SQL error in the middle of a page ends the pass; setSyncStateError
\* leaves a row for the zone.  A bootstrap is tried again a minute later, a
\* delayed pass is given up.
PassFails ==
  /\ pc \in Zones \cup {"msgWrite"} /\ (pc = "msgWrite" \/ ~AtEnd) /\ Fail
  /\ begun' = TRUE /\ row' = NoRecord
  /\ pc' = IF boot THEN "begin" ELSE "idle"
  /\ UNCHANGED <<chat, msg, token, ver, room, feed, boot, cur, errs, got, recent, skip, todo,
                 left, gate, asked, forgotten>>

\* ingestCloudChats, a live record: the row is written, keeping its state.
ChatLive ==
  /\ pc = "chats" /\ ~AtEnd /\ ~Record.gone
  /\ chat' = UpsertChat(chat, Record.id, 0)
  /\ row' = [id |-> Record.id, deleted |-> FALSE, at |-> Position] /\ pc' = "chatClear"
  /\ got' = TRUE /\ errs' = 0
  /\ UNCHANGED <<msg, token, begun, ver, room, outside, boot, cur, recent, skip, todo, left,
                 gate, asked, forgotten>>

\* A tombstone that CloudKit shows live is forgotten and its chat undeleted;
\* a chat the user deleted in this session is not.
ChatClear ==
  LET p == ChatPortal[row.id]
  IN  /\ pc = "chatClear" /\ pc' = "chatToken"
      /\ IF recent[p] = "tomb"
         THEN /\ recent' = [recent EXCEPT ![p] = "no"]
              /\ \/ chat' = UndeleteChat(chat, p, 0) /\ UNCHANGED budget
                 \/ UNCHANGED chat /\ Fail
         ELSE UNCHANGED <<recent, chat, budget>>
      /\ UNCHANGED <<msg, token, begun, ver, room, feed, boot, pass, skip, todo, left, gate,
                     asked, forgotten>>

\* A tombstone names only the record: its chat row is deleted first.
ChatGone ==
  /\ pc = "chats" /\ ~AtEnd /\ Record.gone
  /\ chat' = TombstoneRecord(chat, Record.id, 0)
  /\ row' = [id |-> Record.id, deleted |-> TRUE, at |-> Position] /\ pc' = "chatRows"
  /\ got' = TRUE /\ errs' = 0
  /\ UNCHANGED <<msg, token, begun, ver, room, outside, boot, cur, recent, skip, todo, left,
                 gate, asked, forgotten>>

\* A ChatDelete is queued for a portal that has a room, behind what is queued for it.
DeleteRoom(p) ==
  IF p \in room THEN room' = room \ {p} /\ asked' = asked \ {p} ELSE UNCHANGED <<room, asked>>

\* Then its messages; the portal is remembered as a tombstone and its room is
\* to go, unless the rows could not be erased.
ChatGoneRows ==
  /\ pc = "chatRows" /\ pc' = "chatToken"
  /\ \/ /\ chat[row.id].state = "none"
        /\ UNCHANGED <<chat, msg, room, recent, asked, budget>>
     \/ /\ Fail /\ UNCHANGED <<chat, msg, room, recent, asked>>
     \/ \E p \in PortalsOfRecord(chat, row.id) :
          /\ chat' = DeleteChatsOf(chat, p, 0) /\ msg' = DeleteMsgsOf(chat', msg, p)
          /\ recent' = [recent EXCEPT ![p] = "tomb"]
          /\ DeleteRoom(p) /\ UNCHANGED budget
  /\ UNCHANGED <<token, begun, ver, feed, boot, pass, skip, todo, left, gate, forgotten>>

\* Deleted message records are erased at once.
MsgGone ==
  /\ pc = "msgs" /\ ~AtEnd /\ Record.gone
  /\ msg' = DeleteRecords(msg, {Record.id}) /\ pc' = "msgToken"
  /\ row' = [id |-> Record.id, deleted |-> TRUE, at |-> Position]
  /\ got' = TRUE /\ errs' = 0
  /\ UNCHANGED <<chat, token, begun, ver, room, outside, boot, cur, recent, skip, todo,
                 left, gate, asked, forgotten>>

\* A message of a chat that is deleted, or that names no chat and has none, is left out.
LeftOut(m) ==
  \/ ExplicitlyDeleted(chat, Home[m])
  \/ m \in NoChatId /\ ~HasChat(chat, Home[m])

\* ingestCloudMessages reads the list of deleted portals and the chats, then
\* writes its batch: a portal deleted in between is not noticed.
MsgRead ==
  /\ pc = "msgs" /\ ~AtEnd /\ ~Record.gone
  /\ errs' = 0
  /\ IF LeftOut(Record.id)
     THEN /\ pc' = "msgToken" /\ forgotten' = forgotten \cup {Record.id}
          /\ row' = [id |-> Record.id, deleted |-> FALSE, at |-> Position] /\ UNCHANGED got
     ELSE /\ pc' = "msgWrite" /\ forgotten' = forgotten \ {Record.id} /\ got' = TRUE
          /\ row' = [id |-> Record.id, deleted |-> recent[Home[Record.id]] # "no", at |-> Position]
  /\ UNCHANGED <<durable, outside, boot, cur, recent, skip, todo, left, gate, asked>>

\* (mutant) The token is saved before the rows.
MsgWriteLate ==
  /\ pc = "msgWrite"
  /\ IF token["msgs"] < row.at
     THEN token' = [token EXCEPT !["msgs"] = row.at] /\ UNCHANGED <<pc, msg>>
     ELSE pc' = "msgToken" /\ msg' = UpsertMsg(msg, row.id, Home[row.id], row.deleted) /\ UNCHANGED token
  /\ UNCHANGED <<chat, begun, ver, room, outside, boot, pass, recent, skip, todo, left,
                 gate, asked, forgotten>>

MsgWrite ==
  /\ pc = "msgWrite" /\ pc' = "msgToken"
  /\ msg' = UpsertMsg(msg, row.id, Home[row.id], row.deleted)
  /\ UNCHANGED <<chat, token, begun, ver, room, outside, boot, pass, recent, skip, todo, left,
                 gate, asked, forgotten>>

\* The token of the page is saved; when that fails the pass goes on.
SaveToken ==
  /\ pc \in {"chatToken", "msgToken"}
  /\ \/ token' = [token EXCEPT ![Zone] = row.at] /\ begun' = TRUE /\ UNCHANGED budget
     \/ UNCHANGED <<token, begun>> /\ Fail
  /\ pc' = Zone /\ cur' = row.at /\ row' = NoRecord
  /\ UNCHANGED <<chat, msg, ver, room, feed, boot, errs, got, recent, skip, todo, left, gate,
                 asked, forgotten>>

\* runCloudKitBackfill saves the last token of a zone once more.
EndZone ==
  /\ pc \in {"chatsEnd", "msgsEnd"}
  /\ LET z == IF pc = "chatsEnd" THEN "chats" ELSE "msgs"
     IN  /\ IF cur = NoRow THEN UNCHANGED <<token, begun>>
            ELSE token' = [token EXCEPT ![z] = cur] /\ begun' = TRUE
         /\ IF z = "chats" THEN pc' = "msgs" /\ cur' = token["msgs"]
            ELSE pc' = "passed" /\ UNCHANGED cur
  /\ UNCHANGED <<chat, msg, ver, room, outside, boot, errs, got, row, recent, skip, todo, left,
                 gate, asked, forgotten>>

-----------------------------------------------------------------------------
(* After a pass. *)

\* The versions are saved only by a bootstrap that received something, or
\* that of the chats by any later pass.
PassEnds ==
  /\ pc = "passed" /\ pc' = "erase"
  /\ ver' = CASE boot /\ got -> "both"
              [] ~boot /\ ver = "none" -> "chats"
              [] OTHER -> ver
  /\ begun' = (begun \/ ver' # "none")
  /\ UNCHANGED <<chat, msg, token, room, outside, boot, pass, recent, skip, todo, left, gate,
                 asked, forgotten>>

\* Rows a pass imported for portals deleted meanwhile are deleted again: of
\* the portals deleted by now that no earlier pass did this for.
ListErase ==
  /\ pc = "erase" /\ pc' = "erasing"
  /\ todo' = {p \in Portals : recent[p] # "no"} \ skip
  /\ skip' = skip \cup todo'
  /\ UNCHANGED <<durable, outside, boot, pass, recent, left, gate, asked, forgotten>>

Erase ==
  /\ pc = "erasing" /\ todo # {} /\ UNCHANGED pc
  /\ \E p \in todo :
       /\ todo' = todo \ {p}
       /\ \/ /\ chat' = DeleteChatsOf(chat, p, 0) /\ msg' = DeleteMsgsOf(chat', msg, p)
             /\ UNCHANGED budget
          \/ UNCHANGED <<chat, msg>> /\ Fail
  /\ UNCHANGED <<token, begun, ver, room, feed, boot, pass, recent, skip, left, gate, asked, forgotten>>

\* createPortalsFromCloudSync, its first loop: recent is read portal by portal.
List ==
  /\ pc = "erasing" /\ todo = {} /\ pc' = "create"
  /\ todo' = {p \in Listed(chat, msg) : recent[p] = "no"}
  /\ UNCHANGED <<durable, outside, boot, pass, recent, skip, left, gate, asked, forgotten>>

\* Its second loop asks for the rooms, with pauses, and does not look again.
Create ==
  /\ pc = "create" /\ todo # {}
  /\ \E p \in todo : asked' = asked \cup {p} /\ todo' = todo \ {p}
  /\ UNCHANGED <<durable, outside, pc, boot, pass, recent, skip, left, gate, forgotten>>

\* All portals are queued.  After a bootstrap the gate opens, and the
\* housekeeping drops deleted rows of portals without a chat row.
Finish ==
  /\ pc = "create" /\ todo = {} /\ pc' = "idle"
  /\ gate' = (gate \/ boot)
  /\ msg' = IF boot THEN DropOrphans(chat, msg, {}) ELSE msg
  /\ forgotten' = forgotten \cup {m \in Guids : Known(msg, m) /\ ~Known(msg', m)}
  /\ boot' = FALSE
  /\ UNCHANGED <<chat, token, begun, ver, room, outside, pass, recent, skip, todo, left, asked>>

NextPass ==
  /\ pc = "idle" /\ left > 0
  /\ left' = left - 1 /\ pc' = "begin"
  /\ UNCHANGED <<durable, outside, boot, pass, recent, skip, todo, gate, asked, forgotten>>

Controller ==
  \/ Contacts \/ LoadDeleted \/ Begin
  \/ FetchFails \/ LastPage \/ PassFails
  \/ ChatLive \/ ChatClear \/ ChatGone \/ ChatGoneRows
  \/ MsgGone \/ MsgRead \/ MsgWrite \/ SaveToken \/ EndZone
  \/ PassEnds \/ ListErase \/ Erase \/ List \/ Create \/ Finish \/ NextPass

-----------------------------------------------------------------------------
(* The surroundings. *)

Server == <<pc, boot, pass, recent, skip, todo, left, gate, asked, forgotten>>

\* The framework makes the room it was asked for.
MakeRoom ==
  /\ \E p \in asked : room' = room \cup {p} /\ asked' = asked \ {p}
  /\ UNCHANGED <<chat, msg, token, begun, ver, outside, pc, boot, pass, recent, skip, todo,
                 left, gate, forgotten>>

\* Apple adds a record to a feed, or reports one gone.
Change ==
  /\ budget.changes > 0 /\ budget' = [budget EXCEPT !.changes = @ - 1]
  /\ \/ \E c \in ChatIds, b \in BOOLEAN :
          feed' = [feed EXCEPT !.chats = Append(@, [id |-> c, gone |-> b])]
     \/ \E m \in Guids, b \in BOOLEAN :
          feed' = [feed EXCEPT !.msgs = Append(@, [id |-> m, gone |-> b])]
  /\ UNCHANGED <<durable, Server>>

\* handleChatDelete: the portal is remembered, its rows are deleted, and its
\* room is to go; when the rows cannot be deleted the room stays.
UserDeletes ==
  /\ budget.deletes > 0 /\ pc # "stopped"
  /\ \E p \in Portals :
       /\ recent' = [recent EXCEPT ![p] = "user"]
       /\ \/ /\ chat' = DeleteChatsOf(chat, p, 0) /\ msg' = DeleteMsgsOf(chat', msg, p)
             /\ DeleteRoom(p) /\ budget' = [budget EXCEPT !.deletes = @ - 1]
          \/ /\ budget.sql > 0 /\ UNCHANGED <<chat, msg, room, asked>>
             /\ budget' = [budget EXCEPT !.deletes = @ - 1, !.sql = @ - 1]
  /\ UNCHANGED <<token, begun, ver, feed, pc, boot, pass, skip, todo, left, gate, forgotten>>

\* The process ends, and another one starts that remembers nothing of it.
Restart ==
  /\ budget.crashes > 0 /\ budget' = [budget EXCEPT !.crashes = @ - 1]
  /\ pc' = "contacts" /\ boot' = TRUE /\ cur' = NoRow /\ errs' = 0 /\ got' = FALSE
  /\ row' = NoRecord /\ recent' = [p \in Portals |-> "no"] /\ skip' = {} /\ todo' = {}
  /\ left' = Passes /\ gate' = FALSE /\ asked' = {}
  /\ UNCHANGED <<durable, feed, forgotten>>

Next == Controller \/ MakeRoom \/ Change \/ UserDeletes \/ Restart

Spec == Init /\ [][Next]_vars /\ WF_vars(Controller)

-----------------------------------------------------------------------------
(* Properties. *)

\* Every variable keeps its shape: rows are rows of the schema, a saved token
\* is a position of its feed or missing, and the token in memory is never
\* behind the record being written.
TypeOK ==
  /\ chat \in [ChatIds -> ChatRow] /\ msg \in [Guids -> MsgRow]
  /\ \A z \in Zones : token[z] \in {NoRow} \cup 1 .. Len(feed[z]) \cup {0}
  /\ begun \in BOOLEAN /\ ver \in {"none", "chats", "both"}
  /\ room \subseteq Portals /\ asked \subseteq Portals
  /\ boot \in BOOLEAN /\ got \in BOOLEAN /\ gate \in BOOLEAN
  /\ errs \in 0 .. MaxErrors - 1 /\ left \in 0 .. Passes
  /\ recent \in [Portals -> {"no", "user", "tomb"}]
  /\ skip \subseteq Portals /\ todo \subseteq Portals /\ forgotten \subseteq Guids
  /\ row.id # NoPortal => cur < row.at

\* No message is lost behind a token: when the saved token is past the last
\* record of a message and that record is live, its GUID is in the store or
\* was left out on purpose.  A crash, an SQL error or a CloudKit error between
\* writing a page and saving its token must make the page be read again
\* (syncCloudMessages, runCloudKitBackfill).
MessagesKept ==
  \A i \in 1 .. Len(feed["msgs"]) :
    i <= token["msgs"] /\ Last(feed["msgs"], i) /\ ~feed["msgs"][i].gone
      => LET m == feed["msgs"][i].id IN Known(msg, m) \/ m \in forgotten

\* The sync never asks for a room of a chat that is deleted, neither after a
\* restart nor when a message of it was imported while it was being deleted;
\* except for the window of the second loop of createPortalsFromCloudSync,
\* which does not look again, and after a statement of the store failed.
NoRoomForDeleted ==
  [][\A p \in asked' \ asked :
       FullyDeleted(chat, p) => recent[p] = "user" \/ budget.sql < SqlFaults]_vars

\* A chat the user deleted, and no record of which is gone, is not undeleted
\* by the sync (ingestCloudChats: only an explicit recovery may).
UserDeleteKept ==
  [][\A c \in ChatIds :
       /\ chat[c].state = "deleted"
       /\ \A i \in 1 .. Len(feed["chats"]) :
            ChatPortal[feed["chats"][i].id] = ChatPortal[c] => ~feed["chats"][i].gone
       => chat'[c].state # "live"]_vars

\* Once the surroundings are quiet the gate opens and stays open: neither a
\* CloudKit that answers with errors nor a crash in the middle of a pass
\* leaves live messages behind it forever (setCloudSyncDone).
GateOpens == <>[]gate
=============================================================================
