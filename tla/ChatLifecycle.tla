---------------------------- MODULE ChatLifecycle ----------------------------
(***************************************************************************)
(* A chat is deleted and comes back (src/pkg/connector/client.go,          *)
(* sync_controller.go, cloud_backfill_store.go, commands.go).  Four things *)
(* delete it: an Apple device, Matrix, Apple's recycle bin as read when    *)
(* the process starts, and a tombstone of the sync (CloudSync).  Four      *)
(* bring it back: a newer message, a recovery on an Apple device, the      *)
(* command restore-chat, and a recycle bin that no longer holds it.        *)
(*                                                                         *)
(* What each of them does is spread over the store, a list in memory, the  *)
(* queue of events of the portal, Apple's two zones, and a goroutine per   *)
(* restore, while the scrubber erases what has been bridged.  The clock    *)
(* moves when something is sent or deleted.  Statements of the store       *)
(* succeed here; CloudSync has those that fail.                            *)
(***************************************************************************)
EXTENDS LiveMessages, Sequences

CONSTANTS
  Home,      \* the portal of a message
  Old,       \* messages of the chat when the process starts
  Attempts,  \* maxRestoreAttempts
  Copies,    \* bound: how often APNs delivers a new message
  Changes,   \* bound: what users do: deletions, recoveries, restore-chat
  Restarts   \* bound: restarts of the process

ASSUME LifecycleAssumption ==
  /\ Home \in [Guids -> Portals] /\ Old \subseteq Guids
  /\ IsFiniteSet(Guids) /\ IsFiniteSet(ChatIds)
  /\ Attempts \in Nat \ {0} /\ {Copies, Changes, Restarts} \subseteq Nat

VARIABLES
  chat, msg, override,   \* the store; override is restore_override
  apple, record,         \* zone of a message and of a chat record: "none", "main", "bin"
  notices, copies,       \* what APNs has still to deliver: controls, and messages
  now, budget,
  room, shown, events, closing,   \* portals with a room, what it shows, their event queues
  entry,                 \* recentlyDeletedPortals
  pc, bin, todo,         \* the start: the step, the recycle bin as listed, portals to look at
  gate, buffer, held,
  offered,               \* the list restore-chat has shown
  restore,               \* the restore pipeline of each portal
  scrub, fresh,          \* the scrubber, and rows written since it computed its cutoff
  deletedAt, erased,     \* history: the deletion of a portal that stands, deleted messages,
  promised               \* and what a restore has fetched for the room it asked for

store == <<chat, msg, override, fresh>>
phone == <<apple, record, notices, copies, now, budget>>
matrix == <<room, shown, events, closing>>
start == <<pc, bin, todo, gate>>
inbox == <<buffer, held>>
command == <<offered, restore>>
gone == <<deletedAt, erased>>
history == <<gone, promised>>
vars == <<store, phone, matrix, entry, start, inbox, command, scrub, history>>

OffPipeline == [at |-> "off", onApple |-> FALSE, tries |-> 0, got |-> {}]
Idle == [on |-> FALSE, but |-> {}]
OfPortal(S, p) == {m \in S : Home[m] = p}
Own(p) == {c \in ChatIds : ChatPortal[c] = p}
Event(type, m, create) == [type |-> type, msg |-> m, create |-> create]
AnyMsg == CHOOSE m \in Guids : TRUE
Push(p, e) == events' = [events EXCEPT ![p] = Append(@, e)]

\* Rows written are younger than the cutoff of a scrub under way.
Write(new) ==
  /\ msg' = new
  /\ fresh' = IF scrub.on THEN fresh \cup {m \in Guids : new[m] # msg[m]} ELSE {}

Init ==
  /\ \E deleted, recovered, bridged, known \in BOOLEAN :
       \* a chat deleted before the bridge came has a tombstone and no messages
       /\ known \/ (deleted /\ ~bridged)
       /\ chat = [c \in ChatIds |-> [state |-> IF deleted THEN "deleted" ELSE "live",
                                     portal |-> ChatPortal[c], fwd |-> bridged,
                                     ts |-> IF deleted THEN 1 ELSE 0]]
       /\ msg = [m \in Guids |-> IF m \notin Old \/ ~known THEN NoMsgs[m] ELSE
                   [state |-> IF deleted THEN "deleted" ELSE "live", portal |-> Home[m],
                    cloud |-> TRUE, body |-> IF deleted THEN "scrubbed" ELSE "text"]]
       /\ room = IF bridged /\ ~deleted THEN Portals ELSE {}
       /\ shown = [p \in Portals |-> IF p \in room THEN OfPortal(Old, p) ELSE {}]
       /\ LET zone == IF deleted /\ ~recovered THEN "bin" ELSE "main"
          IN  /\ apple = [m \in Guids |-> IF m \in Old THEN zone ELSE "none"]
              /\ record = [c \in ChatIds |-> zone]
       /\ entry = [p \in Portals |-> IF deleted THEN [by |-> "tomb", at |-> 1] ELSE NoEntry]
       /\ deletedAt = [p \in Portals |-> IF deleted THEN 1 ELSE 0]
  /\ override = {} /\ notices = {} /\ copies = [m \in Guids |-> IF m \in Old THEN 1 ELSE 0]
  /\ now = 1 /\ budget = [changes |-> Changes, restarts |-> Restarts]
  /\ events = [p \in Portals |-> <<>>] /\ closing = {}
  /\ pc = "seed" /\ bin = {} /\ todo = {} /\ gate = FALSE /\ buffer = {} /\ held = {}
  /\ offered = {} /\ restore = [p \in Portals |-> OffPipeline]
  /\ scrub = Idle /\ fresh = {} /\ erased = {} /\ promised = [p \in Portals |-> {}]

-----------------------------------------------------------------------------
(* Apple and its devices. *)

\* One thing less a user may do.
Spend == budget.changes > 0 /\ budget' = [budget EXCEPT !.changes = @ - 1]

\* A message is sent; a chat that was deleted begins anew.
Send(m) ==
  /\ apple[m] = "none" /\ Stamp[m] > now /\ now' = Stamp[m]
  /\ apple' = [apple EXCEPT ![m] = "main"] /\ copies' = [copies EXCEPT ![m] = Copies]
  /\ record' = [c \in ChatIds |-> IF c \in Own(Home[m]) THEN "main" ELSE record[c]]
  /\ UNCHANGED <<store, notices, budget, matrix, entry, start, inbox, command, scrub, history>>

MoveZone(p, from, to) ==
  /\ apple' = [m \in Guids |-> IF Home[m] = p /\ apple[m] = from THEN to ELSE apple[m]]
  /\ record' = [c \in ChatIds |-> IF c \in Own(p) THEN to ELSE record[c]]

\* On a device the chat is deleted or recovered, or one message is deleted.
Change ==
  /\ Spend /\ now' = now + 1
  /\ \/ \E p \in Portals :
          \/ /\ \E c \in Own(p) : record[c] = "main"
             /\ MoveZone(p, "main", "bin")
             /\ notices' = notices \cup {[type |-> "delete", of |-> p]}
          \/ /\ \E c \in Own(p) : record[c] = "bin"
             /\ MoveZone(p, "bin", "main")
             /\ notices' = notices \cup {[type |-> "recover", of |-> p]}
     \/ \E m \in Guids :
          /\ apple[m] = "main" /\ apple' = [apple EXCEPT ![m] = "bin"]
          /\ notices' = notices \cup {[type |-> "remove", of |-> m]} /\ UNCHANGED record
  /\ UNCHANGED <<store, copies, matrix, entry, start, inbox, command, scrub, history>>

-----------------------------------------------------------------------------
(* Deleting. *)

Forget(p) == entry' = [entry EXCEPT ![p] = NoEntry]

\* trackDeletedChat, deleteLocalChatByPortalID.
EraseChat(p) ==
  /\ entry' = [entry EXCEPT ![p] = [by |-> "user", at |-> now]]
  /\ override' = override \ {p}
  /\ chat' = DeleteChatsOf(chat, p, now) /\ Write(DeleteMsgsOf(chat', msg, p))
  /\ deletedAt' = [deletedAt EXCEPT ![p] = IF @ = 0 /\ restore[p].at = "off"
                                           THEN DeletedTail(chat', msg', p) ELSE @]
  /\ promised' = [promised EXCEPT ![p] = {}]

\* An Apple device deleted the chat: the room is to go if there is one.
HandleChatDelete(n) ==
  /\ n.type = "delete" /\ notices' = notices \ {n}
  /\ LET p == n.of
     IN  /\ EraseChat(p)
         /\ IF p \in room THEN Push(p, Event("delete", AnyMsg, FALSE)) ELSE UNCHANGED events
  /\ UNCHANGED <<apple, record, copies, now, budget, room, shown, closing, start, inbox,
                 command, scrub, erased>>

\* It deleted one message: the store remembers the GUID as deleted, known or
\* not, before anything looks for the message in the rooms.
HandleMessageDelete(n) ==
  /\ n.type = "remove" /\ notices' = notices \ {n}
  /\ Write(SoftDelete(msg, n.of)) /\ erased' = erased \cup {n.of}
  /\ promised' = [p \in Portals |-> promised[p] \ {n.of}]
  /\ IF n.of \in shown[Home[n.of]] THEN Push(Home[n.of], Event("remove", n.of, FALSE))
     ELSE UNCHANGED events
  /\ UNCHANGED <<chat, override, apple, record, copies, now, budget, room, shown, closing,
                 entry, start, inbox, command, scrub, deletedAt>>

\* (mutant) The list of deleted portals is not kept, nor are the rows deleted.
HandleMatrixDeleteForgets(p) ==
  /\ Spend /\ p \in room \ closing /\ OfPortal(buffer \cup held, p) = {}
  /\ closing' = closing \cup {p} /\ deletedAt' = [deletedAt EXCEPT ![p] = now]
  /\ UNCHANGED <<store, apple, record, notices, copies, now, room, shown, events, entry, start, inbox, command, scrub,
                 erased, promised>>

\* Matrix deletes the chat: the buffer is flushed, then the local state goes.
HandleMatrixDeleteChat(p) ==
  /\ Spend /\ p \in room \ closing /\ OfPortal(buffer \cup held, p) = {}
  /\ closing' = closing \cup {p} /\ EraseChat(p)
  /\ UNCHANGED <<apple, record, notices, copies, now, room, shown, events, start, inbox, command, scrub, erased>>

\* Then Apple is told, which may fail in two ways, and the framework removes the room.
DeleteFromApple(p) ==
  /\ p \in closing /\ closing' = closing \ {p}
  /\ \/ MoveZone(p, "main", "bin")
     \/ record' = [c \in ChatIds |-> IF c \in Own(p) THEN "none" ELSE record[c]] /\ UNCHANGED apple
     \/ UNCHANGED <<apple, record>>
  /\ room' = room \ {p} /\ shown' = [shown EXCEPT ![p] = {}]
  /\ UNCHANGED <<store, notices, copies, now, budget, events, entry, start, inbox, command,
                 scrub, history>>

-----------------------------------------------------------------------------
(* Messages. *)

\* APNs delivers a message, again perhaps; deletions do not wait in the buffer.
OnMessage(m) ==
  /\ copies[m] > 0 /\ apple[m] # "none" /\ copies' = [copies EXCEPT ![m] = @ - 1]
  /\ buffer' = buffer \cup {m}
  /\ UNCHANGED <<store, apple, record, notices, now, budget, matrix, entry, start, held,
                 command, scrub, history>>

\* reviveDeletedPortalShell: the chat is live again, its old messages are not.
ReviveShell(p, revive) ==
  IF revive THEN chat' = UndeleteChat(chat, p, now) /\ Forget(p)
  ELSE UNCHANGED <<chat, entry>>

HandleMessage(m) ==
  /\ m \in buffer /\ buffer' = buffer \ {m}
  /\ LET p == Home[m]
         v == Verdict(chat, msg, entry[p], m, p, gate, p \notin room)
         do == IF m \in shown[p] THEN "drop" ELSE v.do
     IN  /\ ReviveShell(p, v.revive /\ m \notin shown[p])
         /\ IF do = "hold" THEN held' = held \cup {m} ELSE UNCHANGED held
         /\ IF do = "show" THEN Write(PersistUUID(msg, m, p)) /\ Push(p, Event("msg", m, v.create))
            ELSE UNCHANGED <<msg, fresh, events>>
         /\ deletedAt' = [deletedAt EXCEPT ![p] = IF (v.revive \/ (do = "show" /\ v.create)) /\ Stamp[m] > @ THEN 0 ELSE @]
  /\ UNCHANGED <<override, phone, room, shown, closing, start, command, scrub, erased, promised>>

-----------------------------------------------------------------------------
(* The event loop of a portal. *)

\* What a backfill shows of its rows: those that have their text.
Visible(p) == {m \in Backfillable(msg, p) : msg[m].body = "text"}

HandleEvent(p) ==
  /\ events[p] # <<>> /\ p \notin closing
  /\ LET e == Head(events[p])
         comes == p \notin room /\ e.create
     IN  /\ events' = [events EXCEPT ![p] = Tail(@)]
         /\ room' = CASE e.type = "delete" -> room \ {p}
                      [] comes -> room \cup {p}
                      [] OTHER -> room
         /\ shown' = [shown EXCEPT ![p] =
              CASE e.type = "delete" -> {}
                [] e.type = "remove" -> @ \ {e.msg}
                [] OTHER -> (IF comes THEN Visible(p)
                             ELSE IF e.type = "resync" /\ p \in room
                                  THEN @ \cup {m \in Visible(p) : \A k \in @ : Stamp[m] > Stamp[k]}
                                  ELSE @)
                            \cup (IF e.type = "msg" /\ p \in room' THEN {e.msg} ELSE {})]
         /\ chat' = IF e.type # "resync" THEN chat
                    ELSE [c \in ChatIds |-> IF chat[c].portal = p THEN [chat[c] EXCEPT !.fwd = TRUE] ELSE chat[c]]
  /\ UNCHANGED <<msg, override, fresh, phone, closing, entry, start, inbox, command, scrub, history>>

-----------------------------------------------------------------------------
(* The start: what Apple's recycle bin says (seedDeletedChatsFromRecycleBin). *)

\* The chats in the bin are listed, unless that was done a short while ago.
ListBin ==
  /\ pc = "seed"
  /\ \/ pc' = "chats" /\ bin' = {c \in ChatIds : record[c] = "bin"}
     \/ pc' = "create" /\ UNCHANGED bin
  /\ UNCHANGED <<store, phone, matrix, entry, todo, gate, inbox, command, scrub, history>>

\* undeleteCloudMessagesByPortalID, with its chat rows.
UndeleteAll(p) ==
  /\ chat' = ResetForward(UndeleteChat(chat, p, now), p)
  /\ Write(UndeleteMsgs(msg, p))

Tombstone(p, C) ==
  LET with == IF C = {} THEN chat ELSE InsertTombstone(chat, CHOOSE c \in C : TRUE, now)
  IN  /\ chat' = DeleteChatsOf(with, p, now) /\ Write(DeleteMsgsOf(chat', msg, p))
      /\ entry' = [entry EXCEPT ![p] = IF @.by = "no" THEN [by |-> "tomb", at |-> now] ELSE @]
      /\ deletedAt' = [deletedAt EXCEPT ![p] = IF @ = 0 /\ restore[p].at = "off"
                                               THEN DeletedTail(chat', msg', p) ELSE @]
      /\ promised' = [promised EXCEPT ![p] = {}]

\* A chat in the bin: restored by the user, live, or with messages of its own;
\* otherwise it is deleted here too.
SeedChatOf(c) ==
  LET p == ChatPortal[c]
  IN  /\ pc = "chats" /\ c \in bin /\ bin' = bin \ {c}
      /\ CASE p \in override -> UndeleteAll(p) /\ Forget(p) /\ UNCHANGED <<deletedAt, promised>>
           [] p \notin override /\ HasChat(chat, p) ->
                Forget(p) /\ UNCHANGED <<chat, msg, fresh, deletedAt, promised>>
           [] p \notin override /\ ~HasChat(chat, p) /\ Backfillable(msg, p) # {} ->
                chat' = SeedChat(chat, c, p, now) /\ UNCHANGED <<msg, fresh, entry, deletedAt, promised>>
           [] OTHER -> Tombstone(p, {c})
      /\ UNCHANGED <<override, phone, matrix, pc, todo, gate, inbox, command, scrub, erased>>

\* The messages in the bin are listed: bin holds their GUIDs from here on.
ListBinMessages ==
  /\ pc = "chats" /\ bin = {} /\ pc' = "messages"
  /\ bin' = {m \in Guids : apple[m] = "bin"} /\ todo' = Portals
  /\ UNCHANGED <<store, phone, matrix, entry, gate, inbox, command, scrub, history>>

\* classifyRecycleBinPortals: a chat looks deleted when its newest messages,
\* three or all of them, are in the bin.
Rows(p) == {m \in MsgsOf(msg, p, {"live", "deleted"}) : msg[m].cloud}
Suffix(p, S) == {m \in Rows(p) : \A n \in Rows(p) : Stamp[n] >= Stamp[m] => n \in S}
LooksDeleted(p, S) ==
  Rows(p) # {} /\ (Suffix(p, S) = Rows(p) \/ Cardinality(Suffix(p, S)) >= 3)
NeedsUndelete(p, S) ==
  Rows(p) \cap S # {} /\ ~LooksDeleted(p, S) /\ \A m \in Rows(p) : msg[m].state = "deleted"

\* A portal with messages in the bin; the hints of their metadata decide what
\* the rows do not: a portal known to be deleted, or two messages of it.
SeedMessagesOf(p) ==
  LET mine == OfPortal(bin, p)
  IN  /\ pc = "messages" /\ p \in todo /\ todo' = todo \ {p}
      /\ CASE mine = {} -> UNCHANGED <<chat, msg, fresh, entry, deletedAt, promised>>
           [] mine # {} /\ NeedsUndelete(p, bin) ->
                UndeleteAll(p) /\ Forget(p) /\ deletedAt' = [deletedAt EXCEPT ![p] = 0] /\ UNCHANGED promised
           [] mine # {} /\ ~NeedsUndelete(p, bin) /\ HasChat(chat, p) ->
                Forget(p) /\ UNCHANGED <<chat, msg, fresh, deletedAt, promised>>
           [] mine # {} /\ ~NeedsUndelete(p, bin) /\ ~HasChat(chat, p) /\ p \in override ->
                UndeleteAll(p) /\ Forget(p) /\ UNCHANGED <<deletedAt, promised>>
           [] OTHER -> IF LooksDeleted(p, bin) \/ FullyDeleted(chat, p) \/ Cardinality(mine) >= 2
                       THEN Tombstone(p, Own(p)) ELSE UNCHANGED <<chat, msg, fresh, entry, deletedAt, promised>>
      /\ UNCHANGED <<override, phone, matrix, pc, bin, gate, inbox, command, scrub, erased>>

\* Portals are created for what is left, and the gate opens.
CreatePortals ==
  /\ pc \in {"create", "messages"} /\ (pc = "messages" => todo = {})
  /\ pc' = "done" /\ bin' = {} /\ todo' = {} /\ gate' = TRUE
  /\ events' = [p \in Portals |->
       IF p \in Listed(chat, msg) /\ entry[p].by = "no"
       THEN Append(events[p], Event("resync", AnyMsg, TRUE)) ELSE events[p]]
  /\ buffer' = buffer \cup held /\ held' = {}
  /\ UNCHANGED <<store, phone, room, shown, closing, entry, command, scrub, history>>

-----------------------------------------------------------------------------
(* Restoring. *)

\* restore-chat: everything that looks deleted and has no room is offered.
Restorable(p) ==
  /\ p \notin room
  /\ \/ \E c \in Own(p) : record[c] = "bin"
     \/ {m \in Guids : Home[m] = p /\ apple[m] = "bin"} # {} /\ FullyDeleted(chat, p)
     \/ Cardinality({m \in Guids : Home[m] = p /\ apple[m] = "bin"}) >= 2
     \/ LooksDeleted(p, {m \in Guids : apple[m] = "bin"})
     \/ FullyDeleted(chat, p) /\ MsgsOf(msg, p, {"live"}) = {}
     \/ entry[p].by # "no"

OfferRestore ==
  /\ Spend /\ pc = "done" /\ offered = {}
  /\ offered' = {p \in Portals : Restorable(p)}
  /\ UNCHANGED <<store, apple, record, notices, copies, now, matrix, entry, start, inbox, restore, scrub, history>>

\* startRestoreBackfillPipeline: one pipeline per portal.
Begin(p, onApple) ==
  restore' = [restore EXCEPT ![p] = IF @.at # "off" THEN @
                                    ELSE [OffPipeline EXCEPT !.at = "undelete", !.onApple = onApple]]

\* The list may be old by the time the user answers.
ChooseRestore(p) ==
  /\ p \in offered /\ offered' = {} /\ Begin(p, TRUE)
  /\ UNCHANGED <<store, phone, matrix, entry, start, inbox, scrub, history>>

\* An Apple device recovered the chat, on its own or because this bridge asked.
HandleChatRecover(n) ==
  /\ n.type = "recover" /\ notices' = notices \ {n}
  /\ Begin(n.of, FALSE)
  /\ UNCHANGED <<store, apple, record, copies, now, budget, matrix, entry, start, inbox,
                 offered, scrub, history>>

\* A row that remembers no more than that a device deleted the message: it names
\* no portal, so that a restore does not find it, and its text stays erased.
Stub(m) == msg[m].state = "deleted" /\ msg[m].portal = NoPortal

Stage(p, at) == restore' = [restore EXCEPT ![p].at = at]

\* Stage 1: the override, the list, the chat row and the messages.
Undelete(p) ==
  /\ restore[p].at = "undelete" /\ Stage(p, "unscrub")
  /\ override' = override \cup {p} /\ Forget(p)
  /\ LET seeded == IF Own(p) = {} THEN chat ELSE SeedChat(chat, CHOOSE c \in Own(p) : TRUE, p, now)
     IN  chat' = ResetForward(UndeleteChat(seeded, p, now), p)
  /\ Write(UndeleteMsgs(msg, p))
  /\ deletedAt' = [deletedAt EXCEPT ![p] = 0] /\ erased' = erased \ OfPortal(Guids, p)
  /\ promised' = [promised EXCEPT ![p] = {m \in OfPortal(Guids, p) : ~Stub(m)}]
  /\ UNCHANGED <<phone, matrix, start, inbox, offered, scrub>>

\* (mutant) The erased texts stay erased.
UnscrubNot(p) ==
  /\ restore[p].at = "unscrub" /\ Stage(p, "refresh")
  /\ UNCHANGED <<store, phone, matrix, entry, start, inbox, offered, scrub, history>>

\* Erased texts may be filled in again.
Unscrub(p) ==
  /\ restore[p].at = "unscrub"
  /\ LET new == ClearScrub(msg, p)
     IN  Write(new) /\ Stage(p, IF Backfillable(new, p) = {} THEN "messages" ELSE "refresh")
  /\ UNCHANGED <<chat, override, phone, matrix, entry, start, inbox, offered, scrub, history>>

\* recoverMessagesFromRecycleBin: rows whose GUIDs are in the bin are
\* undeleted, or placeholders made for them.
RecoverMessages(p) ==
  /\ restore[p].at = "messages" /\ Stage(p, "refresh")
  /\ LET mine  == {m \in Guids : Home[m] = p /\ apple[m] = "bin"}
         again == {m \in mine : msg[m].portal = p /\ msg[m].state = "deleted"}
         row(m) == IF msg[m].state = "none"
                   THEN [state |-> "live", portal |-> p, cloud |-> TRUE, body |-> "none"]
                   ELSE [msg[m] EXCEPT !.state = "live", !.portal = p]
     IN  Write([m \in Guids |-> IF m \in (IF again # {} THEN again ELSE mine) THEN row(m) ELSE msg[m]])
  /\ UNCHANGED <<chat, override, phone, matrix, entry, start, inbox, offered, scrub, history>>

\* refreshRecoveredChatMetadata finds the chat in the bin or in the main zone.
RefreshMetadata(p) ==
  /\ restore[p].at = "refresh" /\ Stage(p, IF restore[p].onApple THEN "apple" ELSE "fetch")
  /\ \E found \in SUBSET {c \in Own(p) : record[c] # "none"} :
       chat' = IF found = {} THEN chat ELSE SeedChat(chat, CHOOSE c \in found : TRUE, p, now)
  /\ UNCHANGED <<msg, override, fresh, phone, matrix, entry, start, inbox, offered, scrub, history>>

\* Apple is asked to recover the chat: its devices may do so, now or never,
\* and echo the request; the record is uploaded again.
RecoverOnApple(p) ==
  /\ restore[p].at = "apple" /\ Stage(p, "fetch")
  /\ \/ MoveZone(p, "bin", "main") /\ notices' = notices \cup {[type |-> "recover", of |-> p]}
     \/ /\ record' = [c \in ChatIds |-> IF c \in Own(p) THEN "main" ELSE record[c]]
        /\ UNCHANGED <<apple, notices>>
     \/ UNCHANGED <<apple, record, notices>>
  /\ UNCHANGED <<store, copies, now, budget, matrix, entry, start, inbox, offered, scrub, history>>

\* Stage 2: an attempt fetches what the main zone holds of the chat, or
\* nothing: it fails, or the messages are still on their way, and is repeated;
\* or there are only others, and it is not.
Fetch(p) ==
  /\ restore[p].at = "fetch"
  /\ LET found == {m \in Guids : Home[m] = p /\ apple[m] = "main"}
         last  == restore[p].tries + 1 = Attempts
         give  == [restore EXCEPT ![p].tries = @ + 1, ![p].at = "resync"]
     IN  \/ /\ found # {} /\ restore' = [restore EXCEPT ![p].at = "import", ![p].got = found]
            /\ UNCHANGED promised
         \/ /\ ~last /\ restore' = [restore EXCEPT ![p].tries = @ + 1] /\ UNCHANGED promised
         \/ (last \/ found = {}) /\ restore' = give /\ promised' = [promised EXCEPT ![p] = {}]
  /\ UNCHANGED <<store, phone, matrix, entry, start, inbox, offered, scrub, gone>>

\* What was fetched is imported; it may be old by then.
Import(p) ==
  /\ restore[p].at = "import" /\ Stage(p, "resync")
  /\ LET S == restore[p].got
     IN  /\ Write([m \in Guids |-> IF m \in S THEN UpsertMsg(msg, m, p, FALSE)[m] ELSE msg[m]])
         /\ promised' = [promised EXCEPT ![p] = @ \cap S]
  /\ UNCHANGED <<chat, override, phone, matrix, entry, start, inbox, offered, scrub, gone>>

\* (mutant) A restore without history asks for no room.
QueueResyncIfFound(p) ==
  /\ restore[p].at = "resync" /\ restore' = [restore EXCEPT ![p] = OffPipeline]
  /\ IF restore[p].got = {} THEN UNCHANGED events
     ELSE Push(p, Event("resync", AnyMsg, TRUE))
  /\ UNCHANGED <<store, phone, room, shown, closing, entry, start, inbox, offered, scrub, history>>

\* The room is asked for, with history or without.
QueueResync(p) ==
  /\ restore[p].at = "resync" /\ restore' = [restore EXCEPT ![p] = OffPipeline]
  /\ Push(p, Event("resync", AnyMsg, TRUE))
  /\ UNCHANGED <<store, phone, room, shown, closing, entry, start, inbox, offered, scrub, history>>

Pipeline(p) ==
  \/ Undelete(p) \/ Unscrub(p) \/ RecoverMessages(p) \/ RefreshMetadata(p)
  \/ RecoverOnApple(p) \/ Fetch(p) \/ Import(p) \/ QueueResync(p)

-----------------------------------------------------------------------------
(* The scrubber, and the death of the process. *)

\* activeRestorePortalIDs, then the cutoff.  Rows keep their text for five
\* minutes, in which a portal is taken to handle a deletion.
StartScrub ==
  /\ ~scrub.on /\ closing = {}
  /\ \A p \in Portals : \A i \in 1 .. Len(events[p]) : events[p][i].type # "delete"
  /\ scrub' = [on |-> TRUE, but |-> {p \in Portals : restore[p].at # "off"}]
  /\ fresh' = {}
  /\ UNCHANGED <<chat, msg, override, phone, matrix, entry, start, inbox, command, history>>

\* scrubBridgedBodies: what is deleted or in a room, written before the
\* cutoff, and of no portal that was being restored.
Scrub ==
  /\ scrub.on /\ scrub' = Idle /\ fresh' = {}
  /\ msg' = [m \in Guids |->
       IF /\ msg[m].body # "scrubbed" /\ Known(msg, m) /\ m \notin fresh /\ msg[m].portal \notin scrub.but
          /\ msg[m].state = "deleted" \/ m \in shown[Home[m]]
       THEN [msg[m] EXCEPT !.body = "scrubbed"] ELSE msg[m]]
  /\ UNCHANGED <<chat, override, phone, matrix, entry, start, inbox, command, history>>

\* Another process starts: tombstones are loaded from the store.
Restart ==
  /\ budget.restarts > 0 /\ budget' = [budget EXCEPT !.restarts = @ - 1]
  /\ entry' = [p \in Portals |-> IF FullyDeleted(chat, p) THEN [by |-> "tomb", at |-> now] ELSE NoEntry]
  /\ events' = [p \in Portals |-> <<>>] /\ closing' = {}
  /\ pc' = "seed" /\ bin' = {} /\ todo' = {} /\ gate' = FALSE /\ buffer' = {} /\ held' = {}
  /\ offered' = {} /\ restore' = [p \in Portals |-> OffPipeline]
  /\ scrub' = Idle /\ fresh' = {} /\ promised' = [p \in Portals |-> {}]
  /\ UNCHANGED <<chat, msg, override, apple, record, notices, copies, now, room, shown, gone>>

Bridge ==
  \/ \E n \in notices : HandleChatDelete(n) \/ HandleMessageDelete(n) \/ HandleChatRecover(n)
  \/ \E m \in Guids : HandleMessage(m)
  \/ \E p \in Portals : HandleEvent(p) \/ DeleteFromApple(p) \/ SeedMessagesOf(p)
  \/ ListBin \/ (\E c \in ChatIds : SeedChatOf(c)) \/ ListBinMessages \/ CreatePortals

Surroundings ==
  \/ Change \/ OfferRestore \/ Restart
  \/ \E m \in Guids : Send(m) \/ OnMessage(m)
  \/ \E p \in Portals : HandleMatrixDeleteChat(p) \/ ChooseRestore(p)

Next == Bridge \/ (\E p \in Portals : Pipeline(p)) \/ StartScrub \/ Scrub \/ Surroundings

\* The goroutines run: the handlers, the loop of a portal, the start, and the
\* pipelines.  Nothing is assumed of users, of Apple and of failures.
Spec ==
  /\ Init /\ [][Next]_vars
  /\ WF_vars(Bridge) /\ WF_vars(\E p \in Portals : Pipeline(p))

-----------------------------------------------------------------------------
(* Properties. *)

Stages == {"off", "undelete", "unscrub", "messages", "refresh", "apple", "fetch", "import", "resync"}

\* Every variable keeps its shape; a room that is being deleted exists, and a
\* pipeline counts its attempts.
TypeOK ==
  /\ chat \in [ChatIds -> ChatRow] /\ msg \in [Guids -> MsgRow] /\ override \subseteq Portals
  /\ entry \in [Portals -> Entry] /\ closing \subseteq room
  /\ \A p \in Portals : shown[p] # {} => p \in room
  /\ \A p \in Portals : restore[p].at \in Stages /\ restore[p].tries \in 0 .. Attempts

\* No zombie: the bridge asks for a room of a deleted chat only for a message
\* newer than the deletion, or as the end of a restore; neither a replay, nor
\* a restart, nor a list that is old by then brings it back (handleMessage,
\* createPortalsFromCloudSync, seedDeletedChatsFromRecycleBin).
NoZombie ==
  [][\A p \in Portals :
       Len(events'[p]) > Len(events[p]) =>
         LET e == events'[p][Len(events'[p])]
         IN  e.create /\ deletedAt[p] # 0 =>
               \/ e.type = "msg" /\ Stamp[e.msg] > deletedAt[p]
               \/ e.type = "resync" /\ restore[p].at = "resync"]_vars

\* What a restore has fetched is shown when its room is made: the scrubber
\* has not erased it again in between (runRestoreBackfillPipeline,
\* scrubBridgedBodies, clearBodyScrubByPortalID).
RestoredInFull ==
  [][\A p \in room' \ room :
       restore[p].at = "off" => \A m \in promised[p] : msg[m].state = "live" => m \in shown'[p]]_vars

\* A restore ends in a room, with or without history, unless the chat is
\* deleted again or the process ends (runRestoreBackfillPipeline: "Always
\* recreate the portal regardless of whether we found history").
RestoreArrives ==
  \A p \in Portals :
    restore[p].at # "off" ~> p \in room \/ deletedAt[p] # 0 \/ budget.restarts < Restarts

\* A message that was deleted on a device is not shown later
\* (handleMessageDelete: "the message would later bridge to Matrix with the
\* body Apple has already deleted").
DeletedNotBridged ==
  [][\A p \in Portals : erased \cap (shown'[p] \ shown[p]) = {}]_vars
=============================================================================
