---------------------------- MODULE ChatHistory ----------------------------
(***************************************************************************)
(* History from the Mac's own message database (chatdb.go, and             *)
(* runChatDBInitialSync in client.go): which chats become rooms, and the   *)
(* pages FetchMessages reads for a room that may stand for several         *)
(* numbers of one contact.  bridgev2 is modelled from how it calls: one    *)
(* forward fetch when a room is synced, backward pages from the room's     *)
(* oldest message until one reports no more.                               *)
(*                                                                         *)
(* A chat of the database is a number or a group; a room is named for the  *)
(* chat it was made for.  Messages are numbered by their time.  Edits,     *)
(* tapbacks and the conversion of attachments are left out, but for the    *)
(* attachment that cannot be read.  max_initial_messages is unlimited: with*)
(* a limit an empty room gets the newest of each chat and no room is paged *)
(* backwards.                                                              *)
(***************************************************************************)
EXTENDS Integers, FiniteSets, FiniteSetsExt

CONSTANTS Chats,        \* chats of the database
          Contact,      \* the contact of each chat, or the chat itself for a group
          Times,        \* times of messages, naturals, finitely many
          PageSize,     \* params.Count
          MaxReadFaults \* failed reads, timeouts and stops

ASSUME ChatsAssumption == DOMAIN Contact = Chats /\ "none" \notin Chats
ASSUME TimesAssumption ==
  Times \subseteq Nat \ {0} /\ IsFiniteSet(Times) /\ {PageSize, MaxReadFaults} \subseteq Nat

VARIABLES db,        \* chat.db: time -> the chat of the message, or "none"
          timeline,  \* the messages each room shows
          made,      \* rooms that exist
          forward,   \* rooms whose forward fetch is done
          pages,     \* rooms whose backward pages are done
          known,     \* the contacts are loaded
          sync,      \* runChatDBInitialSync: the chats it still has to hand over
          chatsSynced, \* meta.ChatsSynced
          unread,    \* messages a failed read passed over (history)
          uneven,    \* messages older pages of a number jumped over (history)
          split,     \* rooms made or filled without the merge by contact (history)
          readFaults \* bound
historyVars == <<db, timeline, made, forward, pages, known, sync, chatsSynced, unread, uneven, split, readFaults>>

Off == [at |-> "off"]

HistoryTypeOK ==
  /\ db \in [Times -> Chats \cup {"none"}] /\ timeline \in [Chats -> SUBSET Times]
  /\ made \subseteq Chats /\ forward \subseteq made /\ pages \subseteq made
  /\ known \in BOOLEAN /\ chatsSynced \in BOOLEAN

HistoryInit ==
  /\ db = [t \in Times |-> "none"] /\ timeline = [c \in Chats |-> {}]
  /\ made = {} /\ forward = {} /\ pages = {}
  /\ known \in BOOLEAN /\ sync = Off /\ chatsSynced = FALSE
  /\ unread = {} /\ uneven = {} /\ split = {} /\ readFaults = 0

Histories == <<unread, uneven, split>>
ReadFault == readFaults < MaxReadFaults /\ readFaults' = readFaults + 1
Stored(c) == {t \in Times : db[t] = c}
\* The chats of one contact; a group stands alone.
Twins(c) == IF known THEN {d \in Chats : Contact[d] = Contact[c]} ELSE {c}
Newest == Max({0} \cup {t \in Times : db[t] # "none"})

----------------------------------------------------------------------------
(* Live messages *)

\* A message is written to the database; when it is also bridged live it goes to the room
\* of its chat or of another number of the contact (resolveContactPortalID), or makes one.
\* Apple's push brings every message of a chat with a room.
Arrive(c, t, live) ==
  /\ t = Newest + 1 /\ t \in Times /\ (live \/ made \cap Twins(c) = {})
  /\ db' = [db EXCEPT ![t] = c]
  /\ IF ~live THEN UNCHANGED <<timeline, made, split>>
     ELSE LET open == made \cap Twins(c)
          IN \E r \in IF c \in made \/ open = {} THEN {c} ELSE open :
               /\ timeline' = [timeline EXCEPT ![r] = @ \cup {t}] /\ made' = made \cup {r}
               /\ split' = IF r \notin made /\ (~known \/ ~chatsSynced) THEN split \cup {r} ELSE split
  /\ UNCHANGED <<forward, pages, known, sync, chatsSynced, unread, uneven, readFaults>>

----------------------------------------------------------------------------
(* runChatDBInitialSync *)

LastOf(c) == Max({0} \cup Stored(c))

\* (mutant) every number keeps its entry
Unmerged(S) == S

\* The first entry of a contact is the one with the latest message.
Merged(S) == {c \in S : \A d \in S \cap Twins(c) : LastOf(d) <= LastOf(c)}

\* The chats with messages whose info can be read, merged by contact
StartSync ==
  /\ sync = Off /\ ~chatsSynced
  /\ \E bad \in {{}} \cup {{c} : c \in Chats} :
       /\ IF bad = {} THEN UNCHANGED readFaults ELSE ReadFault
       /\ sync' = [at |-> "run", left |-> Merged({c \in Chats \ bad : Stored(c) # {}})]
       /\ unread' = unread \cup UNION {Stored(c) : c \in bad}
  /\ split' = IF known THEN split ELSE split \cup Chats
  /\ UNCHANGED <<db, timeline, made, forward, pages, known, chatsSynced, uneven>>

\* The oldest activity first; each chat is waited for before the next.
Hand(c) ==
  /\ sync.at = "run" /\ c \in sync.left /\ \A d \in sync.left : LastOf(c) <= LastOf(d)
  /\ made' = made \cup {c} /\ forward' = forward \ {c}
  /\ sync' = [at |-> "wait", c |-> c, left |-> sync.left \ {c}]
  /\ UNCHANGED <<db, timeline, pages, known, chatsSynced, Histories, readFaults>>

\* PostHandleFunc closed the channel, or half an hour passed.
Waited ==
  /\ sync.at = "wait"
  /\ IF sync.c \in forward THEN UNCHANGED readFaults ELSE ReadFault
  /\ sync' = [at |-> "run", left |-> sync.left]
  /\ UNCHANGED <<db, timeline, made, forward, pages, known, chatsSynced, Histories>>

\* Every chat was handed over: the login remembers it.
FinishSync ==
  /\ sync.at = "run" /\ sync.left = {}
  /\ chatsSynced' = TRUE /\ sync' = Off
  /\ UNCHANGED <<db, timeline, made, forward, pages, known, Histories, readFaults>>

\* stopChan: the sync ends unfinished; the next start begins it anew, and may choose another
\* number of a contact than the one that already has a room.
StopSync ==
  /\ sync # Off /\ ReadFault
  /\ sync' = Off /\ known' \in BOOLEAN /\ split' = split \cup made
  /\ UNCHANGED <<db, timeline, made, forward, pages, chatsSynced, unread, uneven>>

----------------------------------------------------------------------------
(* FetchMessages *)

\* getContactChatGUIDs: the chats of all numbers of the contact.  findGroupChatGUID: the
\* group with the room's members, which is the chat itself here.
ChatGUIDs(c) == Twins(c)

\* GetMessagesSinceDate, GetMessagesBeforeWithLimit: strictly after, strictly before, the
\* newest first.
Since(c, t) == {u \in Stored(c) : u > t}
Before(c, t, n) ==
  LET older == {u \in Stored(c) : u < t}
  IN {u \in older : Cardinality({v \in older : v > u}) < n}

\* One fetch from the room's newest message, from its oldest, or of an empty room.  Each
\* chat gives its own page.
Wanted(c, r, fwd) ==
  CASE timeline[r] = {} -> Stored(c)
    [] timeline[r] # {} /\ fwd -> Since(c, Max(timeline[r]))
    [] OTHER -> Before(c, Min(timeline[r]), PageSize)
PagesOf(ok, r, fwd) == UNION {Wanted(c, r, fwd) : c \in ok}

\* The chats that could be read and the messages that could not be converted: an error of
\* one chat, or of a message's conversion, is passed over.
Read(r, fwd, ok, lost) ==
  \/ ok = ChatGUIDs(r) /\ lost = {} /\ UNCHANGED <<unread, readFaults>>
  \/ /\ ReadFault /\ ok = ChatGUIDs(r) /\ \E t \in PagesOf(ok, r, fwd) : lost = {t}
     /\ unread' = unread \cup lost
  \/ /\ ReadFault /\ lost = {} /\ \E bad \in ChatGUIDs(r) : ok = ChatGUIDs(r) \ {bad}
     /\ unread' = unread \cup UNION {Stored(d) : d \in ChatGUIDs(r) \ ok}

\* HasMore of a backward page: at least a full page of raw messages
HasMore(got) == Cardinality(got) >= PageSize

\* What pages that end at different times leave out: a chat's messages between the oldest
\* of its own page and the oldest of all are never asked for again.
JumpedOver(r, ok, got) ==
  {t \in Times : db[t] \in ok /\ t \notin got \cup timeline[r] /\ \E u \in got : u < t}

\* FetchMessages for room r: into the room goes what was read and converted.
FetchMessages(r, fwd) ==
  \E ok \in SUBSET ChatGUIDs(r), lost \in {{}} \cup {{t} : t \in Times} :
    LET got == PagesOf(ok, r, fwd)
    IN /\ Read(r, fwd, ok, lost)
       /\ timeline' = [timeline EXCEPT ![r] = @ \cup (got \ lost)]
       /\ uneven' = uneven \cup JumpedOver(r, ok, got)
       /\ pages' = IF fwd \/ HasMore(got) THEN pages ELSE pages \cup {r}
       /\ split' = IF known THEN split ELSE split \cup {r}

\* bridgev2 fetches forward when the room is synced, then page by page backwards.
FetchForward(r) ==
  /\ r \in made \ forward /\ FetchMessages(r, TRUE)
  /\ forward' = forward \cup {r}
  /\ UNCHANGED <<db, made, known, sync, chatsSynced>>

FetchBackward(r) ==
  /\ r \in forward \ pages /\ FetchMessages(r, FALSE)
  /\ UNCHANGED <<db, made, forward, known, sync, chatsSynced>>

HistoryNext ==
  \/ \E c \in Chats, t \in Times, live \in BOOLEAN : Arrive(c, t, live)
  \/ StartSync \/ Waited \/ FinishSync \/ StopSync
  \/ \E c \in Chats : Hand(c) \/ FetchForward(c) \/ FetchBackward(c)

HistorySpec == HistoryInit /\ [][HistoryNext]_historyVars

----------------------------------------------------------------------------
(* Properties *)

\* Everything a room is owed: the messages of its contact's numbers, or of its own
Owed(c) == UNION {Stored(d) : d \in IF Twins(c) \cap split # {} THEN {c} ELSE Twins(c)}

\* A room whose pages are done has every message of its numbers, but those a failed read
\* passed over and those an uneven page jumped over (FetchMessages).
HistoryKept == \A c \in pages : Owed(c) \subseteq timeline[c] \cup unread \cup uneven

\* A message is in one room, unless the contacts were missing, a live message made the room
\* of another number before the sync came to it, or the sync was stopped on the way
\* (runChatDBInitialSync's merge).
OneRoomEach ==
  split = {} => \A c, d \in made : c # d => timeline[c] \cap timeline[d] = {}

\* "merged DM portals get complete history" (chatdb.go, above getContactChatGUIDs)
CompleteHistory == readFaults = 0 => \A c \in pages : Owed(c) \subseteq timeline[c]

\* Every message of the database is in a room, and in no second one.
EachMessageOnce == HistoryKept /\ OneRoomEach
=============================================================================
