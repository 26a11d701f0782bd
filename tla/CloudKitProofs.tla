---------------------------- MODULE CloudKitProofs ----------------------------
(***************************************************************************)
(* What the two CloudKit components of the bridge keep, for any number of  *)
(* records, chats, failures and restarts.                                  *)
(*                                                                         *)
(* CloudSync: no message is lost behind a continuation token, and no room  *)
(* is asked for of a chat that is deleted.  First the shape of the state   *)
(* and the place of the controller in its feeds; then what is behind the   *)
(* tokens; then the list of deleted portals.                               *)
(*                                                                         *)
(* PresenceKeys: no key the bridge holds is forgotten by the               *)
(* subscriptions, and the one recovery walk never strands an invitation.   *)
(***************************************************************************)
EXTENDS CloudSync, PresenceKeys, WellFoundedInduction, SequenceTheorems, TLAPS

-----------------------------------------------------------------------------
(* CloudSync: the invariant. *)

Controls == {"contacts", "load", "stopped", "begin", "chats", "chatClear", "chatRows", "chatToken",
             "chatsEnd", "msgs", "msgWrite", "msgToken", "msgsEnd", "passed", "erase", "erasing",
             "create", "idle"}
ChatPages == {"chatClear", "chatRows", "chatToken"}
MsgPages == {"msgWrite", "msgToken"}
InMsgs == {"msgs", "msgWrite", "msgToken", "msgsEnd"}
InChats == {"chats", "chatClear", "chatRows", "chatToken", "chatsEnd"}

Budgets == [changes: Nat, call: Nat, sql: 0 .. SqlFaults, deletes: Nat, crashes: Nat]

(* Every live record of feed f up to place k that is the last of its message is *)
(* in the table t, or in g.                                                      *)
Behind(f, t, g, k) ==
  \A i \in 1 .. Len(f) :
    i <= k /\ Last(f, i) /\ ~f[i].gone => Known(t, f[i].id) \/ f[i].id \in g

ChatTables == [ChatIds -> ChatRow]
MsgTables == [Guids -> MsgRow]
TablesOK == chat \in ChatTables /\ msg \in MsgTables

TokensOK ==
  /\ DOMAIN feed = Zones
  /\ feed["chats"] \in Seq([id: ChatIds, gone: BOOLEAN])
  /\ feed["msgs"] \in Seq([id: Guids, gone: BOOLEAN])
  /\ token \in [Zones -> Int]
  /\ \A z \in Zones : -1 <= token[z] /\ token[z] <= Len(feed[z])

FlagsOK ==
  /\ pc \in Controls /\ budget \in Budgets
  /\ ver \in {"none", "chats", "both"} /\ errs \in 0 .. MaxErrors - 1 /\ left \in 0 .. Passes
  /\ recent \in [Portals -> {"no", "user", "tomb"}]
  /\ room \subseteq Portals /\ asked \subseteq Portals /\ skip \subseteq Portals /\ todo \subseteq Portals
  /\ forgotten \subseteq Guids

SwitchesOK == begun \in BOOLEAN /\ boot \in BOOLEAN /\ got \in BOOLEAN /\ gate \in BOOLEAN

SyncShape == TablesOK /\ TokensOK /\ FlagsOK /\ SwitchesOK

(* Where the token in memory is, and which record the page holds. *)
PlaceInv ==
  /\ pc \in InChats => cur \in -1 .. Len(feed["chats"])
  /\ pc \in InMsgs => cur \in -1 .. Len(feed["msgs"]) /\ token["msgs"] <= cur
  /\ pc \in ChatPages => row.id \in ChatIds /\ row.at \in 1 .. Len(feed["chats"]) /\ cur < row.at
  /\ pc \in MsgPages => row.id \in Guids /\ row.at \in 1 .. Len(feed["msgs"]) /\ cur < row.at
  /\ pc \notin ChatPages \cup MsgPages => row = NoRecord

(* What is behind the tokens is in the store. *)
ReadInv ==
  /\ Behind(feed["msgs"], msg, forgotten, token["msgs"])
  /\ pc \in InMsgs => Behind(feed["msgs"], msg, forgotten, cur)
  /\ pc = "msgToken" => Behind(feed["msgs"], msg, forgotten, row.at)
  /\ pc = "msgWrite" => Behind(feed["msgs"], msg, forgotten \cup {row.id}, row.at)

SqlFailed == budget.sql < SqlFaults

(* The page being written is a tombstone of a chat of portal p. *)
PageOf(p) == pc = "chatRows" /\ p = ChatPortal[row.id] /\ chat[row.id].state # "none"

(* Every chat that is deleted is on the list, once it was loaded. *)
ListedInv ==
  /\ \A c \in ChatIds : chat[c].portal = ChatPortal[c]
  /\ pc \notin {"contacts", "load", "stopped"} =>
       \A p \in Portals : FullyDeleted(chat, p) =>
         recent[p] # "no" \/ SqlFailed \/ PageOf(p)
  /\ pc = "erasing" => \A p \in todo : recent[p] # "no"
  /\ pc = "create" => \A p \in todo : FullyDeleted(chat, p) => recent[p] = "user" \/ SqlFailed

SyncInv == SyncShape /\ PlaceInv /\ ReadInv /\ ListedInv

-----------------------------------------------------------------------------
(* The statements of the store. *)

LEMMA EmptyTables == NoChats \in ChatTables /\ NoMsgs \in MsgTables
BY StoreAssumption DEF NoChats, NoMsgs, ChatTables, MsgTables, ChatRow, MsgRow, RowStates

(* A live record's row. *)
LEMMA ChatWritten ==
  ASSUME NEW t \in ChatTables, NEW c \in ChatIds
  PROVE  /\ UpsertChat(t, c, 0) \in ChatTables
         /\ \A d \in ChatIds : t[d].portal = ChatPortal[d] => UpsertChat(t, c, 0)[d].portal = ChatPortal[d]
         /\ t[c].portal = ChatPortal[c] =>
              \A p \in Portals : FullyDeleted(UpsertChat(t, c, 0), p) => FullyDeleted(t, p)
<1> DEFINE u == UpsertChat(t, c, 0)
<1>1. ChatPortal[c] \in Portals /\ DOMAIN t = ChatIds /\ t[c] \in ChatRow
  BY StoreAssumption DEF ChatTables
<1> DEFINE new == IF t[c].state = "none"
                  THEN [state |-> "live", portal |-> ChatPortal[c], ts |-> 0, fwd |-> FALSE]
                  ELSE [t[c] EXCEPT !.portal = ChatPortal[c], !.ts = IF 0 >= @ THEN 0 ELSE @]
<1>2. new \in ChatRow
  BY <1>1 DEF ChatRow, RowStates
<1>3. new.portal = ChatPortal[c] /\ (new.state = t[c].state \/ (t[c].state = "none" /\ new.state = "live"))
  BY <1>1 DEF ChatRow, RowStates
<1>4. u = [t EXCEPT ![c] = new]
  BY DEF UpsertChat
<1> HIDE DEF u, new
<1>5. u \in ChatTables /\ u[c] = new /\ \A d \in ChatIds \ {c} : u[d] = t[d]
  BY <1>2, <1>4 DEF ChatTables
<1>6. \A p \in Portals : t[c].portal = ChatPortal[c] /\ FullyDeleted(u, p) => FullyDeleted(t, p)
  BY <1>3, <1>5 DEF FullyDeleted, ExplicitlyDeleted, HasChat, ChatsOf
<1> QED BY <1>3, <1>5, <1>6 DEF u

(* Rows that are deleted. *)
LEMMA ChatRowsDeleted ==
  ASSUME NEW t \in ChatTables, NEW C \in SUBSET ChatIds
  PROVE  /\ DeleteRows(t, C, 0) \in ChatTables
         /\ \A d \in ChatIds : /\ DeleteRows(t, C, 0)[d].portal = t[d].portal
                               /\ DeleteRows(t, C, 0)[d].state = "none" <=> t[d].state = "none"
         /\ \A p \in Portals : (\A c \in C : t[c].portal # p \/ t[c].state = "none") =>
              (FullyDeleted(DeleteRows(t, C, 0), p) => FullyDeleted(t, p))
<1> DEFINE u == DeleteRows(t, C, 0)
<1>1. \A d \in ChatIds : t[d] \in ChatRow
  BY DEF ChatTables
<1>2. \A d \in ChatIds : /\ u[d] \in ChatRow /\ u[d].portal = t[d].portal
                         /\ u[d].state = "none" <=> t[d].state = "none"
                         /\ (d \notin C \/ t[d].state = "none") => u[d] = t[d]
  BY <1>1 DEF DeleteRows, ChatRow, RowStates
<1>3. u \in ChatTables
  BY <1>2 DEF DeleteRows, ChatTables
<1> HIDE DEF u
<1>4. ASSUME NEW p \in Portals, \A c \in C : t[c].portal # p \/ t[c].state = "none", FullyDeleted(u, p)
      PROVE  FullyDeleted(t, p)
  BY <1>2, <1>4 DEF FullyDeleted, ExplicitlyDeleted, HasChat, ChatsOf
<1> QED BY <1>2, <1>3, <1>4 DEF u

(* Every record with the UUID of a group resolves to the group's portal, as  *)
(* long as no portal was given another id by hand.                           *)
OwnAliases == \A p \in Portals : \A c \in Alias[p] : ChatPortal[c] = p

LEMMA ChatsDeleted ==
  ASSUME NEW t \in ChatTables, NEW p \in Portals
  PROVE  /\ DeleteChatsOf(t, p, 0) \in ChatTables
         /\ \A d \in ChatIds : /\ DeleteChatsOf(t, p, 0)[d].portal = t[d].portal
                               /\ DeleteChatsOf(t, p, 0)[d].state = "none" <=> t[d].state = "none"
         /\ OwnAliases /\ (\A c \in ChatIds : t[c].portal = ChatPortal[c]) =>
              \A q \in Portals \ {p} : FullyDeleted(DeleteChatsOf(t, p, 0), q) => FullyDeleted(t, q)
<1> DEFINE C == ChatsOf(t, p, {"live"}) \cup Alias[p]
<1>1. C \in SUBSET ChatIds
  BY StoreAssumption DEF ChatsOf
<1>2. OwnAliases /\ (\A c \in ChatIds : t[c].portal = ChatPortal[c]) => \A c \in C : t[c].portal = p
  BY <1>1 DEF OwnAliases, ChatsOf
<1>3. DeleteChatsOf(t, p, 0) = DeleteRows(t, C, 0)
  BY DEF DeleteChatsOf
<1> HIDE DEF C
<1> QED BY <1>1, <1>2, <1>3, ChatRowsDeleted

LEMMA ChatsUndeleted ==
  ASSUME NEW t \in ChatTables, NEW p \in Portals
  PROVE  /\ UndeleteChat(t, p, 0) \in ChatTables
         /\ \A d \in ChatIds : UndeleteChat(t, p, 0)[d].portal = t[d].portal
         /\ \A q \in Portals : FullyDeleted(UndeleteChat(t, p, 0), q) => q # p /\ FullyDeleted(t, q)
<1> DEFINE u == UndeleteChat(t, p, 0)
<1>1. \A d \in ChatIds : t[d] \in ChatRow
  BY DEF ChatTables
<1>2. \A d \in ChatIds : /\ u[d] \in ChatRow /\ u[d].portal = t[d].portal
                         /\ t[d].portal # p => u[d] = t[d]
                         /\ t[d].portal = p => u[d].state # "deleted"
  BY <1>1 DEF UndeleteChat, ChatsOf, ChatRow, RowStates
<1>3. u \in ChatTables
  BY <1>2 DEF UndeleteChat, ChatTables
<1> HIDE DEF u
<1>4. ASSUME NEW q \in Portals, FullyDeleted(u, q) PROVE q # p /\ FullyDeleted(t, q)
  BY <1>2, <1>4 DEF FullyDeleted, ExplicitlyDeleted, HasChat, ChatsOf
<1> QED BY <1>2, <1>3, <1>4 DEF u

(* No statement makes a message unknown but the housekeeping's. *)
LEMMA RowsErased ==
  ASSUME NEW t \in MsgTables, NEW S
  PROVE  EraseRows(t, S) \in MsgTables /\ \A m \in Guids : Known(t, m) => Known(EraseRows(t, S), m)
<1>1. \A m \in Guids : t[m] \in MsgRow
  BY DEF MsgTables
<1>2. \A m \in Guids : EraseRows(t, S)[m] \in MsgRow /\ (Known(t, m) => Known(EraseRows(t, S), m))
  BY <1>1 DEF EraseRows, MsgRow, RowStates, Known
<1> QED BY <1>2 DEF EraseRows, MsgTables

LEMMA MsgsErased ==
  ASSUME NEW t \in MsgTables
  PROVE  /\ \A u, p : /\ DeleteMsgsOf(u, t, p) \in MsgTables
                      /\ \A m \in Guids : Known(t, m) => Known(DeleteMsgsOf(u, t, p), m)
         /\ \A S : /\ DeleteRecords(t, S) \in MsgTables
                   /\ \A m \in Guids : Known(t, m) => Known(DeleteRecords(t, S), m)
BY RowsErased DEF DeleteMsgsOf, DeleteRecords

LEMMA MsgWritten ==
  ASSUME NEW t \in MsgTables, NEW m \in Guids, NEW p \in Portals, NEW b
  PROVE  /\ UpsertMsg(t, m, p, b) \in MsgTables /\ Known(UpsertMsg(t, m, p, b), m)
         /\ \A n \in Guids : Known(t, n) => Known(UpsertMsg(t, m, p, b), n)
<1> DEFINE new == [state |-> IF t[m].state = "deleted" \/ b THEN "deleted" ELSE "live",
                   portal |-> p, cloud |-> TRUE,
                   body |-> IF t[m].body = "scrubbed" THEN "scrubbed" ELSE "text"]
<1>1. new \in MsgRow /\ new.state # "none"
  BY DEF MsgRow, RowStates
<1>2. UpsertMsg(t, m, p, b) = [t EXCEPT ![m] = new]
  BY DEF UpsertMsg, MsgTables
<1> HIDE DEF new
<1> QED BY <1>1, <1>2 DEF MsgTables, Known

LEMMA OrphansDropped ==
  ASSUME NEW t \in MsgTables, NEW u PROVE DropOrphans(u, t, {}) \in MsgTables
<1>1. \A m \in Guids : DropOrphans(u, t, {})[m] \in MsgRow
  BY EmptyTables DEF DropOrphans, MsgTables
<1> QED BY <1>1 DEF DropOrphans, MsgTables

-----------------------------------------------------------------------------
(* The record a page begins with. *)

LEMMA Least == ASSUME NEW T, T \subseteq Nat, T # {} PROVE \E x \in T : \A y \in T : x <= y
<1> DEFINE R == {ss \in Nat \X Nat : ss[1] < ss[2]}
<1>1. IsWellFoundedOn(R, Nat)
  BY NatLessThanWellFounded DEF OpToRel
<1>2. \A x, y \in Nat : x < y => <<x, y>> \in R
  OBVIOUS
<1> HIDE DEF R
<1>3. PICK x \in T : \A y \in T : <<y, x>> \notin R
  BY <1>1, WFMin
<1>4. ASSUME NEW y \in T PROVE x <= y
  <2>1. x \in Nat /\ y \in Nat /\ ~(y < x)
    BY <1>2, <1>3
  <2> QED BY <2>1
<1> QED BY <1>4

LEMMA PositionIsNext ==
  ASSUME SyncShape, PlaceInv, pc \in Zones, ~AtEnd
  PROVE  /\ Position \in 1 .. Len(feed[pc]) /\ cur < Position /\ Record = feed[pc][Position]
         /\ Record.id \in (IF pc = "chats" THEN ChatIds ELSE Guids) /\ Record.gone \in BOOLEAN
         /\ \A i \in 1 .. Len(feed[pc]) : cur < i /\ Last(feed[pc], i) => Position <= i
         /\ Last(feed[pc], Position)
<1>1. Zone = pc /\ feed[pc] \in Seq([id: IF pc = "chats" THEN ChatIds ELSE Guids, gone: BOOLEAN])
  BY DEF Zone, Zones, SyncShape, TokensOK
<1>2. Ahead \subseteq Nat /\ Ahead # {}
  BY <1>1 DEF Ahead, AtEnd
<1>3. PICK x \in Ahead : \A j \in Ahead : x <= j
  BY <1>2, Least
<1>4. Position \in Ahead /\ \A j \in Ahead : Position <= j
  BY <1>3 DEF Position
<1>5. Record = feed[pc][Position]
  BY <1>1 DEF Record
<1>6. /\ Position \in 1 .. Len(feed[pc]) /\ cur < Position /\ Last(feed[pc], Position)
      /\ \A i \in 1 .. Len(feed[pc]) : cur < i /\ Last(feed[pc], i) => Position <= i
  BY <1>1, <1>4 DEF Ahead
<1> DEFINE Rs == [id: IF pc = "chats" THEN ChatIds ELSE Guids, gone: BOOLEAN]
<1>7. feed[pc][Position] \in Rs
  <2>1. feed[pc] \in Seq(Rs)
    BY <1>1
  <2> HIDE DEF Rs
  <2> QED BY <2>1, <1>6, ElementOfSeq
<1> QED BY <1>5, <1>6, <1>7

-----------------------------------------------------------------------------
LEMMA StatementFails ==
  ASSUME SyncShape, Fail PROVE budget' \in Budgets /\ budget'.sql < SqlFaults
<1>1. budget \in Budgets /\ SqlFaults \in Nat
  BY SyncAssumption DEF SyncShape, FlagsOK
<1> QED BY <1>1 DEF Fail, Budgets

LEMMA SyncStepTables == ASSUME SyncShape, PlaceInv, [Next]_vars PROVE TablesOK'
<1>0. TablesOK
  BY DEF SyncShape
<1> USE DEF TablesOK
<1>1. ASSUME UNCHANGED <<chat, msg>> PROVE TablesOK'
  BY <1>0, <1>1
<1>2. CASE Begin
  BY <1>0, <1>2, EmptyTables DEF Begin
<1>3. CASE ChatLive
  <2>1. Record.id \in ChatIds /\ chat' = UpsertChat(chat, Record.id, 0) /\ msg' = msg
    BY <1>3, PositionIsNext DEF ChatLive, Zones
  <2> QED BY <1>0, <2>1, ChatWritten
<1>4. CASE ChatClear
  <2>1. ChatPortal[row.id] \in Portals
    BY <1>4, StoreAssumption DEF ChatClear, PlaceInv, ChatPages
  <2>2. msg' = msg /\ (chat' = chat \/ chat' = UndeleteChat(chat, ChatPortal[row.id], 0))
    BY <1>4 DEF ChatClear
  <2> QED BY <1>0, <2>1, <2>2, ChatsUndeleted
<1>5. CASE ChatGone
  <2>1. {Record.id} \in SUBSET ChatIds /\ chat' = DeleteRows(chat, {Record.id}, 0) /\ msg' = msg
    BY <1>5, PositionIsNext DEF ChatGone, TombstoneRecord, Zones
  <2> QED BY <1>0, <2>1, ChatRowsDeleted
<1>6. ASSUME NEW p \in Portals, chat' = DeleteChatsOf(chat, p, 0), msg' = DeleteMsgsOf(chat', msg, p)
      PROVE  TablesOK'
  BY <1>0, <1>6, ChatsDeleted, MsgsErased
<1>7. CASE ChatGoneRows
  <2>1. PortalsOfRecord(chat, row.id) \subseteq Portals
    BY <1>0, <1>7 DEF ChatGoneRows, PlaceInv, ChatPages, PortalsOfRecord, ChatTables, ChatRow
  <2> QED BY <1>1, <1>6, <1>7, <2>1 DEF ChatGoneRows
<1>8. CASE MsgGone
  BY <1>0, <1>8, MsgsErased DEF MsgGone
<1>9. CASE MsgWrite
  <2>1. row.id \in Guids /\ Home[row.id] \in Portals
    BY <1>9, SyncAssumption DEF MsgWrite, PlaceInv, MsgPages
  <2> QED BY <1>0, <1>9, <2>1, MsgWritten DEF MsgWrite
<1>10. CASE Erase \/ UserDeletes
  <2>1. todo \subseteq Portals
    BY DEF SyncShape, FlagsOK
  <2> QED BY <1>1, <1>6, <1>10, <2>1 DEF Erase, UserDeletes
<1>11. CASE Finish
  BY <1>0, <1>11, OrphansDropped DEF Finish
<1> HIDE DEF TablesOK
<1> QED BY <1>1, <1>2, <1>3, <1>4, <1>5, <1>7, <1>8, <1>9, <1>10, <1>11 DEF Next, Controller, Contacts, LoadDeleted, FetchFails, LastPage, PassFails, MsgRead, SaveToken, EndZone, PassEnds, ListErase, List, Create, NextPass, MakeRoom, Change, Restart, durable, Server, vars

LEMMA BudgetSpent ==
  ASSUME budget \in Budgets
  PROVE  /\ budget.changes > 0 => [budget EXCEPT !.changes = @ - 1] \in Budgets
         /\ budget.call > 0 => [budget EXCEPT !.call = @ - 1] \in Budgets
         /\ budget.deletes > 0 => [budget EXCEPT !.deletes = @ - 1] \in Budgets
         /\ budget.crashes > 0 => [budget EXCEPT !.crashes = @ - 1] \in Budgets
         /\ budget.sql > 0 /\ budget.deletes > 0 =>
              /\ [budget EXCEPT !.deletes = @ - 1, !.sql = @ - 1] \in Budgets
              /\ [budget EXCEPT !.deletes = @ - 1, !.sql = @ - 1].sql < SqlFaults
<1>1. SqlFaults \in Nat /\ budget.sql \in 0 .. SqlFaults /\ budget.deletes \in Nat
  BY SyncAssumption DEF Budgets
<1>2. ASSUME budget.sql > 0, budget.deletes > 0
      PROVE  /\ [budget EXCEPT !.deletes = @ - 1, !.sql = @ - 1] \in Budgets
             /\ [budget EXCEPT !.deletes = @ - 1, !.sql = @ - 1].sql < SqlFaults
  <2> DEFINE spent == [budget EXCEPT !.deletes = budget.deletes - 1, !.sql = budget.sql - 1]
  <2>1. budget.sql - 1 \in 0 .. SqlFaults /\ budget.deletes - 1 \in Nat /\ budget.sql - 1 < SqlFaults
    BY <1>1, <1>2
  <2>2. spent.sql = budget.sql - 1 /\ spent \in Budgets
    BY <2>1 DEF Budgets
  <2> QED BY <2>1, <2>2
<1> QED BY <1>2 DEF Budgets

LEMMA SyncStepSwitches == ASSUME SyncShape, [Next]_vars PROVE SwitchesOK'
<1>0. SwitchesOK
  BY DEF SyncShape
<1> USE DEF SwitchesOK
<1>1. CASE Contacts \/ NextPass \/ Create
  BY <1>0, <1>1 DEF Contacts, NextPass, Create, durable, pass
<1>6. CASE Restart
  BY <1>0, <1>6 DEF Restart, durable
<1>2. CASE Begin \/ PassFails \/ PassEnds \/ Finish
  BY <1>0, <1>2 DEF Begin, PassFails, PassEnds, Finish, durable, pass
<1>3. CASE ChatLive \/ ChatClear \/ ChatGone \/ ChatGoneRows \/ FetchFails \/ LastPage
  BY <1>0, <1>3 DEF ChatLive, ChatClear, ChatGone, ChatGoneRows, FetchFails, LastPage, durable, pass
<1>4. CASE MsgGone \/ MsgRead \/ MsgWrite \/ SaveToken \/ EndZone
  BY <1>0, <1>4 DEF MsgGone, MsgRead, MsgWrite, SaveToken, EndZone, durable, pass
<1>5. CASE LoadDeleted \/ ListErase \/ Erase \/ List \/ MakeRoom \/ Change \/ UserDeletes \/ UNCHANGED vars
  BY <1>0, <1>5 DEF LoadDeleted, ListErase, Erase, List, MakeRoom, Change, UserDeletes, durable, pass, Server, vars
<1> HIDE DEF SwitchesOK
<1> QED BY <1>1, <1>2, <1>3, <1>4, <1>5, <1>6 DEF Next, Controller

LEMMA SyncStepFlags == ASSUME SyncShape, PlaceInv, [Next]_vars PROVE FlagsOK'
<1>0. FlagsOK /\ boot \in BOOLEAN
  BY DEF SyncShape, SwitchesOK
<1> USE DEF FlagsOK, Controls
<1>1. CASE Contacts \/ LoadDeleted \/ Begin \/ ListErase \/ NextPass
  BY <1>0, <1>1, SyncAssumption DEF Contacts, LoadDeleted, Begin, ListErase, NextPass, durable, pass, outside
<1>2. CASE FetchFails
  <2>1. budget' \in Budgets
    BY <1>0, <1>2, BudgetSpent DEF FetchFails
  <2>2. errs' \in 0 .. MaxErrors - 1 /\ pc' \in Controls
    BY <1>0, <1>2, SyncAssumption DEF FetchFails, EndOf
  <2> QED BY <1>0, <1>2, <2>1, <2>2 DEF FetchFails, durable
<1>3. CASE LastPage \/ PassFails \/ EndZone \/ PassEnds
  BY <1>0, <1>3, StatementFails, SyncAssumption DEF LastPage, PassFails, EndZone, PassEnds, EndOf, durable, pass, outside
<1>4. CASE ChatLive \/ ChatGone \/ MsgGone \/ MsgWrite
  BY <1>0, <1>4, SyncAssumption DEF ChatLive, ChatGone, MsgGone, MsgWrite, pass, outside
<1>5. CASE ChatClear
  BY <1>0, <1>5, StatementFails DEF ChatClear, pass
<1>6. CASE ChatGoneRows
  BY <1>0, <1>6, StatementFails DEF ChatGoneRows, DeleteRoom, pass
<1>7. CASE MsgRead
  <2>1. Record.id \in Guids
    BY <1>7, PositionIsNext DEF MsgRead, Zones
  <2>2. forgotten' \subseteq Guids /\ pc' \in {"msgToken", "msgWrite"} /\ errs' = 0
    BY <1>0, <1>7, <2>1 DEF MsgRead
  <2> QED BY <1>0, <1>7, <2>2, SyncAssumption DEF MsgRead, durable, outside
<1>8. CASE SaveToken
  BY <1>0, <1>8, StatementFails DEF SaveToken, Zone
<1>9. CASE Erase
  BY <1>0, <1>9, StatementFails DEF Erase, pass
<1>10. CASE List
  <2>1. todo' \subseteq Portals
    BY <1>10 DEF List, Listed
  <2> QED BY <1>0, <1>10, <2>1 DEF List, durable, pass, outside
<1>11. CASE Create \/ Finish \/ MakeRoom
  BY <1>0, <1>11 DEF Create, Finish, MakeRoom, durable, pass, outside
<1>12. CASE Change
  BY <1>0, <1>12, BudgetSpent DEF Change, Server, durable, pass
<1>13. CASE UserDeletes
  <2>1. budget' \in Budgets
    BY <1>0, <1>13, BudgetSpent DEF UserDeletes
  <2>2. PICK p \in Portals :
          /\ recent' = [recent EXCEPT ![p] = "user"]
          /\ DeleteRoom(p) \/ UNCHANGED <<room, asked>>
    BY <1>13 DEF UserDeletes
  <2> QED BY <1>0, <1>13, <2>1, <2>2 DEF UserDeletes, DeleteRoom, pass
<1>14. CASE Restart
  <2>1. budget' \in Budgets
    BY <1>0, <1>14, BudgetSpent DEF Restart
  <2> QED BY <1>0, <1>14, <2>1, SyncAssumption DEF Restart, durable
<1>15. CASE UNCHANGED vars
  BY <1>0, <1>15 DEF vars
<1> HIDE DEF FlagsOK
<1> QED BY <1>1, <1>2, <1>3, <1>4, <1>5, <1>6, <1>7, <1>8, <1>9, <1>10, <1>11, <1>12, <1>13, <1>14, <1>15
        DEF Next, Controller

(* The feeds only grow. *)
LEMMA FeedGrows ==
  ASSUME SyncShape, [Next]_vars
  PROVE  /\ DOMAIN feed' = Zones
         /\ feed["chats"]' \in Seq([id: ChatIds, gone: BOOLEAN])
         /\ feed["msgs"]' \in Seq([id: Guids, gone: BOOLEAN])
         /\ \A z \in Zones : /\ Len(feed[z]) <= Len(feed'[z])
                             /\ \A i \in 1 .. Len(feed[z]) : feed'[z][i] = feed[z][i]
<1>0. TokensOK
  BY DEF SyncShape
<1>1. CASE Change
  <2>1. CASE \E c \in ChatIds, b \in BOOLEAN : feed' = [feed EXCEPT !.chats = Append(@, [id |-> c, gone |-> b])]
    <3>1. PICK c \in ChatIds, b \in BOOLEAN : feed' = [feed EXCEPT !.chats = Append(@, [id |-> c, gone |-> b])]
      BY <2>1
    <3> DEFINE new == [id |-> c, gone |-> b]
    <3>2. new \in [id: ChatIds, gone: BOOLEAN]
      OBVIOUS
    <3> HIDE DEF new
    <3>3. feed'["chats"] = Append(feed["chats"], new) /\ feed'["msgs"] = feed["msgs"] /\ DOMAIN feed' = Zones
      BY <1>0, <3>1 DEF TokensOK, Zones, new
    <3> QED BY <1>0, <3>2, <3>3, AppendProperties DEF TokensOK, Zones
  <2>2. CASE \E m \in Guids, b \in BOOLEAN : feed' = [feed EXCEPT !.msgs = Append(@, [id |-> m, gone |-> b])]
    <3>1. PICK m \in Guids, b \in BOOLEAN : feed' = [feed EXCEPT !.msgs = Append(@, [id |-> m, gone |-> b])]
      BY <2>2
    <3> DEFINE new == [id |-> m, gone |-> b]
    <3>2. new \in [id: Guids, gone: BOOLEAN]
      OBVIOUS
    <3> HIDE DEF new
    <3>3. feed'["msgs"] = Append(feed["msgs"], new) /\ feed'["chats"] = feed["chats"] /\ DOMAIN feed' = Zones
      BY <1>0, <3>1 DEF TokensOK, Zones, new
    <3>4. /\ feed'["msgs"] \in Seq([id: Guids, gone: BOOLEAN])
          /\ Len(feed'["msgs"]) = Len(feed["msgs"]) + 1
          /\ \A i \in 1 .. Len(feed["msgs"]) : feed'["msgs"][i] = feed["msgs"][i]
      BY <1>0, <3>2, <3>3, AppendProperties DEF TokensOK
    <3> QED BY <1>0, <3>3, <3>4 DEF TokensOK, Zones
  <2> QED BY <1>1, <2>1, <2>2 DEF Change
<1>2. CASE UNCHANGED feed
  BY <1>0, <1>2 DEF TokensOK, Zones
<1> QED BY <1>1, <1>2 DEF Next, Controller, Contacts, LoadDeleted, Begin, FetchFails, LastPage, PassFails,
        ChatLive, ChatClear, ChatGone, ChatGoneRows, MsgGone, MsgRead, MsgWrite, SaveToken, EndZone,
        PassEnds, ListErase, Erase, List, Create, Finish, NextPass, MakeRoom, UserDeletes, Restart, vars, outside

(* The places of the controller at which a page is being written. *)
LEMMA SyncStepPlace == ASSUME SyncShape, PlaceInv, [Next]_vars PROVE PlaceInv' /\ TokensOK'
<1>0. TokensOK
  BY DEF SyncShape
<1>1. /\ Len(feed["chats"]) \in Nat /\ Len(feed["msgs"]) \in Nat
      /\ Len(feed'["chats"]) \in Nat /\ Len(feed'["msgs"]) \in Nat
      /\ Len(feed["chats"]) <= Len(feed'["chats"]) /\ Len(feed["msgs"]) <= Len(feed'["msgs"])
  BY <1>0, FeedGrows DEF TokensOK, Zones
<1> USE DEF PlaceInv, InChats, InMsgs, ChatPages, MsgPages
<1>2. CASE Contacts \/ LoadDeleted \/ Begin \/ FetchFails \/ LastPage \/ PassFails
  BY SMTT(20), <1>0, <1>1, <1>2, FeedGrows DEF Contacts, LoadDeleted, Begin, FetchFails, LastPage, PassFails, durable, pass, outside, Server, NoRow, EndOf, Zone, Zones, TokensOK
<1>3. CASE ChatLive \/ ChatGone
  BY SMTT(20), <1>0, <1>1, <1>3, FeedGrows, PositionIsNext DEF ChatLive, ChatGone, durable, pass, outside, Server, NoRow, EndOf, Zone, Zones, TokensOK
<1>4. CASE MsgGone \/ MsgRead
  BY SMTT(20), <1>0, <1>1, <1>4, FeedGrows, PositionIsNext DEF MsgGone, MsgRead, durable, pass, outside, Server, NoRow, EndOf, Zone, Zones, TokensOK
<1>5. CASE ChatClear \/ ChatGoneRows \/ MsgWrite
  BY SMTT(20), <1>0, <1>1, <1>5, FeedGrows DEF ChatClear, ChatGoneRows, MsgWrite, durable, pass, outside, Server, NoRow, EndOf, Zone, Zones, TokensOK
<1>6. CASE SaveToken \/ EndZone
  BY SMTT(20), <1>0, <1>1, <1>6, FeedGrows DEF SaveToken, EndZone, durable, pass, outside, Server, NoRow, EndOf, Zone, Zones, TokensOK
<1>7. CASE PassEnds \/ ListErase \/ Erase \/ List \/ Create \/ Finish \/ NextPass
  BY SMTT(20), <1>0, <1>1, <1>7, FeedGrows DEF PassEnds, ListErase, Erase, List, Create, Finish, NextPass, durable, pass, outside, Server, NoRow, EndOf, Zone, Zones, TokensOK
<1>8. CASE MakeRoom \/ Change \/ UserDeletes \/ Restart
  BY SMTT(20), <1>0, <1>1, <1>8, FeedGrows DEF MakeRoom, Change, UserDeletes, Restart, durable, pass, outside, Server, NoRow, EndOf, Zone, Zones, TokensOK
<1>9. CASE UNCHANGED vars
  BY <1>0, <1>9 DEF vars, TokensOK
<1> QED BY <1>2, <1>3, <1>4, <1>5, <1>6, <1>7, <1>8, <1>9 DEF Next, Controller

-----------------------------------------------------------------------------
(* What is behind a place of the feed stays in the store. *)

(* The table forgets no message but into g, and the feed only grows. *)
LEMMA BehindKept ==
  ASSUME NEW f \in Seq([id: Guids, gone: BOOLEAN]), NEW e \in Seq([id: Guids, gone: BOOLEAN]),
         Len(f) <= Len(e), \A i \in 1 .. Len(f) : e[i] = f[i],
         NEW t, NEW g, NEW u, NEW h,
         \A m \in Guids : Known(t, m) \/ m \in g => Known(u, m) \/ m \in h,
         NEW k \in Int, k <= Len(f), Behind(f, t, g, k)
  PROVE  Behind(e, u, h, k)
<1>1. Len(f) \in Nat /\ Len(e) \in Nat
  OBVIOUS
<1>2. ASSUME NEW i \in 1 .. Len(e), i <= k, Last(e, i), ~e[i].gone
      PROVE  Known(u, e[i].id) \/ e[i].id \in h
  <2>1. i \in 1 .. Len(f) /\ e[i] = f[i]
    BY <1>1, <1>2
  <2>2. Last(f, i)
    BY <1>1, <1>2, <2>1 DEF Last
  <2>3. e[i].id \in Guids
    <3> DEFINE Rs == [id: Guids, gone: BOOLEAN]
    <3>1. e \in Seq(Rs) /\ i \in 1 .. Len(e)
      OBVIOUS
    <3> HIDE DEF Rs
    <3>2. e[i] \in Rs
      BY <3>1, ElementOfSeq
    <3> QED BY <3>2 DEF Rs
  <2> QED BY <1>2, <2>1, <2>2, <2>3 DEF Behind
<1> QED BY <1>2 DEF Behind

(* The next record of the feed is dealt with. *)
LEMMA NextBehind ==
  ASSUME NEW f \in Seq([id: Guids, gone: BOOLEAN]), NEW t, NEW g, NEW k \in Int, NEW n \in 1 .. Len(f),
         k < n, Behind(f, t, g, k), \A i \in 1 .. Len(f) : k < i /\ Last(f, i) => n <= i
  PROVE  /\ Behind(f, t, g \cup {f[n].id}, n)
         /\ f[n].gone => Behind(f, t, g, n)
         /\ \A j \in Int : j <= k => Behind(f, t, g, j) /\ Behind(f, t, g \ {f[n].id}, j)
<1>1. Len(f) \in Nat
  OBVIOUS
<1>2. \A i \in 1 .. Len(f) : i <= n /\ Last(f, i) => i <= k \/ i = n
  BY <1>1
<1>3. \A i \in 1 .. Len(f) : i <= k /\ Last(f, i) => f[i].id # f[n].id
  BY <1>1 DEF Last
<1>4. Behind(f, t, g \cup {f[n].id}, n) /\ (f[n].gone => Behind(f, t, g, n))
  BY <1>1, <1>2 DEF Behind
<1>5. ASSUME NEW j \in Int, j <= k PROVE Behind(f, t, g, j) /\ Behind(f, t, g \ {f[n].id}, j)
  BY <1>1, <1>3, <1>5 DEF Behind
<1> QED BY <1>4, <1>5

LEMMA SyncStepRead == ASSUME SyncShape, PlaceInv, ReadInv, [Next]_vars PROVE ReadInv'
<1> DEFINE f == feed["msgs"]
<1>0. /\ f \in Seq([id: Guids, gone: BOOLEAN]) /\ Len(f) \in Nat /\ f' \in Seq([id: Guids, gone: BOOLEAN])
      /\ Len(f) <= Len(f') /\ \A i \in 1 .. Len(f) : f'[i] = f[i]
      /\ token["msgs"] \in Int /\ token["msgs"] <= Len(f)
      /\ pc \in InMsgs => cur \in Int /\ cur <= Len(f) /\ token["msgs"] <= cur
      /\ pc \in MsgPages => row.at \in Int /\ row.at <= Len(f) /\ cur < row.at
      /\ msg \in MsgTables
  BY FeedGrows DEF SyncShape, TokensOK, PlaceInv, TablesOK, Zones
<1>1. /\ Behind(f, msg, forgotten, token["msgs"])
      /\ pc \in InMsgs => Behind(f, msg, forgotten, cur)
      /\ pc = "msgToken" => Behind(f, msg, forgotten, row.at)
      /\ pc = "msgWrite" => Behind(f, msg, forgotten \cup {row.id}, row.at)
  BY DEF ReadInv
<1> HIDE DEF f
<1> DEFINE Grows == \A m \in Guids : Known(msg, m) \/ m \in forgotten => Known(msg', m) \/ m \in forgotten'
(* Whatever only adds to the store keeps what is behind any place. *)
<1>2. ASSUME Grows, NEW k \in Int, k <= Len(f)
      PROVE  /\ Behind(f, msg, forgotten, k) => Behind(f', msg', forgotten', k)
             /\ \A m \in Guids : Behind(f, msg, forgotten \cup {m}, k) => Behind(f', msg', forgotten' \cup {m}, k)
  <2>1. \A m, n \in Guids : Known(msg, m) \/ m \in forgotten \cup {n} => Known(msg', m) \/ m \in forgotten' \cup {n}
    BY <1>2
  <2> QED BY <1>0, <1>2, <2>1, BehindKept
<1>3. ASSUME Grows, token'["msgs"] = token["msgs"], pc' \in InMsgs => pc \in InMsgs /\ UNCHANGED cur,
             pc' \in MsgPages => pc' = pc /\ UNCHANGED row
      PROVE  ReadInv'
  <2>1. Behind(f', msg', forgotten', token'["msgs"]) /\ (pc' \in InMsgs => Behind(f', msg', forgotten', cur'))
    BY <1>0, <1>1, <1>2, <1>3
  <2>2. pc' = "msgToken" => Behind(f', msg', forgotten', row'.at)
    BY <1>0, <1>1, <1>2, <1>3 DEF MsgPages
  <2>3. pc' = "msgWrite" => Behind(f', msg', forgotten' \cup {row'.id}, row'.at)
    <3>1. pc = "msgWrite" => row.id \in Guids
      BY DEF PlaceInv, MsgPages
    <3> QED BY <1>0, <1>1, <1>2, <1>3, <3>1 DEF MsgPages
  <2> QED BY <2>1, <2>2, <2>3 DEF ReadInv, f
<1> USE DEF InMsgs, MsgPages
<1>4. CASE Contacts \/ LoadDeleted \/ FetchFails \/ PassFails \/ ChatLive \/ ChatClear \/ ChatGone
  BY <1>3, <1>4 DEF Contacts, LoadDeleted, FetchFails, PassFails, ChatLive, ChatClear, ChatGone, durable, pass, outside, EndOf, Zones
<1>5. CASE PassEnds \/ ListErase \/ List \/ Create \/ NextPass \/ MakeRoom \/ Change \/ Restart \/ UNCHANGED vars
  BY <1>3, <1>5 DEF PassEnds, ListErase, List, Create, NextPass, MakeRoom, Change, Restart, durable, pass, outside, Server, vars
<1>6. CASE ChatGoneRows \/ Erase \/ UserDeletes
  <2>1. Grows
    BY <1>0, <1>6, MsgsErased DEF ChatGoneRows, Erase, UserDeletes
  <2> HIDE DEF Grows
  <2> QED BY <1>3, <1>6, <2>1 DEF ChatGoneRows, Erase, UserDeletes, pass
<1>7. CASE Finish
  BY <1>3, <1>7 DEF Finish, pass, outside
<1>8. CASE Begin
  <2>1. pc' = "chats" /\ \/ UNCHANGED <<msg, token, forgotten>> \/ token'["msgs"] = -1
    BY <1>8 DEF Begin, NoRow, Zones
  <2>2. CASE UNCHANGED <<msg, token, forgotten>>
    BY <1>3, <2>1, <2>2
  <2>3. CASE token'["msgs"] = -1
    BY <1>0, <2>1, <2>3 DEF ReadInv, Behind, f
  <2> QED BY <2>1, <2>2, <2>3
<1>9. CASE LastPage
  <2>1. CASE pc = "chats"
    BY <1>3, <1>9, <2>1 DEF LastPage, durable, outside, EndOf
  <2>2. CASE pc = "msgs"
    <3>1. Grows /\ f' = f /\ pc' = "msgsEnd" /\ cur' = Len(f) /\ token' = token /\ UNCHANGED <<msg, forgotten>>
      BY <1>9, <2>2 DEF LastPage, durable, outside, EndOf, f
    <3>2. \A i \in 1 .. Len(f) : Last(f, i) => i <= cur
      BY <1>0, <1>9, <2>2 DEF LastPage, AtEnd, Ahead, Zone, f
    <3>3. Behind(f, msg, forgotten, Len(f))
      BY <1>0, <1>1, <2>2, <3>2 DEF Behind
    <3> QED BY <1>1, <3>1, <3>3 DEF ReadInv, f
  <2> QED BY <1>9, <2>1, <2>2 DEF LastPage, Zones
<1>10. ASSUME pc = "msgs", ~AtEnd
       PROVE  /\ Position \in 1 .. Len(f) /\ Record = f[Position] /\ Record.id \in Guids
              /\ Behind(f, msg, forgotten \cup {Record.id}, Position)
              /\ Record.gone => Behind(f, msg, forgotten, Position)
              /\ Behind(f, msg, forgotten \ {Record.id}, cur)
              /\ Behind(f, msg, forgotten \ {Record.id}, token["msgs"])
  <2>1. /\ Position \in 1 .. Len(f) /\ cur < Position /\ Record = f[Position] /\ Record.id \in Guids
        /\ \A i \in 1 .. Len(f) : cur < i /\ Last(f, i) => Position <= i
    BY <1>10, PositionIsNext DEF Zones, f
  <2>2. /\ f \in Seq([id: Guids, gone: BOOLEAN]) /\ cur \in Int /\ token["msgs"] \in Int
        /\ token["msgs"] <= cur /\ cur <= cur /\ Behind(f, msg, forgotten, cur)
    BY <1>0, <1>1, <1>10
  <2>3. /\ Behind(f, msg, forgotten \cup {f[Position].id}, Position)
        /\ f[Position].gone => Behind(f, msg, forgotten, Position)
        /\ \A j \in Int : j <= cur => Behind(f, msg, forgotten, j) /\ Behind(f, msg, forgotten \ {f[Position].id}, j)
    <3> DEFINE n == Position
    <3>1. n \in 1 .. Len(f) /\ cur < n /\ \A i \in 1 .. Len(f) : cur < i /\ Last(f, i) => n <= i
      BY <2>1
    <3> HIDE DEF n
    <3> QED BY <2>2, <3>1, NextBehind DEF n
  <2>4. Behind(f, msg, forgotten \cup {Record.id}, Position)
    BY <2>1, <2>3
  <2>5. Record.gone => Behind(f, msg, forgotten, Position)
    BY <2>1, <2>3
  <2>6. Behind(f, msg, forgotten \ {Record.id}, cur)
    BY <2>1, <2>2, <2>3
  <2>7. Behind(f, msg, forgotten \ {Record.id}, token["msgs"])
    BY <2>1, <2>2, <2>3
  <2> QED BY <2>1, <2>4, <2>5, <2>6, <2>7
<1>11. CASE MsgGone
  <2>1. Grows
    BY <1>0, <1>11, MsgsErased DEF MsgGone
  <2>2. /\ f' = f /\ token' = token /\ cur' = cur /\ pc' = "msgToken" /\ row'.at = Position /\ forgotten' = forgotten
        /\ pc = "msgs" /\ ~AtEnd /\ Record.gone
    BY <1>11 DEF MsgGone, outside, f
  <2> HIDE DEF Grows
  <2>3. /\ Behind(f, msg, forgotten, Position) /\ Position \in Int /\ Position <= Len(f)
        /\ Behind(f, msg, forgotten, cur)
    BY <1>0, <1>1, <1>10, <2>2
  <2>4. /\ Behind(f', msg', forgotten', Position) /\ Behind(f', msg', forgotten', cur)
        /\ Behind(f', msg', forgotten', token["msgs"])
    BY <1>0, <1>1, <1>2, <2>1, <2>2, <2>3
  <2> QED BY <2>2, <2>4 DEF ReadInv, f
<1>12. CASE MsgRead
  <2>1. /\ f' = f /\ msg' = msg /\ token' = token /\ cur' = cur /\ row'.at = Position /\ row'.id = Record.id
        /\ pc = "msgs" /\ ~AtEnd
        /\ \/ pc' = "msgToken" /\ forgotten' = forgotten \cup {Record.id}
           \/ pc' = "msgWrite" /\ forgotten' = forgotten \ {Record.id}
    BY <1>12 DEF MsgRead, durable, outside, f
  <2>2. CASE pc' = "msgToken" /\ forgotten' = forgotten \cup {Record.id}
    <3>1. Grows
      BY <2>1, <2>2
    <3> HIDE DEF Grows
    <3>2. Behind(f', msg', forgotten', cur) /\ Behind(f', msg', forgotten', token["msgs"])
      BY <1>0, <1>1, <1>2, <2>1, <3>1
    <3> QED BY <1>10, <2>1, <2>2, <3>2 DEF ReadInv, f
  <2>3. CASE pc' = "msgWrite" /\ forgotten' = forgotten \ {Record.id}
    <3>1. forgotten' \cup {Record.id} = forgotten \cup {Record.id}
      BY <2>3
    <3> QED BY <1>10, <2>1, <2>3, <3>1 DEF ReadInv, f
  <2> QED BY <2>1, <2>2, <2>3
<1>13. CASE MsgWrite
  <2>1. row.id \in Guids /\ Home[row.id] \in Portals
    BY <1>13, SyncAssumption DEF MsgWrite, PlaceInv
  <2>2. Grows /\ Known(msg', row.id)
    BY <1>0, <1>13, <2>1, MsgWritten DEF MsgWrite
  <2>3. /\ f' = f /\ token' = token /\ cur' = cur /\ row' = row /\ pc' = "msgToken" /\ forgotten' = forgotten
        /\ pc = "msgWrite"
    BY <1>13 DEF MsgWrite, outside, pass, f
  <2>4. \A m \in Guids : Known(msg, m) \/ m \in forgotten \cup {row.id} => Known(msg', m) \/ m \in forgotten'
    BY <2>2
  <2> HIDE DEF Grows
  <2>5. Behind(f', msg', forgotten', row.at)
    BY ZenonT(40), <1>0, <1>1, <2>3, <2>4, BehindKept
  <2>6. Behind(f', msg', forgotten', cur) /\ Behind(f', msg', forgotten', token["msgs"])
    BY <1>0, <1>1, <1>2, <2>2, <2>3
  <2> QED BY <2>3, <2>5, <2>6 DEF ReadInv, f
<1>14. CASE SaveToken
  <2>1. CASE pc = "chatToken"
    <3>1. token'["msgs"] = token["msgs"] /\ pc' = "chats" /\ UNCHANGED <<msg, forgotten, feed>>
      BY <1>14, <2>1 DEF SaveToken, Zone, SyncShape, TokensOK, Zones
    <3> QED BY <1>3, <3>1
  <2>2. CASE pc = "msgToken"
    <3>1. /\ f' = f /\ pc' = "msgs" /\ UNCHANGED <<msg, forgotten>> /\ cur' = row.at
          /\ token'["msgs"] \in {token["msgs"], row.at}
      BY <1>14, <2>2 DEF SaveToken, Zone, f, SyncShape, TokensOK, Zones
    <3> QED BY <1>1, <2>2, <3>1 DEF ReadInv, f
  <2> QED BY <1>14, <2>1, <2>2 DEF SaveToken
<1>15. CASE EndZone
  <2>1. /\ f' = f /\ UNCHANGED <<msg, forgotten>>
        /\ \/ pc = "chatsEnd" /\ pc' = "msgs" /\ token'["msgs"] = token["msgs"] /\ cur' = token["msgs"]
           \/ pc = "msgsEnd" /\ pc' = "passed" /\ token'["msgs"] \in {token["msgs"], cur}
    BY <1>15 DEF EndZone, f, outside, SyncShape, TokensOK, Zones
  <2> QED BY <1>1, <2>1 DEF ReadInv, f
<1> QED BY <1>4, <1>5, <1>6, <1>7, <1>8, <1>9, <1>11, <1>12, <1>13, <1>14, <1>15 DEF Next, Controller

-----------------------------------------------------------------------------
(* Deleted chats are on the list. *)

LEMMA SqlFailsForGood == ASSUME SyncShape, [Next]_vars PROVE /\ SqlFailed => SqlFailed'
                                                             /\ Fail => SqlFailed'
<1>1. budget \in Budgets /\ SqlFaults \in Nat
  BY SyncAssumption DEF SyncShape, FlagsOK
<1>2. budget'.sql = budget.sql \/ (budget'.sql = budget.sql - 1)
  BY <1>1 DEF Budgets, Fail, Next, Controller, Contacts, LoadDeleted, Begin, FetchFails, LastPage, PassFails,
        ChatLive, ChatClear, ChatGone, ChatGoneRows, MsgGone, MsgRead, MsgWrite, SaveToken, EndZone, PassEnds,
        ListErase, Erase, List, Create, Finish, NextPass, MakeRoom, Change, UserDeletes, Restart, vars, outside
<1>3. Fail => budget'.sql = budget.sql - 1
  BY <1>1 DEF Fail, Budgets
<1> QED BY <1>1, <1>2, <1>3 DEF SqlFailed, Budgets

LEMMA SyncStepListed == ASSUME OwnAliases, SyncShape, PlaceInv, ListedInv, [Next]_vars PROVE ListedInv'
<1> DEFINE Before == {"contacts", "load", "stopped"}
<1>0. /\ chat \in ChatTables /\ recent \in [Portals -> {"no", "user", "tomb"}] /\ todo \subseteq Portals
      /\ \A c \in ChatIds : chat[c].portal = ChatPortal[c]
      /\ pc \notin Before =>
           \A p \in Portals : FullyDeleted(chat, p) => recent[p] # "no" \/ SqlFailed \/ PageOf(p)
      /\ pc = "erasing" => \A p \in todo : recent[p] # "no"
      /\ pc = "create" => \A p \in todo : FullyDeleted(chat, p) => recent[p] = "user" \/ SqlFailed
  BY DEF SyncShape, TablesOK, FlagsOK, ListedInv
<1>1. SqlFailed => SqlFailed'
  BY SqlFailsForGood
(* The chat rows of a portal p that is on the list afterwards are deleted, or none. *)
<1>2. ASSUME \/ UNCHANGED <<pc, row>>
             \/ pc' \notin {"erasing", "create", "chatRows"} /\ pc # "chatRows",
             pc' \in Before \/ pc \notin Before,
             UNCHANGED chat, todo' \subseteq todo, UNCHANGED recent
      PROVE  ListedInv'
  BY <1>0, <1>1, <1>2 DEF ListedInv, PageOf
<1>3. CASE FetchFails \/ LastPage \/ PassFails \/ MsgGone \/ MsgRead \/ MsgWrite \/ SaveToken \/ EndZone \/ PassEnds
  BY <1>2, <1>3 DEF FetchFails, LastPage, PassFails, MsgGone, MsgRead, MsgWrite, SaveToken, EndZone, PassEnds,
       durable, pass, outside, EndOf, Zones, Zone
<1>4. CASE Contacts \/ Create \/ Finish \/ NextPass
  <2>1. Create => todo' \subseteq todo
    BY DEF Create
  <2> QED BY <1>2, <1>4, <2>1 DEF Contacts, Create, Finish, NextPass, durable, pass, outside
<1>17. CASE MakeRoom \/ Change \/ UNCHANGED vars
  <2>1. UNCHANGED <<pc, row>> /\ UNCHANGED chat /\ todo' \subseteq todo /\ UNCHANGED recent
    BY <1>17 DEF MakeRoom, Change, durable, pass, outside, Server, vars
  <2>2. pc' \in Before \/ pc \notin Before
    BY <2>1
  <2> QED BY <1>0, <1>1, <2>1, <2>2 DEF ListedInv, PageOf
<1>5. CASE LoadDeleted
  <2>1. /\ pc' = "begin" /\ chat' = chat
        /\ \A p \in Portals : FullyDeleted(chat, p) => recent'[p] = "tomb"
    BY <1>0, <1>5 DEF LoadDeleted, durable
  <2> QED BY <1>0, <2>1 DEF ListedInv
<1>6. CASE Begin
  <2>1. pc = "begin" /\ pc' = "chats" /\ recent' = recent /\ (chat' = chat \/ chat' = NoChats)
    BY <1>6 DEF Begin
  <2>2. /\ \A c \in ChatIds : NoChats[c].portal = ChatPortal[c]
        /\ \A p : ~FullyDeleted(NoChats, p)
    BY DEF NoChats, FullyDeleted, ExplicitlyDeleted, ChatsOf
  <2> QED BY <1>0, <1>1, <2>1, <2>2 DEF ListedInv, PageOf
<1>7. CASE ChatLive
  <2>1. pc = "chats" /\ pc' = "chatClear" /\ recent' = recent /\ Record.id \in ChatIds
        /\ chat' = UpsertChat(chat, Record.id, 0)
    BY <1>7, PositionIsNext DEF ChatLive, Zones
  <2>2. /\ \A c \in ChatIds : chat'[c].portal = ChatPortal[c]
        /\ \A p \in Portals : FullyDeleted(chat', p) => FullyDeleted(chat, p)
    BY <1>0, <2>1, ChatWritten
  <2> QED BY <1>0, <1>1, <2>1, <2>2 DEF ListedInv, PageOf
<1>8. CASE ChatClear
  <2> DEFINE p == ChatPortal[row.id]
  <2>1. p \in Portals /\ pc = "chatClear" /\ pc' = "chatToken"
    BY <1>8, StoreAssumption DEF ChatClear, PlaceInv, ChatPages
  <2>2. CASE UNCHANGED <<recent, chat>>
    BY <1>0, <1>1, <2>1, <2>2 DEF ListedInv, PageOf
  <2>3. CASE chat' = chat /\ Fail
    <3>1. SqlFailed'
      BY <2>3, SqlFailsForGood
    <3> QED BY <1>0, <2>1, <2>3, <3>1 DEF ListedInv
  <2>4. CASE recent' = [recent EXCEPT ![p] = "no"] /\ chat' = UndeleteChat(chat, p, 0)
    <3>1. /\ \A c \in ChatIds : chat'[c].portal = ChatPortal[c]
          /\ \A q \in Portals : FullyDeleted(chat', q) => q # p /\ FullyDeleted(chat, q)
      BY <1>0, <2>1, <2>4, ChatsUndeleted
    <3> HIDE DEF p
    <3>2. \A q \in Portals : q # p => recent'[q] = recent[q]
      BY <1>0, <2>4
    <3> QED BY <1>0, <1>1, <2>1, <3>1, <3>2 DEF ListedInv, PageOf
  <2> QED BY <1>8, <2>2, <2>3, <2>4 DEF ChatClear
<1>9. CASE ChatGone
  <2>1. /\ pc = "chats" /\ pc' = "chatRows" /\ recent' = recent /\ Record.id \in ChatIds
        /\ row'.id = Record.id /\ chat' = DeleteRows(chat, {Record.id}, 0)
    BY <1>9, PositionIsNext DEF ChatGone, TombstoneRecord, Zones
  <2>2. {Record.id} \in SUBSET ChatIds
    BY <2>1
  <2>3. /\ \A d \in ChatIds : chat'[d].portal = ChatPortal[d] /\ (chat'[d].state = "none" <=> chat[d].state = "none")
        /\ \A p \in Portals : p # ChatPortal[Record.id] \/ chat[Record.id].state = "none" =>
             (FullyDeleted(chat', p) => FullyDeleted(chat, p))
    BY <1>0, <2>1, <2>2, ChatRowsDeleted
  <2> QED BY <1>0, <1>1, <2>1, <2>3 DEF ListedInv, PageOf
(* The rows of portal p are deleted and p is on the list. *)
<1>10. ASSUME NEW p \in Portals, chat' = DeleteChatsOf(chat, p, 0), recent'[p] # "no",
              \A q \in Portals \ {p} : recent'[q] = recent[q],
              pc' \notin Before => pc \notin Before,
              pc' = "erasing" => pc = "erasing" /\ todo' \subseteq todo,
              pc' = "create" => pc = "create" /\ todo' = todo /\ recent'[p] = "user",
              pc = "chatRows" => (pc' = "chatToken" /\ PageOf(p)) \/ UNCHANGED <<pc, row>>
       PROVE  ListedInv'
  <2>1. /\ \A d \in ChatIds : chat'[d].portal = ChatPortal[d] /\ (chat'[d].state = "none" <=> chat[d].state = "none")
        /\ \A q \in Portals \ {p} : FullyDeleted(chat', q) => FullyDeleted(chat, q)
    BY <1>0, <1>10, ChatsDeleted
  <2>2. pc = "chatRows" => row.id \in ChatIds
    BY DEF PlaceInv, ChatPages
  <2> QED BY <1>0, <1>1, <1>10, <2>1, <2>2 DEF ListedInv, PageOf
<1>11. CASE ChatGoneRows
  <2>1. pc = "chatRows" /\ pc' = "chatToken" /\ row.id \in ChatIds
    BY <1>11 DEF ChatGoneRows, PlaceInv, ChatPages
  <2>2. CASE chat[row.id].state = "none" /\ UNCHANGED <<chat, recent>>
    BY <1>0, <1>1, <2>1, <2>2 DEF ListedInv, PageOf
  <2>3. CASE Fail /\ UNCHANGED chat
    <3>1. SqlFailed'
      BY <2>3, SqlFailsForGood
    <3> QED BY <1>0, <2>1, <2>3, <3>1 DEF ListedInv
  <2>4. CASE \E p \in PortalsOfRecord(chat, row.id) :
               chat' = DeleteChatsOf(chat, p, 0) /\ recent' = [recent EXCEPT ![p] = "tomb"]
    <3>1. PICK p \in PortalsOfRecord(chat, row.id) :
            chat' = DeleteChatsOf(chat, p, 0) /\ recent' = [recent EXCEPT ![p] = "tomb"]
      BY <2>4
    <3>2. p \in Portals /\ PageOf(p)
      BY <1>0, <2>1, <3>1, StoreAssumption DEF PortalsOfRecord, PageOf
    <3>3. recent'[p] = "tomb" /\ \A q \in Portals \ {p} : recent'[q] = recent[q]
      BY <1>0, <3>1, <3>2
    <3>4. recent'[p] # "no" /\ pc # "create"
      BY <2>1, <3>3
    <3> QED BY <1>10, <2>1, <3>1, <3>2, <3>3, <3>4
  <2> QED BY <1>11, <2>2, <2>3, <2>4 DEF ChatGoneRows
<1>12. CASE ListErase
  BY <1>0, <1>1, <1>12 DEF ListErase, ListedInv, PageOf, durable
<1>13. CASE Erase
  <2>1. /\ pc = "erasing" /\ UNCHANGED <<pc, recent>>
        /\ \E p \in todo : /\ todo' = todo \ {p}
                           /\ chat' = DeleteChatsOf(chat, p, 0) \/ UNCHANGED chat
    BY <1>13 DEF Erase
  <2>2. PICK p \in todo : todo' = todo \ {p} /\ (chat' = DeleteChatsOf(chat, p, 0) \/ UNCHANGED chat)
    BY <2>1
  <2> QED BY <1>0, <1>1, <1>10, <2>1, <2>2 DEF ListedInv, PageOf
<1>14. CASE List
  BY <1>0, <1>1, <1>14 DEF List, Listed, ListedInv, PageOf, durable
<1>15. CASE UserDeletes
  <2>1. PICK p \in Portals : /\ recent' = [recent EXCEPT ![p] = "user"]
                             /\ chat' = DeleteChatsOf(chat, p, 0) \/ UNCHANGED chat
    BY <1>15 DEF UserDeletes
  <2>2. UNCHANGED <<pc, row, todo>> /\ recent'[p] = "user" /\ \A q \in Portals \ {p} : recent'[q] = recent[q]
    BY <1>0, <1>15, <2>1 DEF UserDeletes, pass
  <2>3. CASE chat' = chat
    BY <1>0, <1>1, <2>2, <2>3 DEF ListedInv, PageOf
  <2>4. recent'[p] # "no"
    BY <2>2
  <2> QED BY <1>10, <2>1, <2>2, <2>3, <2>4
<1>16. CASE Restart
  BY <1>0, <1>16 DEF Restart, ListedInv, durable
<1> QED BY <1>3, <1>4, <1>17, <1>5, <1>6, <1>7, <1>8, <1>9, <1>11, <1>12, <1>13, <1>14, <1>15, <1>16 DEF Next, Controller

-----------------------------------------------------------------------------
(* The theorems. *)

LEMMA SyncStarts == Init => SyncInv
<1> SUFFICES ASSUME Init PROVE SyncInv
  OBVIOUS
<1>1. TablesOK /\ SwitchesOK
  BY EmptyTables DEF Init, TablesOK, SwitchesOK
<1>2. /\ feed["chats"] = FirstChats /\ feed["msgs"] = FirstMsgs /\ DOMAIN feed = Zones
      /\ Len(feed["chats"]) \in Nat /\ Len(feed["msgs"]) \in Nat
  BY SyncAssumption DEF Init, Zones
<1>3. TokensOK
  BY <1>2, SyncAssumption DEF Init, TokensOK, Zones, NoRow
<1>4. budget \in Budgets
  BY SyncAssumption DEF Init, Budgets
<1>5. FlagsOK
  BY <1>4, SyncAssumption DEF Init, FlagsOK, Controls
<1>6. PlaceInv
  BY DEF Init, PlaceInv, InChats, InMsgs, ChatPages, MsgPages
<1>7. ReadInv
  BY <1>2 DEF Init, ReadInv, Behind, InMsgs, Zones, NoRow
<1>8. ListedInv
  BY DEF Init, ListedInv, NoChats
<1> QED BY <1>1, <1>3, <1>5, <1>6, <1>7, <1>8 DEF SyncInv, SyncShape

(* The sync controller keeps the shape of its state, knows where it is in the    *)
(* feeds, and everything behind its tokens is in the store                       *)
(* (sync_controller.go, runCloudSyncController).                                 *)
THEOREM SyncSafe == Spec => [](SyncShape /\ PlaceInv /\ ReadInv)
<1> DEFINE I == SyncShape /\ PlaceInv /\ ReadInv
<1>1. Init => I
  BY SyncStarts DEF SyncInv
<1>2. I /\ [Next]_vars => I'
  <2> SUFFICES ASSUME I, [Next]_vars PROVE I'
    OBVIOUS
  <2>1. SyncShape'
    BY SyncStepTables, SyncStepFlags, SyncStepSwitches, SyncStepPlace DEF SyncShape
  <2> QED BY <2>1, SyncStepPlace, SyncStepRead
<1> QED BY <1>1, <1>2, PTL DEF Spec

(* TypeOK: rows are rows of the schema, a saved token is a place of its feed,    *)
(* and the token in memory is behind the record being written, for any feeds     *)
(* and any number of failures.                                                   *)
THEOREM SyncTypes == Spec => []TypeOK
<1>1. SyncShape /\ PlaceInv => TypeOK
  <2> SUFFICES ASSUME SyncShape, PlaceInv PROVE TypeOK
    OBVIOUS
  <2>1. \A z \in Zones : Len(feed[z]) \in Nat /\ token[z] \in Int /\ -1 <= token[z] /\ token[z] <= Len(feed[z])
    BY DEF SyncShape, TokensOK, Zones
  <2>2. \A z \in Zones : token[z] \in {NoRow} \cup 1 .. Len(feed[z]) \cup {0}
    BY <2>1 DEF NoRow
  <2>3. row.id # NoPortal => cur < row.at
    BY DEF PlaceInv, NoRecord
  <2> QED BY <2>2, <2>3 DEF TypeOK, SyncShape, TablesOK, FlagsOK, SwitchesOK, ChatTables, MsgTables
<1> QED BY <1>1, SyncSafe, PTL

(* MessagesKept: no crash and no failure between the rows of a page and its      *)
(* token loses a live message behind the token                                   *)
(* (sync_controller.go, syncCloudMessages, runCloudKitBackfill).                 *)
THEOREM NoMessageLost == Spec => []MessagesKept
<1>1. ReadInv => MessagesKept
  BY DEF ReadInv, Behind, MessagesKept
<1> QED BY <1>1, SyncSafe, PTL

(* Every portal that is deleted is on the list of deleted portals, or a          *)
(* statement of the store failed (ingestCloudChats, handleChatDelete).           *)
THEOREM DeletedAreListed == ASSUME OwnAliases PROVE Spec => [](SyncShape /\ PlaceInv /\ ListedInv)
<1> DEFINE I == SyncShape /\ PlaceInv /\ ListedInv
<1>1. Init => I
  BY SyncStarts DEF SyncInv
<1>2. I /\ [Next]_vars => I'
  <2> SUFFICES ASSUME I, [Next]_vars PROVE I'
    OBVIOUS
  <2>1. SyncShape'
    BY SyncStepTables, SyncStepFlags, SyncStepSwitches, SyncStepPlace DEF SyncShape
  <2> QED BY <2>1, SyncStepPlace, SyncStepListed
<1> QED BY <1>1, <1>2, PTL DEF Spec

(* NoRoomForDeleted: createPortalsFromCloudSync never asks for the room of a     *)
(* chat that is deleted, outside the window of its second loop.                  *)
THEOREM DeletedStayWithoutRoom == ASSUME OwnAliases PROVE Spec => NoRoomForDeleted
<1> DEFINE A == \A p \in asked' \ asked :
                  FullyDeleted(chat, p) => recent[p] = "user" \/ budget.sql < SqlFaults
<1>1. SyncShape /\ ListedInv /\ [Next]_vars => [A]_vars
  <2> SUFFICES ASSUME SyncShape, ListedInv, [Next]_vars PROVE A
    OBVIOUS
  <2>1. CASE Create
    BY <2>1 DEF Create, ListedInv, SqlFailed, SyncShape, FlagsOK
  <2>2. ASSUME asked' \subseteq asked PROVE A
    BY <2>2
  <2> HIDE DEF A
  <2>3. CASE MakeRoom \/ Restart \/ UserDeletes \/ ChatGoneRows
    BY <2>2, <2>3 DEF MakeRoom, Restart, UserDeletes, ChatGoneRows, DeleteRoom
  <2>4. CASE UNCHANGED asked
    BY <2>2, <2>4
  <2> QED BY <2>1, <2>3, <2>4 DEF Next, Controller, Contacts, LoadDeleted, Begin, FetchFails, LastPage, PassFails,
        ChatLive, ChatClear, ChatGone, MsgGone, MsgRead, MsgWrite, SaveToken, EndZone, PassEnds,
        ListErase, Erase, List, Finish, NextPass, Change, vars, outside, Server
<1> QED BY <1>1, DeletedAreListed, PTL DEF Spec, NoRoomForDeleted

-----------------------------------------------------------------------------
(* PresenceKeys: the invariant. *)

(* The numbers are numbers, and a pass that is off has found nothing.       *)
Shape ==
    /\ zone \in 0..MaxZone /\ walkToken \in 0..zone
    /\ pulling \in [on : BOOLEAN, at : 0..zone, new : SUBSET held, recovery : BOOLEAN]
    /\ {gen, waiting} \subseteq Nat
    /\ meta \in [errs : Nat, established : BOOLEAN, pulled : BOOLEAN, drained : BOOLEAN,
                recovered : BOOLEAN]
    /\ ~pulling.on => pulling.new = {}

(* Where the walk is: the token is the place of the pass, but for a         *)
(* recovery walk that has not read a page.  What the recovery walk has      *)
(* passed it holds, and so does, once it is counted, all before the token.  *)
WalkInv ==
    /\ promised \subseteq decodable /\ decodable \subseteq ZoneKeys
    /\ pulling.on => walkToken = pulling.at \/ (pulling.recovery /\ pulling.at = 0)
    /\ pulling.on /\ pulling.recovery =>
         ~meta.recovered /\ \A i \in promised : i <= pulling.at => i \in held
    /\ meta.recovered => \A i \in promised : i <= walkToken => i \in held

KeysInv == Shape /\ WalkInv /\ KeysReached

-----------------------------------------------------------------------------
LEMMA InitKeys == ASSUME KeysInit PROVE KeysInv
BY PresenceAssumption DEF KeysInit, KeysInv, Shape, WalkInv, KeysReached, NoPass, NewMeta, ZoneKeys

(* A pass begins: nothing is known to be held yet when it is a recovery.    *)
LEMMA BeginKeeps ==
    ASSUME KeysInv, NEW force \in BOOLEAN, BeginPass(force),
           UNCHANGED <<ready, zone, decodable, meta, held, sub, missed>>
    PROVE  KeysInv'
<1>1. pulling' = [on |-> TRUE, at |-> IF Stranded THEN 0 ELSE walkToken, new |-> {}, recovery |-> Stranded]
  BY DEF BeginPass, NoPass
<1>2. /\ walkToken' = walkToken \/ (Stranded /\ walkToken' = 0)
      /\ promised' = IF Stranded THEN decodable ELSE promised
  BY DEF BeginPass
<1>3. Stranded => ~meta.recovered
  BY DEF Stranded
<1>4. Stranded \in BOOLEAN
  BY DEF Stranded
<1>5. Shape'
  <2>1. pulling' \in [on : BOOLEAN, at : 0..zone, new : SUBSET held, recovery : BOOLEAN]
    BY <1>1, <1>4, PresenceAssumption DEF KeysInv, Shape
  <2>2. pulling'.on
    BY <1>1
  <2> QED BY <1>2, <2>1, <2>2, PresenceAssumption DEF KeysInv, Shape, sub
<1>6. WalkInv'
  <2>1. CASE Stranded
    BY <1>1, <1>2, <1>3, <2>1, PresenceAssumption DEF KeysInv, Shape, WalkInv, ZoneKeys
  <2>2. CASE ~Stranded
    BY <1>1, <1>2, <2>2 DEF KeysInv, Shape, WalkInv, sub
  <2> QED BY <2>1, <2>2
<1>7. KeysReached'
  BY <1>1 DEF KeysInv, Shape, KeysReached, sub, BeginPass
<1> QED BY <1>5, <1>6, <1>7 DEF KeysInv

LEMMA PageKeeps == ASSUME KeysInv, Page PROVE KeysInv'
<1> DEFINE next == pulling.at + 1
           new == ({next} \cap decodable) \ held
<1>1. /\ held' = held \cup new /\ walkToken' = next /\ pulling.on /\ pulling.at < zone
      /\ UNCHANGED <<ready, zone, decodable, meta, sub, missed, promised>>
  BY DEF Page
<1>2. pulling' = [on |-> pulling.on, at |-> next, new |-> pulling.new \cup new, recovery |-> pulling.recovery]
  BY DEF Page, KeysInv, Shape
<1>3. next \in 0..zone
  BY <1>1, PresenceAssumption DEF KeysInv, Shape
<1>4. Shape'
  <2>1. pulling' \in [on : BOOLEAN, at : 0..zone, new : SUBSET held', recovery : BOOLEAN]
    BY <1>1, <1>2, <1>3 DEF KeysInv, Shape
  <2>2. pulling'.on
    BY <1>1, <1>2
  <2> QED BY <1>1, <1>3, <2>1, <2>2 DEF KeysInv, Shape, sub
<1>5. WalkInv'
  <2>1. ASSUME NEW i \in promised, i <= next, i <= pulling.at => i \in held PROVE i \in held'
    BY <1>1, <2>1, PresenceAssumption DEF KeysInv, Shape, WalkInv, ZoneKeys
  <2>2. CASE pulling.recovery
    BY <1>1, <1>2, <2>1, <2>2 DEF KeysInv, Shape, WalkInv
  <2>3. CASE ~pulling.recovery
    BY <1>1, <1>2, <2>1, <2>3 DEF KeysInv, Shape, WalkInv
  <2> QED BY <2>2, <2>3
<1>6. KeysReached'
  BY <1>1, <1>2 DEF KeysInv, KeysReached, sub
<1> QED BY <1>4, <1>5, <1>6 DEF KeysInv

(* A pass ends, or is cut short: a recovery walk that did not fail counts.  *)
LEMMA EndKeeps ==
    ASSUME KeysInv, EndPass \/ \E err \in BOOLEAN : CutShort(err)
    PROVE  KeysInv'
<1>1. /\ pulling.on /\ pulling' = NoPass
      /\ UNCHANGED <<ready, zone, decodable, walkToken, held, promised, subscribed, timers, gen, running>>
  BY DEF EndPass, CutShort, sub
<1>2. \/ meta'.recovered = meta.recovered
      \/ meta'.recovered /\ pulling.recovery /\ (pulling.at > 0 \/ pulling.at = zone)
  <2>1. CASE EndPass
    BY <2>1 DEF EndPass, MetaAfter, Recovered, KeysInv, Shape
  <2>2. ASSUME CutShort(FALSE) PROVE meta'.recovered = Recovered(FALSE) /\ pulling.at > 0
    BY <2>2 DEF CutShort, MetaAfter
  <2>3. ASSUME CutShort(TRUE) PROVE meta'.recovered = meta.recovered
    BY <2>3 DEF CutShort, MetaAfter, Recovered, KeysInv, Shape
  <2> QED BY <2>1, <2>2, <2>3 DEF Recovered, KeysInv, Shape
<1>3. Shape'
  <2>1. \A err, complete \in BOOLEAN :
          MetaAfter(err, complete) \in [errs : Nat, established : BOOLEAN, pulled : BOOLEAN,
                                       drained : BOOLEAN, recovered : BOOLEAN]
    <3> SUFFICES ASSUME NEW err \in BOOLEAN, NEW complete \in BOOLEAN
                 PROVE  MetaAfter(err, complete) \in
                          [errs : Nat, established : BOOLEAN, pulled : BOOLEAN,
                           drained : BOOLEAN, recovered : BOOLEAN]
      OBVIOUS
    <3>1. Recovered(err) \in BOOLEAN /\ (meta.established \/ pulling.new # {}) \in BOOLEAN
          /\ (pulling.new # {}) \in BOOLEAN
      BY DEF Recovered, KeysInv, Shape
    <3>2. meta.errs \in Nat /\ (IF meta.errs < 4 THEN meta.errs + 1 ELSE meta.errs) \in Nat
      BY DEF KeysInv, Shape
    <3>3. CASE err
      BY <3>1, <3>2, <3>3 DEF MetaAfter, KeysInv, Shape
    <3>4. CASE ~err
      BY <3>1, <3>4 DEF MetaAfter
    <3> QED BY <3>3, <3>4
  <2>2. meta' \in [errs : Nat, established : BOOLEAN, pulled : BOOLEAN, drained : BOOLEAN,
                   recovered : BOOLEAN]
    BY <2>1 DEF EndPass, CutShort
  <2>3. waiting' = waiting \/ waiting' = waiting + 1
    BY DEF EndPass, CutShort, sub
  <2>4. pulling' \in [on : BOOLEAN, at : 0..zone, new : SUBSET held, recovery : BOOLEAN] /\ pulling'.new = {}
    BY <1>1, PresenceAssumption DEF NoPass, KeysInv, Shape
  <2> QED BY <1>1, <2>2, <2>3, <2>4 DEF KeysInv, Shape
<1>4. WalkInv'
  BY <1>1, <1>2 DEF KeysInv, Shape, WalkInv, NoPass
<1>5. KeysReached'
  <2>1. CASE EndPass
    BY <1>1, <2>1 DEF EndPass, KeysInv, Shape, KeysReached, NoPass
  <2>2. ASSUME NEW err \in BOOLEAN, CutShort(err) PROVE KeysReached'
    BY <1>1, <2>2 DEF CutShort, KeysInv, Shape, KeysReached, NoPass, sub
  <2> QED BY <2>1, <2>2
<1> QED BY <1>3, <1>4, <1>5 DEF KeysInv

(* Keys that come live, and the calls that subscribe to them.               *)
LEMMA SubscribeKeeps ==
    ASSUME KeysInv,
           \/ \E k \in Live : OnKeysReceived(k)
           \/ \E g \in 1..gen : TimerFires(g)
           \/ Subscribe \/ Subscribed \/ SubscribeFails
    PROVE  KeysInv'
<1>1. /\ UNCHANGED <<ready, zone, decodable, walkToken, meta, pulling, promised>>
      /\ held \subseteq held'
  BY DEF OnKeysReceived, TimerFires, Subscribe, Subscribed, SubscribeFails, walk
<1>2. Shape'
  <2>1. {gen', waiting'} \subseteq Nat
    BY DEF OnKeysReceived, TimerFires, Subscribe, Subscribed, SubscribeFails, sub, KeysInv, Shape
  <2> QED BY <1>1, <2>1 DEF KeysInv, Shape
<1>3. WalkInv'
  BY <1>1 DEF KeysInv, WalkInv
<1>4. KeysReached'
  <2>1. ASSUME NEW k \in Live, OnKeysReceived(k) PROVE KeysReached'
    <3>1. timers' = timers \cup {gen + 1} /\ gen' = gen + 1
      BY <2>1 DEF OnKeysReceived, Arm
    <3> QED BY <3>1 DEF KeysReached
  <2>2. ASSUME NEW g \in 1..gen, TimerFires(g) PROVE KeysReached'
    BY <1>1, <2>2 DEF TimerFires, KeysInv, Shape, KeysReached
  <2>3. CASE Subscribe
    BY <1>1, <2>3 DEF Subscribe, KeysReached
  <2>4. CASE Subscribed
    BY <1>1, <2>4 DEF Subscribed, NotRunning, KeysInv, KeysReached
  <2>5. CASE SubscribeFails
    BY <1>1, <2>5 DEF SubscribeFails, NotRunning, KeysInv, KeysReached
  <2> QED BY <2>1, <2>2, <2>3, <2>4, <2>5
<1> QED BY <1>2, <1>3, <1>4 DEF KeysInv

LEMMA OutsideKeeps ==
    ASSUME KeysInv,
           Tick \/ Invite \/ (\E i \in ZoneKeys : ChannelArrives(i)) \/ Start \/ RestartKeys \/ UNCHANGED keysVars
    PROVE  KeysInv'
<1>1. CASE Tick \/ UNCHANGED keysVars
  BY <1>1 DEF Tick, keysVars, walk, sub, KeysInv, Shape, WalkInv, KeysReached
<1>2. CASE Invite
  <2>1. zone' = zone + 1 /\ zone' \in 0..MaxZone /\ zone + 1 \in ZoneKeys /\ decodable \subseteq decodable'
        /\ decodable' \subseteq decodable \cup {zone + 1}
    BY <1>2, PresenceAssumption DEF Invite, KeysInv, Shape, ZoneKeys
  <2>2. UNCHANGED <<ready, walkToken, meta, pulling, held, sub, missed, promised>>
    BY <1>2 DEF Invite
  <2>3. Shape'
    BY <2>1, <2>2, PresenceAssumption DEF KeysInv, Shape, sub
  <2> QED BY <2>1, <2>2, <2>3 DEF KeysInv, WalkInv, KeysReached, sub
<1>3. ASSUME NEW i \in ZoneKeys, ChannelArrives(i) PROVE KeysInv'
  BY <1>3 DEF ChannelArrives, sub, KeysInv, Shape, WalkInv, KeysReached
<1>4. CASE Start
  BY <1>4 DEF Start, walk, KeysInv, Shape, WalkInv, KeysReached
<1>5. CASE RestartKeys
  <2>1. pulling' = NoPass /\ ready' = FALSE /\ gen' = 0 /\ waiting' = 0
        /\ UNCHANGED <<zone, decodable, walkToken, meta, held, promised>>
    BY <1>5 DEF RestartKeys
  <2>2. pulling' \in [on : BOOLEAN, at : 0..zone, new : SUBSET held, recovery : BOOLEAN]
        /\ pulling'.new = {} /\ ~pulling'.on
    BY <2>1, PresenceAssumption DEF NoPass, KeysInv, Shape
  <2> QED BY <2>1, <2>2 DEF KeysInv, Shape, WalkInv, KeysReached
<1> QED BY <1>1, <1>2, <1>3, <1>4, <1>5

(* The inductive invariant: the place of the walk, and who still owes which  *)
(* key its subscription.                                                     *)
THEOREM KeysSafe == KeysSpec => []KeysInv
<1>1. KeysInit => KeysInv
  BY InitKeys
<1>2. KeysInv /\ [KeysNext]_keysVars => KeysInv'
  <2> SUFFICES ASSUME KeysInv, [KeysNext]_keysVars PROVE KeysInv'
    OBVIOUS
  <2>1. CASE PeriodicPull
    BY <2>1, BeginKeeps DEF PeriodicPull
  <2>2. CASE DecryptFails
    BY <2>2, BeginKeeps DEF DecryptFails
  <2> QED BY <2>1, <2>2, PageKeeps, EndKeeps, SubscribeKeeps, OutsideKeeps DEF KeysNext
<1> QED BY <1>1, <1>2, PTL DEF KeysSpec

(* Every key the bridge holds is subscribed to, or the call that will do it  *)
(* is on its way, or it is known why not (schedulePresenceSubscribe).        *)
THEOREM Reached == KeysSpec => []KeysReached
<1>1. KeysInv => KeysReached
  BY DEF KeysInv
<1> QED BY <1>1, KeysSafe, PTL

(* A recovery walk that counts has read what it set out to read, however     *)
(* often it was cut short, restarted or failed (syncCloudStatusKitPeersForce).*)
THEOREM Recovery == KeysSpec => []NoneStranded
<1>1. KeysInv => NoneStranded
  BY DEF KeysInv, WalkInv, NoneStranded
<1> QED BY <1>1, KeysSafe, PTL
=============================================================================
