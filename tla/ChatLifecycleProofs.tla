------------------------ MODULE ChatLifecycleProofs ------------------------
(***************************************************************************)
(* A deleted chat is not brought back by what is older than its deletion,  *)
(* and a restored one is shown in full, for every number of chats,         *)
(* messages, users' acts and restarts.                                     *)
(***************************************************************************)
EXTENDS ChatLifecycle, FiniteSetTheorems, SequenceTheorems, WellFoundedInduction, TLAPS

(* A conversation that iCloud has no record of leaves no row behind: the next *)
(* process does not know of its deletion.                                     *)
Recorded == \A p \in Portals : Own(p) # {}

-----------------------------------------------------------------------------
(* The newest of finitely many times. *)

LEMMA LeastOf == ASSUME NEW T, T \subseteq Nat, T # {} PROVE \E x \in T : \A y \in T : x <= y
<1> DEFINE R == {ss \in Nat \X Nat : ss[1] < ss[2]}
<1>1. IsWellFoundedOn(R, Nat)
  BY NatLessThanWellFounded DEF OpToRel
<1>2. \A x, y \in Nat : x < y => <<x, y>> \in R
  OBVIOUS
<1> HIDE DEF R
<1>3. PICK x \in T : \A y \in T : <<y, x>> \notin R
  BY <1>1, WFMin
<1>4. ASSUME NEW y \in T PROVE x <= y
  <2>1. x \in Nat /\ y \in Nat /\ ~(y < x)
    BY <1>2, <1>3
  <2> QED BY <2>1
<1> QED BY <1>4

(* Were there none, taking the sets without one, one with fewest elements has *)
(* an element more than a set that has one.                                   *)
LEMMA NewestOf == ASSUME NEW S, S \subseteq Nat, IsFiniteSet(S), S # {}
                  PROVE  \E x \in S : \A y \in S : y <= x
<1> DEFINE Has(T) == \E x \in T : \A y \in T : y <= x
           Sizes == {k \in Nat : \E T \in SUBSET S : T # {} /\ Cardinality(T) = k /\ ~Has(T)}
<1>1. ASSUME Sizes # {} PROVE FALSE
  <2>1. Sizes \subseteq Nat
    OBVIOUS
  <2>2. PICK k \in Sizes : \A n \in Sizes : k <= n
    <3> HIDE DEF Sizes
    <3> QED BY <1>1, <2>1, LeastOf
  <2>3. PICK T \in SUBSET S : T # {} /\ Cardinality(T) = k /\ ~Has(T)
    OBVIOUS
  <2>4. IsFiniteSet(T)
    BY FS_Subset
  <2>5. PICK x \in T : TRUE
    BY <2>3
  <2>6. T \ {x} \in SUBSET S /\ Cardinality(T \ {x}) = k - 1 /\ k \in Nat /\ Cardinality(T \ {x}) \in Nat
    <3>1. Cardinality(T \ {x}) = Cardinality(T) - 1 /\ IsFiniteSet(T \ {x})
      BY <2>4, <2>5, FS_RemoveElement
    <3>2. Cardinality(T \ {x}) \in Nat
      BY <3>1, FS_CardinalityType
    <3> QED BY <2>1, <2>3, <3>1, <3>2
  <2>7. T \ {x} # {}
    <3>1. CASE T = {x}
      BY <2>3, <3>1
    <3> QED BY <2>5, <3>1
  <2>8. Has(T \ {x})
    <3>1. CASE ~Has(T \ {x})
      <4>1. k - 1 \in Sizes
        BY <2>6, <2>7, <3>1
      <4> QED BY <2>2, <2>6, <4>1
    <3> QED BY <3>1
  <2>9. PICK n \in T \ {x} : \A y \in T \ {x} : y <= n
    BY <2>8
  <2>10. x \in Nat /\ n \in Nat
    BY <2>3, <2>5
  <2>11. CASE x <= n
    BY <2>3, <2>9, <2>11
  <2>12. CASE n < x
    <3>1. ASSUME NEW y \in T PROVE y <= x
      <4>1. y \in Nat /\ (y # x => y <= n)
        BY <2>9
      <4> QED BY <2>10, <2>12, <4>1
    <3> QED BY <2>3, <2>5, <3>1
  <2> QED BY <2>10, <2>11, <2>12
<1>2. S \in SUBSET S /\ Cardinality(S) \in Nat
  BY FS_CardinalityType
<1>3. CASE ~Has(S)
  <2>1. Cardinality(S) \in Sizes
    BY <1>2, <1>3
  <2> QED BY <1>1, <2>1
<1> QED BY <1>3

LEMMA ImageFinite == ASSUME NEW S, IsFiniteSet(S), NEW h, S \subseteq DOMAIN h
                     PROVE  IsFiniteSet({h[x] : x \in S})
<1> DEFINE T == {h[x] : x \in S}
           r == [x \in S |-> h[x]]
<1>1. r \in Surjection(S, T)
  BY DEF Surjection
<1> QED BY <1>1, FS_Surjection

(* DeletedTail is one of its times, and none is newer. *)
LEMMA NewestDeleted ==
  ASSUME NEW f \in [ChatIds -> ChatRow], NEW g, NEW p
  PROVE  LET times == {0} \cup {Stamp[m] : m \in MsgsOf(g, p, {"deleted"})}
                          \cup {f[c].ts : c \in ChatsOf(f, p, {"live", "deleted"})}
         IN  DeletedTail(f, g, p) \in times /\ times \subseteq Nat /\ \A t \in times : t <= DeletedTail(f, g, p)
<1> DEFINE A == {Stamp[m] : m \in MsgsOf(g, p, {"deleted"})}
           B == {f[c].ts : c \in ChatsOf(f, p, {"live", "deleted"})}
           times == {0} \cup A \cup B
<1>1. A \subseteq Nat /\ IsFiniteSet(A)
  <2>1. MsgsOf(g, p, {"deleted"}) \subseteq Guids
    BY DEF MsgsOf
  <2>2. IsFiniteSet(MsgsOf(g, p, {"deleted"}))
    BY <2>1, FS_Subset, LifecycleAssumption
  <2>3. IsFiniteSet(A)
    BY <2>1, <2>2, ImageFinite, StoreAssumption
  <2> QED BY <2>1, <2>3, StoreAssumption
<1>2. B \subseteq Nat /\ IsFiniteSet(B)
  <2>1. ChatsOf(f, p, {"live", "deleted"}) \subseteq ChatIds
    BY DEF ChatsOf
  <2>2. IsFiniteSet(ChatsOf(f, p, {"live", "deleted"}))
    BY <2>1, FS_Subset, LifecycleAssumption
  <2>3. \A c \in ChatIds : f[c].ts \in Nat
    BY DEF ChatRow
  <2> DEFINE h == [c \in ChatIds |-> f[c].ts]
  <2>4. B = {h[c] : c \in ChatsOf(f, p, {"live", "deleted"})}
    BY <2>1
  <2>5. IsFiniteSet({h[c] : c \in ChatsOf(f, p, {"live", "deleted"})})
    BY <2>1, <2>2, ImageFinite
  <2> QED BY <2>1, <2>3, <2>4, <2>5
<1>3. times \subseteq Nat /\ times # {} /\ IsFiniteSet(times)
  <2>1. IsFiniteSet({0})
    BY FS_Singleton
  <2>2. IsFiniteSet({0} \cup A)
    BY <1>1, <2>1, FS_Union
  <2>3. IsFiniteSet(times)
    BY <1>2, <2>2, FS_Union
  <2> QED BY <1>1, <1>2, <2>3
<1>4. DeletedTail(f, g, p) = CHOOSE t \in times : \A u \in times : u <= t
  BY DEF DeletedTail
<1> HIDE DEF times
<1>5. PICK t \in times : \A u \in times : u <= t
  BY <1>3, NewestOf
<1>6. DeletedTail(f, g, p) \in times /\ \A u \in times : u <= DeletedTail(f, g, p)
  BY <1>4, <1>5
<1> QED BY <1>3, <1>6 DEF times

-----------------------------------------------------------------------------
(* The inductive invariant. *)

Queued == [type: {"msg", "resync", "delete", "remove"}, msg: Guids \cup {AnyMsg}, create: BOOLEAN]
Pipe == [at: Stages, onApple: BOOLEAN, tries: Nat, got: SUBSET Guids]

\* A row never moves to another portal, and every record has one.
ChatTable(f) ==
  f \in [ChatIds -> ChatRow] /\ \A c \in ChatIds : f[c].portal = ChatPortal[c] /\ f[c].state # "none"
MsgTable(g) == g \in [Guids -> MsgRow] /\ \A m \in Guids : g[m].portal \in {Home[m], NoPortal}
Notices == [type: {"delete", "recover"}, of: Portals] \cup [type: {"remove"}, of: Guids]
Around ==
  /\ now \in Nat /\ deletedAt \in [Portals -> Nat] /\ entry \in [Portals -> Entry]
  /\ events \in [Portals -> Seq(Queued)] /\ restore \in [Portals -> Pipe]
  /\ notices \subseteq Notices /\ \A p \in Portals : \A m \in restore[p].got : Home[m] = p
Shape == ChatTable(chat) /\ MsgTable(msg) /\ Around

\* A row from which the time of the deletion, or a later one, can be told.
Dated(p) ==
  \/ \E c \in Own(p) : chat[c].ts >= deletedAt[p]
  \/ \E m \in Guids : msg[m].portal = p /\ msg[m].state = "deleted" /\ Stamp[m] >= deletedAt[p]

\* A deletion that stands: no restore is at work, the list knows of it, and the
\* rows are deleted and tell how old it is.
Stands(p) ==
  /\ restore[p].at \in {"off", "undelete"} /\ p \notin override /\ entry[p].by # "no"
  /\ \A c \in Own(p) : chat[c].state = "deleted"
  /\ Dated(p) /\ Backfillable(msg, p) = {}

DeletionsStand == \A p \in Portals : deletedAt[p] # 0 => Stands(p)
DeletionInv == Shape /\ DeletionsStand

\* What is asked for in the step is not a zombie.
AskedFor(p) ==
  Len(events'[p]) > Len(events[p]) =>
    LET e == events'[p][Len(events'[p])]
    IN  e.create /\ deletedAt[p] # 0 =>
          \/ e.type = "msg" /\ Stamp[e.msg] > deletedAt[p]
          \/ e.type = "resync" /\ restore[p].at = "resync"

\* What a step leaves of a deletion that stood before.
Untouched(p) ==
  /\ deletedAt'[p] = deletedAt[p]
  /\ restore'[p].at \in {"off", "undelete"} /\ p \notin override' /\ entry'[p].by # "no"
  /\ \A c \in Own(p) : chat'[c].state = "deleted" /\ chat'[c].ts = chat[c].ts
  /\ \A m \in Guids : msg[m].portal = p /\ msg[m].state = "deleted" =>
                         msg'[m].portal = p /\ msg'[m].state = "deleted"
  /\ Backfillable(msg', p) = {}

LEMMA StandsStill ==
  ASSUME DeletionsStand, NEW p \in Portals, deletedAt[p] # 0 => deletedAt'[p] = 0 \/ Untouched(p),
         deletedAt[p] = 0 => deletedAt'[p] = 0
  PROVE  deletedAt'[p] # 0 => Stands(p)'
<1> SUFFICES ASSUME deletedAt'[p] # 0 PROVE Stands(p)'
  OBVIOUS
<1>1. deletedAt[p] # 0 /\ Stands(p) /\ Untouched(p)
  BY DEF DeletionsStand
<1>2. Dated(p)'
  <2>1. deletedAt'[p] = deletedAt[p]
    BY <1>1 DEF Untouched
  <2>2. CASE \E c \in Own(p) : chat[c].ts >= deletedAt[p]
    BY <1>1, <2>1, <2>2 DEF Untouched, Dated, Own
  <2>3. CASE \E m \in Guids : msg[m].portal = p /\ msg[m].state = "deleted" /\ Stamp[m] >= deletedAt[p]
    <3>1. PICK m \in Guids : msg[m].portal = p /\ msg[m].state = "deleted" /\ Stamp[m] >= deletedAt[p]
      BY <2>3
    <3>2. msg'[m].portal = p /\ msg'[m].state = "deleted" /\ Stamp[m] >= deletedAt'[p]
      BY <1>1, <2>1, <3>1 DEF Untouched
    <3> QED BY <3>2 DEF Dated
  <2> QED BY <1>1, <2>2, <2>3 DEF Stands, Dated
<1> QED BY <1>1, <1>2 DEF Stands, Untouched, Own

LEMMA SameQueues == ASSUME NEW p \in Portals, events' = events PROVE AskedFor(p)
BY DEF AskedFor

\* An event that makes no room, or one that may.
LEMMA Pushed ==
  ASSUME Shape, NEW p \in Portals, NEW q \in Portals, NEW e \in Queued, Push(q, e),
         p = q /\ e.create /\ deletedAt[p] # 0 =>
           \/ e.type = "msg" /\ Stamp[e.msg] > deletedAt[p]
           \/ e.type = "resync" /\ restore[p].at = "resync"
  PROVE  AskedFor(p) /\ events' \in [Portals -> Seq(Queued)]
<1>1. events' = [events EXCEPT ![q] = Append(events[q], e)] /\ events \in [Portals -> Seq(Queued)]
  BY DEF Push, Shape, Around
<1>2. events[q] \in Seq(Queued)
  BY <1>1
<1>3. /\ Append(events[q], e) \in Seq(Queued)
      /\ Append(events[q], e)[Len(Append(events[q], e))] = e
  BY <1>2
<1>4. events' \in [Portals -> Seq(Queued)]
  BY <1>1, <1>3
<1>5. CASE p = q
  <2>1. events'[p] = Append(events[q], e)
    BY <1>1, <1>5
  <2> QED BY <1>3, <1>4, <1>5, <2>1 DEF AskedFor
<1>6. CASE p # q
  BY <1>1, <1>4, <1>6 DEF AskedFor
<1> QED BY <1>5, <1>6
-----------------------------------------------------------------------------
(* The statements of the store keep its tables. *)

LEMMA ChatStatements ==
  ASSUME NEW f, ChatTable(f), NEW p \in Portals, NEW t \in Nat
  PROVE  /\ ChatTable(DeleteChatsOf(f, p, t)) /\ ChatTable(UndeleteChat(f, p, t))
         /\ ChatTable(ResetForward(f, p))
         /\ \A c \in Own(p) : ChatTable(SeedChat(f, c, p, t)) /\ InsertTombstone(f, c, t) = f
<1>1. \A c \in ChatIds : f[c] \in ChatRow /\ f[c].portal = ChatPortal[c] /\ f[c].state # "none"
  BY DEF ChatTable
<1>2. ChatTable(DeleteChatsOf(f, p, t))
  <2>1. \A c \in ChatIds : [f[c] EXCEPT !.state = "deleted", !.ts = t] \in ChatRow
    BY <1>1 DEF ChatRow, RowStates
  <2> QED BY <1>1, <2>1 DEF ChatTable, DeleteChatsOf, DeleteRows, ChatRow
<1>3. ChatTable(UndeleteChat(f, p, t))
  <2>1. \A c \in ChatIds : [f[c] EXCEPT !.state = "live", !.ts = t, !.fwd = FALSE] \in ChatRow
    BY <1>1 DEF ChatRow, RowStates
  <2> QED BY <1>1, <2>1 DEF ChatTable, UndeleteChat, ChatRow
<1>4. ChatTable(ResetForward(f, p))
  <2>1. \A c \in ChatIds : [f[c] EXCEPT !.fwd = FALSE] \in ChatRow
    BY <1>1 DEF ChatRow
  <2> QED BY <1>1, <2>1 DEF ChatTable, ResetForward, ChatRow
<1>5. ASSUME NEW c \in Own(p) PROVE ChatTable(SeedChat(f, c, p, t)) /\ InsertTombstone(f, c, t) = f
  <2>1. c \in ChatIds /\ ChatPortal[c] = p
    BY DEF Own
  <2>2. (f[c].state # "none" /\ f[c].fwd) \in BOOLEAN
    OBVIOUS
  <2> DEFINE r == [state |-> "live", portal |-> p, ts |-> t, fwd |-> f[c].state # "none" /\ f[c].fwd]
  <2>3. r \in ChatRow /\ r.portal = p /\ r.state = "live"
    BY <2>2 DEF ChatRow, RowStates
  <2>4. SeedChat(f, c, p, t) = [f EXCEPT ![c] = r]
    BY DEF SeedChat
  <2> HIDE DEF r
  <2> QED BY <1>1, <2>1, <2>3, <2>4 DEF ChatTable, InsertTombstone
<1> QED BY <1>2, <1>3, <1>4, <1>5

LEMMA MsgStatements ==
  ASSUME NEW g, MsgTable(g)
  PROVE  /\ \A S : MsgTable(EraseRows(g, S))
         /\ \A p \in Portals : MsgTable(UndeleteMsgs(g, p)) /\ MsgTable(ClearScrub(g, p))
         /\ \A m \in Guids : MsgTable(PersistUUID(g, m, Home[m]))
<1>1. \A m \in Guids : g[m] \in MsgRow /\ g[m].portal \in {Home[m], NoPortal}
  BY DEF MsgTable
<1>2. ASSUME NEW S PROVE MsgTable(EraseRows(g, S))
  <2>1. \A m \in Guids : /\ [g[m] EXCEPT !.state = "deleted", !.body = "scrubbed"] \in MsgRow
                         /\ [g[m] EXCEPT !.state = "deleted", !.body = "scrubbed"].portal = g[m].portal
    BY <1>1 DEF MsgRow, RowStates
  <2> QED BY <1>1, <2>1 DEF MsgTable, EraseRows
<1>3. ASSUME NEW p \in Portals PROVE MsgTable(UndeleteMsgs(g, p)) /\ MsgTable(ClearScrub(g, p))
  <2>1. \A m \in Guids : /\ [g[m] EXCEPT !.state = "live"] \in MsgRow
                         /\ [g[m] EXCEPT !.state = "live"].portal = g[m].portal
                         /\ [g[m] EXCEPT !.body = "none"] \in MsgRow
                         /\ [g[m] EXCEPT !.body = "none"].portal = g[m].portal
    BY <1>1 DEF MsgRow, RowStates
  <2> QED BY <1>1, <2>1 DEF MsgTable, UndeleteMsgs, ClearScrub
<1>4. ASSUME NEW m \in Guids PROVE MsgTable(PersistUUID(g, m, Home[m]))
  <2>1. Home[m] \in Portals
    BY LifecycleAssumption
  <2> DEFINE r == [state |-> "live", portal |-> Home[m], cloud |-> FALSE, body |-> "none"]
  <2>2. r \in MsgRow /\ r.portal = Home[m]
    BY <2>1 DEF MsgRow, RowStates
  <2>3. PersistUUID(g, m, Home[m]) \in {g, [g EXCEPT ![m] = r]}
    BY DEF PersistUUID
  <2> HIDE DEF r
  <2> QED BY <1>1, <2>2, <2>3 DEF MsgTable
<1> QED BY <1>2, <1>3, <1>4

-----------------------------------------------------------------------------
LEMMA InitDeletion == ASSUME Recorded, Init PROVE DeletionInv
<1>1. PICK deleted \in BOOLEAN, recovered \in BOOLEAN, bridged \in BOOLEAN, known \in BOOLEAN :
        /\ known \/ (deleted /\ ~bridged)
        /\ chat = [c \in ChatIds |-> [state |-> IF deleted THEN "deleted" ELSE "live",
                                      portal |-> ChatPortal[c], fwd |-> bridged,
                                      ts |-> IF deleted THEN 1 ELSE 0]]
        /\ msg = [m \in Guids |-> IF m \notin Old \/ ~known THEN NoMsgs[m] ELSE
                    [state |-> IF deleted THEN "deleted" ELSE "live", portal |-> Home[m],
                     cloud |-> TRUE, body |-> IF deleted THEN "scrubbed" ELSE "text"]]
        /\ room = IF bridged /\ ~deleted THEN Portals ELSE {}
        /\ shown = [p \in Portals |-> IF p \in room THEN OfPortal(Old, p) ELSE {}]
        /\ LET zone == IF deleted /\ ~recovered THEN "bin" ELSE "main"
           IN  /\ apple = [m \in Guids |-> IF m \in Old THEN zone ELSE "none"]
               /\ record = [c \in ChatIds |-> zone]
        /\ entry = [p \in Portals |-> IF deleted THEN [by |-> "tomb", at |-> 1] ELSE NoEntry]
        /\ deletedAt = [p \in Portals |-> IF deleted THEN 1 ELSE 0]
  BY DEF Init
<1>2. ChatTable(chat)
  <2>1. \A c \in ChatIds : ChatPortal[c] \in Portals
    BY StoreAssumption
  <2> QED BY <1>1, <2>1 DEF ChatTable, ChatRow, RowStates
<1>3. MsgTable(msg)
  <2>1. \A m \in Guids : Home[m] \in Portals
    BY LifecycleAssumption
  <2> QED BY <1>1, <2>1 DEF MsgTable, MsgRow, RowStates, NoMsgs
<1>4. Around
  <2>1. OffPipeline \in Pipe /\ OffPipeline.got = {}
    BY DEF OffPipeline, Pipe, Stages
  <2>2. entry \in [Portals -> Entry] /\ deletedAt \in [Portals -> Nat]
    BY <1>1 DEF Entry, NoEntry
  <2>3. now = 1 /\ events = [p \in Portals |-> <<>>] /\ restore = [p \in Portals |-> OffPipeline] /\ notices = {}
    BY DEF Init
  <2>4. events \in [Portals -> Seq(Queued)]
    BY <2>3
  <2> QED BY <2>1, <2>2, <2>3, <2>4 DEF Around
<1>5. ASSUME NEW p \in Portals, deletedAt[p] # 0 PROVE Stands(p)
  <2>1. deleted /\ deletedAt[p] = 1
    BY <1>1, <1>5
  <2>2. restore[p].at = "off" /\ override = {} /\ entry[p].by = "tomb"
    BY <1>1, <2>1 DEF Init, OffPipeline
  <2>3. \A c \in Own(p) : chat[c].state = "deleted" /\ chat[c].ts = 1
    BY <1>1, <2>1 DEF Own
  <2>4. Backfillable(msg, p) = {}
    BY <1>1, <2>1 DEF Backfillable, MsgsOf, NoMsgs
  <2>5. Dated(p)
    BY <2>1, <2>3 DEF Dated, Recorded
  <2> QED BY <2>2, <2>3, <2>4, <2>5 DEF Stands
<1> QED BY <1>2, <1>3, <1>4, <1>5 DEF DeletionInv, Shape, DeletionsStand
-----------------------------------------------------------------------------
(* Each step keeps the invariant and asks for no zombie. *)

Keeps == DeletionInv' /\ \A p \in Portals : AskedFor(p)

(* The rows, the list, the overrides and the queues stay as they are. *)
LEMMA Quiet ==
  ASSUME DeletionInv, UNCHANGED <<chat, msg, override, entry, deletedAt, events>>,
         now' \in Nat, notices' \subseteq Notices, restore' \in [Portals -> Pipe],
         \A p \in Portals : \A m \in restore'[p].got : Home[m] = p,
         \A p \in Portals : deletedAt[p] # 0 => restore'[p].at \in {"off", "undelete"}
  PROVE  Keeps
<1>1. Shape'
  BY DEF DeletionInv, Shape, Around
<1>2. ASSUME NEW p \in Portals PROVE deletedAt'[p] # 0 => Stands(p)'
  <2>1. deletedAt[p] # 0 => Untouched(p)
    BY DEF DeletionInv, DeletionsStand, Stands, Untouched, Backfillable, MsgsOf
  <2> QED BY <2>1, StandsStill DEF DeletionInv
<1> QED BY <1>1, <1>2, SameQueues DEF Keeps, DeletionInv, DeletionsStand

(* A deletion that stands leaves no restore past its first step. *)
LEMMA NoPipeline ==
  ASSUME DeletionInv, NEW p \in Portals, restore[p].at \notin {"off", "undelete"}
  PROVE  deletedAt[p] = 0
BY DEF DeletionInv, DeletionsStand, Stands

LEMMA DevicesQuiet ==
  ASSUME DeletionInv, \/ Change \/ ListBin \/ ListBinMessages \/ OfferRestore \/ StartScrub
                      \/ UNCHANGED vars \/ (\E m \in Guids : Send(m) \/ OnMessage(m))
                      \/ (\E p \in Portals : DeleteFromApple(p))
  PROVE  Keeps
<1>1. /\ UNCHANGED <<chat, msg, override, entry, deletedAt, events, restore>>
      /\ now' \in Nat /\ notices' \subseteq Notices
  <2> USE DEF DeletionInv, Shape, Around, store, phone, matrix, start, inbox, command, gone, history
  <2>1. CASE Change
    <3>1. /\ UNCHANGED <<chat, msg, override, entry, deletedAt, events, restore>>
          /\ now' = now + 1
      BY <2>1 DEF Change
    <3>2. notices' \subseteq Notices
      BY <2>1 DEF Change, Notices
    <3> QED BY <3>1, <3>2
  <2>2. CASE \E m \in Guids : Send(m) \/ OnMessage(m)
    BY <2>2, StoreAssumption DEF Send, OnMessage
  <2>3. CASE \E p \in Portals : DeleteFromApple(p)
    BY <2>3 DEF DeleteFromApple
  <2>4. CASE ListBin \/ ListBinMessages
    BY <2>4 DEF ListBin, ListBinMessages
  <2>5. CASE OfferRestore \/ StartScrub
    BY <2>5 DEF OfferRestore, StartScrub
  <2>6. CASE UNCHANGED vars
    BY <2>6 DEF vars
  <2> QED BY <2>1, <2>2, <2>3, <2>4, <2>5, <2>6
<1>2. /\ restore' \in [Portals -> Pipe]
      /\ \A p \in Portals : \A m \in restore'[p].got : Home[m] = p
      /\ \A p \in Portals : deletedAt[p] # 0 => restore'[p].at \in {"off", "undelete"}
  BY <1>1 DEF DeletionInv, Shape, Around, DeletionsStand, Stands
<1> QED BY <1>1, <1>2, Quiet

(* A restore begins, or takes a step that touches neither rows nor queues. *)
LEMMA RestoreQuiet ==
  ASSUME DeletionInv, NEW p \in Portals,
         \/ ChooseRestore(p) \/ RecoverOnApple(p) \/ Fetch(p)
         \/ \E n \in notices : HandleChatRecover(n) /\ n.of = p
  PROVE  Keeps
<1> USE DEF store, phone, matrix, start, inbox, command, gone, history
<1>1. /\ restore \in [Portals -> Pipe] /\ now \in Nat /\ notices \subseteq Notices
      /\ \A q \in Portals : \A m \in restore[q].got : Home[m] = q
      /\ \A q \in Portals : deletedAt[q] # 0 => restore[q].at \in {"off", "undelete"}
  BY DEF DeletionInv, Shape, Around, DeletionsStand, Stands
<1>2. UNCHANGED <<chat, msg, override, entry, deletedAt, events, now>> /\ notices' \subseteq Notices
  <2>1. CASE ChooseRestore(p) \/ Fetch(p)
    BY <1>1, <2>1 DEF ChooseRestore, Fetch
  <2>2. CASE RecoverOnApple(p)
    <3>1. notices' \subseteq notices \cup {[type |-> "recover", of |-> p]}
      BY <2>2 DEF RecoverOnApple
    <3> QED BY <1>1, <2>2, <3>1 DEF RecoverOnApple, Notices
  <2>3. CASE \E n \in notices : HandleChatRecover(n)
    BY <1>1, <2>3 DEF HandleChatRecover
  <2> QED BY <2>1, <2>2, <2>3
<1>3. PICK r \in Pipe : /\ restore' = [restore EXCEPT ![p] = r]
                        /\ \A m \in r.got : Home[m] = p
                        /\ r.at = "undelete" \/ r = restore[p] \/ restore[p].at \in {"apple", "fetch"}
  <2>1. restore[p] \in Pipe
    BY <1>1
  <2>2. CASE Begin(p, TRUE) \/ Begin(p, FALSE)
    <3>1. \A b \in BOOLEAN : [OffPipeline EXCEPT !.at = "undelete", !.onApple = b] \in Pipe
                              /\ [OffPipeline EXCEPT !.at = "undelete", !.onApple = b].got = {}
                              /\ [OffPipeline EXCEPT !.at = "undelete", !.onApple = b].at = "undelete"
      BY DEF OffPipeline, Pipe, Stages
    <3>2. PICK b \in BOOLEAN : Begin(p, b)
      BY <2>2
    <3>3. restore' = [restore EXCEPT ![p] = IF restore[p].at # "off" THEN restore[p]
                                    ELSE [OffPipeline EXCEPT !.at = "undelete", !.onApple = b]]
      BY <3>2 DEF Begin
    <3> QED BY <1>1, <2>1, <3>1, <3>3
  <2>3. CASE RecoverOnApple(p)
    <3>1. restore' = [restore EXCEPT ![p] = [restore[p] EXCEPT !.at = "fetch"]] /\ restore[p].at = "apple"
      BY <2>3 DEF RecoverOnApple, Stage
    <3>2. [restore[p] EXCEPT !.at = "fetch"] \in Pipe /\ [restore[p] EXCEPT !.at = "fetch"].got = restore[p].got
      BY <2>1 DEF Pipe, Stages
    <3> QED BY <1>1, <3>1, <3>2
  <2>4. CASE Fetch(p)
    <3> DEFINE found == {m \in Guids : Home[m] = p /\ apple[m] = "main"}
               r1 == [restore[p] EXCEPT !.at = "import", !.got = found]
               r2 == [restore[p] EXCEPT !.tries = restore[p].tries + 1]
               r3 == [restore[p] EXCEPT !.tries = restore[p].tries + 1, !.at = "resync"]
    <3>1. /\ restore[p].at = "fetch"
          /\ \E r \in {r1, r2, r3} : restore' = [restore EXCEPT ![p] = r]
      BY <2>4, <1>1 DEF Fetch
    <3>2. r1 \in Pipe /\ r1.got = found
      <4>1. found \subseteq Guids
        OBVIOUS
      <4> HIDE DEF found
      <4> QED BY <2>1, <4>1 DEF Pipe, Stages
    <3>4. r2 \in Pipe /\ r2.got = restore[p].got
      BY <2>1 DEF Pipe, Stages
    <3>5. r3 \in Pipe /\ r3.got = restore[p].got
      <4>1. r3 = [r2 EXCEPT !.at = "resync"]
        BY <2>1 DEF Pipe
      <4> HIDE DEF r2, r3
      <4> QED BY <3>4, <4>1 DEF Pipe, Stages
    <3>3. \A m \in found : Home[m] = p
      OBVIOUS
    <3> HIDE DEF found, r1, r2, r3
    <3> QED BY <1>1, <3>1, <3>2, <3>3, <3>4, <3>5
  <2>5. CASE \E n \in notices : HandleChatRecover(n) /\ n.of = p
    BY <2>2, <2>5 DEF HandleChatRecover
  <2> QED BY <2>2, <2>3, <2>4, <2>5 DEF ChooseRestore
<1>4. restore' \in [Portals -> Pipe] /\ \A q \in Portals : restore'[q] = IF q = p THEN r ELSE restore[q]
  BY <1>1, <1>3
<1>5. ASSUME NEW q \in Portals
      PROVE  /\ \A m \in restore'[q].got : Home[m] = q
             /\ deletedAt[q] # 0 => restore'[q].at \in {"off", "undelete"}
  <2>1. CASE q = p
    <3>4. restore'[q] = r
      BY <1>4, <2>1
    <3>1. \A m \in restore'[q].got : Home[m] = q
      BY <1>3, <3>4, <2>1
    <3>2. restore[p].at \in {"apple", "fetch"} => deletedAt[q] = 0
      BY <1>1, <2>1
    <3>3. restore'[q].at = "undelete" \/ restore'[q].at = restore[q].at \/ deletedAt[q] = 0
      BY <1>3, <3>4, <2>1, <3>2
    <3> QED BY <1>1, <3>1, <3>3
  <2>2. CASE q # p
    BY <1>1, <1>4, <2>2
  <2> QED BY <2>1, <2>2
<1> QED BY <1>1, <1>2, <1>4, <1>5, Quiet
(* A step that leaves the deletions that stand, or ends them. *)
LEMMA Step ==
  ASSUME DeletionInv, Shape',
         \A p \in Portals : /\ deletedAt[p] # 0 => deletedAt'[p] = 0 \/ Untouched(p)
                            /\ deletedAt[p] = 0 => deletedAt'[p] = 0
                            /\ AskedFor(p)
  PROVE  Keeps
BY StandsStill DEF Keeps, DeletionInv, DeletionsStand

(* The rows of one portal change, or rows without a portal become its rows. *)
LEMMA OnePortal ==
  ASSUME DeletionInv, Shape', NEW q \in Portals, deletedAt'[q] = 0,
         \A p \in Portals \ {q} : /\ deletedAt'[p] = deletedAt[p] /\ restore'[p] = restore[p]
                                  /\ entry'[p] = entry[p] /\ (p \in override' => p \in override),
         \A c \in ChatIds \ Own(q) : chat'[c] = chat[c],
         \A m \in Guids : msg'[m] = msg[m] \/ (msg[m].portal \in {q, NoPortal} /\ msg'[m].portal = q),
         \A p \in Portals : AskedFor(p)
  PROVE  Keeps
<1>1. ASSUME NEW p \in Portals, p # q, deletedAt[p] # 0 PROVE Untouched(p)
  <2>1. Stands(p)
    BY <1>1 DEF DeletionInv, DeletionsStand
  <2>2. \A c \in Own(p) : c \in ChatIds \ Own(q)
    BY <1>1 DEF Own
  <2>3. p # NoPortal
    BY StoreAssumption
  <2>4. \A m \in Guids : msg[m].portal = p \/ msg'[m].portal = p => msg'[m] = msg[m]
    BY <1>1, <2>3
  <2>5. Backfillable(msg', p) = {}
    BY <2>1, <2>4 DEF Stands, Backfillable, MsgsOf
  <2> QED BY <1>1, <2>1, <2>2, <2>4, <2>5 DEF Stands, Untouched
<1>2. ASSUME NEW p \in Portals
      PROVE  /\ deletedAt[p] # 0 => deletedAt'[p] = 0 \/ Untouched(p)
             /\ deletedAt[p] = 0 => deletedAt'[p] = 0
  BY <1>1
<1> QED BY <1>2, Step

(* A step of a restore. *)
LEMMA StageShape ==
  ASSUME Around, NEW p \in Portals, NEW at \in Stages, Stage(p, at)
  PROVE  /\ restore' \in [Portals -> Pipe] /\ \A q \in Portals \ {p} : restore'[q] = restore[q]
         /\ \A q \in Portals : restore'[q].got = restore[q].got
<1>1. restore' = [restore EXCEPT ![p] = [restore[p] EXCEPT !.at = at]] /\ restore[p] \in Pipe
  BY DEF Stage, Around
<1>2. [restore[p] EXCEPT !.at = at] \in Pipe /\ [restore[p] EXCEPT !.at = at].got = restore[p].got
  BY <1>1 DEF Pipe
<1> QED BY <1>1, <1>2 DEF Around

LEMMA UndeleteSafe == ASSUME DeletionInv, NEW p \in Portals, Undelete(p) PROVE Keeps
<1> DEFINE seeded == IF Own(p) = {} THEN chat ELSE SeedChat(chat, CHOOSE c \in Own(p) : TRUE, p, now)
<1>1. /\ Stage(p, "unscrub") /\ override' = override \cup {p} /\ Forget(p)
      /\ chat' = ResetForward(UndeleteChat(seeded, p, now), p) /\ msg' = UndeleteMsgs(msg, p)
      /\ deletedAt' = [deletedAt EXCEPT ![p] = 0]
      /\ UNCHANGED <<events, notices, now>>
  BY DEF Undelete, Write, phone, matrix
<1>2. Shape
  BY DEF DeletionInv
<1>3. ChatTable(seeded) /\ \A c \in ChatIds \ Own(p) : seeded[c] = chat[c]
  <2>1. CASE Own(p) = {}
    BY <1>2, <2>1 DEF Shape
  <2>2. CASE Own(p) # {}
    <3>1. PICK d \in Own(p) : seeded = SeedChat(chat, d, p, now)
      BY <2>2
    <3>2. ChatTable(SeedChat(chat, d, p, now))
      BY <1>2, ChatStatements DEF Shape, Around
    <3>3. \A c \in ChatIds \ Own(p) : SeedChat(chat, d, p, now)[c] = chat[c]
      BY <1>2 DEF SeedChat, Shape, ChatTable
    <3> QED BY <3>1, <3>2, <3>3
  <2> QED BY <2>1, <2>2
<1> HIDE DEF seeded
<1>4. ChatTable(chat') /\ MsgTable(msg')
  <2>1. ChatTable(UndeleteChat(seeded, p, now))
    BY <1>2, <1>3, ChatStatements DEF Shape, Around
  <2> QED BY <1>1, <1>2, <2>1, ChatStatements, MsgStatements DEF Shape, Around
<1>5. Around'
  <2>1. "unscrub" \in Stages /\ NoEntry \in Entry
    BY DEF Stages, NoEntry, Entry
  <2>2. restore' \in [Portals -> Pipe] /\ \A q \in Portals : restore'[q].got = restore[q].got
    BY <1>1, <1>2, <2>1, StageShape DEF Shape
  <2> QED BY <1>1, <1>2, <2>1, <2>2 DEF Shape, Around, Forget
<1>6. \A q \in Portals \ {p} : /\ deletedAt'[q] = deletedAt[q] /\ restore'[q] = restore[q]
                               /\ entry'[q] = entry[q] /\ (q \in override' => q \in override)
  BY <1>1, <1>2 DEF Shape, Around, Forget, Stage
<1>7. \A c \in ChatIds \ Own(p) : chat'[c] = chat[c]
  <2>1. \A c \in ChatIds \ Own(p) : seeded[c].portal # p
    BY <1>3 DEF Own, ChatTable
  <2> QED BY <1>1, <1>3, <2>1 DEF ResetForward, UndeleteChat, ChatsOf
<1>8. \A m \in Guids : msg'[m] = msg[m] \/ (msg[m].portal \in {p, NoPortal} /\ msg'[m].portal = p)
  BY <1>1, <1>2 DEF UndeleteMsgs, MsgsOf, Shape, MsgTable, MsgRow
<1>9. deletedAt'[p] = 0
  BY <1>1, <1>2 DEF Shape, Around
<1> QED BY <1>1, <1>2, <1>4, <1>5, <1>6, <1>7, <1>8, <1>9, OnePortal, SameQueues DEF Shape
(* The steps after it, of which none leaves a row of another portal changed. *)
LEMMA RestoreStep ==
  ASSUME DeletionInv, NEW p \in Portals, restore[p].at \notin {"off", "undelete"},
         NEW at \in Stages, Stage(p, at), UNCHANGED <<override, entry, deletedAt, events, now, notices>>,
         ChatTable(chat'), MsgTable(msg'), \A c \in ChatIds \ Own(p) : chat'[c] = chat[c],
         \A m \in Guids : msg'[m] = msg[m] \/ (msg[m].portal \in {p, NoPortal} /\ msg'[m].portal = p)
  PROVE  Keeps
<1>1. Around
  BY DEF DeletionInv, Shape
<1>2. restore' \in [Portals -> Pipe] /\ (\A q \in Portals \ {p} : restore'[q] = restore[q])
      /\ \A q \in Portals : restore'[q].got = restore[q].got
  BY <1>1, StageShape
<1>3. Around'
  BY <1>1, <1>2 DEF Around
<1>4. deletedAt'[p] = 0
  BY NoPipeline
<1>5. \A q \in Portals \ {p} : /\ deletedAt'[q] = deletedAt[q] /\ restore'[q] = restore[q]
                               /\ entry'[q] = entry[q] /\ (q \in override' => q \in override)
  BY <1>2
<1> QED BY <1>3, <1>4, <1>5, OnePortal, SameQueues DEF Shape

LEMMA UnscrubSafe == ASSUME DeletionInv, NEW p \in Portals, Unscrub(p) PROVE Keeps
<1>1. PICK at \in {"messages", "refresh"} : Stage(p, at)
  BY DEF Unscrub
<1>2. /\ restore[p].at = "unscrub" /\ msg' = ClearScrub(msg, p)
      /\ UNCHANGED <<chat, override, entry, deletedAt, events, now, notices>>
  BY DEF Unscrub, Write, phone, matrix, history, gone
<1>3. at \in Stages
  BY DEF Stages
<1>4. ChatTable(chat') /\ MsgTable(msg')
  BY <1>2, MsgStatements DEF DeletionInv, Shape
<1>5. \A m \in Guids : msg'[m] = msg[m] \/ (msg[m].portal \in {p, NoPortal} /\ msg'[m].portal = p)
  BY <1>2 DEF ClearScrub, DeletionInv, Shape, MsgTable, MsgRow
<1> QED BY <1>1, <1>2, <1>3, <1>4, <1>5, RestoreStep

LEMMA RefreshSafe == ASSUME DeletionInv, NEW p \in Portals, RefreshMetadata(p) PROVE Keeps
<1>1. PICK at \in {"apple", "fetch"} : Stage(p, at)
  BY DEF RefreshMetadata
<1>2. /\ restore[p].at = "refresh"
      /\ UNCHANGED <<msg, override, entry, deletedAt, events, now, notices>>
  BY DEF RefreshMetadata, phone, matrix, history, gone
<1>3. at \in Stages
  BY DEF Stages
<1>4. chat' = chat \/ \E c \in Own(p) : chat' = SeedChat(chat, c, p, now)
  <2>1. PICK found \in SUBSET Own(p) :
          chat' = IF found = {} THEN chat ELSE SeedChat(chat, CHOOSE c \in found : TRUE, p, now)
    BY DEF RefreshMetadata
  <2> QED BY <2>1
<1>5. ChatTable(chat') /\ MsgTable(msg') /\ \A c \in ChatIds \ Own(p) : chat'[c] = chat[c]
  <2>1. CASE chat' = chat
    BY <1>2, <2>1 DEF DeletionInv, Shape
  <2>2. CASE \E c \in Own(p) : chat' = SeedChat(chat, c, p, now)
    <3>1. PICK d \in Own(p) : chat' = SeedChat(chat, d, p, now)
      BY <2>2
    <3>2. ChatTable(chat')
      BY <3>1, ChatStatements DEF DeletionInv, Shape, Around
    <3>3. \A c \in ChatIds \ Own(p) : chat'[c] = chat[c]
      BY <3>1 DEF SeedChat, DeletionInv, Shape, ChatTable
    <3> QED BY <1>2, <3>2, <3>3 DEF DeletionInv, Shape
  <2> QED BY <1>4, <2>1, <2>2
<1>6. restore[p].at \notin {"off", "undelete"}
  BY <1>2
<1>7. \A m \in Guids : msg'[m] = msg[m] \/ (msg[m].portal \in {p, NoPortal} /\ msg'[m].portal = p)
  BY <1>2
<1> QED BY <1>1, <1>2, <1>3, <1>5, <1>6, <1>7, RestoreStep

(* Rows of messages of the portal are written anew. *)
LEMMA WrittenRows ==
  ASSUME DeletionInv, NEW p \in Portals, NEW S, \A m \in S : Home[m] = p, NEW new,
         \A m \in S \cap Guids : new[m] \in MsgRow /\ new[m].portal = p,
         msg' = [m \in Guids |-> IF m \in S THEN new[m] ELSE msg[m]]
  PROVE  /\ MsgTable(msg')
         /\ \A m \in Guids : msg'[m] = msg[m] \/ (msg[m].portal \in {p, NoPortal} /\ msg'[m].portal = p)
BY DEF DeletionInv, Shape, MsgTable

LEMMA RecoverSafe == ASSUME DeletionInv, NEW p \in Portals, RecoverMessages(p) PROVE Keeps
<1> DEFINE mine  == {m \in Guids : Home[m] = p /\ apple[m] = "bin"}
           again == {m \in mine : msg[m].portal = p /\ msg[m].state = "deleted"}
           row(m) == IF msg[m].state = "none"
                     THEN [state |-> "live", portal |-> p, cloud |-> TRUE, body |-> "none"]
                     ELSE [msg[m] EXCEPT !.state = "live", !.portal = p]
           S == IF again # {} THEN again ELSE mine
           new == [m \in Guids |-> row(m)]
<1>1. /\ restore[p].at = "messages" /\ Stage(p, "refresh")
      /\ msg' = [m \in Guids |-> IF m \in S THEN row(m) ELSE msg[m]]
      /\ UNCHANGED <<chat, override, entry, deletedAt, events, now, notices>>
  BY DEF RecoverMessages, Write, phone, matrix, history, gone
<1>2. \A m \in Guids : row(m) \in MsgRow /\ row(m).portal = p
  <2>1. \A m \in Guids : msg[m] \in MsgRow
    BY DEF DeletionInv, Shape, MsgTable
  <2> QED BY <2>1 DEF MsgRow, RowStates
<1>3. \A m \in S : Home[m] = p
  OBVIOUS
<1>4. msg' = [m \in Guids |-> IF m \in S THEN new[m] ELSE msg[m]]
  BY <1>1
<1>8. \A m \in S \cap Guids : new[m] \in MsgRow /\ new[m].portal = p
  BY <1>2
<1> HIDE DEF S, new, row
<1>5. /\ MsgTable(msg')
      /\ \A m \in Guids : msg'[m] = msg[m] \/ (msg[m].portal \in {p, NoPortal} /\ msg'[m].portal = p)
  <2>1. MsgTable(msg)
    BY DEF DeletionInv, Shape
  <2>2. ASSUME NEW m \in Guids
        PROVE  /\ msg'[m] \in MsgRow /\ msg'[m].portal \in {Home[m], NoPortal}
               /\ msg'[m] = msg[m] \/ (msg[m].portal \in {p, NoPortal} /\ msg'[m].portal = p)
    <3>1. CASE m \in S
      BY <1>3, <1>4, <1>8, <2>1, <3>1 DEF MsgTable
    <3>2. CASE m \notin S
      BY <1>4, <2>1, <3>2 DEF MsgTable
    <3> QED BY <3>1, <3>2
  <2> QED BY <1>4, <2>2 DEF MsgTable
<1>6. restore[p].at \notin {"off", "undelete"} /\ "refresh" \in Stages
  BY <1>1 DEF Stages
<1>7. ChatTable(chat')
  BY <1>1 DEF DeletionInv, Shape
<1> QED BY <1>1, <1>5, <1>6, <1>7, RestoreStep

LEMMA ImportSafe == ASSUME DeletionInv, NEW p \in Portals, Import(p) PROVE Keeps
<1> DEFINE S == restore[p].got
           new == [m \in Guids |-> UpsertMsg(msg, m, p, FALSE)[m]]
<1>1. /\ restore[p].at = "import" /\ Stage(p, "resync")
      /\ msg' = [m \in Guids |-> IF m \in S THEN UpsertMsg(msg, m, p, FALSE)[m] ELSE msg[m]]
      /\ UNCHANGED <<chat, override, entry, deletedAt, events, now, notices>>
  BY DEF Import, Write, phone, matrix, gone
<1>2. \A m \in Guids : new[m] \in MsgRow /\ new[m].portal = p
  <2>1. \A m \in Guids : msg[m] \in MsgRow /\ m \in DOMAIN msg
    BY DEF DeletionInv, Shape, MsgTable
  <2>2. \A m \in Guids : UpsertMsg(msg, m, p, FALSE)[m] =
          [state |-> IF msg[m].state = "deleted" \/ FALSE THEN "deleted" ELSE "live", portal |-> p,
           cloud |-> TRUE, body |-> IF msg[m].body = "scrubbed" THEN "scrubbed" ELSE "text"]
    BY <2>1 DEF UpsertMsg
  <2>3. \A m \in Guids : new[m] = UpsertMsg(msg, m, p, FALSE)[m]
    OBVIOUS
  <2> HIDE DEF new
  <2>4. ASSUME NEW m \in Guids
        PROVE  \E st \in {"live", "deleted"}, b \in {"text", "scrubbed"} :
                 new[m] = [state |-> st, portal |-> p, cloud |-> TRUE, body |-> b]
    BY <2>2, <2>3
  <2>5. \A st \in {"live", "deleted"}, b \in {"text", "scrubbed"} :
          /\ [state |-> st, portal |-> p, cloud |-> TRUE, body |-> b] \in MsgRow
          /\ [state |-> st, portal |-> p, cloud |-> TRUE, body |-> b].portal = p
    BY DEF MsgRow, RowStates
  <2> QED BY <2>4, <2>5
<1>3. \A m \in S : Home[m] = p
  BY DEF DeletionInv, Shape, Around
<1>4. msg' = [m \in Guids |-> IF m \in S THEN new[m] ELSE msg[m]]
  BY <1>1
<1> HIDE DEF S, new
<1>5. /\ MsgTable(msg')
      /\ \A m \in Guids : msg'[m] = msg[m] \/ (msg[m].portal \in {p, NoPortal} /\ msg'[m].portal = p)
  BY <1>2, <1>3, <1>4, WrittenRows
<1>6. restore[p].at \notin {"off", "undelete"} /\ "resync" \in Stages
  BY <1>1 DEF Stages
<1>7. ChatTable(chat')
  BY <1>1 DEF DeletionInv, Shape
<1> QED BY <1>1, <1>5, <1>6, <1>7, RestoreStep
LEMMA ResyncSafe == ASSUME DeletionInv, NEW p \in Portals, QueueResync(p) PROVE Keeps
<1>1. /\ restore[p].at = "resync" /\ restore' = [restore EXCEPT ![p] = OffPipeline]
      /\ Push(p, Event("resync", AnyMsg, TRUE))
      /\ UNCHANGED <<chat, msg, override, entry, deletedAt, now, notices>>
  BY DEF QueueResync, store, phone, history, gone
<1>2. Event("resync", AnyMsg, TRUE) \in Queued /\ Event("resync", AnyMsg, TRUE).type = "resync"
  BY DEF Event, Queued
<1>3. \A q \in Portals : AskedFor(q) /\ events' \in [Portals -> Seq(Queued)]
  BY <1>1, <1>2, Pushed DEF DeletionInv
<1>4. OffPipeline \in Pipe /\ OffPipeline.got = {}
  BY DEF OffPipeline, Pipe, Stages
<1>5. Shape'
  BY <1>1, <1>3, <1>4 DEF DeletionInv, Shape, Around
<1>6. deletedAt'[p] = 0
  BY <1>1, NoPipeline
<1>7. \A q \in Portals \ {p} : restore'[q] = restore[q]
  BY <1>1 DEF DeletionInv, Shape, Around
<1> QED BY <1>1, <1>3, <1>5, <1>6, <1>7, OnePortal

(* Rows, list and overrides stay; the queues are another matter. *)
LEMMA SameRows ==
  ASSUME DeletionInv, UNCHANGED <<override, entry, deletedAt, restore, now>>, notices' \subseteq Notices,
         events' \in [Portals -> Seq(Queued)], ChatTable(chat'), MsgTable(msg'),
         \A c \in ChatIds : chat'[c].state = chat[c].state /\ chat'[c].ts = chat[c].ts,
         \A m \in Guids : /\ msg[m].state = "deleted" => msg'[m].state = "deleted" /\ msg'[m].portal = msg[m].portal
                          /\ msg'[m].state = "live" => msg[m].state = "live" /\ msg'[m].portal = msg[m].portal
                          /\ msg'[m].cloud = msg[m].cloud,
         \A p \in Portals : AskedFor(p)
  PROVE  Keeps
<1>1. Shape'
  BY DEF DeletionInv, Shape, Around
<1>2. ASSUME NEW p \in Portals, deletedAt[p] # 0 PROVE Untouched(p)
  <2>1. Stands(p)
    BY <1>2 DEF DeletionInv, DeletionsStand
  <2>2. Backfillable(msg', p) = {}
    BY <2>1 DEF Stands, Backfillable, MsgsOf
  <2> QED BY <2>1, <2>2 DEF Stands, Untouched, Own
<1> QED BY <1>1, <1>2, Step

LEMMA HandleEventSafe == ASSUME DeletionInv, NEW p \in Portals, HandleEvent(p) PROVE Keeps
<1>1. /\ events[p] # <<>> /\ events' = [events EXCEPT ![p] = Tail(events[p])]
      /\ UNCHANGED <<msg, override, entry, deletedAt, restore, now, notices>>
      /\ \/ chat' = chat
         \/ chat' = [c \in ChatIds |-> IF chat[c].portal = p THEN [chat[c] EXCEPT !.fwd = TRUE] ELSE chat[c]]
  BY DEF HandleEvent, phone, command, history, gone
<1>2. events \in [Portals -> Seq(Queued)] /\ events[p] \in Seq(Queued)
  BY DEF DeletionInv, Shape, Around
<1>3. Tail(events[p]) \in Seq(Queued) /\ Len(Tail(events[p])) = Len(events[p]) - 1 /\ Len(events[p]) \in Nat
  BY <1>1, <1>2
<1>4. events' \in [Portals -> Seq(Queued)]
  BY <1>1, <1>2, <1>3
<1>5. ASSUME NEW q \in Portals PROVE AskedFor(q)
  <2>1. events[q] \in Seq(Queued) /\ Len(events[q]) \in Nat
    BY <1>2
  <2>2. events'[q] = IF q = p THEN Tail(events[p]) ELSE events[q]
    BY <1>1, <1>2
  <2>3. ~(Len(events'[q]) > Len(events[q]))
    BY <1>3, <2>1, <2>2
  <2> QED BY <2>3 DEF AskedFor
<1>6. ChatTable(chat') /\ \A c \in ChatIds : chat'[c].state = chat[c].state /\ chat'[c].ts = chat[c].ts
  <2>1. \A c \in ChatIds : chat[c] \in ChatRow
    BY DEF DeletionInv, Shape, ChatTable
  <2>2. \A c \in ChatIds : /\ [chat[c] EXCEPT !.fwd = TRUE] \in ChatRow
                           /\ [chat[c] EXCEPT !.fwd = TRUE].state = chat[c].state
                           /\ [chat[c] EXCEPT !.fwd = TRUE].portal = chat[c].portal
                           /\ [chat[c] EXCEPT !.fwd = TRUE].ts = chat[c].ts
    BY <2>1 DEF ChatRow
  <2>3. CASE chat' = chat
    BY <2>3 DEF DeletionInv, Shape
  <2>4. CASE chat' = [c \in ChatIds |-> IF chat[c].portal = p THEN [chat[c] EXCEPT !.fwd = TRUE] ELSE chat[c]]
    <3>1. \A c \in ChatIds : chat'[c] = chat[c] \/ chat'[c] = [chat[c] EXCEPT !.fwd = TRUE]
      BY <2>4
    <3>2. chat' \in [ChatIds -> ChatRow]
      BY <2>1, <2>2, <2>4
    <3>3. \A c \in ChatIds : chat'[c].portal = chat[c].portal /\ chat'[c].state = chat[c].state /\ chat'[c].ts = chat[c].ts
      BY <2>2, <3>1
    <3> QED BY <3>2, <3>3 DEF DeletionInv, Shape, ChatTable
  <2> QED BY <1>1, <2>3, <2>4
<1>7. MsgTable(msg') /\ notices' \subseteq Notices
  BY <1>1 DEF DeletionInv, Shape, Around
<1> QED BY <1>1, <1>4, <1>5, <1>6, <1>7, SameRows

LEMMA ScrubSafe == ASSUME DeletionInv, Scrub PROVE Keeps
<1>1. UNCHANGED <<chat, override, entry, deletedAt, restore, now, notices, events>>
  BY DEF Scrub, phone, matrix, command, history, gone
<1>2. \A m \in Guids : msg'[m] \in {msg[m], [msg[m] EXCEPT !.body = "scrubbed"]}
  BY DEF Scrub
<1>3. \A m \in Guids : msg[m] \in MsgRow /\ [msg[m] EXCEPT !.body = "scrubbed"] \in MsgRow
  BY DEF DeletionInv, Shape, MsgTable, MsgRow
<1>4. \A m \in Guids : /\ msg'[m] \in MsgRow /\ msg'[m].state = msg[m].state
                       /\ msg'[m].portal = msg[m].portal /\ msg'[m].cloud = msg[m].cloud
  BY <1>2, <1>3 DEF MsgRow
<1>5. MsgTable(msg')
  <2>1. msg' = [m \in Guids |-> msg'[m]]
    BY DEF Scrub
  <2> QED BY <1>4, <2>1 DEF DeletionInv, Shape, MsgTable
<1>6. ChatTable(chat') /\ events' \in [Portals -> Seq(Queued)] /\ notices' \subseteq Notices
  BY <1>1 DEF DeletionInv, Shape, Around
<1> QED BY <1>1, <1>4, <1>5, <1>6, SameRows, SameQueues
LEMMA HandleMessageDeleteSafe == ASSUME DeletionInv, NEW n \in notices, HandleMessageDelete(n) PROVE Keeps
<1>1. /\ n.type = "remove" /\ notices' = notices \ {n} /\ msg' = SoftDelete(msg, n.of)
      /\ UNCHANGED <<chat, override, entry, deletedAt, restore, now>>
      /\ Push(Home[n.of], Event("remove", n.of, FALSE)) \/ UNCHANGED events
  BY DEF HandleMessageDelete, Write, command
<1>2. n.of \in Guids /\ Home[n.of] \in Portals
  <2>1. n \in Notices
    BY DEF DeletionInv, Shape, Around
  <2> QED BY <1>1, <2>1, LifecycleAssumption DEF Notices
<1>3. events' \in [Portals -> Seq(Queued)] /\ \A p \in Portals : AskedFor(p)
  <2>1. CASE Push(Home[n.of], Event("remove", n.of, FALSE))
    <3>1. Event("remove", n.of, FALSE) \in Queued /\ Event("remove", n.of, FALSE).create = FALSE
      BY <1>2 DEF Event, Queued
    <3>2. \A p \in Portals : AskedFor(p) /\ events' \in [Portals -> Seq(Queued)]
      BY <1>2, <2>1, <3>1, Pushed DEF DeletionInv
    <3> QED BY <1>2, <3>2
  <2>2. CASE UNCHANGED events
    BY <2>2, SameQueues DEF DeletionInv, Shape, Around
  <2> QED BY <1>1, <2>1, <2>2
<1>4. MsgTable(msg')
  BY <1>1, MsgStatements DEF DeletionInv, Shape, SoftDelete
<1>5. \A m \in Guids : /\ msg[m].state = "deleted" => msg'[m].state = "deleted" /\ msg'[m].portal = msg[m].portal
                       /\ msg'[m].state = "live" => msg[m].state = "live" /\ msg'[m].portal = msg[m].portal
                       /\ msg'[m].cloud = msg[m].cloud
  <2>1. \A m \in Guids : msg[m] \in MsgRow
    BY DEF DeletionInv, Shape, MsgTable
  <2>2. \A m \in Guids : /\ [msg[m] EXCEPT !.state = "deleted", !.body = "scrubbed"].state = "deleted"
                         /\ [msg[m] EXCEPT !.state = "deleted", !.body = "scrubbed"].portal = msg[m].portal
                         /\ [msg[m] EXCEPT !.state = "deleted", !.body = "scrubbed"].cloud = msg[m].cloud
    BY <2>1 DEF MsgRow
  <2>3. \A m \in Guids : msg'[m] \in {msg[m], [msg[m] EXCEPT !.state = "deleted", !.body = "scrubbed"]}
    BY <1>1 DEF SoftDelete, EraseRows
  <2> QED BY <2>2, <2>3
<1>6. ChatTable(chat') /\ notices' \subseteq Notices
  BY <1>1 DEF DeletionInv, Shape, Around
<1> QED BY <1>1, <1>3, <1>4, <1>5, <1>6, SameRows

LEMMA CreatePortalsSafe == ASSUME DeletionInv, CreatePortals PROVE Keeps
<1> DEFINE e == Event("resync", AnyMsg, TRUE)
<1>1. /\ events' = [p \in Portals |-> IF p \in Listed(chat, msg) /\ entry[p].by = "no"
                                      THEN Append(events[p], e) ELSE events[p]]
      /\ UNCHANGED <<chat, msg, override, entry, deletedAt, restore, now, notices>>
  BY DEF CreatePortals, store, phone, command, history, gone
<1>2. e \in Queued
  BY DEF Event, Queued
<1>3. events \in [Portals -> Seq(Queued)]
  BY DEF DeletionInv, Shape, Around
<1> HIDE DEF e
<1>4. events' \in [Portals -> Seq(Queued)]
  <2>1. ASSUME NEW p \in Portals
        PROVE  (IF p \in Listed(chat, msg) /\ entry[p].by = "no" THEN Append(events[p], e) ELSE events[p]) \in Seq(Queued)
    <3>1. events[p] \in Seq(Queued)
      BY <1>3
    <3> QED BY <1>2, <3>1
  <2> QED BY <1>1, <2>1
<1>5. ASSUME NEW p \in Portals PROVE AskedFor(p)
  <2>1. CASE entry[p].by = "no"
    BY <2>1 DEF AskedFor, DeletionInv, DeletionsStand, Stands
  <2>2. CASE entry[p].by # "no"
    <3>1. events'[p] = events[p] /\ Len(events[p]) \in Nat
      BY <1>1, <1>3, <2>2
    <3> QED BY <3>1 DEF AskedFor
  <2> QED BY <2>1, <2>2
<1>6. ChatTable(chat') /\ MsgTable(msg') /\ notices' \subseteq Notices
  BY <1>1 DEF DeletionInv, Shape, Around
<1> QED BY <1>1, <1>4, <1>5, <1>6, SameRows

(* The process that starts reads the tombstones of the store. *)
LEMMA RestartSafe == ASSUME DeletionInv, Recorded, Restart PROVE Keeps
<1>1. /\ entry' = [p \in Portals |-> IF FullyDeleted(chat, p) THEN [by |-> "tomb", at |-> now] ELSE NoEntry]
      /\ events' = [p \in Portals |-> <<>>] /\ restore' = [p \in Portals |-> OffPipeline]
      /\ UNCHANGED <<chat, msg, override, notices, now, deletedAt>>
  BY DEF Restart, gone
<1>2. OffPipeline \in Pipe /\ OffPipeline.got = {} /\ OffPipeline.at = "off"
  BY DEF OffPipeline, Pipe, Stages
<1>3. Shape'
  <2>1. entry' \in [Portals -> Entry]
    BY <1>1 DEF Entry, NoEntry, DeletionInv, Shape, Around
  <2>2. events' \in [Portals -> Seq(Queued)]
    BY <1>1
  <2>3. restore' \in [Portals -> Pipe] /\ \A p \in Portals : restore'[p].got = {}
    BY <1>1, <1>2
  <2> QED BY <1>1, <2>1, <2>2, <2>3 DEF DeletionInv, Shape, Around
<1>4. ASSUME NEW p \in Portals PROVE AskedFor(p)
  <2>1. events'[p] = <<>> /\ Len(events[p]) \in Nat
    BY <1>1 DEF DeletionInv, Shape, Around
  <2> QED BY <2>1 DEF AskedFor
<1>5. ASSUME NEW p \in Portals, deletedAt[p] # 0 PROVE Untouched(p)
  <2>1. Stands(p)
    BY <1>5 DEF DeletionInv, DeletionsStand
  <2>2. PICK c \in Own(p) : TRUE
    BY DEF Recorded
  <2>3. \A d \in ChatIds : chat[d].portal = p <=> d \in Own(p)
    BY DEF DeletionInv, Shape, ChatTable, Own
  <2>4. FullyDeleted(chat, p)
    BY <2>1, <2>2, <2>3 DEF Stands, Own, FullyDeleted, ExplicitlyDeleted, HasChat, ChatsOf
  <2>5. entry'[p].by = "tomb" /\ restore'[p].at = "off"
    BY <1>1, <1>2, <2>4
  <2> QED BY <1>1, <2>1, <2>5 DEF Stands, Untouched, Backfillable, MsgsOf
<1> QED BY <1>1, <1>3, <1>4, <1>5, Step
-----------------------------------------------------------------------------
(* A chat is deleted: its rows are, and the newest of them tells when.  Rows of *)
(* other portals that carry its UUID may be, those deleted before stay so.      *)
Erased(p) ==
  /\ chat' = DeleteChatsOf(chat, p, now) /\ msg' = DeleteMsgsOf(chat', msg, p)
  /\ deletedAt' = [deletedAt EXCEPT ![p] = IF deletedAt[p] = 0 /\ restore[p].at = "off"
                                           THEN DeletedTail(chat', msg', p) ELSE deletedAt[p]]
  /\ entry' \in [Portals -> Entry] /\ entry'[p].by # "no" /\ \A q \in Portals \ {p} : entry'[q] = entry[q]
  /\ override' = override \ {p} /\ UNCHANGED <<restore, now>>

LEMMA ErasedRows ==
  ASSUME DeletionInv, NEW p \in Portals, Erased(p)
  PROVE  /\ ChatTable(chat') /\ MsgTable(msg')
         /\ \A c \in ChatIds : chat[c].state = "deleted" => chat'[c] = chat[c]
         /\ \A c \in Own(p) : chat'[c].state = "deleted"
         /\ \A m \in Guids : /\ msg'[m].portal = msg[m].portal /\ msg'[m].cloud = msg[m].cloud
                             /\ msg[m].state = "deleted" => msg'[m].state = "deleted"
                             /\ msg'[m].state = "live" => msg[m].state = "live" /\ msg[m].portal # p
<1>1. ChatTable(chat) /\ MsgTable(msg) /\ now \in Nat
  BY DEF DeletionInv, Shape, Around
<1>2. ChatTable(chat') /\ MsgTable(msg')
  BY <1>1, ChatStatements, MsgStatements DEF Erased, DeleteMsgsOf
<1>3. \A c \in ChatIds : /\ chat[c] \in ChatRow /\ chat[c].portal = ChatPortal[c] /\ chat[c].state # "none"
                         /\ [chat[c] EXCEPT !.state = "deleted", !.ts = now].state = "deleted"
  BY <1>1 DEF ChatTable, ChatRow
<1>4. \A c \in ChatIds : chat'[c] = IF c \in ChatsOf(chat, p, {"live"}) \cup Alias[p] /\ chat[c].state = "live"
                                    THEN [chat[c] EXCEPT !.state = "deleted", !.ts = now] ELSE chat[c]
  BY DEF Erased, DeleteChatsOf, DeleteRows
<1>5. \A c \in ChatIds : chat[c].state = "deleted" => chat'[c] = chat[c]
  BY <1>4
<1>6. ASSUME NEW c \in Own(p) PROVE chat'[c].state = "deleted"
  <2>1. c \in ChatIds /\ chat[c].portal = p /\ chat[c].state \in {"live", "deleted"}
    BY <1>3 DEF Own, ChatRow, RowStates
  <2>2. chat[c].state = "live" => c \in ChatsOf(chat, p, {"live"})
    BY <2>1 DEF ChatsOf
  <2> QED BY <1>3, <1>4, <2>1, <2>2
<1>7. ASSUME NEW m \in Guids
      PROVE  /\ msg'[m].portal = msg[m].portal /\ msg'[m].cloud = msg[m].cloud
             /\ msg[m].state = "deleted" => msg'[m].state = "deleted"
             /\ msg'[m].state = "live" => msg[m].state = "live" /\ msg[m].portal # p
  <2>1. msg[m] \in MsgRow
    BY <1>1 DEF MsgTable
  <2>2. PICK S \in SUBSET Guids : msg' = EraseRows(msg, S) /\ (msg[m].state = "live" /\ msg[m].portal = p => m \in S)
    BY DEF Erased, DeleteMsgsOf
  <2>3. msg'[m] = IF m \in S THEN [msg[m] EXCEPT !.state = "deleted", !.body = "scrubbed"] ELSE msg[m]
    BY <2>2 DEF EraseRows
  <2> QED BY <2>1, <2>2, <2>3 DEF MsgRow
<1> QED BY <1>2, <1>5, <1>6, <1>7

LEMMA ErasedSafe ==
  ASSUME DeletionInv, NEW p \in Portals, Erased(p), notices' \subseteq Notices,
         events' \in [Portals -> Seq(Queued)], \A q \in Portals : AskedFor(q)
  PROVE  Keeps
<1>1. /\ ChatTable(chat') /\ MsgTable(msg')
      /\ \A c \in ChatIds : chat[c].state = "deleted" => chat'[c] = chat[c]
      /\ \A c \in Own(p) : chat'[c].state = "deleted"
      /\ \A m \in Guids : /\ msg'[m].portal = msg[m].portal /\ msg'[m].cloud = msg[m].cloud
                          /\ msg[m].state = "deleted" => msg'[m].state = "deleted"
                          /\ msg'[m].state = "live" => msg[m].state = "live" /\ msg[m].portal # p
  BY ErasedRows
<1>2. /\ DeletedTail(chat', msg', p) \in {0} \cup {Stamp[m] : m \in MsgsOf(msg', p, {"deleted"})}
                                          \cup {chat'[c].ts : c \in ChatsOf(chat', p, {"live", "deleted"})}
      /\ DeletedTail(chat', msg', p) \in Nat
  <2>1. chat' \in [ChatIds -> ChatRow]
    BY <1>1 DEF ChatTable
  <2> QED BY <2>1, NewestDeleted
<1>3. Shape'
  <2>1. deletedAt' \in [Portals -> Nat]
    BY <1>2 DEF Erased, DeletionInv, Shape, Around
  <2> QED BY <1>1, <2>1 DEF Erased, DeletionInv, Shape, Around
<1>4. deletedAt \in [Portals -> Nat]
  BY DEF DeletionInv, Shape, Around
<1>5. ASSUME NEW q \in Portals PROVE Backfillable(msg', q) \subseteq Backfillable(msg, q)
  BY <1>1 DEF Backfillable, MsgsOf
<1>6. Backfillable(msg', p) = {}
  BY <1>1 DEF Backfillable, MsgsOf
<1>7. ASSUME NEW q \in Portals, deletedAt[q] # 0 PROVE Untouched(q)
  <2>1. Stands(q)
    BY <1>7 DEF DeletionInv, DeletionsStand
  <2>2. deletedAt'[q] = deletedAt[q]
    BY <1>4, <1>7 DEF Erased
  <2>3. restore'[q].at \in {"off", "undelete"} /\ q \notin override' /\ entry'[q].by # "no"
    BY <2>1 DEF Erased, Stands
  <2>4. \A c \in Own(q) : chat'[c].state = "deleted" /\ chat'[c].ts = chat[c].ts
    BY <1>1, <2>1 DEF Stands, Own
  <2> QED BY <1>1, <1>5, <2>1, <2>2, <2>3, <2>4 DEF Stands, Untouched
<1>8. ASSUME NEW q \in Portals, deletedAt'[q] # 0 PROVE Stands(q)'
  <2>1. CASE deletedAt[q] # 0
    <3>1. Untouched(q) /\ DeletionsStand
      BY <1>7, <2>1 DEF DeletionInv
    <3> QED BY <1>8, <2>1, <3>1, StandsStill
  <2>2. CASE deletedAt[q] = 0
    <3>1. q = p /\ restore[p].at = "off" /\ deletedAt'[p] = DeletedTail(chat', msg', p)
      BY <1>4, <1>8, <2>2 DEF Erased
    <3>2. CASE \E m \in MsgsOf(msg', p, {"deleted"}) : deletedAt'[p] = Stamp[m]
      <4>1. PICK m \in MsgsOf(msg', p, {"deleted"}) : deletedAt'[p] = Stamp[m]
        BY <3>2
      <4>2. m \in Guids /\ msg'[m].portal = p /\ msg'[m].state = "deleted" /\ Stamp[m] >= deletedAt'[p]
        BY <4>1, StoreAssumption DEF MsgsOf
      <4> QED BY <1>1, <1>6, <3>1, <4>2 DEF Stands, Dated, Erased
    <3>3. CASE \E c \in ChatsOf(chat', p, {"live", "deleted"}) : deletedAt'[p] = chat'[c].ts
      <4>1. PICK c \in ChatsOf(chat', p, {"live", "deleted"}) : deletedAt'[p] = chat'[c].ts
        BY <3>3
      <4>2. c \in Own(p) /\ chat'[c].ts \in Nat
        BY <1>1, <4>1 DEF ChatsOf, ChatTable, ChatRow, Own
      <4>3. chat'[c].ts >= deletedAt'[p]
        BY <4>1, <4>2
      <4> QED BY <1>1, <1>6, <3>1, <4>2, <4>3 DEF Stands, Dated, Erased
    <3> QED BY <1>2, <1>8, <3>1, <3>2, <3>3
  <2> QED BY <2>1, <2>2
<1> QED BY <1>3, <1>8 DEF Keeps, DeletionInv, DeletionsStand
LEMMA EraseChatErases ==
  ASSUME DeletionInv, NEW p \in Portals, EraseChat(p), UNCHANGED <<restore, now>> PROVE Erased(p)
<1>1. entry \in [Portals -> Entry] /\ now \in Nat
  BY DEF DeletionInv, Shape, Around
<1>2. [by |-> "user", at |-> now] \in Entry
  BY <1>1 DEF Entry
<1>3. entry' = [entry EXCEPT ![p] = [by |-> "user", at |-> now]]
  BY DEF EraseChat
<1>4. entry' \in [Portals -> Entry] /\ entry'[p].by # "no" /\ \A q \in Portals \ {p} : entry'[q] = entry[q]
  BY <1>1, <1>2, <1>3
<1> QED BY <1>4 DEF EraseChat, Erased, Write

LEMMA TombstoneErases ==
  ASSUME DeletionInv, NEW p \in Portals, p \notin override, NEW C \in SUBSET Own(p), Tombstone(p, C),
         UNCHANGED <<override, restore, now>>
  PROVE  Erased(p)
<1> DEFINE with == IF C = {} THEN chat ELSE InsertTombstone(chat, CHOOSE c \in C : TRUE, now)
<1>1. entry \in [Portals -> Entry] /\ now \in Nat /\ ChatTable(chat)
  BY DEF DeletionInv, Shape, Around
<1>2. with = chat
  <2>1. CASE C = {}
    BY <2>1
  <2>2. CASE C # {}
    <3>1. PICK c \in C : with = InsertTombstone(chat, c, now)
      BY <2>2
    <3> QED BY <1>1, <3>1, ChatStatements
  <2> QED BY <2>1, <2>2
<1>3. /\ chat' = DeleteChatsOf(with, p, now) /\ msg' = DeleteMsgsOf(chat', msg, p)
      /\ entry' = [entry EXCEPT ![p] = IF entry[p].by = "no" THEN [by |-> "tomb", at |-> now] ELSE entry[p]]
      /\ deletedAt' = [deletedAt EXCEPT ![p] = IF deletedAt[p] = 0 /\ restore[p].at = "off"
                                               THEN DeletedTail(chat', msg', p) ELSE deletedAt[p]]
  BY DEF Tombstone, Write
<1>4. [by |-> "tomb", at |-> now] \in Entry /\ entry[p] \in Entry
  BY <1>1 DEF Entry
<1>5. entry' \in [Portals -> Entry] /\ entry'[p].by # "no" /\ \A q \in Portals \ {p} : entry'[q] = entry[q]
  BY <1>1, <1>3, <1>4
<1>6. override' = override \ {p}
  OBVIOUS
<1> HIDE DEF with
<1> QED BY <1>2, <1>3, <1>5, <1>6 DEF Erased

LEMMA HandleChatDeleteSafe == ASSUME DeletionInv, NEW n \in notices, HandleChatDelete(n) PROVE Keeps
<1>1. n.type = "delete" /\ n \in Notices
  BY DEF HandleChatDelete, DeletionInv, Shape, Around
<1>2. n.of \in Portals
  BY <1>1 DEF Notices
<1>3. /\ notices' = notices \ {n} /\ EraseChat(n.of) /\ UNCHANGED <<restore, now>>
      /\ Push(n.of, Event("delete", AnyMsg, FALSE)) \/ UNCHANGED events
  BY DEF HandleChatDelete, command
<1>4. Erased(n.of)
  BY <1>2, <1>3, EraseChatErases
<1>5. events' \in [Portals -> Seq(Queued)] /\ \A p \in Portals : AskedFor(p)
  <2>1. CASE Push(n.of, Event("delete", AnyMsg, FALSE))
    <3>1. Event("delete", AnyMsg, FALSE) \in Queued /\ Event("delete", AnyMsg, FALSE).create = FALSE
      BY DEF Event, Queued
    <3>2. \A p \in Portals : AskedFor(p) /\ events' \in [Portals -> Seq(Queued)]
      BY <1>2, <2>1, <3>1, Pushed DEF DeletionInv
    <3> QED BY <1>2, <3>2
  <2>2. CASE UNCHANGED events
    BY <2>2, SameQueues DEF DeletionInv, Shape, Around
  <2> QED BY <1>3, <2>1, <2>2
<1>6. notices' \subseteq Notices
  BY <1>3 DEF DeletionInv, Shape, Around
<1> QED BY <1>2, <1>4, <1>5, <1>6, ErasedSafe

LEMMA MatrixDeleteSafe == ASSUME DeletionInv, NEW p \in Portals, HandleMatrixDeleteChat(p) PROVE Keeps
<1>1. EraseChat(p) /\ UNCHANGED <<restore, now, events, notices>>
  BY DEF HandleMatrixDeleteChat, command
<1>2. Erased(p)
  BY <1>1, EraseChatErases
<1>3. events' \in [Portals -> Seq(Queued)] /\ notices' \subseteq Notices
  BY <1>1 DEF DeletionInv, Shape, Around
<1> QED BY <1>1, <1>2, <1>3, ErasedSafe, SameQueues

(* The start finds a chat in the recycle bin, and brings it back or forgets its *)
(* deletion only when that does not stand or ends with it.                      *)
LEMMA BroughtBack ==
  ASSUME DeletionInv, NEW p \in Portals, deletedAt'[p] = 0, Forget(p),
         \A q \in Portals \ {p} : deletedAt'[q] = deletedAt[q], deletedAt' \in [Portals -> Nat],
         UNCHANGED <<override, events, restore, now, notices>>,
         UndeleteAll(p) \/ UNCHANGED <<chat, msg>>
  PROVE  Keeps
<1>1. Shape
  BY DEF DeletionInv
<1>2. ChatTable(chat') /\ MsgTable(msg')
  <2>1. CASE UndeleteAll(p)
    <3>1. ChatTable(UndeleteChat(chat, p, now))
      BY <1>1, ChatStatements DEF Shape, Around
    <3> QED BY <1>1, <2>1, <3>1, ChatStatements, MsgStatements DEF Shape, Around, UndeleteAll, Write
  <2> QED BY <1>1, <2>1 DEF Shape
<1>3. entry' \in [Portals -> Entry] /\ \A q \in Portals \ {p} : entry'[q] = entry[q]
  <2>1. NoEntry \in Entry
    BY DEF NoEntry, Entry
  <2> QED BY <1>1, <2>1 DEF Forget, Shape, Around
<1>4. Shape'
  BY <1>1, <1>2, <1>3 DEF Shape, Around
<1>5. \A c \in ChatIds \ Own(p) : chat'[c] = chat[c]
  <2>1. \A c \in ChatIds \ Own(p) : chat[c].portal # p
    BY <1>1 DEF Own, Shape, ChatTable
  <2> QED BY <2>1 DEF UndeleteAll, ResetForward, UndeleteChat, ChatsOf
<1>6. \A m \in Guids : msg'[m] = msg[m] \/ (msg[m].portal \in {p, NoPortal} /\ msg'[m].portal = p)
  <2>1. CASE UndeleteAll(p)
    BY <1>1, <2>1 DEF UndeleteAll, Write, UndeleteMsgs, MsgsOf, Shape, MsgTable, MsgRow
  <2> QED BY <2>1
<1> QED BY <1>3, <1>4, <1>5, <1>6, OnePortal, SameQueues
LEMMA NoLongerStands ==
  ASSUME DeletionInv, NEW p \in Portals, p \in override \/ HasChat(chat, p) \/ Backfillable(msg, p) # {}
  PROVE  deletedAt[p] = 0
<1> SUFFICES ASSUME deletedAt[p] # 0 PROVE FALSE
  BY DEF DeletionInv, Shape, Around
<1>1. Stands(p)
  BY DEF DeletionInv, DeletionsStand
<1>2. CASE HasChat(chat, p)
  <2>1. PICK c \in ChatIds : chat[c].portal = p /\ chat[c].state = "live"
    BY <1>2 DEF HasChat, ChatsOf
  <2>2. c \in Own(p)
    BY <2>1 DEF DeletionInv, Shape, ChatTable, Own
  <2> QED BY <1>1, <2>1, <2>2 DEF Stands
<1> QED BY <1>1, <1>2 DEF Stands

LEMMA SeedChatSafe == ASSUME DeletionInv, NEW c \in ChatIds, SeedChatOf(c) PROVE Keeps
<1> DEFINE p == ChatPortal[c]
<1>1. p \in Portals /\ c \in Own(p)
  BY StoreAssumption DEF Own
<1>2. UNCHANGED <<override, events, restore, now, notices>>
  BY DEF SeedChatOf, phone, matrix, command
<1>3. \/ /\ p \in override \/ HasChat(chat, p)
         /\ UndeleteAll(p) \/ UNCHANGED <<chat, msg>>
         /\ Forget(p) /\ UNCHANGED deletedAt
      \/ /\ Backfillable(msg, p) # {} /\ chat' = SeedChat(chat, c, p, now)
         /\ UNCHANGED <<msg, entry, deletedAt>>
      \/ p \notin override /\ Tombstone(p, {c})
  BY DEF SeedChatOf
<1>4. deletedAt \in [Portals -> Nat]
  BY DEF DeletionInv, Shape, Around
<1> HIDE DEF p
<1>5. CASE (p \in override \/ HasChat(chat, p)) /\ (UndeleteAll(p) \/ UNCHANGED <<chat, msg>>)
             /\ Forget(p) /\ UNCHANGED deletedAt
  <2>1. deletedAt'[p] = 0
    BY <1>1, <1>5, NoLongerStands
  <2> QED BY <1>1, <1>2, <1>4, <1>5, <2>1, BroughtBack
<1>6. CASE Backfillable(msg, p) # {} /\ chat' = SeedChat(chat, c, p, now) /\ UNCHANGED <<msg, entry, deletedAt>>
  <2>1. deletedAt'[p] = 0
    BY <1>1, <1>6, NoLongerStands
  <2>2. ChatTable(chat')
    BY <1>1, <1>6, ChatStatements DEF DeletionInv, Shape, Around
  <2>3. \A d \in ChatIds \ Own(p) : chat'[d] = chat[d]
    BY <1>1, <1>6 DEF SeedChat, DeletionInv, Shape, ChatTable
  <2>4. Shape'
    BY <1>2, <1>6, <2>2 DEF DeletionInv, Shape, Around
  <2> QED BY <1>1, <1>2, <1>6, <2>1, <2>3, <2>4, OnePortal, SameQueues
<1>7. CASE p \notin override /\ Tombstone(p, {c})
  <2>1. Erased(p)
    <3>1. {c} \in SUBSET Own(p)
      BY <1>1
    <3> QED BY <1>1, <1>2, <1>7, <3>1, TombstoneErases
  <2>2. events' \in [Portals -> Seq(Queued)] /\ notices' \subseteq Notices
    BY <1>2 DEF DeletionInv, Shape, Around
  <2> QED BY <1>1, <1>2, <2>1, <2>2, ErasedSafe, SameQueues
<1> QED BY <1>3, <1>5, <1>6, <1>7

LEMMA SeedMessagesSafe == ASSUME DeletionInv, NEW p \in Portals, SeedMessagesOf(p) PROVE Keeps
<1>1. UNCHANGED <<override, events, restore, now, notices>>
  BY DEF SeedMessagesOf, phone, matrix, command
<1>2. \/ UNCHANGED <<chat, msg, entry, deletedAt>>
      \/ UndeleteAll(p) /\ Forget(p) /\ deletedAt' = [deletedAt EXCEPT ![p] = 0]
      \/ /\ p \in override \/ HasChat(chat, p)
         /\ UndeleteAll(p) \/ UNCHANGED <<chat, msg>>
         /\ Forget(p) /\ UNCHANGED deletedAt
      \/ p \notin override /\ Tombstone(p, Own(p))
  BY DEF SeedMessagesOf
<1>3. deletedAt \in [Portals -> Nat] /\ events \in [Portals -> Seq(Queued)] /\ notices \subseteq Notices
  BY DEF DeletionInv, Shape, Around
<1>4. CASE UNCHANGED <<chat, msg, entry, deletedAt>>
  BY <1>1, <1>4, Quiet DEF DeletionInv, Shape, Around, DeletionsStand, Stands
<1>5. CASE UndeleteAll(p) /\ Forget(p) /\ deletedAt' = [deletedAt EXCEPT ![p] = 0]
  BY <1>1, <1>3, <1>5, BroughtBack
<1>6. CASE (p \in override \/ HasChat(chat, p)) /\ (UndeleteAll(p) \/ UNCHANGED <<chat, msg>>)
             /\ Forget(p) /\ UNCHANGED deletedAt
  <2>1. deletedAt'[p] = 0
    BY <1>6, NoLongerStands
  <2> QED BY <1>1, <1>3, <1>6, <2>1, BroughtBack
<1>7. CASE p \notin override /\ Tombstone(p, Own(p))
  <2>1. Erased(p)
    BY <1>1, <1>7, TombstoneErases
  <2> QED BY <1>1, <1>3, <2>1, ErasedSafe, SameQueues
<1> QED BY <1>2, <1>4, <1>5, <1>6, <1>7

-----------------------------------------------------------------------------
(* A live message: while a deletion stands it is shown in a room that it makes, *)
(* and wakes the chat, only when it is newer than the deletion.                  *)
LEMMA OnlyNewer ==
  ASSUME DeletionInv, Recorded, NEW m \in Guids, NEW p \in Portals, deletedAt[p] # 0,
         NEW missing,
         LET v == Verdict(chat, msg, entry[p], m, p, gate, missing)
         IN  v.revive \/ (v.do = "show" /\ v.create)
  PROVE  Stamp[m] > deletedAt[p]
<1>1. Stands(p) /\ ChatTable(chat) /\ entry[p].by # "no" /\ deletedAt[p] \in Nat
  BY DEF DeletionInv, DeletionsStand, Stands, Shape, Around
<1>2. ~Stale(chat, msg, entry[p], m, p)
  BY <1>1 DEF Verdict
<1>3. FullyDeleted(chat, p)
  <2>1. PICK c \in Own(p) : TRUE
    BY DEF Recorded
  <2>2. \A d \in ChatIds : chat[d].portal = p <=> d \in Own(p)
    BY <1>1 DEF ChatTable, Own
  <2> QED BY <1>1, <2>1, <2>2 DEF Stands, Own, FullyDeleted, ExplicitlyDeleted, HasChat, ChatsOf
<1> DEFINE tail == DeletedTail(chat, msg, p)
<1>4. tail \in Nat /\ deletedAt[p] <= tail
  <2>1. chat \in [ChatIds -> ChatRow]
    BY <1>1 DEF ChatTable
  <2>2. /\ tail \in Nat
        /\ \A c \in ChatsOf(chat, p, {"live", "deleted"}) : chat[c].ts <= tail
        /\ \A k \in MsgsOf(msg, p, {"deleted"}) : Stamp[k] <= tail
    BY <2>1, NewestDeleted
  <2> HIDE DEF tail
  <2>3. CASE \E c \in Own(p) : chat[c].ts >= deletedAt[p]
    <3>1. PICK c \in Own(p) : chat[c].ts >= deletedAt[p]
      BY <2>3
    <3>2. c \in ChatsOf(chat, p, {"live", "deleted"}) /\ chat[c].ts \in Nat
      BY <1>1, <2>1 DEF Own, Stands, ChatsOf, ChatTable, ChatRow
    <3> QED BY <1>1, <2>2, <3>1, <3>2
  <2>4. CASE \E k \in Guids : msg[k].portal = p /\ msg[k].state = "deleted" /\ Stamp[k] >= deletedAt[p]
    <3>1. PICK k \in Guids : msg[k].portal = p /\ msg[k].state = "deleted" /\ Stamp[k] >= deletedAt[p]
      BY <2>4
    <3>2. k \in MsgsOf(msg, p, {"deleted"}) /\ Stamp[k] \in Nat
      BY <3>1, StoreAssumption DEF MsgsOf
    <3> QED BY <1>1, <2>2, <3>1, <3>2
  <2> QED BY <1>1, <2>3, <2>4 DEF Stands, Dated
<1>5. ~(tail > 0 /\ Stamp[m] <= tail)
  BY <1>2, <1>3 DEF Stale, NotNewer
<1>6. Stamp[m] \in Nat
  BY StoreAssumption
<1> HIDE DEF tail
<1> QED BY <1>1, <1>4, <1>5, <1>6
LEMMA HandleMessageSafe == ASSUME DeletionInv, Recorded, NEW m \in Guids, HandleMessage(m) PROVE Keeps
<1> DEFINE p == Home[m]
           v == Verdict(chat, msg, entry[p], m, p, gate, p \notin room)
           do == IF m \in shown[p] THEN "drop" ELSE v.do
<1>1. /\ ReviveShell(p, v.revive /\ m \notin shown[p])
      /\ \/ do = "show" /\ msg' = PersistUUID(msg, m, p) /\ Push(p, Event("msg", m, v.create))
         \/ UNCHANGED <<msg, events>>
      /\ deletedAt' = [deletedAt EXCEPT ![p] = IF (v.revive \/ (do = "show" /\ v.create)) /\ Stamp[m] > deletedAt[p]
                                               THEN 0 ELSE deletedAt[p]]
      /\ UNCHANGED <<override, restore, now, notices>>
  BY DEF HandleMessage, Write, phone, command
<1>2. p \in Portals
  BY LifecycleAssumption
<1>3. v.create \in BOOLEAN
  BY DEF Verdict
<1>4. do = "show" => v.do = "show"
  OBVIOUS
<1>5. deletedAt[p] # 0 /\ (v.revive \/ (v.do = "show" /\ v.create)) => Stamp[m] > deletedAt[p]
  BY <1>2, OnlyNewer
<1> HIDE DEF p, v, do
<1>6. Shape
  BY DEF DeletionInv
<1>7. entry \in [Portals -> Entry] /\ deletedAt \in [Portals -> Nat] /\ events \in [Portals -> Seq(Queued)] /\ now \in Nat
  BY <1>6 DEF Shape, Around
<1>8. ChatTable(chat') /\ (\A c \in ChatIds \ Own(p) : chat'[c] = chat[c])
      /\ entry' \in [Portals -> Entry] /\ \A q \in Portals \ {p} : entry'[q] = entry[q]
  <2>1. CASE v.revive /\ m \notin shown[p]
    <3>1. chat' = UndeleteChat(chat, p, now) /\ entry' = [entry EXCEPT ![p] = NoEntry]
      BY <1>1, <2>1 DEF ReviveShell, Forget
    <3>2. ChatTable(chat')
      BY <1>2, <1>6, <1>7, <3>1, ChatStatements DEF Shape
    <3>3. \A c \in ChatIds \ Own(p) : chat[c].portal # p
      BY <1>6 DEF Own, Shape, ChatTable
    <3>4. NoEntry \in Entry
      BY DEF NoEntry, Entry
    <3> QED BY <1>7, <3>1, <3>2, <3>3, <3>4 DEF UndeleteChat, ChatsOf
  <2>2. CASE ~(v.revive /\ m \notin shown[p])
    BY <1>1, <1>6, <1>7, <2>2 DEF ReviveShell, Shape
  <2> QED BY <2>1, <2>2
<1>9. MsgTable(msg') /\ \A k \in Guids : \/ msg'[k] = msg[k]
                                         \/ /\ msg[k].state = "none" /\ msg'[k].portal = p
                                            /\ msg'[k].state = "live" /\ msg'[k].cloud = FALSE
  <2>1. CASE msg' = PersistUUID(msg, m, p)
    <3>1. MsgTable(msg')
      BY <1>6, <2>1, MsgStatements DEF Shape, p
    <3>2. \A k \in Guids : \/ msg'[k] = msg[k]
                           \/ /\ msg[k].state = "none" /\ msg'[k].portal = p
                              /\ msg'[k].state = "live" /\ msg'[k].cloud = FALSE
      BY <1>6, <2>1 DEF PersistUUID, Known, Shape, MsgTable
    <3> QED BY <3>1, <3>2
  <2>2. CASE msg' = msg
    BY <1>6, <2>2 DEF Shape
  <2> QED BY <1>1, <2>1, <2>2
<1>10. events' \in [Portals -> Seq(Queued)] /\ \A q \in Portals : AskedFor(q)
  <2>1. CASE UNCHANGED events
    BY <1>7, <2>1, SameQueues
  <2>2. CASE do = "show" /\ Push(p, Event("msg", m, v.create))
    <3>1. /\ Event("msg", m, v.create) \in Queued /\ Event("msg", m, v.create).create = v.create
          /\ Event("msg", m, v.create).type = "msg" /\ Event("msg", m, v.create).msg = m
      BY <1>3 DEF Event, Queued
    <3>2. \A q \in Portals : AskedFor(q) /\ events' \in [Portals -> Seq(Queued)]
      BY <1>2, <1>4, <1>5, <1>6, <2>2, <3>1, Pushed
    <3> QED BY <1>2, <3>2
  <2> QED BY <1>1, <2>1, <2>2
<1>11. Shape'
  <2>1. deletedAt' \in [Portals -> Nat]
    BY <1>1, <1>7
  <2> QED BY <1>1, <1>6, <1>8, <1>9, <1>10, <2>1 DEF Shape, Around
<1>12. ASSUME NEW q \in Portals, deletedAt[q] # 0, deletedAt'[q] # 0 PROVE Untouched(q)
  <2>1. Stands(q)
    BY <1>12 DEF DeletionInv, DeletionsStand
  <2>2. deletedAt'[q] = deletedAt[q]
    BY <1>1, <1>7, <1>12
  <2>3. q = p => ~v.revive
    BY <1>1, <1>5, <1>7, <1>12
  <2>4. (\A c \in Own(q) : chat'[c] = chat[c]) /\ entry'[q] = entry[q]
    <3>1. CASE q = p
      BY <1>1, <2>3, <3>1 DEF ReviveShell
    <3>2. CASE q # p
      BY <1>8, <3>2 DEF Own
    <3> QED BY <3>1, <3>2
  <2>5. Backfillable(msg', q) = {}
    BY <1>9, <2>1 DEF Stands, Backfillable, MsgsOf
  <2>6. \A k \in Guids : msg[k].portal = q /\ msg[k].state = "deleted" =>
                         msg'[k].portal = q /\ msg'[k].state = "deleted"
    BY <1>9
  <2> QED BY <1>1, <2>1, <2>2, <2>4, <2>5, <2>6 DEF Stands, Untouched
<1>13. \A q \in Portals : deletedAt[q] = 0 => deletedAt'[q] = 0
  BY <1>1, <1>7
<1> QED BY <1>10, <1>11, <1>12, <1>13, Step
LEMMA NextKeeps == ASSUME DeletionInv, Recorded, [Next]_vars PROVE Keeps
<1>1. CASE Bridge
  <2>1. CASE \E n \in notices : HandleChatDelete(n) \/ HandleMessageDelete(n) \/ HandleChatRecover(n)
    <3>1. PICK n \in notices : HandleChatDelete(n) \/ HandleMessageDelete(n) \/ HandleChatRecover(n)
      BY <2>1
    <3>2. CASE HandleChatDelete(n)
      BY <3>2, HandleChatDeleteSafe
    <3>3. CASE HandleMessageDelete(n)
      BY <3>3, HandleMessageDeleteSafe
    <3>4. CASE HandleChatRecover(n)
      <4>1. n.of \in Portals
        BY <3>4 DEF HandleChatRecover, DeletionInv, Shape, Around, Notices
      <4> QED BY <3>4, <4>1, RestoreQuiet
    <3> QED BY <3>1, <3>2, <3>3, <3>4
  <2>2. CASE \E m \in Guids : HandleMessage(m)
    BY <2>2, HandleMessageSafe
  <2>3. CASE \E p \in Portals : HandleEvent(p) \/ DeleteFromApple(p) \/ SeedMessagesOf(p)
    BY <2>3, HandleEventSafe, DevicesQuiet, SeedMessagesSafe
  <2>4. CASE ListBin \/ ListBinMessages
    BY <2>4, DevicesQuiet
  <2>5. CASE \E c \in ChatIds : SeedChatOf(c)
    BY <2>5, SeedChatSafe
  <2>6. CASE CreatePortals
    BY <2>6, CreatePortalsSafe
  <2> QED BY <1>1, <2>1, <2>2, <2>3, <2>4, <2>5, <2>6 DEF Bridge
<1>2. CASE \E p \in Portals : Pipeline(p)
  <2>1. PICK p \in Portals : Pipeline(p)
    BY <1>2
  <2>2. CASE RecoverOnApple(p) \/ Fetch(p)
    BY <2>2, RestoreQuiet
  <2>3. CASE Undelete(p) \/ Unscrub(p) \/ RecoverMessages(p)
    BY <2>3, UndeleteSafe, UnscrubSafe, RecoverSafe
  <2>4. CASE RefreshMetadata(p) \/ Import(p) \/ QueueResync(p)
    BY <2>4, RefreshSafe, ImportSafe, ResyncSafe
  <2> QED BY <2>1, <2>2, <2>3, <2>4 DEF Pipeline
<1>3. CASE StartScrub \/ UNCHANGED vars
  BY <1>3, DevicesQuiet
<1>4. CASE Scrub
  BY <1>4, ScrubSafe
<1>5. CASE Surroundings
  <2>1. CASE Change \/ OfferRestore \/ \E m \in Guids : Send(m) \/ OnMessage(m)
    BY <2>1, DevicesQuiet
  <2>2. CASE Restart
    BY <2>2, RestartSafe
  <2>3. CASE \E p \in Portals : HandleMatrixDeleteChat(p)
    BY <2>3, MatrixDeleteSafe
  <2>4. CASE \E p \in Portals : ChooseRestore(p)
    BY <2>4, RestoreQuiet
  <2> QED BY <1>5, <2>1, <2>2, <2>3, <2>4 DEF Surroundings
<1> QED BY <1>1, <1>2, <1>3, <1>4, <1>5 DEF Next

(* While a deletion stands its rows stay deleted and say how old it is, the list *)
(* of deleted portals holds the chat, and no restore is past its first step:     *)
(* through replays, restarts, deletions of other chats and the start's look at   *)
(* the recycle bin (handleMessage, trackDeletedChat,                             *)
(* seedDeletedChatsFromRecycleBin, runRestoreBackfillPipeline).                  *)
THEOREM DeletionsStandAlways == ASSUME Recorded PROVE Spec => []DeletionInv
<1>1. Init => DeletionInv
  BY InitDeletion
<1>2. DeletionInv /\ [Next]_vars => DeletionInv'
  BY NextKeeps DEF Keeps
<1> QED BY <1>1, <1>2, PTL DEF Spec

(* No zombie: the bridge asks for a room of a deleted chat only for a message   *)
(* newer than the deletion, or as the end of a restore (handleMessage,           *)
(* createPortalsFromCloudSync, seedDeletedChatsFromRecycleBin).                  *)
THEOREM DeletedStaysGone == ASSUME Recorded PROVE Spec => NoZombie
<1>1. DeletionInv /\ [Next]_vars =>
        \A p \in Portals :
          Len(events'[p]) > Len(events[p]) =>
            LET e == events'[p][Len(events'[p])]
            IN  e.create /\ deletedAt[p] # 0 =>
                  \/ e.type = "msg" /\ Stamp[e.msg] > deletedAt[p]
                  \/ e.type = "resync" /\ restore[p].at = "resync"
  BY NextKeeps DEF Keeps, AskedFor
<1> QED BY <1>1, DeletionsStandAlways, PTL DEF Spec, NoZombie
-----------------------------------------------------------------------------
(* What a restore has promised is not erased again before its room is made. *)

\* Every record with the UUID of a group has the group's portal.
OwnAliases == \A p \in Portals : \A c \in Alias[p] : ChatPortal[c] = p

\* A room that is being removed, or is not there.
Ending(p) == p \in closing \/ \E i \in 1 .. Len(events[p]) : events[p][i].type = "delete"
Gone(p) == p \notin room \/ Ending(p)

RowInv == \A m \in Guids : /\ msg[m].state = "live" => msg[m].portal = Home[m]
                           /\ msg[m].state = "none" => msg[m].body = "none"

\* Only messages and resyncs make rooms.
RoomInv(p) ==
  /\ shown[p] # {} => p \in room
  /\ \A i \in 1 .. Len(events[p]) : events[p][i].create => events[p][i].type \in {"msg", "resync"}

\* A scrub under way started before the removal of the room did: what the
\* deletion of the chat has left live was written since.
YoungInv(p) ==
  scrub.on /\ Ending(p) => \A m \in Guids : msg[m].portal = p /\ msg[m].state = "live" => m \in fresh

\* What is said of a promised message at each stage of the restore.
Due(p, m) ==
  /\ restore[p].at # "undelete" => msg[m].state \in {"none", "live"}
  /\ restore[p].at \in {"messages", "refresh", "apple", "fetch", "import"} => msg[m].body # "scrubbed"
  /\ restore[p].at \in {"resync", "off"} => msg[m].state = "live" /\ msg[m].cloud /\ msg[m].body = "text"

PromiseInv(p) == \A m \in promised[p] : Home[m] = p /\ (Gone(p) => Due(p, m))
FullInv ==
  /\ promised \in [Portals -> SUBSET Guids] /\ DOMAIN shown = Portals
  /\ RowInv /\ \A p \in Portals : RoomInv(p) /\ YoungInv(p) /\ PromiseInv(p)

LEMMA InitFull == ASSUME Init PROVE FullInv
<1>0. PICK deleted \in BOOLEAN, recovered \in BOOLEAN, bridged \in BOOLEAN, known \in BOOLEAN :
        /\ known \/ (deleted /\ ~bridged)
        /\ chat = [c \in ChatIds |-> [state |-> IF deleted THEN "deleted" ELSE "live",
                                      portal |-> ChatPortal[c], fwd |-> bridged,
                                      ts |-> IF deleted THEN 1 ELSE 0]]
        /\ msg = [m \in Guids |-> IF m \notin Old \/ ~known THEN NoMsgs[m] ELSE
                    [state |-> IF deleted THEN "deleted" ELSE "live", portal |-> Home[m],
                     cloud |-> TRUE, body |-> IF deleted THEN "scrubbed" ELSE "text"]]
        /\ room = IF bridged /\ ~deleted THEN Portals ELSE {}
        /\ shown = [p \in Portals |-> IF p \in room THEN OfPortal(Old, p) ELSE {}]
        /\ LET zone == IF deleted /\ ~recovered THEN "bin" ELSE "main"
           IN  /\ apple = [m \in Guids |-> IF m \in Old THEN zone ELSE "none"]
               /\ record = [c \in ChatIds |-> zone]
        /\ entry = [p \in Portals |-> IF deleted THEN [by |-> "tomb", at |-> 1] ELSE NoEntry]
        /\ deletedAt = [p \in Portals |-> IF deleted THEN 1 ELSE 0]
  BY DEF Init
<1>1. \A m \in Guids : \/ msg[m].state = "none" /\ msg[m].body = "none"
                       \/ msg[m].state # "none" /\ msg[m].portal = Home[m]
  <2>1. msg = [m \in Guids |-> IF m \notin Old \/ ~known THEN NoMsgs[m] ELSE
                 [state |-> IF deleted THEN "deleted" ELSE "live", portal |-> Home[m],
                  cloud |-> TRUE, body |-> IF deleted THEN "scrubbed" ELSE "text"]]
    BY <1>0
  <2> QED BY <2>1 DEF NoMsgs
<1>2. \A p \in Portals : events[p] = <<>> /\ promised[p] = {} /\ (shown[p] # {} => p \in room)
  BY DEF Init
<1>3. scrub.on = FALSE /\ promised = [p \in Portals |-> {}] /\ DOMAIN shown = Portals
  BY DEF Init, Idle
<1> QED BY <1>1, <1>2, <1>3 DEF FullInv, RowInv, RoomInv, YoungInv, PromiseInv

\* The rows written in a step are remembered as young while a scrub is under way.
Written ==
  /\ UNCHANGED scrub
  /\ \/ UNCHANGED <<msg, fresh>>
     \/ fresh' = IF scrub.on THEN fresh \cup {m \in Guids : msg'[m] # msg[m]} ELSE {}

LEMMA FullStep ==
  ASSUME FullInv, Written, RowInv', promised' \in [Portals -> SUBSET Guids], DOMAIN shown' = Portals,
         \A p \in Portals :
           /\ RoomInv(p)' /\ PromiseInv(p)'
           /\ \/ Ending(p)' => Ending(p)
              \/ \A m \in Guids : ~(msg'[m].portal = p /\ msg'[m].state = "live")
  PROVE  FullInv'
<1>1. ASSUME NEW p \in Portals PROVE YoungInv(p)'
  <2>1. CASE \A m \in Guids : ~(msg'[m].portal = p /\ msg'[m].state = "live")
    BY <2>1 DEF YoungInv
  <2>2. CASE Ending(p)' => Ending(p)
    <3> SUFFICES ASSUME scrub'.on, Ending(p)', NEW m \in Guids, msg'[m].portal = p, msg'[m].state = "live"
                 PROVE  m \in fresh'
      BY DEF YoungInv
    <3>1. scrub.on /\ Ending(p) /\ YoungInv(p)
      BY <2>2 DEF Written, FullInv
    <3>2. msg[m].portal = p /\ msg[m].state = "live" => m \in fresh
      BY <3>1 DEF YoungInv
    <3> QED BY <3>1, <3>2 DEF Written
  <2> QED BY <2>1, <2>2
<1> QED BY <1>1 DEF FullInv

(* A room stays there, or is made, and no removal of it is begun. *)
LEMMA NotGone ==
  ASSUME NEW p \in Portals, Ending(p)' => Ending(p), p \in room => p \in room' \/ Ending(p)
  PROVE  Gone(p)' => Gone(p)
BY DEF Gone

LEMMA SameRooms ==
  ASSUME FullInv, UNCHANGED <<room, closing, events, shown>>, NEW p \in Portals
  PROVE  RoomInv(p)' /\ (Ending(p)' => Ending(p)) /\ (Gone(p)' => Gone(p))
BY DEF FullInv, RoomInv, Ending, Gone

(* An event is queued. *)
LEMMA QueuedRooms ==
  ASSUME FullInv, NEW p \in Portals, NEW e \in Queued, events[p] \in Seq(Queued), events'[p] = Append(events[p], e),
         e.create => e.type \in {"msg", "resync"}, UNCHANGED <<room, closing, shown>>
  PROVE  RoomInv(p)' /\ (e.type # "delete" => (Ending(p)' => Ending(p)) /\ (Gone(p)' => Gone(p)))
<1>1. /\ Len(events'[p]) = Len(events[p]) + 1 /\ Len(events[p]) \in Nat
      /\ \A i \in 1 .. Len(events[p]) : events'[p][i] = events[p][i]
      /\ events'[p][Len(events[p]) + 1] = e
  OBVIOUS
<1>2. \A i \in 1 .. Len(events'[p]) : i \in 1 .. Len(events[p]) \/ i = Len(events[p]) + 1
  BY <1>1
<1>3. RoomInv(p)'
  BY <1>1, <1>2 DEF FullInv, RoomInv
<1>4. e.type # "delete" => (Ending(p)' => Ending(p))
  BY <1>1, <1>2 DEF Ending
<1> QED BY <1>3, <1>4 DEF Gone

LEMMA PushedRooms ==
  ASSUME Shape, FullInv, NEW q \in Portals, NEW e \in Queued, Push(q, e), e.create => e.type \in {"msg", "resync"},
         UNCHANGED <<room, closing, shown>>, NEW p \in Portals
  PROVE  RoomInv(p)' /\ (p # q \/ e.type # "delete" => (Ending(p)' => Ending(p)) /\ (Gone(p)' => Gone(p)))
<1>1. events' = [events EXCEPT ![q] = Append(events[q], e)] /\ events \in [Portals -> Seq(Queued)]
  BY DEF Push, Shape, Around
<1>2. CASE p # q
  <2>1. events'[p] = events[p]
    BY <1>1, <1>2
  <2> QED BY <2>1 DEF FullInv, RoomInv, Ending, Gone
<1>3. CASE p = q
  <2>1. events'[p] = Append(events[p], e) /\ events[p] \in Seq(Queued)
    BY <1>1, <1>3
  <2> QED BY <1>3, <2>1, QueuedRooms
<1> QED BY <1>2, <1>3

(* Neither the rows, nor the rooms, nor the scrubber. *)
LEMMA FullQuiet ==
  ASSUME FullInv, UNCHANGED <<msg, fresh, scrub, room, closing, events, shown>>,
         promised' \in [Portals -> SUBSET Guids],
         \A p \in Portals : \A m \in promised'[p] :
           m \in promised[p] /\ (Gone(p) /\ Due(p, m) => Due(p, m)')
  PROVE  FullInv'
<1>1. ASSUME NEW p \in Portals PROVE RoomInv(p)' /\ PromiseInv(p)' /\ (Ending(p)' => Ending(p))
  <2>1. RoomInv(p)' /\ (Ending(p)' => Ending(p)) /\ (Gone(p)' => Gone(p))
    BY SameRooms
  <2>2. PromiseInv(p)'
    BY <2>1 DEF FullInv, PromiseInv
  <2> QED BY <2>1, <2>2
<1>2. RowInv' /\ DOMAIN shown' = Portals
  BY DEF FullInv, RowInv
<1> QED BY <1>1, <1>2, FullStep DEF Written
(* Devices, lists, the start of a restore and the steps of it that write no row. *)
LEMMA QuietFull ==
  ASSUME Shape, FullInv,
         \/ Change \/ ListBin \/ ListBinMessages \/ OfferRestore \/ UNCHANGED vars
         \/ \E m \in Guids : Send(m) \/ OnMessage(m)
         \/ \E p \in Portals : ChooseRestore(p) \/ RecoverOnApple(p) \/ RefreshMetadata(p) \/ Fetch(p)
         \/ \E n \in notices : HandleChatRecover(n)
  PROVE  FullInv'
<1> USE DEF store, phone, matrix, start, inbox, command, gone, history
<1>1. restore \in [Portals -> Pipe] /\ promised \in [Portals -> SUBSET Guids]
  BY DEF Shape, Around, FullInv
<1>2. CASE Change \/ ListBin \/ ListBinMessages \/ OfferRestore \/ UNCHANGED vars
           \/ \E m \in Guids : Send(m) \/ OnMessage(m)
  <2>1. UNCHANGED <<msg, fresh, scrub, room, closing, events, shown, promised, restore>>
    <3>1. CASE Change
      BY <3>1 DEF Change
    <3>2. CASE ListBin \/ ListBinMessages \/ OfferRestore
      BY <3>2 DEF ListBin, ListBinMessages, OfferRestore
    <3>3. CASE \E m \in Guids : Send(m) \/ OnMessage(m)
      BY <3>3 DEF Send, OnMessage
    <3>4. CASE UNCHANGED vars
      BY <3>4 DEF vars
    <3> QED BY <1>2, <3>1, <3>2, <3>3, <3>4
  <2>2. \A p \in Portals : \A m \in promised'[p] : m \in promised[p] /\ (Gone(p) /\ Due(p, m) => Due(p, m)')
    BY <2>1 DEF Due
  <2> QED BY <1>1, <2>1, <2>2, FullQuiet
<1>3. ASSUME NEW q \in Portals,
             \/ ChooseRestore(q) \/ RecoverOnApple(q) \/ RefreshMetadata(q)
             \/ \E n \in notices : HandleChatRecover(n) /\ n.of = q
      PROVE  FullInv'
  <2>1. UNCHANGED <<msg, fresh, scrub, room, closing, events, shown, promised>>
    BY <1>3 DEF ChooseRestore, RecoverOnApple, RefreshMetadata, HandleChatRecover
  <2>2. ASSUME NEW p \in Portals
        PROVE  \/ restore'[p].at = restore[p].at \/ restore'[p].at = "undelete"
               \/ restore[p].at = "refresh" /\ restore'[p].at \in {"apple", "fetch"}
               \/ restore[p].at = "apple" /\ restore'[p].at = "fetch"
    <3>1. restore[p] \in Pipe /\ restore[q] \in Pipe
      BY <1>1
    <3>2. CASE ChooseRestore(q) \/ \E n \in notices : HandleChatRecover(n) /\ n.of = q
      <4>1. \E b \in BOOLEAN : Begin(q, b)
        BY <3>2 DEF ChooseRestore, HandleChatRecover
      <4> QED BY <1>1, <3>1, <4>1 DEF Begin, OffPipeline
    <3>3. CASE RecoverOnApple(q) \/ RefreshMetadata(q)
      <4>1. PICK at \in {"apple", "fetch"} : Stage(q, at) /\ restore[q].at \in {"refresh", "apple"}
                                             /\ (restore[q].at = "apple" => at = "fetch")
        <5>1. CASE RecoverOnApple(q)
          BY <5>1 DEF RecoverOnApple
        <5>2. CASE RefreshMetadata(q)
          <6>1. restore[q].at = "refresh" /\ (Stage(q, "apple") \/ Stage(q, "fetch"))
            BY <5>2 DEF RefreshMetadata
          <6> QED BY <6>1
        <5> QED BY <3>3, <5>1, <5>2
      <4>2. restore' = [restore EXCEPT ![q] = [restore[q] EXCEPT !.at = at]]
        BY <4>1 DEF Stage
      <4>3. [restore[q] EXCEPT !.at = at].at = at
        BY <3>1 DEF Pipe
      <4> QED BY <1>1, <4>1, <4>2, <4>3
    <3> QED BY <1>3, <3>2, <3>3
  <2>3. \A p \in Portals : \A m \in promised'[p] : m \in promised[p] /\ (Gone(p) /\ Due(p, m) => Due(p, m)')
    <3> SUFFICES ASSUME NEW p \in Portals, NEW m \in promised[p], Due(p, m) PROVE Due(p, m)'
      BY <2>1
    <3> QED BY <2>1, <2>2 DEF Due
  <2> QED BY <1>1, <2>1, <2>3, FullQuiet
<1>4. ASSUME NEW q \in Portals, Fetch(q) PROVE FullInv'
  <2>1. UNCHANGED <<msg, fresh, scrub, room, closing, events, shown>>
    BY <1>4 DEF Fetch
  <2>2. restore[q].at = "fetch" /\ restore[q] \in Pipe
    BY <1>1, <1>4 DEF Fetch
  <2>3. \/ restore'[q].at \in {"fetch", "import"} /\ promised' = promised
        \/ promised' = [promised EXCEPT ![q] = {}]
    <3> DEFINE found == {m \in Guids : Home[m] = q /\ apple[m] = "main"}
               r1 == [restore[q] EXCEPT !.at = "import", !.got = found]
               r2 == [restore[q] EXCEPT !.tries = restore[q].tries + 1]
    <3>1. \/ restore' = [restore EXCEPT ![q] = r1] /\ promised' = promised
          \/ restore' = [restore EXCEPT ![q] = r2] /\ promised' = promised
          \/ promised' = [promised EXCEPT ![q] = {}]
      BY <1>1, <1>4 DEF Fetch
    <3>2. r1.at = "import" /\ r2.at = "fetch"
      BY <2>2 DEF Pipe
    <3> HIDE DEF found, r1, r2
    <3> QED BY <1>1, <3>1, <3>2
  <2>4. \A p \in Portals \ {q} : restore'[p] = restore[p] /\ promised'[p] = promised[p]
    BY <1>1, <1>4 DEF Fetch
  <2>5. \A p \in Portals : \A m \in promised'[p] : m \in promised[p] /\ (Gone(p) /\ Due(p, m) => Due(p, m)')
    BY <1>1, <2>1, <2>2, <2>3, <2>4 DEF Due
  <2> QED BY <1>1, <2>1, <2>3, <2>5, FullQuiet
<1>5. CASE \E n \in notices : HandleChatRecover(n)
  <2>1. PICK n \in notices : HandleChatRecover(n)
    BY <1>5
  <2>2. n.of \in Portals
    BY <2>1 DEF HandleChatRecover, Shape, Around, Notices
  <2> QED BY <1>3, <2>1, <2>2
<1> QED BY <1>2, <1>3, <1>4, <1>5
(* Rows and queues are written, rooms are made, and none is to be removed that *)
(* was not.                                                                    *)
LEMMA QueuesFull ==
  ASSUME FullInv, Written, RowInv', DOMAIN shown' = Portals, promised' \in [Portals -> SUBSET Guids],
         \A p \in Portals : RoomInv(p)' /\ (Ending(p)' => Ending(p)) /\ (Gone(p)' => Gone(p)),
         \A p \in Portals : \A m \in promised'[p] : Home[m] = p /\ (Gone(p) => Due(p, m)')
  PROVE  FullInv'
<1>1. \A p \in Portals : PromiseInv(p)'
  BY DEF PromiseInv
<1> QED BY <1>1, FullStep

(* Rows are written, the rooms and their queues stay. *)
LEMMA RowsFull ==
  ASSUME FullInv, Written, UNCHANGED <<room, closing, events, shown>>, RowInv',
         promised' \in [Portals -> SUBSET Guids],
         \A p \in Portals : \A m \in promised'[p] : Home[m] = p /\ (Gone(p) => Due(p, m)')
  PROVE  FullInv'
<1>1. \A p \in Portals : RoomInv(p)' /\ (Ending(p)' => Ending(p)) /\ (Gone(p)' => Gone(p))
  BY SameRooms
<1>2. DOMAIN shown' = Portals
  BY DEF FullInv
<1> QED BY <1>1, <1>2, QueuesFull

(* The rows of another portal. *)
LEMMA OtherHome ==
  ASSUME Shape, NEW p \in Portals, NEW m \in Guids, Home[m] # p PROVE msg[m].portal # p
BY StoreAssumption DEF Shape, MsgTable

LEMMA UnscrubFull == ASSUME Shape, FullInv, NEW q \in Portals, Unscrub(q) PROVE FullInv'
<1>1. PICK at \in {"messages", "refresh"} : Stage(q, at)
  BY DEF Unscrub
<1>2. /\ restore[q].at = "unscrub" /\ msg' = ClearScrub(msg, q) /\ Written
      /\ UNCHANGED <<room, closing, events, shown, promised>>
  BY DEF Unscrub, Write, Written, matrix, history, gone
<1>3. restore' = [restore EXCEPT ![q] = [restore[q] EXCEPT !.at = at]] /\ restore \in [Portals -> Pipe]
  BY <1>1 DEF Stage, Shape, Around
<1>4. restore'[q].at = at /\ \A p \in Portals \ {q} : restore'[p] = restore[p]
  <2>1. [restore[q] EXCEPT !.at = at].at = at
    BY <1>3 DEF Pipe
  <2> QED BY <1>3, <2>1
<1>5. ASSUME NEW m \in Guids
      PROVE  /\ msg'[m].state = msg[m].state /\ msg'[m].portal = msg[m].portal /\ msg'[m].cloud = msg[m].cloud
             /\ msg'[m].body = IF msg[m].portal = q /\ msg[m].body = "scrubbed" THEN "none" ELSE msg[m].body
  <2>1. msg[m] \in MsgRow
    BY DEF Shape, MsgTable
  <2> QED BY <1>2, <2>1 DEF ClearScrub, MsgRow
<1>6. RowInv'
  BY <1>5 DEF FullInv, RowInv
<1>7. ASSUME NEW p \in Portals, NEW m \in promised'[p] PROVE Home[m] = p /\ (Gone(p) => Due(p, m)')
  <2>1. m \in promised[p] /\ m \in Guids /\ Home[m] = p /\ (Gone(p) => Due(p, m))
    BY <1>2, <1>7 DEF FullInv, PromiseInv
  <2>2. CASE p = q
    <3> SUFFICES ASSUME Gone(p) PROVE Due(p, m)'
      BY <2>1
    <3>1. msg[m].state \in {"none", "live"}
      BY <1>2, <2>1, <2>2 DEF Due
    <3>2. msg[m].state = "live" => msg[m].portal = q
      BY <2>1, <2>2 DEF FullInv, RowInv
    <3>3. msg'[m].body # "scrubbed"
      BY <1>5, <2>1, <3>1, <3>2 DEF FullInv, RowInv
    <3> QED BY <1>4, <1>5, <2>1, <2>2, <3>1, <3>3 DEF Due
  <2>3. CASE p # q
    <3>1. msg[m].portal # q
      BY <2>1, <2>3, OtherHome
    <3> QED BY <1>4, <1>5, <2>1, <2>3, <3>1 DEF Due
  <2> QED BY <2>2, <2>3
<1> QED BY <1>2, <1>6, <1>7, RowsFull DEF FullInv

LEMMA UndeleteFull == ASSUME Shape, FullInv, NEW q \in Portals, Undelete(q) PROVE FullInv'
<1>1. /\ Stage(q, "unscrub") /\ msg' = UndeleteMsgs(msg, q) /\ Written
      /\ promised' = [promised EXCEPT ![q] = {m \in OfPortal(Guids, q) : ~Stub(m)}]
      /\ UNCHANGED <<room, closing, events, shown>>
  BY DEF Undelete, Write, Written, matrix
<1>2. restore' = [restore EXCEPT ![q] = [restore[q] EXCEPT !.at = "unscrub"]] /\ restore \in [Portals -> Pipe]
  BY <1>1 DEF Stage, Shape, Around
<1>3. restore'[q].at = "unscrub" /\ \A p \in Portals \ {q} : restore'[p] = restore[p]
  <2>1. [restore[q] EXCEPT !.at = "unscrub"].at = "unscrub"
    BY <1>2 DEF Pipe
  <2> QED BY <1>2, <2>1
<1>4. ASSUME NEW m \in Guids
      PROVE  /\ msg'[m].portal = msg[m].portal /\ msg'[m].cloud = msg[m].cloud /\ msg'[m].body = msg[m].body
             /\ msg'[m].state = IF msg[m].portal = q /\ msg[m].state = "deleted" THEN "live" ELSE msg[m].state
             /\ msg[m].portal \in {Home[m], NoPortal} /\ msg[m].state \in RowStates
  <2>1. msg[m] \in MsgRow /\ msg[m].portal \in {Home[m], NoPortal}
    BY DEF Shape, MsgTable
  <2> QED BY <1>1, <2>1 DEF UndeleteMsgs, MsgsOf, MsgRow
<1>5. RowInv'
  BY <1>4, StoreAssumption DEF FullInv, RowInv
<1>6. promised' \in [Portals -> SUBSET Guids]
  BY <1>1 DEF FullInv, OfPortal
<1>7. ASSUME NEW p \in Portals, NEW m \in promised'[p] PROVE Home[m] = p /\ (Gone(p) => Due(p, m)')
  <2>1. CASE p = q
    <3>1. m \in Guids /\ Home[m] = q /\ ~(msg[m].state = "deleted" /\ msg[m].portal = NoPortal)
      BY <1>1, <1>7, <2>1 DEF OfPortal, Stub, FullInv
    <3>2. msg'[m].state \in {"none", "live"}
      BY <1>4, <3>1 DEF RowStates
    <3> QED BY <1>3, <2>1, <3>1, <3>2 DEF Due
  <2>2. CASE p # q
    <3>1. m \in promised[p] /\ m \in Guids /\ Home[m] = p /\ (Gone(p) => Due(p, m))
      BY <1>1, <1>7, <2>2 DEF FullInv, PromiseInv
    <3>2. msg[m].portal # q
      BY <2>2, <3>1, OtherHome
    <3> QED BY <1>3, <1>4, <2>2, <3>1, <3>2 DEF Due
  <2> QED BY <2>1, <2>2
<1> QED BY <1>1, <1>5, <1>6, <1>7, RowsFull
LEMMA RecoverFull == ASSUME Shape, FullInv, NEW q \in Portals, RecoverMessages(q) PROVE FullInv'
<1> DEFINE mine  == {m \in Guids : Home[m] = q /\ apple[m] = "bin"}
           again == {m \in mine : msg[m].portal = q /\ msg[m].state = "deleted"}
           row(m) == IF msg[m].state = "none"
                     THEN [state |-> "live", portal |-> q, cloud |-> TRUE, body |-> "none"]
                     ELSE [msg[m] EXCEPT !.state = "live", !.portal = q]
           S == IF again # {} THEN again ELSE mine
<1>1. /\ restore[q].at = "messages" /\ Stage(q, "refresh") /\ Written
      /\ msg' = [m \in Guids |-> IF m \in S THEN row(m) ELSE msg[m]]
      /\ UNCHANGED <<room, closing, events, shown, promised>>
  BY DEF RecoverMessages, Write, Written, matrix, history, gone
<1>2. restore' = [restore EXCEPT ![q] = [restore[q] EXCEPT !.at = "refresh"]] /\ restore \in [Portals -> Pipe]
  BY <1>1 DEF Stage, Shape, Around
<1>3. restore'[q].at = "refresh" /\ \A p \in Portals \ {q} : restore'[p] = restore[p]
  <2>1. [restore[q] EXCEPT !.at = "refresh"].at = "refresh"
    BY <1>2 DEF Pipe
  <2> QED BY <1>2, <2>1
<1>4. \A m \in S : Home[m] = q
  OBVIOUS
<1>5. \A m \in Guids : /\ row(m).state = "live" /\ row(m).portal = q
                       /\ msg[m].state = "none" => row(m).body = "none"
                       /\ msg[m].state # "none" => row(m).body = msg[m].body
  <2>1. \A m \in Guids : msg[m] \in MsgRow
    BY DEF Shape, MsgTable
  <2> QED BY <2>1 DEF MsgRow
<1> HIDE DEF S, row
<1>6. \A m \in Guids : msg'[m] = IF m \in S THEN row(m) ELSE msg[m]
  BY <1>1
<1>7. RowInv'
  BY <1>4, <1>5, <1>6 DEF FullInv, RowInv
<1>8. ASSUME NEW p \in Portals, NEW m \in promised'[p] PROVE Home[m] = p /\ (Gone(p) => Due(p, m)')
  <2>1. m \in promised[p] /\ m \in Guids /\ Home[m] = p /\ (Gone(p) => Due(p, m))
    BY <1>1, <1>8 DEF FullInv, PromiseInv
  <2>2. CASE p = q
    <3> SUFFICES ASSUME Gone(p) PROVE Due(p, m)'
      BY <2>1
    <3>1. msg[m].state \in {"none", "live"} /\ msg[m].body # "scrubbed"
      BY <1>1, <2>1, <2>2 DEF Due
    <3>2. msg'[m].state \in {"none", "live"} /\ msg'[m].body # "scrubbed"
      BY <1>5, <1>6, <2>1, <3>1
    <3> QED BY <1>3, <2>2, <3>2 DEF Due
  <2>3. CASE p # q
    <3>1. msg'[m] = msg[m]
      BY <1>4, <1>6, <2>1, <2>3
    <3> QED BY <1>3, <2>1, <2>3, <3>1 DEF Due
  <2> QED BY <2>2, <2>3
<1> QED BY <1>1, <1>7, <1>8, RowsFull DEF FullInv

LEMMA ImportFull == ASSUME Shape, FullInv, NEW q \in Portals, Import(q) PROVE FullInv'
<1> DEFINE S == restore[q].got
<1>1. /\ restore[q].at = "import" /\ Stage(q, "resync") /\ Written
      /\ msg' = [m \in Guids |-> IF m \in S THEN UpsertMsg(msg, m, q, FALSE)[m] ELSE msg[m]]
      /\ promised' = [promised EXCEPT ![q] = promised[q] \cap S]
      /\ UNCHANGED <<room, closing, events, shown>>
  BY DEF Import, Write, Written, matrix
<1>2. restore' = [restore EXCEPT ![q] = [restore[q] EXCEPT !.at = "resync"]] /\ restore \in [Portals -> Pipe]
  BY <1>1 DEF Stage, Shape, Around
<1>3. restore'[q].at = "resync" /\ \A p \in Portals \ {q} : restore'[p] = restore[p]
  <2>1. [restore[q] EXCEPT !.at = "resync"].at = "resync"
    BY <1>2 DEF Pipe
  <2> QED BY <1>2, <2>1
<1>4. \A m \in S : Home[m] = q
  BY DEF Shape, Around
<1>5. ASSUME NEW m \in S \cap Guids
      PROVE  /\ msg'[m].portal = q /\ msg'[m].cloud = TRUE /\ msg'[m].state \in {"live", "deleted"}
             /\ msg'[m].state = "live" \/ msg[m].state = "deleted"
             /\ msg[m].body # "scrubbed" => msg'[m].body = "text"
  <2>1. m \in DOMAIN msg
    BY DEF Shape, MsgTable
  <2> DEFINE state == IF msg[m].state = "deleted" THEN "deleted" ELSE "live"
             body  == IF msg[m].body = "scrubbed" THEN "scrubbed" ELSE "text"
  <2>2. msg'[m] = [state |-> state, portal |-> q, cloud |-> TRUE, body |-> body]
    BY <1>1, <2>1 DEF UpsertMsg
  <2> HIDE DEF state, body
  <2>3. msg'[m].portal = q /\ msg'[m].cloud = TRUE /\ msg'[m].state = state /\ msg'[m].body = body
    BY <2>2
  <2> QED BY <2>3 DEF state, body
<1>6. \A m \in Guids : m \notin S => msg'[m] = msg[m]
  BY <1>1
<1> HIDE DEF S
<1>7. RowInv'
  <2>1. ASSUME NEW m \in Guids
        PROVE  /\ msg'[m].state = "live" => msg'[m].portal = Home[m]
               /\ msg'[m].state = "none" => msg'[m].body = "none"
    <3>1. CASE m \in S
      BY <1>4, <1>5, <3>1
    <3>2. CASE m \notin S
      BY <1>6, <3>2 DEF FullInv, RowInv
    <3> QED BY <3>1, <3>2
  <2> QED BY <2>1 DEF RowInv
<1>8. promised \in [Portals -> SUBSET Guids] /\ promised' \in [Portals -> SUBSET Guids]
  BY <1>1 DEF FullInv
<1>9. ASSUME NEW p \in Portals, NEW m \in promised'[p] PROVE Home[m] = p /\ (Gone(p) => Due(p, m)')
  <2>1. m \in promised[p] /\ m \in Guids /\ Home[m] = p /\ (Gone(p) => Due(p, m)) /\ (p = q => m \in S)
    <3>1. m \in promised[p] /\ (p = q => m \in S)
      BY <1>1, <1>8, <1>9
    <3> QED BY <1>8, <3>1 DEF FullInv, PromiseInv
  <2>2. CASE p = q
    <3> SUFFICES ASSUME Gone(p) PROVE Due(p, m)'
      BY <2>1
    <3>1. msg[m].state \in {"none", "live"} /\ msg[m].body # "scrubbed"
      BY <1>1, <2>1, <2>2 DEF Due
    <3>2. msg'[m].state = "live" /\ msg'[m].cloud /\ msg'[m].body = "text"
      BY <1>5, <2>1, <2>2, <3>1
    <3> QED BY <1>3, <2>2, <3>2 DEF Due
  <2>3. CASE p # q
    <3>1. msg'[m] = msg[m]
      BY <1>4, <1>6, <2>1, <2>3
    <3> QED BY <1>3, <2>1, <2>3, <3>1 DEF Due
  <2> QED BY <2>2, <2>3
<1> QED BY <1>1, <1>7, <1>8, <1>9, RowsFull

LEMMA StartScrubFull == ASSUME FullInv, StartScrub PROVE FullInv'
<1>1. /\ UNCHANGED <<msg, room, shown, events, closing, restore, promised>> /\ closing = {}
      /\ \A p \in Portals : \A i \in 1 .. Len(events[p]) : events[p][i].type # "delete"
  BY DEF StartScrub, matrix, command, history
<1>2. \A p \in Portals : ~Ending(p) /\ ~Ending(p)'
  BY <1>1 DEF Ending
<1>3. \A p \in Portals : RoomInv(p)' /\ YoungInv(p)' /\ PromiseInv(p)'
  BY <1>1, <1>2 DEF FullInv, RoomInv, YoungInv, PromiseInv, Gone, Ending, Due
<1> QED BY <1>1, <1>3 DEF FullInv, RowInv

(* The scrubber takes what is deleted or shown, and not what is young: none of *)
(* what a restore has promised for a room that is not there.                   *)
LEMMA ScrubFull == ASSUME Shape, FullInv, Scrub PROVE FullInv'
<1>1. /\ scrub.on /\ scrub' = Idle
      /\ msg' = [m \in Guids |->
           IF /\ msg[m].body # "scrubbed" /\ Known(msg, m) /\ m \notin fresh /\ msg[m].portal \notin scrub.but
              /\ msg[m].state = "deleted" \/ m \in shown[Home[m]]
           THEN [msg[m] EXCEPT !.body = "scrubbed"] ELSE msg[m]]
      /\ UNCHANGED <<room, closing, events, shown, restore, promised>>
  BY DEF Scrub, matrix, command, history
<1>2. ASSUME NEW m \in Guids
      PROVE  /\ msg'[m].state = msg[m].state /\ msg'[m].portal = msg[m].portal /\ msg'[m].cloud = msg[m].cloud
             /\ msg[m].state = "none" => msg'[m].body = msg[m].body
             /\ msg[m].state = "live" /\ (m \in fresh \/ m \notin shown[Home[m]]) => msg'[m].body = msg[m].body
  <2>1. msg[m] \in MsgRow
    BY DEF Shape, MsgTable
  <2> QED BY <1>1, <2>1 DEF MsgRow, Known
<1>3. RowInv'
  BY <1>2 DEF FullInv, RowInv
<1>4. ASSUME NEW p \in Portals, NEW m \in promised'[p], Gone(p) PROVE Home[m] = p /\ Due(p, m)'
  <2>1. m \in Guids /\ Home[m] = p /\ Due(p, m)
    BY <1>1, <1>4 DEF FullInv, PromiseInv
  <2>2. CASE restore[p].at = "undelete"
    BY <1>1, <2>1, <2>2 DEF Due
  <2>3. CASE restore[p].at # "undelete"
    <3>1. msg[m].state = "live" => m \in fresh \/ m \notin shown[p]
      BY <1>1, <1>4, <2>1 DEF FullInv, RowInv, RoomInv, YoungInv, Gone
    <3>2. msg'[m].body = msg[m].body
      BY <1>2, <2>1, <2>3, <3>1 DEF Due
    <3> QED BY <1>1, <1>2, <2>1, <3>2 DEF Due
  <2> QED BY <2>2, <2>3
<1>5. \A p \in Portals : RoomInv(p)' /\ YoungInv(p)' /\ PromiseInv(p)'
  <2>1. \A p \in Portals : (Gone(p)' <=> Gone(p)) /\ RoomInv(p)'
    BY <1>1 DEF FullInv, RoomInv, Gone, Ending
  <2>2. \A p \in Portals : YoungInv(p)'
    BY <1>1 DEF YoungInv, Idle
  <2>3. \A p \in Portals : \A m \in promised'[p] : Home[m] = p
    BY <1>1 DEF FullInv, PromiseInv
  <2> QED BY <1>4, <2>1, <2>2, <2>3 DEF PromiseInv
<1> QED BY <1>1, <1>3, <1>5 DEF FullInv
(* The start brings a chat back: deleted rows of it are live again. *)
LEMMA UndeletedFull ==
  ASSUME Shape, FullInv, NEW q \in Portals, msg' = UndeleteMsgs(msg, q), Written,
         UNCHANGED <<room, closing, events, shown, restore, promised>>
  PROVE  FullInv'
<1>1. ASSUME NEW m \in Guids
      PROVE  /\ msg'[m].portal = msg[m].portal /\ msg'[m].cloud = msg[m].cloud /\ msg'[m].body = msg[m].body
             /\ msg'[m].state = IF msg[m].portal = q /\ msg[m].state = "deleted" THEN "live" ELSE msg[m].state
             /\ msg[m].portal \in {Home[m], NoPortal}
  <2>1. msg[m] \in MsgRow /\ msg[m].portal \in {Home[m], NoPortal}
    BY DEF Shape, MsgTable
  <2> QED BY <2>1 DEF UndeleteMsgs, MsgsOf, MsgRow
<1>2. RowInv'
  BY <1>1, StoreAssumption DEF FullInv, RowInv
<1>3. ASSUME NEW p \in Portals, NEW m \in promised'[p] PROVE Home[m] = p /\ (Gone(p) => Due(p, m)')
  <2>1. m \in Guids /\ Home[m] = p /\ (Gone(p) => Due(p, m))
    BY <1>3 DEF FullInv, PromiseInv
  <2> QED BY <1>1, <2>1 DEF Due
<1> QED BY <1>2, <1>3, RowsFull DEF FullInv

(* A chat is deleted: no row of it is live, and nothing of it is promised; the *)
(* rows of other chats stay.                                                   *)
LEMMA ErasedFull ==
  ASSUME DeletionInv, OwnAliases, FullInv, NEW q \in Portals, Erased(q), Written,
         promised' = [promised EXCEPT ![q] = {}], UNCHANGED <<room, shown>>,
         \A p \in Portals : RoomInv(p)' /\ (p # q => (Ending(p)' => Ending(p)))
  PROVE  FullInv'
<1>1. /\ ChatTable(chat') /\ MsgTable(msg)
      /\ \A m \in Guids : /\ msg'[m].portal = msg[m].portal
                          /\ msg'[m].state = "live" => msg[m].state = "live" /\ msg[m].portal # q
  BY ErasedRows DEF DeletionInv, Shape
<1>2. ASSUME NEW m \in Guids PROVE msg'[m] = msg[m] \/ (msg[m].portal = q /\ msg'[m].state = "deleted")
  <2>1. \A c \in Alias[q] : chat'[c].portal = q
    BY <1>1, StoreAssumption DEF OwnAliases, ChatTable
  <2> DEFINE doomed == {q} \cup {chat'[c].portal : c \in {d \in Alias[q] : chat'[d].state # "none"}}
             S == {k \in Guids : msg[k].state = "live" /\ msg[k].portal \in doomed}
  <2>2. msg' = EraseRows(msg, S) /\ (m \in S => msg[m].portal = q)
    BY <2>1 DEF Erased, DeleteMsgsOf
  <2> HIDE DEF S
  <2>3. msg[m] \in MsgRow
    BY <1>1 DEF MsgTable
  <2> QED BY <2>2, <2>3 DEF EraseRows, MsgRow
<1>3. RowInv'
  BY <1>1, <1>2 DEF FullInv, RowInv
<1>4. /\ promised \in [Portals -> SUBSET Guids] /\ promised' \in [Portals -> SUBSET Guids] /\ restore' = restore
      /\ DOMAIN shown' = Portals
  BY DEF FullInv, Erased
<1>5. ASSUME NEW p \in Portals
      PROVE  PromiseInv(p)' /\ ((Ending(p)' => Ending(p)) \/ \A m \in Guids : ~(msg'[m].portal = p /\ msg'[m].state = "live"))
  <2>1. CASE p = q
    <3>1. promised'[p] = {}
      BY <1>4, <2>1
    <3> QED BY <1>1, <2>1, <3>1 DEF PromiseInv
  <2>2. CASE p # q
    <3>1. Gone(p)' => Gone(p)
      BY <2>2 DEF Gone
    <3>2. ASSUME NEW m \in promised'[p] PROVE Home[m] = p /\ (Gone(p)' => Due(p, m)')
      <4>1. m \in Guids /\ Home[m] = p /\ (Gone(p) => Due(p, m))
        BY <1>4, <2>2, <3>2 DEF FullInv, PromiseInv
      <4>2. msg[m].portal # q
        BY <2>2, <4>1, OtherHome DEF DeletionInv
      <4> QED BY <1>2, <1>4, <3>1, <4>1, <4>2 DEF Due
    <3> QED BY <2>2, <3>2 DEF PromiseInv
  <2> QED BY <2>1, <2>2
<1> QED BY <1>3, <1>4, <1>5, FullStep
LEMMA StartFull ==
  ASSUME DeletionInv, OwnAliases, FullInv,
         (\E c \in ChatIds : SeedChatOf(c)) \/ \E p \in Portals : SeedMessagesOf(p)
  PROVE  FullInv'
<1>1. PICK q \in Portals :
        /\ \/ UNCHANGED <<msg, fresh, promised>>
           \/ UndeleteAll(q) /\ UNCHANGED promised
           \/ q \notin override /\ \E C \in SUBSET Own(q) : Tombstone(q, C)
        /\ UNCHANGED <<override, restore, now, room, closing, events, shown, scrub>>
  <2>1. ASSUME NEW c \in ChatIds, SeedChatOf(c)
        PROVE  /\ \/ UNCHANGED <<msg, fresh, promised>>
                  \/ UndeleteAll(ChatPortal[c]) /\ UNCHANGED promised
                  \/ ChatPortal[c] \notin override /\ Tombstone(ChatPortal[c], {c})
               /\ UNCHANGED <<override, restore, now, room, closing, events, shown, scrub>>
    BY <2>1 DEF SeedChatOf, phone, matrix, command
  <2>2. \A c \in ChatIds : ChatPortal[c] \in Portals /\ {c} \in SUBSET Own(ChatPortal[c])
    BY StoreAssumption DEF Own
  <2>3. ASSUME NEW p \in Portals, SeedMessagesOf(p)
        PROVE  /\ \/ UNCHANGED <<msg, fresh, promised>>
                  \/ UndeleteAll(p) /\ UNCHANGED promised
                  \/ p \notin override /\ Tombstone(p, Own(p))
               /\ UNCHANGED <<override, restore, now, room, closing, events, shown, scrub>>
    BY <2>3 DEF SeedMessagesOf, phone, matrix, command
  <2>4. \A p \in Portals : Own(p) \in SUBSET Own(p)
    OBVIOUS
  <2>5. CASE \E c \in ChatIds : SeedChatOf(c)
    BY <2>1, <2>2, <2>5
  <2>6. CASE \E p \in Portals : SeedMessagesOf(p)
    BY <2>3, <2>4, <2>6
  <2> QED BY <2>5, <2>6
<1>2. CASE UNCHANGED <<msg, fresh, promised>>
  <2>1. promised' \in [Portals -> SUBSET Guids]
    BY <1>2 DEF FullInv
  <2> QED BY <1>1, <1>2, <2>1, FullQuiet DEF Due
<1>3. CASE UndeleteAll(q) /\ UNCHANGED promised
  <2>1. msg' = UndeleteMsgs(msg, q) /\ Written
    BY <1>1, <1>3 DEF UndeleteAll, Write, Written
  <2> QED BY <1>1, <1>3, <2>1, UndeletedFull DEF DeletionInv
<1>4. CASE q \notin override /\ \E C \in SUBSET Own(q) : Tombstone(q, C)
  <2>1. PICK C \in SUBSET Own(q) : Tombstone(q, C)
    BY <1>4
  <2>2. Erased(q)
    BY <1>1, <1>4, <2>1, TombstoneErases
  <2>3. Written /\ promised' = [promised EXCEPT ![q] = {}]
    BY <1>1, <2>1 DEF Tombstone, Write, Written
  <2>4. \A p \in Portals : RoomInv(p)' /\ (p # q => (Ending(p)' => Ending(p)))
    BY <1>1, SameRooms
  <2> QED BY <1>1, <2>2, <2>3, <2>4, ErasedFull
<1> QED BY <1>1, <1>2, <1>3, <1>4

LEMMA MatrixDeleteFull ==
  ASSUME DeletionInv, OwnAliases, FullInv, NEW q \in Portals, HandleMatrixDeleteChat(q)
  PROVE  FullInv'
<1>1. /\ closing' = closing \cup {q} /\ EraseChat(q)
      /\ UNCHANGED <<restore, now, room, events, shown, scrub>>
  BY DEF HandleMatrixDeleteChat, command
<1>2. Erased(q)
  BY <1>1, EraseChatErases
<1>3. Written /\ promised' = [promised EXCEPT ![q] = {}]
  BY <1>1 DEF EraseChat, Write, Written
<1>4. \A p \in Portals : RoomInv(p)' /\ (p # q => (Ending(p)' => Ending(p)))
  BY <1>1 DEF FullInv, RoomInv, Ending
<1> QED BY <1>1, <1>2, <1>3, <1>4, ErasedFull

LEMMA ChatDeleteFull ==
  ASSUME DeletionInv, OwnAliases, FullInv, NEW n \in notices, HandleChatDelete(n)
  PROVE  FullInv'
<1> DEFINE q == n.of
           e == Event("delete", AnyMsg, FALSE)
<1>1. q \in Portals
  BY DEF HandleChatDelete, DeletionInv, Shape, Around, Notices
<1>2. /\ EraseChat(q) /\ (Push(q, e) \/ UNCHANGED events)
      /\ UNCHANGED <<restore, now, room, closing, shown, scrub>>
  BY DEF HandleChatDelete, command
<1>3. e \in Queued /\ e.create = FALSE
  BY DEF Event, Queued
<1> HIDE DEF q, e
<1>4. Erased(q)
  BY <1>1, <1>2, EraseChatErases
<1>5. Written /\ promised' = [promised EXCEPT ![q] = {}]
  BY <1>2 DEF EraseChat, Write, Written
<1>6. \A p \in Portals : RoomInv(p)' /\ (p # q => (Ending(p)' => Ending(p)))
  <2>1. CASE Push(q, e)
    <3>1. ASSUME NEW p \in Portals PROVE RoomInv(p)' /\ (p # q => (Ending(p)' => Ending(p)))
      BY <1>1, <1>2, <1>3, <2>1, PushedRooms DEF DeletionInv
    <3> QED BY <3>1
  <2>2. CASE UNCHANGED events
    BY <1>2, <2>2, SameRooms
  <2> QED BY <1>2, <2>1, <2>2
<1> QED BY <1>1, <1>2, <1>4, <1>5, <1>6, ErasedFull

(* One message is deleted on a device: nothing promises it any more. *)
LEMMA MessageDeleteFull == ASSUME Shape, FullInv, NEW n \in notices, HandleMessageDelete(n) PROVE FullInv'
<1>1. n.of \in Guids /\ Home[n.of] \in Portals
  BY LifecycleAssumption DEF HandleMessageDelete, Shape, Around, Notices
<1>2. /\ msg' = SoftDelete(msg, n.of) /\ Written
      /\ promised' = [p \in Portals |-> promised[p] \ {n.of}]
      /\ Push(Home[n.of], Event("remove", n.of, FALSE)) \/ UNCHANGED events
      /\ UNCHANGED <<restore, room, closing, shown>>
  BY DEF HandleMessageDelete, Write, Written, command
<1>3. \A m \in Guids : msg'[m] = IF m = n.of THEN [msg[m] EXCEPT !.state = "deleted", !.body = "scrubbed"] ELSE msg[m]
  BY <1>2 DEF SoftDelete, EraseRows
<1>4. [msg[n.of] EXCEPT !.state = "deleted", !.body = "scrubbed"].state = "deleted"
  BY <1>1 DEF Shape, MsgTable, MsgRow
<1>5. RowInv'
  BY <1>3, <1>4 DEF FullInv, RowInv
<1>6. \A p \in Portals : RoomInv(p)' /\ (Ending(p)' => Ending(p)) /\ (Gone(p)' => Gone(p))
  <2>1. CASE Push(Home[n.of], Event("remove", n.of, FALSE))
    <3>1. Event("remove", n.of, FALSE) \in Queued /\ Event("remove", n.of, FALSE).create = FALSE
          /\ Event("remove", n.of, FALSE).type = "remove"
      BY <1>1 DEF Event, Queued
    <3>2. ASSUME NEW p \in Portals PROVE RoomInv(p)' /\ (Ending(p)' => Ending(p)) /\ (Gone(p)' => Gone(p))
      BY <1>1, <1>2, <2>1, <3>1, PushedRooms
    <3> QED BY <3>2
  <2>2. CASE UNCHANGED events
    BY <1>2, <2>2, SameRooms
  <2> QED BY <1>2, <2>1, <2>2
<1>7. promised' \in [Portals -> SUBSET Guids] /\ DOMAIN shown' = Portals
  BY <1>2 DEF FullInv
<1>8. ASSUME NEW p \in Portals, NEW m \in promised'[p] PROVE Home[m] = p /\ (Gone(p) => Due(p, m)')
  <2>1. m \in Guids /\ m # n.of /\ Home[m] = p /\ (Gone(p) => Due(p, m))
    BY <1>2, <1>8 DEF FullInv, PromiseInv
  <2>2. msg'[m] = msg[m]
    BY <1>3, <2>1
  <2> QED BY <1>2, <2>1, <2>2 DEF Due
<1> QED BY <1>2, <1>5, <1>6, <1>7, <1>8, QueuesFull

(* A message is shown: its row, if there was none, has no text. *)
LEMMA HandleMessageFull == ASSUME Shape, FullInv, NEW k \in Guids, HandleMessage(k) PROVE FullInv'
<1> DEFINE q == Home[k]
<1>1. q \in Portals
  BY LifecycleAssumption
<1>2. PICK b \in BOOLEAN : \/ msg' = PersistUUID(msg, k, q) /\ Push(q, Event("msg", k, b))
                           \/ UNCHANGED <<msg, events>>
  <2>1. Verdict(chat, msg, entry[q], k, q, gate, q \notin room).create \in BOOLEAN
    BY DEF Verdict
  <2> QED BY <2>1 DEF HandleMessage, Write
<1>3. Written /\ UNCHANGED <<restore, room, closing, shown, promised>>
  BY DEF HandleMessage, Write, Written, command
<1>4. \A m \in Guids : \/ msg'[m] = msg[m]
                       \/ /\ msg[m].state = "none" /\ msg'[m].state = "live" /\ msg'[m].body = "none"
                          /\ msg'[m].portal = Home[m]
  <2>1. CASE msg' = PersistUUID(msg, k, q)
    BY <2>1 DEF PersistUUID, Known, Shape, MsgTable
  <2>2. CASE msg' = msg
    BY <2>2
  <2> QED BY <1>2, <2>1, <2>2
<1>5. RowInv'
  BY <1>4 DEF FullInv, RowInv
<1>6. \A p \in Portals : RoomInv(p)' /\ (Ending(p)' => Ending(p)) /\ (Gone(p)' => Gone(p))
  <2>1. CASE Push(q, Event("msg", k, b))
    <3>1. Event("msg", k, b) \in Queued /\ Event("msg", k, b).type = "msg"
      BY DEF Event, Queued
    <3> HIDE DEF q
    <3>2. ASSUME NEW p \in Portals PROVE RoomInv(p)' /\ (Ending(p)' => Ending(p)) /\ (Gone(p)' => Gone(p))
      BY <1>1, <1>3, <2>1, <3>1, PushedRooms
    <3> QED BY <3>2
  <2>2. CASE UNCHANGED events
    BY <1>3, <2>2, SameRooms
  <2> QED BY <1>2, <2>1, <2>2
<1>7. promised' \in [Portals -> SUBSET Guids] /\ DOMAIN shown' = Portals
  BY <1>3 DEF FullInv
<1>8. ASSUME NEW p \in Portals, NEW m \in promised'[p] PROVE Home[m] = p /\ (Gone(p) => Due(p, m)')
  <2>1. m \in Guids /\ Home[m] = p /\ (Gone(p) => Due(p, m))
    BY <1>3, <1>8 DEF FullInv, PromiseInv
  <2> QED BY <1>3, <1>4, <2>1 DEF Due
<1> QED BY <1>3, <1>5, <1>6, <1>7, <1>8, QueuesFull
(* The room is asked for; what the restore has imported is due as it stands. *)
LEMMA QueueResyncFull == ASSUME Shape, FullInv, NEW q \in Portals, QueueResync(q) PROVE FullInv'
<1>1. /\ restore[q].at = "resync" /\ restore' = [restore EXCEPT ![q] = OffPipeline]
      /\ Push(q, Event("resync", AnyMsg, TRUE))
      /\ UNCHANGED <<msg, fresh, scrub, room, closing, shown, promised>>
  BY DEF QueueResync, store, history
<1>2. Event("resync", AnyMsg, TRUE) \in Queued /\ Event("resync", AnyMsg, TRUE).type = "resync"
  BY DEF Event, Queued
<1>3. ASSUME NEW p \in Portals PROVE RoomInv(p)' /\ (Ending(p)' => Ending(p)) /\ (Gone(p)' => Gone(p))
  BY <1>1, <1>2, PushedRooms
<1>4. RowInv' /\ promised' \in [Portals -> SUBSET Guids] /\ DOMAIN shown' = Portals
  BY <1>1 DEF FullInv, RowInv
<1>5. restore'[q].at = "off" /\ \A p \in Portals \ {q} : restore'[p] = restore[p]
  BY <1>1 DEF OffPipeline, Shape, Around
<1>6. ASSUME NEW p \in Portals, NEW m \in promised'[p] PROVE Home[m] = p /\ (Gone(p) => Due(p, m)')
  <2>1. m \in Guids /\ Home[m] = p /\ (Gone(p) => Due(p, m))
    BY <1>1, <1>6 DEF FullInv, PromiseInv
  <2>2. CASE p = q
    BY <1>1, <1>5, <2>1, <2>2 DEF Due
  <2>3. CASE p # q
    BY <1>1, <1>5, <2>1, <2>3 DEF Due
  <2> QED BY <2>2, <2>3
<1> QED BY <1>1, <1>3, <1>4, <1>6, QueuesFull DEF Written

LEMMA CreatePortalsFull == ASSUME Shape, FullInv, CreatePortals PROVE FullInv'
<1> DEFINE e == Event("resync", AnyMsg, TRUE)
<1>1. /\ \A p \in Portals : events'[p] \in {events[p], Append(events[p], e)}
      /\ UNCHANGED <<msg, fresh, scrub, room, closing, shown, restore, promised>>
  BY DEF CreatePortals, store, command, history
<1>2. e \in Queued /\ e.type = "resync"
  BY DEF Event, Queued
<1> HIDE DEF e
<1>3. ASSUME NEW p \in Portals PROVE RoomInv(p)' /\ (Ending(p)' => Ending(p)) /\ (Gone(p)' => Gone(p))
  <2>1. CASE events'[p] = events[p]
    BY <1>1, <2>1 DEF FullInv, RoomInv, Ending, Gone
  <2>2. CASE events'[p] = Append(events[p], e)
    <3>1. events[p] \in Seq(Queued)
      BY DEF Shape, Around
    <3> QED BY <1>1, <1>2, <2>2, <3>1, QueuedRooms
  <2> QED BY <1>1, <2>1, <2>2
<1>4. RowInv' /\ promised' \in [Portals -> SUBSET Guids] /\ DOMAIN shown' = Portals
  BY <1>1 DEF FullInv, RowInv
<1>5. \A p \in Portals : \A m \in promised'[p] : Home[m] = p /\ (Gone(p) => Due(p, m)')
  BY <1>1 DEF FullInv, PromiseInv, Due
<1> QED BY <1>1, <1>3, <1>4, <1>5, QueuesFull DEF Written

(* The first event of a portal is taken: a room comes or goes with it. *)
LEMMA TakenRooms ==
  ASSUME Shape, FullInv, NEW q \in Portals, HandleEvent(q), NEW p \in Portals
  PROVE  RoomInv(p)' /\ (Ending(p)' => Ending(p)) /\ (Gone(p)' => Gone(p))
<1>1. /\ events[q] # <<>> /\ q \notin closing /\ UNCHANGED closing
      /\ events' = [events EXCEPT ![q] = Tail(events[q])] /\ events \in [Portals -> Seq(Queued)]
  BY DEF HandleEvent, Shape, Around
<1> DEFINE e == Head(events[q])
           comes == q \notin room /\ e.create
<1>2. /\ room' = CASE e.type = "delete" -> room \ {q} [] comes -> room \cup {q} [] OTHER -> room
      /\ DOMAIN shown = Portals
  BY DEF HandleEvent, FullInv
<1>3. CASE p # q
  <2>1. shown'[p] = shown[p] /\ events'[p] = events[p]
    BY <1>1, <1>2, <1>3 DEF HandleEvent
  <2>2. p \in room' <=> p \in room
    BY <1>2, <1>3
  <2> QED BY <1>1, <2>1, <2>2 DEF FullInv, RoomInv, Ending, Gone
<1>4. CASE p = q
  <2>1. /\ events'[p] = Tail(events[p]) /\ events[p] \in Seq(Queued) /\ events[p] # <<>>
    BY <1>1, <1>4
  <2>2. /\ Len(events[p]) \in Nat /\ Len(events[p]) > 0 /\ Len(events'[p]) = Len(events[p]) - 1
        /\ e = events[p][1]
        /\ \A i \in 1 .. Len(events'[p]) : i + 1 \in 1 .. Len(events[p]) /\ events'[p][i] = events[p][i + 1]
    BY <1>4, <2>1
  <2>3. Ending(p)' => Ending(p)
    BY <1>1, <2>2 DEF Ending
  <2>4. e.create => e.type \in {"msg", "resync"}
    BY <2>2 DEF FullInv, RoomInv
  <2>5. e.type = "delete" => Ending(p)
    BY <2>2 DEF Ending
  <2>6. p \in room => p \in room' \/ Ending(p)
    BY <1>2, <2>5
  <2>7. shown'[p] # {} => p \in room'
    <3>1. shown[p] # {} => p \in room
      BY DEF FullInv, RoomInv
    <3>2. CASE e.type = "delete"
      <4>1. shown'[p] = {}
        BY <1>2, <1>4, <3>2 DEF HandleEvent
      <4> QED BY <4>1
    <3>3. CASE e.type = "remove"
      <4>1. shown'[p] \subseteq shown[p]
        BY <1>2, <1>4, <3>3 DEF HandleEvent
      <4> QED BY <1>2, <3>1, <3>3, <4>1
    <3>4. CASE e.type \notin {"delete", "remove"}
      <4>1. shown'[p] = (IF comes THEN Visible(p)
                         ELSE IF e.type = "resync" /\ p \in room
                              THEN shown[p] \cup {m \in Visible(p) : \A k \in shown[p] : Stamp[m] > Stamp[k]}
                              ELSE shown[p])
                        \cup (IF e.type = "msg" /\ p \in room' THEN {e.msg} ELSE {})
        BY <1>2, <1>4, <3>4 DEF HandleEvent
      <4>2. room' = IF comes THEN room \cup {q} ELSE room
        BY <1>2, <3>4
      <4> HIDE DEF e
      <4> QED BY <1>4, <3>1, <4>1, <4>2
    <3> QED BY <3>2, <3>3, <3>4
  <2>8. RoomInv(p)'
    BY <2>2, <2>7 DEF FullInv, RoomInv
  <2> QED BY <2>3, <2>6, <2>8, NotGone
<1> QED BY <1>3, <1>4

LEMMA HandleEventFull == ASSUME Shape, FullInv, NEW q \in Portals, HandleEvent(q) PROVE FullInv'
<1>1. UNCHANGED <<msg, fresh, scrub, restore, promised>>
  BY DEF HandleEvent, command, history
<1>2. DOMAIN shown' = Portals
  BY DEF HandleEvent, FullInv
<1>3. RowInv' /\ promised' \in [Portals -> SUBSET Guids]
  BY <1>1 DEF FullInv, RowInv
<1>4. \A p \in Portals : \A m \in promised'[p] : Home[m] = p /\ (Gone(p) => Due(p, m)')
  BY <1>1 DEF FullInv, PromiseInv, Due
<1> QED BY <1>1, <1>2, <1>3, <1>4, TakenRooms, QueuesFull DEF Written

(* The framework removes the room that Matrix deleted. *)
LEMMA DeleteFromAppleFull == ASSUME FullInv, NEW q \in Portals, DeleteFromApple(q) PROVE FullInv'
<1>1. /\ q \in closing /\ closing' = closing \ {q} /\ room' = room \ {q} /\ shown' = [shown EXCEPT ![q] = {}]
      /\ UNCHANGED <<msg, fresh, scrub, restore, promised, events>>
  BY DEF DeleteFromApple, store, command, history
<1>2. RowInv' /\ promised' \in [Portals -> SUBSET Guids] /\ DOMAIN shown' = Portals /\ DOMAIN shown = Portals
  BY <1>1 DEF FullInv, RowInv
<1>3. \A p \in Portals : RoomInv(p)' /\ (Ending(p)' => Ending(p)) /\ (Gone(p)' => Gone(p))
  BY <1>1, <1>2 DEF FullInv, RoomInv, Ending, Gone
<1>4. \A p \in Portals : \A m \in promised'[p] : Home[m] = p /\ (Gone(p) => Due(p, m)')
  BY <1>1 DEF FullInv, PromiseInv, Due
<1> QED BY <1>1, <1>2, <1>3, <1>4, QueuesFull DEF Written

(* A process that dies takes its promises with it. *)
LEMMA RestartFull == ASSUME FullInv, Restart PROVE FullInv'
<1>1. /\ events' = [p \in Portals |-> <<>>] /\ scrub'.on = FALSE /\ promised' = [p \in Portals |-> {}]
      /\ UNCHANGED <<msg, room, shown>>
  BY DEF Restart, Idle
<1>2. \A p \in Portals : RoomInv(p)' /\ YoungInv(p)' /\ PromiseInv(p)'
  BY <1>1 DEF FullInv, RoomInv, YoungInv, PromiseInv
<1>3. RowInv' /\ promised' \in [Portals -> SUBSET Guids] /\ DOMAIN shown' = Portals
  BY <1>1 DEF FullInv, RowInv
<1> QED BY <1>2, <1>3 DEF FullInv

LEMMA NextFull == ASSUME DeletionInv, FullInv, OwnAliases, [Next]_vars PROVE FullInv'
<1>1. Shape
  BY DEF DeletionInv
<1>2. CASE \E n \in notices : HandleChatDelete(n) \/ HandleMessageDelete(n) \/ HandleChatRecover(n)
  BY <1>1, <1>2, ChatDeleteFull, MessageDeleteFull, QuietFull
<1>3. CASE \E m \in Guids : HandleMessage(m)
  BY <1>1, <1>3, HandleMessageFull
<1>4. CASE \E p \in Portals : HandleEvent(p) \/ DeleteFromApple(p)
  BY <1>1, <1>4, HandleEventFull, DeleteFromAppleFull
<1>5. CASE (\E c \in ChatIds : SeedChatOf(c)) \/ \E p \in Portals : SeedMessagesOf(p)
  BY <1>5, StartFull
<1>6. CASE ListBin \/ ListBinMessages \/ Change \/ OfferRestore \/ UNCHANGED vars \/ \E m \in Guids : Send(m) \/ OnMessage(m)
  BY <1>1, <1>6, QuietFull
<1>7. CASE \E p \in Portals : ChooseRestore(p) \/ RecoverOnApple(p) \/ RefreshMetadata(p) \/ Fetch(p)
  BY <1>1, <1>7, QuietFull
<1>8. CASE \E p \in Portals : Undelete(p) \/ Unscrub(p) \/ RecoverMessages(p) \/ Import(p) \/ QueueResync(p)
  BY <1>1, <1>8, UndeleteFull, UnscrubFull, RecoverFull, ImportFull, QueueResyncFull
<1>9. CASE CreatePortals \/ StartScrub \/ Scrub \/ Restart
  BY <1>1, <1>9, CreatePortalsFull, StartScrubFull, ScrubFull, RestartFull
<1>10. CASE \E p \in Portals : HandleMatrixDeleteChat(p)
  BY <1>10, MatrixDeleteFull
<1>11. CASE Bridge
  BY <1>2, <1>3, <1>4, <1>5, <1>6, <1>9, <1>11 DEF Bridge
<1>12. CASE \E p \in Portals : Pipeline(p)
  BY <1>7, <1>8, <1>12 DEF Pipeline
<1>13. CASE Surroundings
  BY <1>6, <1>7, <1>9, <1>10, <1>13 DEF Surroundings
<1> QED BY <1>6, <1>9, <1>11, <1>12, <1>13 DEF Next

(* Only an event makes a room, and then with what the restore has promised. *)
LEMMA RoomShows ==
  ASSUME DeletionInv, FullInv, [Next]_vars, NEW p \in room' \ room, restore[p].at = "off",
         NEW m \in promised[p]
  PROVE  m \in shown'[p]
<1>1. HandleEvent(p) /\ p \in Portals
  <2>1. \/ room' \subseteq room
        \/ \E q \in Portals : HandleEvent(q)
    <3>1. CASE UNCHANGED vars \/ StartScrub \/ Scrub
      BY <3>1 DEF vars, matrix, StartScrub, Scrub
    <3>2. CASE Surroundings
      BY <3>2 DEF Surroundings, Change, OfferRestore, Restart, Send, OnMessage, HandleMatrixDeleteChat, ChooseRestore, matrix
    <3>3. CASE \E q \in Portals : Pipeline(q)
      BY <3>3 DEF Pipeline, Undelete, Unscrub, RecoverMessages, RefreshMetadata, RecoverOnApple, Fetch, Import,
                  QueueResync, matrix
    <3>4. CASE Bridge
      BY <3>4 DEF Bridge, HandleChatDelete, HandleMessageDelete, HandleChatRecover, HandleMessage, DeleteFromApple,
                  SeedMessagesOf, ListBin, SeedChatOf, ListBinMessages, CreatePortals, matrix
    <3> QED BY <3>1, <3>2, <3>3, <3>4 DEF Next
  <2>2. PICK q \in Portals : HandleEvent(q)
    BY <2>1
  <2>3. room' \subseteq room \cup {q}
    BY <2>2 DEF HandleEvent
  <2> QED BY <2>2, <2>3
<1> DEFINE e == Head(events[p])
<1>2. e.create => e.type \in {"msg", "resync"}
  <2>1. events[p] \in Seq(Queued) /\ events[p] # <<>>
    BY <1>1 DEF HandleEvent, DeletionInv, Shape, Around
  <2>2. Len(events[p]) \in Nat /\ Len(events[p]) > 0
    BY <2>1
  <2>3. e = events[p][1] /\ 1 \in 1 .. Len(events[p])
    BY <2>1, <2>2
  <2> QED BY <1>1, <2>3 DEF FullInv, RoomInv
<1>3. e.type \in {"msg", "resync"}
  <2>1. room' = CASE e.type = "delete" -> room \ {p}
                  [] p \notin room /\ e.create -> room \cup {p}
                  [] OTHER -> room
    BY <1>1 DEF HandleEvent
  <2> HIDE DEF e
  <2>2. e.create \/ room' = room \ {p} \/ room' = room
    BY <2>1, Zenon
  <2> QED BY <1>2, <2>2
<1>4. m \in Guids /\ Home[m] = p /\ Due(p, m) /\ msg[m].portal = p
  <2>1. m \in Guids /\ Home[m] = p /\ Due(p, m)
    BY <1>1 DEF FullInv, PromiseInv, Gone
  <2> QED BY <2>1 DEF FullInv, RowInv, Due
<1>5. m \in Visible(p)
  BY <1>4 DEF Due, Visible, Backfillable, MsgsOf
<1>6. Visible(p) \subseteq shown'[p]
  <2>1. DOMAIN shown = Portals
    BY DEF FullInv
  <2> QED BY <1>1, <1>3, <2>1 DEF HandleEvent
<1> QED BY <1>5, <1>6

(* What a restore has fetched is shown when its room is made: neither the       *)
(* scrubber, nor a late deletion, nor the removal of the old room has erased it  *)
(* in between (runRestoreBackfillPipeline, scrubBridgedBodies,                   *)
(* clearBodyScrubByPortalID).                                                    *)
THEOREM RestoresAreFull == ASSUME Recorded, OwnAliases PROVE Spec => RestoredInFull
<1>1. Init => FullInv
  BY InitFull
<1>2. DeletionInv /\ FullInv /\ [Next]_vars => FullInv'
  BY NextFull
<1>3. DeletionInv /\ FullInv /\ [Next]_vars =>
        \A p \in room' \ room :
          restore[p].at = "off" => \A m \in promised[p] : msg[m].state = "live" => m \in shown'[p]
  <2> SUFFICES ASSUME DeletionInv, FullInv, [Next]_vars, NEW p \in room' \ room, restore[p].at = "off",
                      NEW m \in promised[p]
               PROVE  m \in shown'[p]
    OBVIOUS
  <2> QED BY RoomShows
<1> QED BY <1>1, <1>2, <1>3, DeletionsStandAlways, PTL DEF Spec, RestoredInFull
=============================================================================
