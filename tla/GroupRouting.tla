---------------------------- MODULE GroupRouting ----------------------------
(***************************************************************************)
(* Which Matrix room a group event belongs to (pkg/connector/client.go,    *)
(* makePortalKey and what it calls; sync_controller.go,                    *)
(* consolidateCarrierGroupPortals).                                        *)
(*                                                                         *)
(* A room's portal is keyed by the group's UUID, <<"gid", g>>, by its      *)
(* members, <<"set", S>> (the comma separated key), or by the other person *)
(* of a direct chat, <<"dm", m>>.  The bridge finds the portal of an event *)
(* through caches in memory (mem) and through its database (db); database  *)
(* writes about an event run in goroutines of their own (jobs).            *)
(***************************************************************************)
EXTENDS Naturals, FiniteSets, Functions

CONSTANTS
    Others,       \* the other people, as normalised handles
    Me,           \* c.handle
    Alt,          \* another handle of the account; the one groups know it by
    Groups,       \* the conversations that really exist
    Guids,        \* the UUIDs events carry
    GuidsOf,      \* [Groups -> SUBSET Guids]: every client may use its own
    Carrier,      \* the groups that live on SMS, MMS or RCS
    FirstRoster,  \* [Groups -> Rosters]
    Rosters,      \* the member lists groups may have; two people at least
    Speakers,     \* the people events come from; the others only listen
    None,
    MaxJobs,      \* bound: goroutines not yet run
    MaxEvents,    \* bound: messages and CloudKit chats
    MaxChanges    \* bound: membership changes, heard of or missed, and restarts

ASSUME RoutingAssumption ==
    /\ Me # Alt /\ {Me, Alt} \cap Others = {}
    /\ GuidsOf \in [Groups -> SUBSET Guids] /\ None \notin Guids
    /\ \A g, h \in Groups : g # h => GuidsOf[g] \cap GuidsOf[h] = {}
    /\ Carrier \subseteq Groups
    /\ Rosters \subseteq SUBSET Others
    /\ \A S \in Rosters : Cardinality(S) >= 2
    /\ FirstRoster \in [Groups -> Rosters]
    /\ Speakers \subseteq Others

MyHandles == {Me, Alt}

Gid(g) == <<"gid", g>>
Comma(S) == <<"set", S>>
DirectPortal(m) == <<"dm", m>>
IsGid(p) == p[1] = "gid"
IsComma(p) == p[1] = "set"
IsGroupPortal(p) == IsGid(p) \/ IsComma(p)

Portals == {Gid(g) : g \in Guids} \cup {DirectPortal(m) : m \in Others}
             \cup {Comma(S \cup {Me}) : S \in SUBSET Others}

VARIABLES
    mem,    \* the client's caches; gone after a restart
    db,     \* bridge and connector tables
    jobs,   \* goroutines started and not finished
    roster, \* who is really in each group
    ever,   \* everybody who ever was: the rosters each group has had
    home,   \* the portals of each group's messages, by members or UUID
    heard,  \* [portal |-> service of the last message since it has a room]
    used    \* the bounded counters

vars == <<mem, db, jobs, roster, ever, home, heard, used>>

NoFcn == [p \in {} |-> None]
Put(f, x, v) == [y \in DOMAIN f \cup {x} |-> IF y = x THEN v ELSE f[y]]
Without(f, S) == Restrict(f, DOMAIN f \ S)
At(f, x, default) == IF x \in DOMAIN f THEN f[x] ELSE default

-----------------------------------------------------------------------------
(* Members *)

NonSelf(S) == S \ MyHandles
Canonical(S) == NonSelf(S) \cup {Me}

\* mutant: one member more or less is the same group
SetsMatchRoughly(A, B) ==
    A # {} /\ B # {} /\ Cardinality((NonSelf(A) \ B) \cup (NonSelf(B) \ A)) <= 1
SetsMatch(A, B) == A # {} /\ B # {} /\ NonSelf(A) = NonSelf(B)

HasRoom(p) == p \in db.rooms

\* The roster getChatParticipantsByPortalID finds: the row of the portal, or
\* else the row whose group_id is in the portal's name.
StoredRoster(d, p) ==
    LET own == {g \in DOMAIN d.rows : d.rows[g].portal = p}
        rows == IF own # {} THEN own
                ELSE {g \in DOMAIN d.rows : p = Gid(g)}
    IN  IF rows = {} THEN {} ELSE d.rows[CHOOSE g \in rows : TRUE].parts

\* updateChatParticipants: the rows StoredRoster reads are overwritten.
StoreRoster(d, p, S) ==
    LET own == {g \in DOMAIN d.rows : d.rows[g].portal = p}
        rows == IF own # {} THEN own
                ELSE {g \in DOMAIN d.rows : p = Gid(g)}
    IN  [d EXCEPT !.rows = [g \in DOMAIN d.rows |->
            IF g \in rows THEN [d.rows[g] EXCEPT !.parts = S] ELSE d.rows[g]]]

-----------------------------------------------------------------------------
(* Finding the portal of a group event *)

\* ensureGroupPortalIndex: built from the rooms at the first use.
Index(m) == IF m.indexed THEN m.index ELSE {p \in db.rooms : IsComma(p)}
WithIndex(m) == [m EXCEPT !.indexed = TRUE, !.index = Index(m)]

\* The listed members contain somebody the portal is not known to have.
GuidCacheMatchIsStale(m, p, parts) ==
    LET known == IF IsComma(p) THEN p[2] ELSE At(m.parts, p, {})
    IN  /\ parts # {}
        /\ known # {}
        /\ ~(NonSelf(parts) \subseteq known)

\* Comma portals in the index with these members and a room.
Indexed(m, S) == {p \in Index(m) : SetsMatch(S, p[2]) /\ HasRoom(p)}

\* resolveExistingGroupByGid after its first step: by the members.
ByMembers(m, g, parts) ==
    LET cached == {p \in DOMAIN m.parts : /\ IsGid(p) /\ p # Gid(g) /\ HasRoom(p)
                                          /\ SetsMatch(m.parts[p], parts)}
        exact == {p \in Indexed(m, parts) : p[2] = Canonical(parts)}
        stored == {p \in {db.rows[h].portal : h \in DOMAIN db.rows} :
                      /\ IsGroupPortal(p) /\ p # Gid(g) /\ HasRoom(p)
                      /\ SetsMatch(StoredRoster(db, p), parts)}
    IN  IF parts = {} THEN {Gid(g)}
        ELSE IF cached # {} THEN cached
        ELSE IF exact # {} THEN exact
        ELSE IF Indexed(m, parts) # {} THEN Indexed(m, parts)
        ELSE IF stored # {} THEN stored
        ELSE {Gid(g)}

\* The whole of it: portals cached under this UUID first, dropping the stale
\* ones met on the way.
ByGid(m, g, parts) ==
    LET cached == {p \in DOMAIN m.guids : m.guids[p] = g}
        stale == {p \in cached : GuidCacheMatchIsStale(m, p, parts)}
        good == {p \in cached \ stale : HasRoom(p)}
        Drop(D) == [m EXCEPT !.guids = Without(m.guids, D)]
    IN  IF good # {}
        THEN {[portal |-> p, mem |-> Drop(D), dropped |-> D] :
                p \in good, D \in SUBSET stale}
        ELSE {[portal |-> p, mem |-> WithIndex(Drop(stale)), dropped |-> stale] :
                p \in ByMembers(m, g, parts)}

\* The branch of makePortalKey for a UUID: an alias, the portal of that name,
\* or a search whose result becomes the alias.
ByAlias(m, g, parts) ==
    LET stale == /\ g \in DOMAIN m.alias
                 /\ GuidCacheMatchIsStale(m, m.alias[g], Canonical(parts))
                 /\ parts # {}
        m2 == IF stale THEN [m EXCEPT !.alias = Without(m.alias, {g})] ELSE m
    IN  IF g \in DOMAIN m2.alias
        THEN {[portal |-> m2.alias[g], mem |-> m2, dropped |-> {}]}
        ELSE IF HasRoom(Gid(g))
        THEN {[portal |-> Gid(g), mem |-> m2, dropped |-> {}]}
        ELSE {IF r.portal = Gid(g) THEN r
              ELSE [r EXCEPT !.mem.alias = Put(r.mem.alias, g, r.portal)] :
                r \in ByGid(m2, g, parts)}

\* resolveExistingGroupPortalID: the portal of exactly these members, one that
\* differs by our own handle only and is not known under another UUID, or new.
ByParticipants(m, parts, guid) ==
    LET p == Comma(Canonical(parts))
        near == {q \in Indexed(m, p[2]) : guid = None \/ At(m.guids, q, guid) = guid}
        m2 == WithIndex(m)
    IN  IF HasRoom(p) THEN {[portal |-> p, mem |-> m2, dropped |-> {}]}
        ELSE IF near # {}
        THEN {[portal |-> q, mem |-> m2, dropped |-> {}] : q \in near}
        ELSE {[portal |-> p, mem |-> [m2 EXCEPT !.index = @ \cup {p}], dropped |-> {}]}

\* An event is a group's when it names two people besides us, or the group.
IsGroupEvent(e) ==
    Cardinality(NonSelf(e.parts \cup {e.sender})) >= 2 \/ e.named

\* The direct portal of an event that is no group's.
DirectKey(e) ==
    LET people == NonSelf(e.parts)
    IN  DirectPortal(IF people # {} THEN CHOOSE m \in people : TRUE ELSE e.sender)

\* What makePortalKey remembers about the event under the portal it found.
Remember(r, e) ==
    LET p == r.portal
        byUuid == e.guid # None /\ (IsComma(p) \/ p = Gid(e.guid))
    IN  [r.mem EXCEPT
            !.parts = IF e.parts # {} THEN Put(@, p, e.parts) ELSE @,
            !.guids = IF byUuid THEN Put(@, p, e.guid) ELSE @,
            !.last = IF e.sender \in Others THEN Put(@, e.sender, p) ELSE @]

\* ... and the goroutines it starts: the first roster, the UUID.  One that is
\* sure to change nothing is left out.
Started(r, e) ==
    LET insert == [kind |-> "insert", portal |-> r.portal, guid |-> e.guid, parts |-> e.parts]
        uuid == [kind |-> "uuid", portal |-> r.portal, guid |-> e.guid, parts |-> {}]
    IN  {j \in {insert, uuid} :
            /\ j = insert => /\ IsGid(r.portal) /\ e.parts # {}
                             /\ StoredRoster(db, r.portal) = {}
            /\ j = uuid => /\ e.guid # None /\ At(db.guid, r.portal, None) # e.guid
                           /\ HasRoom(r.portal) \/ IsComma(r.portal)}

\* makePortalKey: every result it can have.
PortalKey(e) ==
    IF ~IsGroupEvent(e)
    THEN {[portal |-> DirectKey(e), mem |-> mem, dropped |-> {}, jobs |-> {}]}
    ELSE {[portal |-> r.portal, mem |-> Remember(r, e), dropped |-> r.dropped,
           jobs |-> Started(r, e)] :
            r \in IF e.guid # None /\ ~e.carrier THEN ByAlias(mem, e.guid, e.parts)
                  ELSE ByParticipants(mem, e.parts, IF e.carrier THEN None ELSE e.guid)}

\* The stale UUIDs are cleared from the portals' metadata at once.
Unlabel(d, r, e) ==
    [d EXCEPT !.guid = [p \in DOMAIN d.guid |->
        IF p \in r.dropped /\ d.guid[p] = e.guid THEN None ELSE d.guid[p]]]

-----------------------------------------------------------------------------
(* Moving a portal *)

Renamed(f, p, q) ==
    IF p \in DOMAIN f THEN Put(Without(f, {p}), q, f[p]) ELSE f
Redirected(f, p, q) == [x \in DOMAIN f |-> IF f[x] = p THEN q ELSE f[x]]

\* bridgev2's ReIDPortal on the rooms and what their rows say: the room moves,
\* or, when the target has one, is closed in its favour.
Moved(d, p, q) ==
    IF p \notin d.rooms THEN d
    ELSE IF q \in d.rooms
    THEN [d EXCEPT !.rooms = @ \ {p}, !.guid = Without(@, {p}), !.sms = Without(@, {p})]
    ELSE [d EXCEPT !.rooms = (@ \ {p}) \cup {q},
                   !.guid = Renamed(@, p, q), !.sms = Renamed(@, p, q)]

\* mutant: the aliases are forgotten
FollowedNotAlias(m, p, q) ==
    [m EXCEPT !.guids = Renamed(@, p, q), !.parts = Renamed(@, p, q),
              !.sms = Renamed(@, p, q), !.last = Redirected(@, p, q)]

\* reIDPortalWithCacheUpdate: every cache follows, under all their locks.
Followed(m, p, q) ==
    [m EXCEPT !.guids = Renamed(@, p, q),
              !.parts = Renamed(@, p, q),
              !.sms = Renamed(@, p, q),
              !.index = (@ \ {p}) \cup (IF m.indexed /\ IsComma(q) THEN {q} ELSE {}),
              !.last = Redirected(@, p, q),
              !.alias = Redirected(@, p, q)]

RoomJob(p) == [kind |-> "room", portal |-> p, guid |-> None, parts |-> {}]

\* A room still to be made is made under the key its portal has by then.
Requeued(js, p, q) ==
    {IF j.kind = "room" /\ j.portal = p THEN RoomJob(q) ELSE j : j \in js}

HomeMoved(h, p, q) ==
    [g \in Groups |-> IF p \in h[g] THEN (h[g] \ {p}) \cup {q} ELSE h[g]]

-----------------------------------------------------------------------------
(* Events *)

Event(parts, sender, guid, carrier) ==
    [parts |-> parts, sender |-> sender, guid |-> guid, carrier |-> carrier, named |-> FALSE]

\* Relayed carrier groups leave us out; iMessage knows us by another handle.
Listed(g, S) == IF g \in Carrier THEN S ELSE S \cup {Alt}

\* persistGroupParticipantsIfChanged
SyncJobs(p, S) ==
    IF IsGid(p) /\ Cardinality(S) >= 2
    THEN {[kind |-> "sync", portal |-> p, guid |-> None, parts |-> S]} ELSE {}

\* The portals that the UUID of a text names.
UuidPortals(e) ==
    LET same == {q \in DOMAIN mem.guids : mem.guids[q] = e.guid}
    IN  IF e.guid = None THEN {}
        ELSE {Gid(e.guid)} \cup (IF Cardinality(same) = 1 THEN same ELSE {})

\* resolveSMSGroupRedirectPortal: a text with no member list goes to the only
\* group that its UUID or its sender names.
SmsRedirect(e, p) ==
    LET with == {q \in Index(mem) : e.sender \in q[2]}
        all == UuidPortals(e) \cup (IF Cardinality(with) = 1 THEN with ELSE {})
    IN  IF e.carrier /\ ~IsGroupPortal(p) /\ e.parts = {}
           /\ Cardinality(all) = 1 /\ all \subseteq db.rooms
        THEN CHOOSE q \in all : TRUE ELSE p

\* Neither members nor a UUID led to the portal: its sender did.
Guessed(e, p) == e.parts = {} /\ p \notin UuidPortals(e)

\* updatePortalSMS, and the save when the service changed and the row exists.
ServiceSet(m, p, carrier) == [m EXCEPT !.sms = Put(@, p, carrier)]
ServiceSaved(d, m, p, carrier) ==
    IF p \in d.rooms /\ (p \notin DOMAIN m.sms \/ m.sms[p] # carrier)
    THEN [d EXCEPT !.sms = Put(@, p, carrier)] ELSE d

RoomJobs(p) == IF HasRoom(p) THEN {} ELSE {RoomJob(p)}

\* handleMessage: an event of a conversation, live or kept for us while we were
\* away (stored), which then lists the members of its own time.
RouteMessage(g, e, live) ==
    /\ used.events < MaxEvents
    /\ Cardinality(jobs) < MaxJobs
    /\ used' = [used EXCEPT !.events = @ + 1]
    /\ \E r \in PortalKey(e) :
          LET p == SmsRedirect(e, r.portal)
          IN  /\ mem' = ServiceSet(r.mem, p, e.carrier)
              /\ db' = ServiceSaved(Unlabel(db, r, e), mem, p, e.carrier)
              /\ jobs' = jobs \cup r.jobs \cup RoomJobs(p)
                           \cup (IF live THEN SyncJobs(r.portal, e.parts) ELSE {})
              /\ home' = IF Guessed(e, p) THEN home ELSE [home EXCEPT ![g] = @ \cup {p}]
              /\ heard' = IF HasRoom(p) THEN Put(heard, p, e.carrier) ELSE heard
    /\ UNCHANGED <<roster, ever>>

Message(g) ==
    \E sender \in roster[g] \cap Speakers, guid \in GuidsOf[g] \cup {None} :
        RouteMessage(g, Event(Listed(g, roster[g]), sender, guid, g \in Carrier), TRUE)

StoredMessage(g) ==
    \E S \in ever[g], guid \in GuidsOf[g] :
        \E sender \in S \cap Speakers :
            RouteMessage(g, Event(Listed(g, S), sender, guid, g \in Carrier), FALSE)

\* The relay sometimes leaves the member list out.
BareMessage(g) ==
    /\ g \in Carrier
    /\ \E sender \in roster[g] \cap Speakers, guid \in GuidsOf[g] \cup {None} :
          RouteMessage(g, Event({}, sender, guid, TRUE), TRUE)

\* handleParticipantChange: the portal of the old members is re-keyed to the
\* new ones.  (Notices kept for us while we were away are skipped: MissedChange.)
ParticipantChange(g, S) ==
    /\ used.changes < MaxChanges
    /\ Cardinality(jobs) < MaxJobs
    /\ \E sender \in roster[g] \cap Speakers, guid \in GuidsOf[g] \cup {None} :
       LET e == Event(Listed(g, roster[g]), sender, guid, g \in Carrier)
       IN  \E r \in PortalKey(e) :
             LET p == r.portal
                 q == Comma(Canonical(S))
                 m == IF p = q THEN r.mem ELSE Followed(r.mem, p, q)
                 u == Unlabel(db, r, e)
                 d == IF p = q THEN u ELSE Moved(u, p, q)
                 news == Listed(g, S)
             IN  /\ mem' = [ServiceSet(m, q, e.carrier) EXCEPT
                              !.guids = IF guid = None THEN @ ELSE Put(@, q, guid)]
                 /\ db' = ServiceSaved(d, m, q, e.carrier)
                 /\ jobs' = Requeued(jobs, p, q) \cup r.jobs \cup SyncJobs(p, news)
                 /\ home' = [HomeMoved(home, p, q) EXCEPT ![g] = @ \cup {q}]
                 /\ heard' = Put(Without(heard, {p}), q, e.carrier)
    /\ roster' = [roster EXCEPT ![g] = S]
    /\ ever' = [ever EXCEPT ![g] = @ \cup {S}]
    /\ used' = [used EXCEPT !.changes = @ + 1]

\* The members change while the bridge does not hear of it.
MissedChange(g, S) ==
    /\ used.changes < MaxChanges
    /\ roster' = [roster EXCEPT ![g] = S]
    /\ ever' = [ever EXCEPT ![g] = @ \cup {S}]
    /\ used' = [used EXCEPT !.changes = @ + 1]
    /\ UNCHANGED <<mem, db, jobs, home, heard>>

\* mutant: one group only, whoever is in it
GroupOfAnybody(m, who) ==
    IF who \in DOMAIN m.last THEN {m.last[who]}
    ELSE IF Cardinality(Index(m)) = 1 THEN Index(m) ELSE {}

\* findGroupPortalForMember
GroupOfMember(m, who) ==
    LET with == {q \in Index(m) : who \in q[2]}
    IN  IF who \in DOMAIN m.last THEN {m.last[who]}
        ELSE IF Cardinality(with) = 1 THEN with ELSE {}

\* Typing notices and receipts name at most their sender and us.
Glimpses(g) ==
    {Event(parts, sender, guid, g \in Carrier) :
        sender \in roster[g] \cap Speakers, guid \in GuidsOf[g] \cup {None},
        parts \in {{}, {Alt}}}

\* The portal of the UUID: by name, or cached and not contradicted.
KnownByUuid(e) ==
    IF e.guid = None THEN {}
    ELSE IF HasRoom(Gid(e.guid)) THEN {Gid(e.guid)}
    ELSE {q \in DOMAIN mem.guids : /\ mem.guids[q] = e.guid
                                   /\ ~GuidCacheMatchIsStale(mem, q, e.parts)}

\* In a portal found, else in the sender's group, else in their direct chat.
ShownIn(e, found) ==
    IF found # {} THEN found
    ELSE IF GroupOfMember(mem, e.sender) # {} THEN GroupOfMember(mem, e.sender)
    ELSE {DirectKey(e)}

\* handleTyping: the direct chat, when there is one, comes first.
TypingFound(e) == IF HasRoom(DirectKey(e)) THEN {DirectKey(e)} ELSE KnownByUuid(e)
TypingShown(e) == ShownIn(e, TypingFound(e))

\* handleReadReceipt, of a message that is not found in any portal.
ReceiptShown(e) == ShownIn(e, KnownByUuid(e))

\* handleMessage of a text that lists nobody.
BareShown(e) ==
    IF e.carrier /\ e.parts = {} THEN {SmsRedirect(e, DirectKey(e))} ELSE {}

\* A notice is only shown; looking for the sender's group builds the index.
Glimpse(g) ==
    /\ \E e \in Glimpses(g) :
          /\ e.sender \notin DOMAIN mem.last
          /\ TypingFound(e) = {} \/ KnownByUuid(e) = {}
    /\ mem' = WithIndex(mem)
    /\ UNCHANGED <<db, jobs, roster, ever, home, heard, used>>

\* Chats from CloudKit: ingestCloudChats with resolvePortalIDForCloudChat.
CloudPortal(g, guid, S) ==
    IF g \in Carrier /\ Cardinality(NonSelf(S)) >= 2 THEN Comma(Canonical(S)) ELSE Gid(guid)

CloudChat(g) ==
    \E guid \in GuidsOf[g], S \in ever[g] :
        LET p == CloudPortal(g, guid, S)
        IN  /\ used.events < MaxEvents
            /\ db' = [db EXCEPT !.rows = Put(@, guid,
                        [portal |-> p, parts |-> Listed(g, S), carrier |-> g \in Carrier])]
            /\ mem' = ServiceSet(mem, p, g \in Carrier)
            /\ used' = [used EXCEPT !.events = @ + 1]
            /\ UNCHANGED <<jobs, roster, ever, home, heard>>

-----------------------------------------------------------------------------
(* Goroutines *)

Job(kind, j) == j \in jobs /\ j.kind = kind /\ jobs' = jobs \ {j}

\* makePortalKey's first roster: only when the portal has none.
InsertRoster(j) ==
    /\ Job("insert", j)
    /\ db' = IF StoredRoster(db, j.portal) # {} THEN db
             ELSE [db EXCEPT !.rows = Put(@, j.guid,
                     [portal |-> j.portal, parts |-> j.parts, carrier |-> FALSE])]
    /\ UNCHANGED <<mem, roster, ever, home, heard, used>>

\* syncStoredGroupRoster: only when the portal has one, and another.
SyncRoster(j) ==
    LET old == StoredRoster(db, j.portal)
    IN  /\ Job("sync", j)
        /\ db' = IF old = {} \/ SetsMatch(old, j.parts) THEN db
                 ELSE StoreRoster(db, j.portal, j.parts)
        /\ UNCHANGED <<mem, roster, ever, home, heard, used>>

\* makePortalKey's copy of the UUID in the portal's metadata.
SaveUuid(j) ==
    /\ Job("uuid", j)
    /\ db' = IF HasRoom(j.portal) THEN [db EXCEPT !.guid = Put(@, j.portal, j.guid)] ELSE db
    /\ UNCHANGED <<mem, roster, ever, home, heard, used>>

\* The framework makes the room; GetChatInfo fills in what its metadata keeps.
IsPortalSMS(m, p) == At(m.sms, p, FALSE)
MakeRoom(j) ==
    LET p == j.portal
        named == IF IsGid(p) THEN Put(db.guid, p, At(mem.guids, p, p[2])) ELSE db.guid
        service == IF IsComma(p) THEN db.sms ELSE Put(db.sms, p, IsPortalSMS(mem, p))
    IN  /\ Job("room", j)
        /\ db' = [db EXCEPT !.rooms = @ \cup {p}, !.guid = named, !.sms = service]
        /\ UNCHANGED <<mem, roster, ever, home, heard, used>>

-----------------------------------------------------------------------------
(* Startup *)

\* The room moves of a consolidation under way: reIDs of carrierRoomMovePlan.
NoPlan == [key |-> None, first |-> None, left |-> {}]

\* loadSenderGuidsFromDB
LoadedCaches(d) ==
    [guids |-> Restrict(d.guid, {p \in DOMAIN d.guid : d.guid[p] # None}),
     sms |-> Restrict(d.sms, {p \in DOMAIN d.sms : d.sms[p]}),
     parts |-> NoFcn, alias |-> NoFcn, last |-> NoFcn,
     index |-> {}, indexed |-> FALSE, starting |-> TRUE, plan |-> NoPlan]

RestartClient ==
    /\ used.changes < MaxChanges
    /\ used' = [used EXCEPT !.changes = @ + 1]
    /\ mem' = LoadedCaches(db)
    /\ jobs' = {}
    /\ UNCHANGED <<db, roster, ever, home, heard>>

\* planCarrierGroupConsolidation: the carrier portals whose members make the
\* same key, when they are several or not under that key.
CarrierShards(key) ==
    {db.rows[g].portal : g \in {h \in DOMAIN db.rows :
        /\ db.rows[h].carrier
        /\ IsGroupPortal(db.rows[h].portal)
        /\ Cardinality(NonSelf(db.rows[h].parts)) >= 2
        /\ Comma(Canonical(db.rows[h].parts)) = key}}

\* planCarrierRoomMoves: the room that stays; with none under the key yet it is
\* the one with most history, any of them here.
Survivors(key, shards) ==
    IF HasRoom(key) THEN {key} ELSE shards \cap db.rooms

\* consolidateOneCarrierGroup: the moves are planned and the rows re-keyed;
Consolidate(key) ==
    LET shards == CarrierShards(key)
        rooms == (shards \cap db.rooms) \ {key}
    IN  /\ mem.starting /\ mem.plan.left = {}
        /\ shards # {} /\ shards # {key}
        /\ db' = [db EXCEPT !.rows = [g \in DOMAIN db.rows |->
                     IF db.rows[g].portal \in shards THEN [db.rows[g] EXCEPT !.portal = key]
                     ELSE db.rows[g]]]
        /\ IF rooms = {} THEN mem' = mem
           ELSE \E first \in Survivors(key, shards) :
                  mem' = [mem EXCEPT !.plan = [key |-> key, first |-> first, left |-> rooms]]
        /\ UNCHANGED <<jobs, roster, ever, home, heard, used>>

\* then the survivor moves to the key, and the other rooms are closed in its
\* favour, each under the locks of the caches and with events in between.
MoveRoom(p) ==
    LET plan == mem.plan
    IN  /\ p \in plan.left /\ (plan.first \in plan.left => p = plan.first)
        /\ db' = Moved(db, p, plan.key)
        /\ mem' = [Followed(mem, p, plan.key) EXCEPT !.plan = [plan EXCEPT !.left = @ \ {p}]]
        /\ home' = HomeMoved(home, p, plan.key)
        /\ heard' = Without(heard, {p})
        /\ jobs' = Requeued(jobs, p, plan.key)
        /\ UNCHANGED <<roster, ever, used>>

\* The room moves of one start are budgeted: what is left waits for the next.
StartDone ==
    /\ mem.starting /\ mem.plan.left = {}
    /\ mem' = [mem EXCEPT !.starting = FALSE]
    /\ UNCHANGED <<db, jobs, roster, ever, home, heard, used>>

-----------------------------------------------------------------------------
Init ==
    /\ \E rooms \in SUBSET {Gid(g) : g \in UNION {GuidsOf[c] : c \in Carrier}} :
         db = [rooms |-> rooms,
               rows |-> [g \in {h \in Guids : Gid(h) \in rooms} |->
                   [portal |-> Gid(g), carrier |-> TRUE,
                    parts |-> FirstRoster[CHOOSE c \in Carrier : g \in GuidsOf[c]]]],
               guid |-> NoFcn, sms |-> [p \in rooms |-> TRUE]]
    /\ mem = LoadedCaches(db)
    /\ jobs = {}
    /\ roster = FirstRoster
    /\ ever = [g \in Groups |-> {FirstRoster[g]}]
    /\ home = [g \in Groups |-> db.rooms \cap {Gid(h) : h \in GuidsOf[g]}]
    /\ heard = NoFcn
    /\ used = [events |-> 0, changes |-> 0]

Next ==
    \/ \E g \in Groups : \/ Message(g)
                         \/ StoredMessage(g)
                         \/ BareMessage(g)
                         \/ \E S \in Rosters \ {roster[g]} : ParticipantChange(g, S)
                         \/ \E S \in Rosters \ {roster[g]} : MissedChange(g, S)
                         \/ Glimpse(g)
                         \/ CloudChat(g)
    \/ \E j \in jobs : \/ InsertRoster(j)
                       \/ SyncRoster(j)
                       \/ SaveUuid(j)
                       \/ MakeRoom(j)
    \/ RestartClient
    \/ \E S \in Rosters : Consolidate(Comma(Canonical(S)))
    \/ \E p \in mem.plan.left : MoveRoom(p)
    \/ StartDone

Spec == Init /\ [][Next]_vars

-----------------------------------------------------------------------------
TypeOK ==
    /\ db.rooms \subseteq Portals
    /\ \A g \in DOMAIN db.rows : db.rows[g].portal \in Portals
    /\ DOMAIN mem.guids \subseteq Portals /\ DOMAIN mem.parts \subseteq Portals
    /\ DOMAIN mem.alias \subseteq Guids /\ mem.index \subseteq Portals
    /\ roster \in [Groups -> Rosters]
    /\ used.events <= MaxEvents /\ used.changes <= MaxChanges

\* Groups that never had the same members as any of the others.
Strangers(K) == \A g \in K, h \in Groups \ K : ever[g] \cap ever[h] = {}

\* They never share a room with one of the others: no cache, no UUID another
\* client made up, no move of a portal brings the messages of one into the room
\* of the other.  (Two groups may come to share a room through a third that had
\* the members of both; a text put where its sender is known is left to
\* NoticesStay.)  (makePortalKey and guidCacheMatchIsStale.)
NoMixing ==
    \A K \in SUBSET Groups : Strangers(K) =>
        \A g \in K, h \in Groups \ K : home[g] \cap home[h] = {}

\* An alias leads to a room, also while portals are re-keyed and merged.
\* (reIDPortalWithCacheUpdate.)
NoDanglingAlias == \A g \in DOMAIN mem.alias : HasRoom(mem.alias[g])

\* A typing notice, a receipt or a text without members, of strangers to the
\* other groups, is shown in a room of those only when its sender was in one of
\* those too, for then the bridge may guess from the sender alone.
\* (handleTyping, handleReadReceipt, findGroupPortalForMember,
\* resolveSMSGroupRedirectPortal against what re-keying left in the caches.)
NoticesStay ==
    \A K \in SUBSET Groups : Strangers(K) =>
        \A g \in K : \A e \in Glimpses(g) :
            \A p \in TypingShown(e) \cup ReceiptShown(e) \cup BareShown(e) :
                (\E h \in Groups \ K : p \in home[h]) =>
                    \E o \in Groups \ K : \E S \in ever[o] : e.sender \in S

\* More than the code does: shown where its sender was a member.  A goroutine
\* may save a group's UUID to the room another group of the same members has
\* under the key by then (SaveUuid), and a restart reads it back.
ShownAmongMembers ==
    \A g \in Groups : \A e \in Glimpses(g) :
      \A p \in (TypingShown(e) \cup ReceiptShown(e)) \cap db.rooms :
        \/ p = DirectPortal(e.sender)
        \/ \E h \in Groups : p \in home[h] /\ \E S \in ever[h] : e.sender \in S

\* Said at client.go:3176, "Persist IsSms change to DB immediately so it
\* survives a crash": a room's row has the service of its last message.
ServiceSurvives ==
    \A p \in DOMAIN heard : HasRoom(p) => At(db.sms, p, FALSE) = heard[p]
=============================================================================
