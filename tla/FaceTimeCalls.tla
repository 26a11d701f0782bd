---------------------------- MODULE FaceTimeCalls ----------------------------
(***************************************************************************)
(* FaceTime calls of the Go bridge (facetime.go, client.go).  A browser    *)
(* joins a call by a link; links take time to spread at Apple, so the      *)
(* bridge mints one for the next call of each direction in advance.  A     *)
(* call takes the link of its slot, ties it to its session in a table in   *)
(* memory, tells the user, and leaves it to a goroutine of its own to move *)
(* the link out of the slot and mint another.  Who opens a link is let     *)
(* into the session the table names, and the contact of an outgoing call   *)
(* is rung only then.                                                      *)
(*                                                                         *)
(* Commands and notices of FaceTime each run in a goroutine, so calls are  *)
(* set up side by side.  The links and sessions survive a restart, the     *)
(* table and the queued rings do not.  A link is free (not minted yet, or  *)
(* revoked), in the slot of a direction, or used; the code tells two kinds *)
(* of used ones apart but lets their guests in alike.                      *)
(***************************************************************************)
EXTENDS Naturals, Sequences

CONSTANTS MaxCalls,   \* bound: calls and shared links
          MaxLinks,   \* bound: links minted
          MaxCallFaults \* bound: failed calls, revocations and restarts

ASSUME CallsAssumption == {MaxCalls, MaxLinks, MaxCallFaults} \subseteq Nat

Links == 1 .. MaxLinks
Free == "free"
Used == "used"

\* way is "call" (armBridgeFaceTimeCall, by command or for a missed call), "ring" (a call
\* that comes in) or "share" (a link for others, without a session).
Slot(way) == IF way = "ring" THEN "nextincomingcall" ELSE "next"

VARIABLES links,     \* link -> Free, a slot, or Used
          minted,    \* links made so far
          routes,    \* BRIDGE_FT_LINK_ROUTES: link -> session, 0 for none
          calls,     \* [way, at, link]: how far its goroutine is, and the link it took
          rings,     \* PENDING_FT_RINGS: session -> "none", "queued", "late"
          ringing,   \* is_ringing_inaccurate: sessions that ring the user or a contact
          rotation,  \* what is left to the goroutine of a call: "none", "move", "mint"
          premint,   \* slots the start still fills
          guests,    \* the session someone was let into whose join is not reported yet
          strays,    \* notices whose link has led to another call (history)
          stuck,     \* calls whose link could not be moved (history)
          crossed,   \* calls set up while another was at the slot (history)
          past,      \* calls of earlier processes (history)
          callFaults

callsVars == <<links, minted, routes, calls, rings, ringing, rotation, premint, guests, strays,
          stuck, crossed, past, callFaults>>
Table == <<routes, rings, ringing, guests, strays>>
History == <<stuck, crossed, past>>

Numbers == 1 .. Len(calls)
CallFault == callFaults < MaxCallFaults /\ callFaults' = callFaults + 1
In(slot) == {l \in Links : links[l] = slot}

\* A call still at its slot: it has the link and has not told it, or has yet to move it, or
\* could not.
Holding(n) == calls[n].at = "bind" \/ rotation[n] = "move" \/ n \in stuck

CallsInit ==
  /\ links = [l \in Links |-> Free] /\ minted = 0 /\ routes = [l \in Links |-> 0]
  /\ calls = <<>> /\ rings = <<>> /\ rotation = <<>>
  /\ premint \in {{}, {"next", "nextincomingcall"}}
  /\ ringing = {} /\ guests = {} /\ strays = {} /\ stuck = {} /\ crossed = {} /\ past = {}
  /\ callFaults = 0

----------------------------------------------------------------------------
(* Setting up a call *)

\* GetLinkForUsage: the link of the slot, or a new one in it.
LinkFor(slot, l) ==
  \/ l \in In(slot) /\ UNCHANGED <<links, minted>>
  \/ /\ In(slot) = {} /\ minted < MaxLinks /\ l = minted + 1
     /\ minted' = l /\ links' = [links EXCEPT ![l] = slot]

\* A session is made without a ring, and its ring queued; a contact's session exists.
Begin(way) ==
  /\ Len(calls) < MaxCalls
  /\ calls' = Append(calls, [way |-> way, at |-> "link", link |-> 0])
  /\ rings' = Append(rings, IF way = "call" THEN "queued" ELSE "none")
  /\ rotation' = Append(rotation, "none")
  /\ UNCHANGED <<links, minted, routes, premint, guests, strays, History, callFaults>>

\* The user calls the contact of a room.
PlaceCall == Begin("call") /\ UNCHANGED ringing

\* The user asks for a link to share.
ShareLink == Begin("share") /\ UNCHANGED ringing

\* A contact rings the user, without a link of their own.
Ring == Begin("ring") /\ ringing' = ringing \cup {Len(calls) + 1}

\* A call the user did not take: the notice offers to call back.
Missed ==
  /\ \E n \in Numbers \ ringing : calls[n].way = "ring"
  /\ Begin("call") /\ UNCHANGED ringing

\* getFaceTimeLinkWithRecovery: links whose state is broken are all revoked first.
TakeLink(n) ==
  /\ calls[n].at = "link"
  /\ LET slot   == Slot(calls[n].way)
         others == {m \in Numbers \ {n} : Slot(calls[m].way) = slot /\ Holding(m)} IN
     /\ \/ \E l \in Links : LinkFor(slot, l) /\ calls' = [calls EXCEPT ![n].link = l, ![n].at = "bind"]
           /\ UNCHANGED callFaults
        \/ /\ CallFault /\ minted < MaxLinks /\ minted' = minted + 1
           /\ links' = [l \in Links |-> IF l = minted' THEN slot ELSE Free]
           /\ calls' = [calls EXCEPT ![n].link = minted', ![n].at = "bind"]
     /\ crossed' = IF others = {} THEN crossed ELSE crossed \cup others \cup {n}
  /\ UNCHANGED <<Table, rotation, premint, stuck, past>>

\* No link: the command answers an error, and the notice of a ring has no button.  The
\* queued ring stays.
TakeFails(n) ==
  /\ calls[n].at = "link" /\ CallFault
  /\ calls' = [calls EXCEPT ![n].at = "over"]
  /\ UNCHANGED <<links, minted, Table, rotation, premint, History>>

\* BindBridgeLinkToSession looks the link up by its slot once more.
Bound(n) == \E l \in In(Slot(calls[n].way)) : routes' = [routes EXCEPT ![l] = n]

\* The user is told the link taken before, and the rotation starts.
Told(n) ==
  /\ calls' = [calls EXCEPT ![n].at = "told"]
  /\ rotation' = [rotation EXCEPT ![n] = "move"]

BindCall(n) ==
  /\ calls[n].at = "bind" /\ calls[n].way = "call"
  /\ \/ Bound(n) /\ Told(n)
     \/ /\ In("next") = {} /\ calls' = [calls EXCEPT ![n].at = "over"]
        /\ UNCHANGED <<routes, rotation>>
  /\ UNCHANGED <<links, minted, rings, ringing, premint, guests, strays, History, callFaults>>

\* The notice of a ring is posted although its link is not tied to the session.
BindRing(n) ==
  /\ calls[n].at = "bind" /\ calls[n].way = "ring"
  /\ Bound(n) \/ (In("nextincomingcall") = {} /\ UNCHANGED routes)
  /\ Told(n)
  /\ UNCHANGED <<links, minted, rings, ringing, premint, guests, strays, History, callFaults>>

\* fnFaceTimeSend's message may not be sent; the rotation has started by then.
Shared(n) ==
  /\ calls[n].at = "bind" /\ calls[n].way = "share"
  /\ \/ calls' = [calls EXCEPT ![n].at = "told"] /\ UNCHANGED callFaults
     \/ calls' = [calls EXCEPT ![n].at = "over"] /\ CallFault
  /\ rotation' = [rotation EXCEPT ![n] = "move"]
  /\ UNCHANGED <<links, minted, Table, premint, History>>

----------------------------------------------------------------------------
(* Rotation and the start *)

\* Mutant: the link stays in the slot for the call after.
MovedNot(slot) == UNCHANGED links

\* UseLinkFor: the link leaves the slot; an error is passed over.
Moved(slot) ==
  IF In(slot) = {} THEN UNCHANGED links
  ELSE \E l \in In(slot) : links' = [links EXCEPT ![l] = Used]

Move(n) ==
  /\ rotation[n] = "move" /\ rotation' = [rotation EXCEPT ![n] = "mint"]
  /\ \/ Moved(Slot(calls[n].way)) /\ UNCHANGED <<callFaults, stuck>>
     \/ CallFault /\ stuck' = stuck \cup {n} /\ UNCHANGED links
  /\ UNCHANGED <<minted, Table, calls, premint, crossed, past>>

Mint(n) ==
  /\ rotation[n] = "mint" /\ rotation' = [rotation EXCEPT ![n] = "none"]
  /\ \/ (\E l \in Links : LinkFor(Slot(calls[n].way), l)) /\ UNCHANGED callFaults
     \/ CallFault /\ UNCHANGED <<links, minted>>
  /\ UNCHANGED <<Table, calls, premint, History>>

\* premintFaceTimeLinks, unless the process connected a short time ago.
Premint(slot) ==
  /\ slot \in premint /\ premint' = premint \ {slot}
  /\ \/ (\E l \in Links : LinkFor(slot, l)) /\ UNCHANGED callFaults
     \/ CallFault /\ UNCHANGED <<links, minted>>
  /\ UNCHANGED <<Table, calls, rotation, History>>

----------------------------------------------------------------------------
(* Guests *)

\* The session someone who opens a link is let into: the one the table names, else one that
\* rings, whoever it rings, else a new one (0).
Approved(l) ==
  IF routes[l] # 0 THEN {routes[l]} ELSE IF ringing # {} THEN ringing ELSE {0}

\* Where the link of a notice belongs: a call's to its session, a shared one to none.
Home(n, s) == IF calls[n].way = "share" THEN routes[calls[n].link] = 0 ELSE s = n

\* A notice's link is opened, by one guest at a time; nobody answers for one that was
\* revoked.
Open(n) ==
  /\ calls[n].at = "told" /\ links[calls[n].link] # Free /\ guests = {}
  /\ \E s \in Approved(calls[n].link) :
       /\ guests' = {s}
       /\ strays' = IF Home(n, s) THEN strays ELSE strays \cup {n}
  /\ UNCHANGED <<links, minted, routes, calls, rings, ringing, rotation, premint, History, callFaults>>

\* The contact's phone is made to ring; the session says so first.
Rung(s) == ringing' = IF rings[s] = "queued" THEN ringing \cup {s} ELSE ringing

\* maybe_fire_pending_ring: the contact is rung unless it is too late; a ring Apple did not
\* take stays queued.
Joined(s) ==
  /\ s \in guests /\ guests' = {}
  /\ \/ s = 0 /\ UNCHANGED <<rings, ringing, callFaults>>
     \/ s # 0 /\ rings' = [rings EXCEPT ![s] = "none"] /\ Rung(s) /\ UNCHANGED callFaults
     \/ s # 0 /\ rings[s] = "queued" /\ Rung(s) /\ CallFault /\ UNCHANGED rings
  /\ UNCHANGED <<links, minted, routes, calls, rotation, premint, strays, History>>

\* The queued ring is too old: 60 s for a command, an hour for a missed call.
Expire(n) ==
  /\ rings[n] = "queued" /\ rings' = [rings EXCEPT ![n] = "late"]
  /\ UNCHANGED <<links, minted, routes, calls, ringing, rotation, premint, guests, strays,
                 History, callFaults>>

\* It is answered, declined, or hung up.
RingEnds(n) ==
  /\ n \in ringing /\ ringing' = ringing \ {n}
  /\ UNCHANGED <<links, minted, routes, calls, rings, rotation, premint, guests, strays,
                 History, callFaults>>

----------------------------------------------------------------------------
\* fnFaceTimeClear: every link is revoked.
ClearLinks ==
  /\ CallFault /\ links' = [l \in Links |-> Free]
  /\ UNCHANGED <<minted, Table, calls, rotation, premint, History>>

\* fnFaceTimeDeleteLink
DeleteLink(l) ==
  /\ links[l] # Free /\ CallFault /\ links' = [links EXCEPT ![l] = Free]
  /\ UNCHANGED <<minted, Table, calls, rotation, premint, History>>

RestartCalls ==
  /\ CallFault /\ past' = Numbers
  /\ routes' = [l \in Links |-> 0] /\ rings' = [n \in Numbers |-> "none"]
  /\ rotation' = [n \in Numbers |-> "none"] /\ guests' = {}
  /\ calls' = [n \in Numbers |->
                 IF calls[n].at = "told" THEN calls[n] ELSE [calls[n] EXCEPT !.at = "over"]]
  /\ premint' \in {{}, {"next", "nextincomingcall"}}
  /\ UNCHANGED <<links, minted, ringing, strays, stuck, crossed>>

CallsNext ==
  \/ PlaceCall \/ ShareLink \/ Ring \/ Missed
  \/ \E n \in Numbers : TakeLink(n) \/ TakeFails(n)
  \/ \E n \in Numbers : BindCall(n) \/ BindRing(n) \/ Shared(n)
  \/ \E n \in Numbers : Move(n) \/ Mint(n)
  \/ \E slot \in premint : Premint(slot)
  \/ \E n \in Numbers : Open(n) \/ Expire(n) \/ RingEnds(n)
  \/ \E s \in guests : Joined(s)
  \/ ClearLinks \/ (\E l \in Links : DeleteLink(l)) \/ RestartCalls

CallsSpec == CallsInit /\ [][CallsNext]_callsVars

----------------------------------------------------------------------------
(* Properties *)

\* Whoever opens the link of a notice is let into the call the notice is about, and rings
\* nobody else, and a shared link is tied to no call, unless another call was set up beside
\* it, or before its link could be moved, or the process ended since
\* (armBridgeFaceTimeCall, handleFaceTimeRingNotice, auto_approve_bridge_letmein).
LinksLeadHome == strays \subseteq crossed \cup past

\* What the notice of a call says of its link ("Tapping this link will ring",
\* handleFaceTimeMissedNotice), with no exception.
NoticesKept == strays = {}
=============================================================================
