------------------------------ MODULE Presence ------------------------------
(***************************************************************************)
(* A contact's Focus shown as a moon in the title of their room.  Apple    *)
(* reports a contact's state under any of their handles; a goroutine per   *)
(* report finds the room and changes its title.                            *)
(*                                                                         *)
(* One contact with a direct handle, whose room the bridge finds by name,  *)
(* and aliases it must learn to map to the room.  The last state seen of a *)
(* handle and of the room is written to memory and to the KV table at the  *)
(* same time, so one variable stands for both and survives a restart.      *)
(***************************************************************************)
EXTENDS Naturals, Sequences

CONSTANTS Direct,      \* the handle that names the room
          Aliases,     \* the contact's other handles
          Jobs,        \* goroutine slots: bounds the reports in flight
          PrivateMeta, \* private_chat_portal_meta
          MaxChanges,  \* bound: changes of the contact's state
          MaxFaults    \* bound: panics, restarts and unanswered lookups

Handles == {Direct} \cup Aliases
Modes == {"available", "focus"}

VARIABLES
    peer,     \* the contact's true state
    room,     \* the contact's room exists
    linked,   \* those in the alias-to-portal map
    channel,  \* handles observed on the contact's StatusKit channel
    cooling,  \* aliases IDS could not place less than six hours ago
    seen,     \* statusKitPresence: the last state acted on, by handle
    job,      \* OnStatusUpdate's goroutines: [stage, handle, mode]
    mode,     \* statusKitPresenceByPortal: the room's state
    fresh,    \* that state was reported less than presenceMoonTTL ago
    title,    \* of the room, with or without the moon
    custom,   \* NameIsCustom: the bridge owns the title
    queue,    \* title changes queued for the room
    changes, faults

vars == <<peer, room, linked, channel, cooling, seen, job, mode, fresh, title, custom,
          queue, changes, faults>>

NoJob == [stage |-> "none", handle |-> Direct, mode |-> "available"]

TypeOK ==
    /\ peer \in Modes /\ mode \in Modes /\ room \in BOOLEAN
    /\ linked \subseteq Aliases /\ channel \subseteq Handles /\ cooling \subseteq Aliases
    /\ seen \in [Handles -> Modes \cup {"unseen"}]
    /\ job \in [Jobs -> [stage : {"none", "resolve", "store", "title"}, handle : Handles,
                         mode : Modes]]
    /\ title \in {"plain", "moon"} /\ custom \in BOOLEAN /\ fresh \in BOOLEAN
    /\ queue \in Seq({"moon", "bare", "release"})

Init ==
    /\ peer = "available" /\ room \in BOOLEAN /\ linked = {} /\ channel = {Direct} /\ cooling = {}
    /\ seen = [h \in Handles |-> "unseen"] /\ job = [j \in Jobs |-> NoJob]
    /\ mode = "available" /\ fresh = FALSE /\ title = "plain" /\ custom = FALSE
    /\ queue = <<>> /\ changes = 0 /\ faults = 0

Fault == faults < MaxFaults /\ faults' = faults + 1
Finish(j) == job' = [job EXCEPT ![j] = NoJob]
lookup == <<linked, channel, cooling>>
shown == <<mode, fresh, title, custom, queue>>

-----------------------------------------------------------------------------
(* Titles.                                                                  *)

\* (mutant) A focus that is never confirmed stays.
SilencedForever == mode = "focus"

(* isPortalSilenced: a focus not reported for presenceMoonTTL is stale.     *)
Silenced == mode = "focus" /\ fresh

(* dmFocusName: the title with the moon, the title handed back to the       *)
(* framework, or the bare name stamped because the framework would leave    *)
(* the room without one.                                                    *)
FocusName ==
    IF Silenced THEN "moon" ELSE IF PrivateMeta THEN "release" ELSE "bare"

(* The room's event loop applies a title change.                            *)
ApplyTitle ==
    /\ queue # <<>>
    /\ title' = IF Head(queue) = "moon" THEN "moon" ELSE "plain"
    /\ custom' = (Head(queue) # "release")
    /\ queue' = Tail(queue)
    /\ UNCHANGED <<peer, room, lookup, seen, job, mode, fresh, changes, faults>>

(* The contact refresh, every fifteen minutes: titles it owns or should own *)
(* are recomputed from the stored state; one that already shows is left.    *)
ShownAlready ==
    \/ FocusName = "moon" /\ title = "moon"
    \/ FocusName = "bare" /\ title = "plain"

RefreshTitle ==
    /\ room /\ queue = <<>>
    /\ Silenced \/ custom
    /\ ~ShownAlready
    /\ queue' = Append(queue, FocusName)
    /\ UNCHANGED <<peer, room, lookup, seen, job, mode, fresh, title, custom, changes, faults>>

(* presenceMoonTTL passes without a report.                                 *)
Expire ==
    /\ fresh /\ fresh' = FALSE
    /\ UNCHANGED <<peer, room, lookup, seen, job, mode, title, custom, queue, changes, faults>>

-----------------------------------------------------------------------------
(* Reports.                                                                 *)

(* A change the bridge may or may not be told of.                           *)
PeerChanges ==
    /\ changes < MaxChanges /\ changes' = changes + 1
    /\ peer' \in Modes \ {peer}
    /\ UNCHANGED <<room, lookup, seen, job, shown, faults>>

(* OnStatusUpdate: a state already acted on for this handle is dropped; a   *)
(* new one is remembered before the goroutine that acts on it starts.       *)
OnStatusUpdate(j, h) ==
    /\ job[j].stage = "none" /\ seen[h] # peer
    /\ seen' = [seen EXCEPT ![h] = peer]
    /\ job' = [job EXCEPT ![j] = [stage |-> "resolve", handle |-> h, mode |-> peer]]
    /\ UNCHANGED <<peer, room, lookup, shown, changes, faults>>

(* What finds the room without asking Apple: the direct handle, a mapping,  *)
(* or another handle on the same channel of which either is true.           *)
(* The handle is then mapped to the room.                                   *)
Found(h) == room /\ (h = Direct \/ h \in linked)

ViaCluster(h) == IF h \in channel THEN {s \in channel : Found(s)} ELSE {}

Proceed(j) == job' = [job EXCEPT ![j].stage = "store"]

ResolveLocally(j) ==
    /\ job[j].stage = "resolve"
    /\ LET h == job[j].handle IN
       /\ Found(h) \/ (ViaCluster(h) # {} /\ h \in cooling)
       /\ linked' = linked \cup ({h} \ {Direct})
    /\ Proceed(j)
    /\ UNCHANGED <<peer, room, channel, cooling, seen, shown, changes, faults>>

(* IDS correlates the alias with the room's handle.                         *)
ResolveViaIDS(j) ==
    /\ job[j].stage = "resolve"
    /\ room /\ ~Found(job[j].handle) /\ job[j].handle \notin cooling
    /\ linked' = linked \cup {job[j].handle}
    /\ Proceed(j)
    /\ UNCHANGED <<peer, room, channel, cooling, seen, shown, changes, faults>>

(* IDS has no answer: the alias cools down; a sibling may still place it.   *)
IDSFails(j) ==
    /\ job[j].stage = "resolve"
    /\ IF room THEN Fault ELSE UNCHANGED faults
    /\ job[j].handle # Direct
    /\ ~Found(job[j].handle) /\ job[j].handle \notin cooling
    /\ cooling' = cooling \cup {job[j].handle}
    /\ UNCHANGED <<peer, room, linked, channel, seen, job, shown, changes>>

(* No room: the report is dropped, and stays remembered as acted on.        *)
GiveUp(j) ==
    /\ job[j].stage = "resolve"
    /\ LET h == job[j].handle IN
       /\ ~Found(h) /\ ViaCluster(h) = {}
       /\ h = Direct \/ h \in cooling
    /\ Finish(j)
    /\ UNCHANGED <<peer, room, lookup, seen, shown, changes, faults>>

(* A panic in the lookup forgets that the report was acted on.              *)
Panics(j) ==
    /\ job[j].stage = "resolve" /\ Fault
    /\ seen' = [seen EXCEPT ![job[j].handle] = "unseen"]
    /\ Finish(j)
    /\ UNCHANGED <<peer, room, lookup, shown, changes>>

(* touchPresenceAt, then the duplicate check by room: only the first handle *)
(* to report a state changes it.                                            *)
StorePresence(j) ==
    /\ job[j].stage = "store"
    /\ fresh' = TRUE
    /\ IF mode = job[j].mode THEN Finish(j) ELSE job' = [job EXCEPT ![j].stage = "title"]
    /\ mode' = job[j].mode
    /\ UNCHANGED <<peer, room, lookup, seen, title, custom, queue, changes, faults>>

(* The title is computed from the state stored by now; a room whose title   *)
(* the bridge does not own is touched for a focus only.                     *)
SetTitle(j) ==
    /\ job[j].stage = "title"
    /\ queue' = IF job[j].mode = "focus" \/ custom THEN Append(queue, FocusName) ELSE queue
    /\ Finish(j)
    /\ UNCHANGED <<peer, room, lookup, seen, mode, fresh, title, custom, changes, faults>>

-----------------------------------------------------------------------------
(* Learning aliases.                                                        *)

(* recordReshareObservation: an alias is seen on the channel, as the direct *)
(* handle was before; when one of the channel's handles finds the room, all *)
(* of them are mapped to it.                                                *)
Reshare(h) ==
    /\ h \notin channel
    /\ channel' = channel \cup {h}
    /\ linked' = IF \E s \in channel' : Found(s) THEN linked \cup (channel' \ {Direct}) ELSE linked
    /\ UNCHANGED <<peer, room, cooling, seen, job, shown, changes, faults>>

(* batchLinkStatusKitAliases, for an alias only IDS can place.  The mapping *)
(* is written while the room is looked up; what was stored before is read   *)
(* after that, and only a mapping that differs from it lets the next report *)
(* through.  When the pass is cancelled the first write is dropped.         *)
SeenAfterBatchLink(h, cancelled) ==
    IF cancelled THEN [seen EXCEPT ![h] = "unseen"] ELSE seen

BatchLink(h) ==
    /\ room /\ ~Found(h) /\ ViaCluster(h) = {}
    /\ \E cancelled \in BOOLEAN : seen' = SeenAfterBatchLink(h, cancelled)
    /\ linked' = linked \cup {h} /\ cooling' = cooling \ {h}
    /\ UNCHANGED <<peer, room, channel, job, shown, changes, faults>>

(* statusKitIDSAttemptCooldown passes.                                      *)
CooledDown(h) ==
    /\ h \in cooling /\ cooling' = cooling \ {h}
    /\ UNCHANGED <<peer, room, linked, channel, seen, job, shown, changes, faults>>

(* The contact writes for the first time.                                   *)
CreateRoom ==
    /\ ~room /\ room' = TRUE
    /\ UNCHANGED <<peer, lookup, seen, job, shown, changes, faults>>

(* Goroutines and queued title changes are lost; what is stored remains.    *)
Restart ==
    /\ Fault
    /\ job' = [j \in Jobs |-> NoJob] /\ queue' = <<>>
    /\ UNCHANGED <<peer, room, lookup, seen, mode, fresh, title, custom, changes>>

Progress(j) == \/ ResolveLocally(j) \/ ResolveViaIDS(j) \/ IDSFails(j) \/ GiveUp(j)
               \/ StorePresence(j) \/ SetTitle(j)

Next ==
    \/ PeerChanges \/ CreateRoom \/ Restart
    \/ RefreshTitle \/ ApplyTitle \/ Expire
    \/ \E j \in Jobs :
          \/ Progress(j) \/ Panics(j)
          \/ \E h \in Handles : OnStatusUpdate(j, h)
    \/ \E h \in Aliases : Reshare(h) \/ BatchLink(h) \/ CooledDown(h)

(* Goroutines and the room's event loop run; the contact refresh ticks and  *)
(* time passes.  Nothing makes the contact, Apple or the user act.          *)
Fairness ==
    /\ \A j \in Jobs : WF_vars(Progress(j))
    /\ WF_vars(ApplyTitle) /\ WF_vars(RefreshTitle) /\ WF_vars(Expire)

Spec == Init /\ [][Next]_vars
FairSpec == Spec /\ Fairness

-----------------------------------------------------------------------------
(* A moon goes away once the contact stays available, even when the bridge  *)
(* is never told, is told in the wrong order, or restarts at any time: the  *)
(* stored focus expires and the refresh recomputes the title.               *)
MoonHeals == <>[](peer = "available") => <>[](title = "plain")

(* A handle that the batch pass links to a room counts as unheard, so that  *)
(* its next report is shown (statuskit_alias_resolver.go, "must drop the    *)
(* cached state so the next update for this handle is treated as a fresh    *)
(* first-sighting").                                                        *)
LinkedIsHeard ==
    [][\A h \in Aliases :
        linked' = linked \cup {h} /\ h \notin linked /\ job' = job /\ channel' = channel
            => seen'[h] = "unseen"]_vars
=============================================================================
