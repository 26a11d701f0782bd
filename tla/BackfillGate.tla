---------------------------- MODULE BackfillGate ----------------------------
(***************************************************************************)
(* How the history CloudKit delivered and the messages APNs delivers meet  *)
(* (src/pkg/connector/client.go, sync_controller.go).  The controller      *)
(* queues a ChatResync per portal and opens the gate; each portal's event  *)
(* loop makes the room and fetches the history; a counter of outstanding   *)
(* forward backfills tells when to flush the buffer of live messages; a    *)
(* watchdog flushes it when the counter does not move.                     *)
(*                                                                         *)
(* Four goroutines may flush: the controller when it opens the gate        *)
(* ("open"), the portal whose backfill was the last ("count"), the         *)
(* watchdog ("force") and the quiet timer or the full buffer ("timer").    *)
(* Until the last of its delayed passes the controller syncs again, and    *)
(* asks for the portals that got something newer; nobody counted what they *)
(* fetch.                                                                  *)
(* Each goes through its messages one at a time, and handleMessage is two  *)
(* steps: it reads the gate and the rooms, and acts on what it read.       *)
(* Portal event loops are external: one event at a time per portal.        *)
(* Deletions are in ChatLifecycle.                                         *)
(***************************************************************************)
EXTENDS LiveMessages, Sequences, SequencesExt

CONSTANTS
  Home,      \* the portal of a message
  History,   \* messages the first sync has written to the store
  Late,      \* messages CloudKit has only for a later pass
  Passes,    \* delayed re-syncs
  Live,      \* messages APNs may deliver
  Earlier,   \* what earlier sessions may have shown: sets of messages
  NoMsg,     \* no message in hand
  Limit,     \* forward count: max_initial_messages
  Page,      \* batch size of the backward backfill
  Failures   \* bound: rooms that cannot be made

ASSUME GateAssumption ==
  /\ IsFiniteSet(Portals) /\ IsFiniteSet(Guids)
  /\ \A m, n \in Guids : Stamp[m] = Stamp[n] => m = n
  /\ Home \in [Guids -> Portals] /\ History \subseteq Guids /\ Live \subseteq Guids
  /\ Earlier \subseteq SUBSET (Guids \ Late) /\ NoMsg \notin Guids
  /\ Late \subseteq Guids \ History /\ Passes \in Nat
  /\ Limit \in Nat \ {0} /\ Page \in Nat \ {0} /\ Failures \in Nat

VARIABLES
  chat, msg,   \* the store
  pc,          \* the controller: "list", "queue", "gate", "load", "done"
  ordered,     \* portals it has still to queue
  passes,      \* delayed passes left
  asked,       \* queuedPortals: the newest message a portal was queued for
  gate,        \* cloudSyncDone
  pending,     \* pendingInitialBackfills
  net,         \* the watchdog runs
  events,      \* queue of the event loop of each portal
  room,        \* portals that have a room
  old,         \* those that had one when the process started
  shown,       \* what the room shows, oldest first
  batch,       \* [p]: the forward backfill under way and its messages
  callback,    \* portals whose CompleteCallback is to run
  back,        \* backward backfill of each portal: "off", "todo", "done"
  buffer, timer,   \* msgBuffer
  held,        \* pendingPortalMsgs
  flusher,     \* the four goroutines
  failures, failed   \* how many rooms may still fail, and the portals it happened to

store == <<chat, msg>>
controller == <<pc, ordered, passes, asked, gate, net>>
portal == <<events, room, old, shown, batch, callback, back>>
vars == <<store, controller, pending, portal, buffer, timer, held, flusher, failures, failed>>

Flushers == {"open", "count", "force", "timer"}
Idle == [at |-> "idle", rest |-> {}, cur |-> NoMsg, verdict |-> "drop", create |-> FALSE]
NoBatch == [at |-> "none", rows |-> {}]

InPortal(S, p) == {m \in S : Home[m] = p}
OldestFirst(S) ==
  [i \in 1 .. Cardinality(S) |-> CHOOSE m \in S : Cardinality({k \in S : Stamp[k] < Stamp[m]}) = i - 1]
Newest(S, n) == {m \in S : Cardinality({k \in S : Stamp[k] > Stamp[m]}) < n}
Shown(p) == ToSet(shown[p])
Unlimited == Limit >= Cardinality(Guids)
Anchor(p) == CHOOSE t \in {Stamp[m] : m \in Shown(p)} : \A m \in Shown(p) : Stamp[m] <= t

Init ==
  /\ \E bridged \in Earlier :
       /\ msg = [m \in Guids |->
                   IF m \in History \cup bridged
                   THEN [state |-> "live", portal |-> Home[m], cloud |-> TRUE, body |-> "text"]
                   ELSE NoMsgs[m]]
       /\ chat = [c \in ChatIds |->
                    IF \E m \in History : Home[m] = ChatPortal[c]
                    THEN [state |-> "live", portal |-> ChatPortal[c], ts |-> 0,
                          fwd |-> \E m \in bridged : Home[m] = ChatPortal[c]]
                    ELSE NoChats[c]]
       /\ room = {Home[m] : m \in bridged} /\ old = room
       /\ shown = [p \in Portals |-> OldestFirst(InPortal(bridged, p))]
  /\ pc = "list" /\ ordered = {} /\ passes = Passes /\ asked = [p \in Portals |-> -1]
  /\ gate = FALSE /\ net = FALSE /\ pending = 0
  /\ events = [p \in Portals |-> <<>>]
  /\ batch = [p \in Portals |-> NoBatch] /\ callback = {}
  /\ back = [p \in Portals |-> "off"]
  /\ buffer = {} /\ timer = FALSE /\ held = {}
  /\ flusher = [f \in Flushers |-> Idle] /\ failures = Failures /\ failed = {}

-----------------------------------------------------------------------------
(* The controller: createPortalsFromCloudSync, then setCloudSyncDone. *)

\* Portals whose backfill is done and to which nothing was written since.
Unchanged(p) ==
  /\ p \in room /\ back[p] # "todo" /\ MsgsOf(msg, p, {"live"}) \subseteq Shown(p)
  /\ \A m \in InPortal(Late, p) : ~msg[m].cloud

NewestOf(p) ==
  LET times == {0} \cup {Stamp[m] : m \in Backfillable(msg, p)}
  IN  CHOOSE t \in times : \A u \in times : u <= t

\* Portals not yet queued with what is now their newest message.
Candidates == {p \in Listed(chat, msg) : asked[p] < NewestOf(p)}

\* The counter is set before anything is queued, to the portals that have
\* messages and no room: only they are sure to fetch.  Later passes, with the
\* gate open, leave it alone.
List ==
  /\ pc = "list" /\ pc' = "queue"
  /\ ordered' = {p \in Candidates : ~Unchanged(p)}
  /\ asked' = [p \in Portals |-> IF p \in ordered' THEN NewestOf(p) ELSE asked[p]]
  /\ pending' = IF gate THEN pending
                ELSE Cardinality({p \in Candidates : p \notin room /\ Backfillable(msg, p) # {}})
  /\ UNCHANGED <<store, passes, gate, net, portal, buffer, timer, held, flusher,
                 failures, failed>>

Resync == [type |-> "resync", msg |-> NoMsg, create |-> TRUE]

\* One portal; portals that have a room get a new backward task, once all are queued.
Queue ==
  /\ pc = "queue" /\ ordered # {}
  /\ \E p \in ordered :
       /\ ordered' = ordered \ {p}
       /\ events' = [events EXCEPT ![p] = Append(@, Resync)]
       /\ back' = [back EXCEPT ![p] = IF p \in room THEN "todo" ELSE @]
  /\ UNCHANGED <<store, pc, passes, asked, gate, net, pending, room, old, shown, batch,
                 callback, buffer, timer, held, flusher, failures, failed>>

OpenGate ==
  /\ pc = "queue" /\ ordered = {} /\ ~gate /\ pc' = "load" /\ gate' = TRUE
  /\ UNCHANGED <<store, ordered, passes, asked, net, pending, portal, buffer, timer,
                 held, flusher, failures, failed>>

\* A delayed pass: what CloudKit has by now is written to the store and the
\* portals are listed again, unless the sync failed on the way.
SyncAgain ==
  /\ pc = "done" /\ passes > 0 /\ passes' = passes - 1 /\ pc' \in {"list", "done"}
  /\ \E S \in SUBSET Late :
       msg' = [m \in Guids |-> IF m \in S THEN UpsertMsg(msg, m, Home[m], FALSE)[m] ELSE msg[m]]
  /\ UNCHANGED <<chat, ordered, asked, gate, net, pending, portal, buffer, timer, held,
                 flusher, failures, failed>>

PassEnds ==
  /\ pc = "queue" /\ ordered = {} /\ gate /\ pc' = "done"
  /\ UNCHANGED <<store, ordered, passes, asked, gate, net, pending, portal, buffer,
                 timer, held, flusher, failures, failed>>

\* A goroutine that flushes takes the whole buffer and stops the quiet timer.
Start(f) ==
  /\ flusher' = [flusher EXCEPT ![f] = [Idle EXCEPT !.at = "flush", !.rest = buffer]]
  /\ buffer' = {} /\ timer' = FALSE

\* The counter is read after the gate is open: at once, or later.
Load ==
  /\ pc = "load" /\ pc' = "done"
  /\ IF pending <= 0 THEN Start("open") /\ UNCHANGED net
     ELSE net' = TRUE /\ UNCHANGED <<flusher, buffer, timer>>
  /\ UNCHANGED <<store, ordered, passes, asked, gate, pending, portal, held, failures,
                 failed>>

\* (mutant) The watchdog gives up without flushing.
WatchdogIdle ==
  /\ net /\ net' = FALSE
  /\ UNCHANGED <<store, pc, ordered, passes, asked, gate, pending, portal, buffer,
                 timer, flusher, held, failures, failed>>

\* The watchdog ends when the counter has reached 0; it flushes when it did
\* not move for five minutes, which any delay of the portals may last.
Watchdog ==
  /\ net /\ net' = FALSE
  /\ IF pending <= 0 THEN UNCHANGED <<flusher, buffer, timer>> ELSE Start("force")
  /\ UNCHANGED <<store, pc, ordered, passes, asked, gate, pending, portal, held,
                 failures, failed>>

-----------------------------------------------------------------------------
(* The event loop of a portal, and the history. *)

\* GetChatInfo allows a backfill when the store has messages; FetchMessages
\* reads them: the newest, or those after the last one shown.
FetchForward(p) ==
  [at |-> "fetched",
   rows |-> IF shown[p] = <<>> THEN Newest(Backfillable(msg, p), Limit)
            ELSE {m \in Newer(msg, p, Anchor(p)) :
                    Cardinality({k \in Newer(msg, p, Anchor(p)) : Stamp[k] < Stamp[m]}) < Limit}]

\* A room is made for a ChatResync or for a live message that may make one,
\* and its history is fetched before the next event.
MakeRoom(p) ==
  /\ events[p] # <<>> /\ p \notin room /\ batch[p] = NoBatch /\ Head(events[p]).create
  /\ room' = room \cup {p}
  /\ IF Backfillable(msg, p) = {} THEN UNCHANGED <<batch, back>>
     ELSE batch' = [batch EXCEPT ![p] = FetchForward(p)] /\ back' = [back EXCEPT ![p] = "todo"]
  /\ events' = [events EXCEPT ![p] = IF Head(@).type = "resync" THEN Tail(@) ELSE @]
  /\ UNCHANGED <<store, controller, pending, old, shown, callback, buffer, timer, held,
                 flusher, failures, failed>>

\* The room cannot be made: the event is lost, and nothing is fetched.
MakeRoomFails(p) ==
  /\ events[p] # <<>> /\ p \notin room /\ batch[p] = NoBatch /\ Head(events[p]).create
  /\ failures > 0 /\ failures' = failures - 1 /\ failed' = failed \cup {p}
  /\ events' = [events EXCEPT ![p] = Tail(@)]
  /\ UNCHANGED <<store, controller, pending, room, old, shown, batch, callback, back,
                 buffer, timer, held, flusher>>

\* A ChatResync of a room that exists fetches what is newer than it shows.
CatchUp(p) ==
  /\ events[p] # <<>> /\ p \in room /\ batch[p] = NoBatch /\ Head(events[p]).type = "resync"
  /\ events' = [events EXCEPT ![p] = Tail(@)]
  /\ batch' = [batch EXCEPT ![p] =
                 IF shown[p] = <<>> \/ Newer(msg, p, Anchor(p)) # {} THEN FetchForward(p) ELSE @]
  /\ UNCHANGED <<store, controller, pending, room, old, shown, callback, back, buffer,
                 timer, held, flusher, failures, failed>>

\* A live message is added to the room, unless it is there or the room is not.
ShowLive(p) ==
  /\ events[p] # <<>> /\ batch[p] = NoBatch /\ Head(events[p]).type = "msg"
  /\ p \in room \/ ~Head(events[p]).create
  /\ LET m == Head(events[p]).msg
     IN  shown' = [shown EXCEPT ![p] = IF p \in room /\ m \notin Shown(p) THEN Append(@, m) ELSE @]
  /\ events' = [events EXCEPT ![p] = Tail(@)]
  /\ UNCHANGED <<store, controller, pending, room, old, batch, callback, back, buffer,
                 timer, held, flusher, failures, failed>>

\* onForwardBackfillDone: the one whose decrement reaches 0 flushes.
BackfillDone ==
  /\ pending' = pending - 1
  /\ IF pending' = 0 THEN Start("count") ELSE UNCHANGED <<flusher, buffer, timer>>

\* (mutant) The fetch is counted when it returns its messages, and again by the callback.
DeliverCounted(p) ==
  /\ batch[p].at = "fetched" /\ batch' = [batch EXCEPT ![p] = NoBatch]
  /\ shown' = [shown EXCEPT ![p] = @ \o OldestFirst(batch[p].rows \ Shown(p))]
  /\ callback' = callback \cup {p} /\ BackfillDone
  /\ UNCHANGED <<chat, msg, controller, events, room, old, back, held, failures,
                 failed>>

\* An empty fetch is done at once; otherwise the batch is sent to the room and
\* the rest is left to CompleteCallback.
Deliver(p) ==
  /\ batch[p].at = "fetched" /\ batch' = [batch EXCEPT ![p] = NoBatch]
  /\ IF batch[p].rows = {}
     THEN /\ chat' = MarkForwardDone(chat, p, CHOOSE c \in ChatIds : ChatPortal[c] = p)
          /\ BackfillDone /\ UNCHANGED <<shown, callback>>
     ELSE /\ shown' = [shown EXCEPT ![p] = @ \o OldestFirst(batch[p].rows \ Shown(p))]
          /\ callback' = callback \cup {p}
          /\ UNCHANGED <<chat, pending, flusher, buffer, timer>>
  /\ UNCHANGED <<msg, controller, events, room, old, back, held, failures, failed>>

Callback(p) ==
  /\ p \in callback /\ callback' = callback \ {p}
  /\ chat' = MarkForwardDone(chat, p, CHOOSE c \in ChatIds : ChatPortal[c] = p)
  /\ BackfillDone
  /\ UNCHANGED <<msg, controller, events, room, old, shown, batch, back, held, failures,
                 failed>>

\* (mutant) The backward backfill does not wait for the forward one.
BackwardPageAtOnce(p) ==
  LET before == Older(msg, p, Shown(p))
      rows   == Newest(before, Page)
  IN  /\ shown' = [shown EXCEPT ![p] = OldestFirst(rows) \o @]
      /\ back' = [back EXCEPT ![p] = IF rows = before THEN "done" ELSE @]

\* Backward backfill: a page before the oldest message shown.  Without one it
\* waits for the forward backfill, stops when there is nothing to wait for, or
\* shows the latest messages of a room that stayed empty.
BackwardPage(p) ==
  LET empty  == shown[p] = <<>>
      before == IF empty THEN Backfillable(msg, p)
                ELSE Older(msg, p, Shown(p))
      rows   == Newest(before, IF empty THEN Limit ELSE Page)
  IN  /\ ~(empty /\ ~ForwardDone(chat, p) /\ before # {})
      /\ shown' = [shown EXCEPT ![p] = OldestFirst(rows) \o @]
      /\ back' = [back EXCEPT ![p] = IF rows = before \/ empty THEN "done" ELSE @]

\* A capped history has no backward backfill.
Backward(p) ==
  /\ back[p] = "todo" /\ p \in room
  /\ IF Unlimited THEN BackwardPage(p) ELSE back' = [back EXCEPT ![p] = "done"] /\ UNCHANGED shown
  /\ UNCHANGED <<store, controller, pending, events, room, old, batch, callback, buffer,
                 timer, held, flusher, failures, failed>>

-----------------------------------------------------------------------------
(* Live messages. *)

\* OnMessage: into the buffer.  Once the gate is open the quiet timer runs, or
\* a full buffer is flushed at once.
Receive(m) ==
  /\ m \in Live /\ m \notin buffer \cup held
  /\ \A f \in Flushers : m \notin flusher[f].rest \cup {flusher[f].cur}
  /\ m \notin Shown(Home[m]) /\ \A i \in 1 .. Len(events[Home[m]]) : events[Home[m]][i].msg # m
  /\ ~Known(msg, m) \/ m \in History
  /\ buffer' = buffer \cup {m} /\ timer' = gate
  /\ UNCHANGED <<store, controller, pending, portal, held, flusher, failures, failed>>

TimerFires ==
  /\ timer /\ flusher["timer"].at = "idle" /\ Start("timer")
  /\ UNCHANGED <<store, controller, pending, portal, held, failures, failed>>

\* dispatchBuffered, oldest first: handleMessage looks for the message in the
\* rooms, and reads the gate and whether the portal has a room.
Pick(f) ==
  /\ flusher[f].at # "idle" /\ flusher[f].cur = NoMsg /\ flusher[f].rest # {}
  /\ LET m == CHOOSE k \in flusher[f].rest : \A n \in flusher[f].rest : Stamp[k] <= Stamp[n]
         v == Verdict(chat, msg, NoEntry, m, Home[m], gate, Home[m] \notin room)
     IN  flusher' = [flusher EXCEPT
           ![f].rest = @ \ {m}, ![f].cur = m, ![f].create = v.create,
           ![f].verdict = IF m \in Shown(Home[m]) THEN "drop" ELSE v.do]
  /\ UNCHANGED <<store, controller, pending, portal, buffer, timer, held, failures,
                 failed>>

\* The message is dropped; or held, its GUID not remembered; or remembered and
\* queued for its portal.
Act(f) ==
  /\ flusher[f].cur # NoMsg
  /\ LET m == flusher[f].cur
     IN  CASE flusher[f].verdict = "drop" -> UNCHANGED <<held, msg, events>>
           [] flusher[f].verdict = "hold" -> held' = held \cup {m} /\ UNCHANGED <<msg, events>>
           [] OTHER ->
                /\ msg' = PersistUUID(msg, m, Home[m])
                /\ events' = [events EXCEPT ![Home[m]] =
                     Append(@, [type |-> "msg", msg |-> m, create |-> flusher[f].create])]
                /\ UNCHANGED held
  /\ flusher' = [flusher EXCEPT ![f].cur = NoMsg]
  /\ UNCHANGED <<chat, controller, pending, room, old, shown, batch, callback, back,
                 buffer, timer, failures, failed>>

\* The buffer is done: all but the timer go on with the messages held.
Held(f) ==
  /\ flusher[f].at = "flush" /\ flusher[f].cur = NoMsg /\ flusher[f].rest = {}
  /\ IF f = "timer" THEN flusher' = [flusher EXCEPT ![f] = Idle] /\ UNCHANGED held
     ELSE /\ flusher' = [flusher EXCEPT ![f].at = "held", ![f].rest = held]
          /\ held' = {}
  /\ UNCHANGED <<store, controller, pending, portal, buffer, timer, failures, failed>>

Finish(f) ==
  /\ flusher[f].at = "held" /\ flusher[f].cur = NoMsg /\ flusher[f].rest = {}
  /\ flusher' = [flusher EXCEPT ![f] = Idle]
  /\ UNCHANGED <<store, controller, pending, portal, buffer, timer, held, failures,
                 failed>>

Loop(p) == MakeRoom(p) \/ CatchUp(p) \/ ShowLive(p) \/ Deliver(p) \/ Callback(p) \/ Backward(p)
Flush(f) == Pick(f) \/ Act(f) \/ Held(f) \/ Finish(f)

Next ==
  \/ List \/ Queue \/ OpenGate \/ Load \/ Watchdog \/ SyncAgain \/ PassEnds
  \/ \E p \in Portals : Loop(p) \/ MakeRoomFails(p)
  \/ \E m \in Guids : Receive(m)
  \/ TimerFires
  \/ \E f \in Flushers : Flush(f)

\* Goroutines run; Apple and failures are not fair.  Portals are not even
\* taken to be fair to each other: each of their steps uses something up.
Fairness ==
  /\ WF_vars(List \/ Queue \/ OpenGate \/ PassEnds \/ Load \/ Watchdog \/ TimerFires)
  /\ WF_vars(\E p \in Portals : Loop(p))
  /\ \A f \in Flushers : WF_vars(Flush(f))

Spec == Init /\ [][Next]_vars /\ Fairness

-----------------------------------------------------------------------------
(* Properties. *)

Working(f) == flusher[f].at # "idle"

\* Every variable keeps its shape, and the counter stays within the fetches
\* that can still be counted down (pendingInitialBackfills).
TypeOK ==
  /\ chat \in [ChatIds -> ChatRow] /\ msg \in [Guids -> MsgRow]
  /\ pc \in {"list", "queue", "load", "done"} /\ passes \in 0 .. Passes /\ ordered \subseteq Portals
  /\ {gate, net, timer} \subseteq BOOLEAN
  /\ old \subseteq room /\ room \subseteq Portals /\ callback \subseteq Portals
  /\ \A p \in Portals : Shown(p) \cup batch[p].rows \subseteq InPortal(Guids, p)
  /\ buffer \subseteq Live /\ held \subseteq Live /\ failed \subseteq Portals
  /\ \A f \in Flushers : Working(f) \/ flusher[f] = Idle
  /\ pending <= Cardinality({p \in Portals : p \in ordered \cup failed \cup callback
                               \/ events[p] # <<>> \/ batch[p] # NoBatch})

\* Nothing stays held: once the gate is open, the watchdog gone and nobody is
\* flushing, no message waits for a replay that will not come, although the
\* gate may open between reading it and holding the message
\* (handleMessage, flushPendingPortalMsgs).
NoneHeldBack ==
  pc = "done" /\ ~net /\ (\A f \in Flushers : ~Working(f)) => held = {}

\* On a bridge without rooms, the buffer is flushed for the counter only after
\* the history of every portal the bootstrap queued is in its room, as long as
\* no delayed pass has begun (setCloudSyncDone).
FlushAfterHistory ==
  [][old = {} /\ passes = Passes /\ Working("count")' /\ ~Working("count")
       => \A p \in Portals : InPortal(History, p) \subseteq Shown(p) \/ p \in failed]_vars

\* The same, delayed passes or not: "once all forward backfills are complete"
\* (setCloudSyncDone).
FlushAfterBackfills ==
  [][old = {} /\ Working("count")' /\ ~Working("count")
       => \A p \in Portals : InPortal(History, p) \subseteq Shown(p) \/ p \in failed]_vars

\* In every room the messages that APNs does not deliver are in the order they
\* were sent, although the forward and the backward backfill, the catch-up of
\* the delayed passes and live messages race for it (FetchMessages).
HistorySorted ==
  \A p \in Portals : \A i, j \in 1 .. Len(shown[p]) :
    i < j /\ {shown[p][i], shown[p][j]} \cap Live = {}
      => Stamp[shown[p][i]] < Stamp[shown[p][j]]

\* A message in the buffer reaches its room, unless it is held or no room can
\* be made: not even a portal that never finishes its backfill keeps live
\* messages back (the watchdog of setCloudSyncDone).
LiveShown ==
  \A m \in Live : m \in buffer ~> m \in Shown(Home[m]) \cup held \/ Home[m] \in failed
=============================================================================
