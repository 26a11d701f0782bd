--------------------------- MODULE BridgeReceipts ---------------------------
(***************************************************************************)
(* Receipts Apple pushes to the Go bridge for messages the user sent       *)
(* (client.go): "read", which becomes a read marker of the contact's       *)
(* ghost, and "delivered", which becomes a tick.  A receipt names the      *)
(* message and its sender, seldom the group, so the room is a guess until  *)
(* bridgev2 has saved the row of the message -- which it does after the    *)
(* send has returned, while receipts may already arrive.                   *)
(*                                                                         *)
(* The read handler runs on the callback thread, every delivery in a       *)
(* goroutine of its own.  The room of a portal is its Matrix room; a group *)
(* may get another portal key while a handler is on its way (ReIDPortal).  *)
(* CloudKit's rows and the gate are those of CloudSync and BackfillGate,   *)
(* seen from here.                                                         *)
(***************************************************************************)
EXTENDS Integers, FiniteSets

CONSTANTS Sent,         \* messages the user sends through the bridge
          Old,          \* messages CloudKit brought
          Direct, Group, Regroup, \* portal keys: a chat, a group, the group's later key
          Tries,        \* look-ups of the row, one more after each pause
          MaxReceipts,  \* receipts Apple pushes
          MaxFaults     \* failed calls and restarts

ASSUME ReceiptsAssumption ==
  /\ Sent \cap Old = {} /\ "none" \notin {Direct, Group, Regroup}
  /\ Direct # Group /\ Regroup \notin {Direct, Group}

Messages == Sent \cup Old
Keys == {Direct, Group, Regroup}

VARIABLES portals,   \* portal key -> "none" or its Matrix room
          rows,      \* bridgev2's rows of a message, all in one room: NoRow, or the key of
                     \* the room and whether the first part and the second have a real event
          slow,      \* messages whose row takes longer than the pauses of the look-up
          sends,     \* messages on their way: Apple has them, bridgev2 has not returned
          cloud,     \* cloud_message: "none", "stub", "record", "read"
          gate,      \* "sync", "grace" (a minute after the flush), "open"
          read,      \* the read receipt the callback thread works on
          ticking,   \* goroutines of delivery receipts
          marks,     \* read markers: the message, the room, the room of its row
          ticks,     \* delivered ticks, with whether the row was there at first
          queued,    \* receipts left to bridgev2, with their portal key
          dropped,   \* receipts that came to nothing, and why
          receipts, faults \* bounds
receiptsVars == <<portals, rows, slow, sends, cloud, gate, read, ticking, marks, ticks, queued,
          dropped, receipts, faults>>

NoRow == [key |-> "none", first |-> FALSE, second |-> FALSE]
Idle == [at |-> "idle"]
Home(u) == portals[rows[u].key]
Saved(u) == rows[u] # NoRow

ReceiptsTypeOK ==
  /\ DOMAIN portals = Keys /\ slow \subseteq Sent /\ sends \subseteq Sent
  /\ portals[Direct] = Direct /\ {portals[Group], portals[Regroup]} = {"none", Group}
  /\ rows \in [Messages -> {NoRow} \cup [key : Keys, first : BOOLEAN, second : BOOLEAN]]
  /\ cloud \in [Messages -> {"none", "stub", "record", "read"}]
  /\ gate \in {"sync", "grace", "open"}
  /\ \A u \in Messages : Saved(u) => Home(u) # "none"

ReceiptsInit ==
  /\ portals = [k \in Keys |-> IF k = Regroup THEN "none" ELSE k]
  /\ \E k \in {Direct, Group} :
       rows = [u \in Messages |-> IF u \in Old THEN [key |-> k, first |-> TRUE, second |-> TRUE]
                                  ELSE NoRow]
  /\ cloud \in {c \in [Messages -> {"none", "record", "read"}] : \A u \in Messages : c[u] = "none" <=> u \in Sent}
  /\ slow \in SUBSET Sent /\ sends = {} /\ gate = "sync" /\ read = Idle /\ ticking = {}
  /\ marks = {} /\ ticks = {} /\ queued = {} /\ dropped = {} /\ receipts = 0 /\ faults = 0

Outcomes == <<marks, ticks, queued, dropped>>
Handlers == <<read, ticking, receipts>>
Fault == faults < MaxFaults /\ faults' = faults + 1

----------------------------------------------------------------------------
(* The surroundings *)

\* Apple took the message; the UUID is stored before HandleMatrixMessage returns.
Send(u) ==
  /\ u \in Sent \ sends /\ ~Saved(u)
  /\ sends' = sends \cup {u} /\ cloud' = [cloud EXCEPT ![u] = "stub"]
  /\ UNCHANGED <<portals, rows, slow, gate, Handlers, Outcomes, faults>>

\* bridgev2 saves the row; a part that was removed again has no event of its own.
Save(u, k, first) ==
  /\ u \in sends /\ ~Saved(u) /\ portals[k] # "none"
  /\ rows' = [rows EXCEPT ![u] = [key |-> k, first |-> first, second |-> TRUE]]
  /\ UNCHANGED <<portals, slow, sends, cloud, gate, Handlers, Outcomes, faults>>

\* ReIDPortal: the group's room and its rows move to another key.
ReID ==
  /\ portals[Regroup] = "none"
  /\ portals' = [portals EXCEPT ![Regroup] = portals[Group], ![Group] = "none"]
  /\ rows' = [u \in Messages |-> IF rows[u].key = Group THEN [rows[u] EXCEPT !.key = Regroup] ELSE rows[u]]
  /\ UNCHANGED <<slow, sends, cloud, gate, Handlers, Outcomes, faults>>

\* The sync meets the message another device uploaded, read or not.
SyncRow(u, c) ==
  /\ gate = "sync" /\ cloud[u] = "stub" /\ c \in {"record", "read"}
  /\ cloud' = [cloud EXCEPT ![u] = c]
  /\ UNCHANGED <<portals, rows, slow, sends, gate, Handlers, Outcomes, faults>>

\* The buffer is flushed, and the minute of grace passes.
Opens ==
  /\ gate # "open" /\ gate' = (IF gate = "sync" THEN "grace" ELSE "open")
  /\ UNCHANGED <<portals, rows, slow, sends, cloud, Handlers, Outcomes, faults>>

\* The bridge restarts: handlers are gone, and a message whose row was not saved.
Restart ==
  /\ Fault /\ gate' = "sync" /\ read' = Idle /\ ticking' = {}
  /\ sends' = {u \in sends : Saved(u)}
  /\ UNCHANGED <<portals, rows, slow, cloud, Outcomes, receipts>>

----------------------------------------------------------------------------
(* Whose room *)

\* makeReceiptPortalKey, the gid: portal, the sender_guid cache, findGroupPortalForMember:
\* without the group in the receipt any room of the sender may come out, or none.
Guesses == Keys \cup {"unknown"}

\* (mutant) the guess stands
TargetGuessed(u, guess) == guess

\* resolvePortalByTargetMessage: the row knows better.
Target(u, guess) == IF Saved(u) THEN rows[u].key ELSE guess

RoomOf(k) == IF k \in Keys THEN portals[k] ELSE "none"

----------------------------------------------------------------------------
(* handleReadReceipt *)

\* The checks before the room is known
Skipped(u, isStored) == isStored \/ gate = "sync" \/ (gate = "grace" /\ cloud[u] = "read")

ReadArrives(u, guess, isStored) ==
  /\ read = Idle /\ receipts < MaxReceipts /\ receipts' = receipts + 1
  /\ u \in Old \cup sends
  /\ IF Skipped(u, isStored)
     THEN read' = Idle /\ dropped' = dropped \cup {[u |-> u, why |-> IF isStored THEN "stored" ELSE "sync"]}
     ELSE read' = [at |-> "portal", u |-> u, key |-> Target(u, guess)] /\ UNCHANGED dropped
  /\ UNCHANGED <<portals, rows, slow, sends, cloud, gate, ticking, marks, ticks, queued, faults>>

\* isCloudBackfilledMessage: a row with a record name, whoever wrote it first
Backfilled(u) == cloud[u] \in {"record", "read"}

\* queueGhostReceiptFallback
Fallback(key) == queued' = queued \cup {<<read.u, key>>}

\* A message of CloudKit gets no marker.  sendGhostReadReceipt: the ghost and the room; an
\* unknown room is left to bridgev2.
ReadPortal ==
  /\ read.at = "portal"
  /\ \/ /\ Backfilled(read.u) /\ read' = Idle
        /\ dropped' = dropped \cup {[u |-> read.u, why |-> "cloud"]} /\ UNCHANGED <<queued, faults>>
     \/ /\ ~Backfilled(read.u) /\ RoomOf(read.key) # "none"
        /\ read' = [at |-> "mark", u |-> read.u, key |-> read.key, room |-> RoomOf(read.key)]
        /\ UNCHANGED <<queued, dropped, faults>>
     \/ /\ ~Backfilled(read.u) /\ Fallback(read.key) /\ read' = Idle
        /\ IF RoomOf(read.key) = "none" THEN UNCHANGED faults ELSE Fault
        /\ UNCHANGED dropped
  /\ UNCHANGED <<portals, rows, slow, sends, cloud, gate, ticking, marks, ticks, receipts>>

\* The part to mark is the first of this room with an event, else the first of all.
Marked(w, key) == IF w.key = key THEN w.first \/ w.second ELSE w.first
\* The row's room is the room that was found.
SameRoom(w, key) == w.key = key

\* The row, and the marker of the ghost's own client; what fails is left to bridgev2.
ReadMark ==
  /\ read.at = "mark" /\ read' = Idle
  /\ LET u == read.u
         w == rows[u]
         can == Saved(u) /\ Marked(w, read.key) /\ SameRoom(w, read.key)
     IN \/ can /\ marks' = marks \cup {[u |-> u, room |-> read.room, home |-> Home(u)]}
           /\ UNCHANGED <<queued, faults>>
        \/ /\ Fallback(IF Saved(u) /\ Marked(w, read.key) /\ ~SameRoom(w, read.key) THEN w.key
                       ELSE read.key)
           /\ IF can THEN Fault ELSE UNCHANGED faults
           /\ UNCHANGED marks
  /\ UNCHANGED <<portals, rows, slow, sends, cloud, gate, ticking, ticks, dropped, receipts>>

----------------------------------------------------------------------------
(* handleDeliveryReceipt *)

Goroutine(u, room) == [n |-> receipts, u |-> u, room |-> room, knew |-> Saved(u), i |-> 1]

\* The room, once: a goroutine that finds none gives up.
TickArrives(u, guess) ==
  /\ receipts < MaxReceipts /\ receipts' = receipts + 1 /\ u \in sends
  /\ LET room == RoomOf(Target(u, guess))
     IN IF room = "none"
        THEN dropped' = dropped \cup {[u |-> u, why |-> "noroom"]} /\ UNCHANGED ticking
        ELSE ticking' = ticking \cup {Goroutine(u, room)} /\ UNCHANGED dropped
  /\ UNCHANGED <<portals, rows, slow, sends, cloud, gate, read, marks, ticks, queued, faults>>

\* (mutant) one look-up
OneTry(i) == TRUE

\* The look-ups are over.
LastTry(i) == i = Tries

\* One look-up of the row, in either case of the UUID.  The last comes after 2.6 s, when
\* the row of a message that is not slow is there.
Tick(t) ==
  /\ t \in ticking /\ (t.i = Tries => Saved(t.u) \/ t.u \in slow)
  /\ \/ /\ Saved(t.u) /\ ticking' = ticking \ {t}
        /\ ticks' = ticks \cup {[u |-> t.u, room |-> t.room, home |-> Home(t.u), knew |-> t.knew]}
        /\ UNCHANGED <<dropped, faults>>
     \/ /\ Saved(t.u) /\ Fault /\ ticking' = ticking \ {t}
        /\ dropped' = dropped \cup {[u |-> t.u, why |-> "noghost"]} /\ UNCHANGED ticks
     \/ /\ ~Saved(t.u) /\ LastTry(t.i) /\ ticking' = ticking \ {t}
        /\ dropped' = dropped \cup {[u |-> t.u, why |-> "norow"]} /\ UNCHANGED <<ticks, faults>>
     \/ /\ ~Saved(t.u) /\ ~LastTry(t.i)
        /\ ticking' = (ticking \ {t}) \cup {[t EXCEPT !.i = @ + 1]}
        /\ UNCHANGED <<ticks, dropped, faults>>
  /\ UNCHANGED <<portals, rows, slow, sends, cloud, gate, read, marks, queued, receipts>>

----------------------------------------------------------------------------
ReceiptsNext ==
  \/ \E u \in Sent : Send(u) \/ \E k \in Keys, first \in BOOLEAN : Save(u, k, first)
  \/ ReID \/ Opens \/ Restart \/ ReadPortal \/ ReadMark
  \/ \E u \in Messages, c \in {"record", "read"} : SyncRow(u, c)
  \/ \E u \in Messages, guess \in Guesses, isStored \in BOOLEAN : ReadArrives(u, guess, isStored)
  \/ \E u \in Messages, guess \in Guesses : TickArrives(u, guess)
  \/ \E t \in ticking : Tick(t)

ReceiptsSpec == ReceiptsInit /\ [][ReceiptsNext]_receiptsVars

----------------------------------------------------------------------------
(* Properties *)

\* A read marker is set in the room the message is in, whatever the receipt suggested and
\* however the portal was renamed meanwhile; so is a tick whose message was saved when the
\* receipt came ("target event in different room", sendGhostReadReceipt).
InItsRoom ==
  /\ \A m \in marks : m.room = m.home
  /\ \A t \in ticks : t.knew => t.room = t.home

\* A tick for a message whose row bridgev2 saves within 2.6 seconds is only lost for want of
\* a room or of a ghost, never for a row that came late (the back-off of
\* handleDeliveryReceipt).
LateRowsTick == \A d \in dropped : d.why = "norow" => d.u \in slow

\* Nothing the history brought is marked as read by a receipt.
HistoryUnmarked == \A m \in marks : m.u \notin Old

\* "real-time messages whose ghost receipts should go through"
\* (cloud_backfill_store.go, above isCloudBackfilledMessage)
RealtimeGoesThrough == \A d \in dropped : d.why = "cloud" => d.u \in Old

\* Every marker and tick is where it belongs, none is on what the history brought, and no
\* tick is lost for a row that came late.
MarkersInPlace == InItsRoom /\ HistoryUnmarked /\ LateRowsTick
=============================================================================
