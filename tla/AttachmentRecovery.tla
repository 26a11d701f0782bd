------------------------- MODULE AttachmentRecovery -------------------------
(***************************************************************************)
(* Attachments of a live message whose download failed when the message    *)
(* was pushed.  The message's attachment event is bridged as a notice, a   *)
(* row of pending_attachment_retry remembers the download descriptor, and  *)
(* a background goroutine retries the download and queues an edit that     *)
(* turns the notice into the attachment.  Four actors interleave: the push *)
(* stream (which repeats messages after a reconnect), the portal's event   *)
(* loop, the retrier, and the user who may redact the notice.  The bridge  *)
(* may stop between any two steps; the event queue and the retrier's work  *)
(* are memory, the rows and the bridged parts are the database.            *)
(*                                                                         *)
(* Clock readings are abstracted to the two facts the code asks of them:   *)
(* a row is due or not, and older than its maximal lifetime or not.        *)
(***************************************************************************)
EXTENDS Naturals, Sequences, FiniteSets

CONSTANTS
    Guids,        \* pushed messages
    Indices,      \* attachment indices, 0 .. n
    MaxAttempts,  \* attachmentRetrierMaxAttempts
    MaxPushes,    \* bound: deliveries of one message by the push stream
    MaxFaults,    \* bound: stops of the bridge and failed writes
    MaxUserActs   \* bound: redactions

ASSUME IndicesAssumption == IsFiniteSet(Indices) /\ Indices = 0 .. Cardinality(Indices) - 1
ASSUME BoundsAssumption ==
    MaxAttempts \in Nat \ {0} /\ {MaxPushes, MaxFaults, MaxUserActs} \subseteq Nat

VARIABLES
    up,       \* the bridge runs
    text,     \* [Guids -> BOOLEAN]: the message also has a text
    queue,    \* the portal's event queue
    loop,     \* the attachment part the event loop is sending, or Nobody
    room,     \* bridged parts in the bridge's message table, by ID and index
    rows,     \* pending_attachment_retry
    work,     \* the row the retrier is working on, or Nobody
    synced,   \* messages whose CloudKit record, with its attachments, was synced
    pushes,   \* deliveries so far of each message
    faults,   \* stops of the bridge and failed writes so far
    redacted, \* redactions so far
    tries,    \* history: failed attempts since the row was created
    fate      \* history: how a notice lost its row without an edit

recoveryVars == <<up, text, queue, loop, room, rows, work, synced, pushes, faults,
          redacted, tries, fate>>

Atts == Guids \X Indices
Nobody == [stage |-> "none"]
NoRow == [stage |-> "none"]

Fates == {"none", "given up", "not stored", "unsaved notice", "edit lost", "upload failed"}

Ids == {<<g>> : g \in Guids} \cup {<<g, i>> : g \in Guids, i \in Indices}

(* The bridge ID handleMessage gives an attachment event. *)
PushedId(a, hasText) == IF a[2] > 0 \/ hasText THEN a ELSE <<a[1]>>

\* The index alone decides: the first attachment of a message with a text
\* gets the text's ID.
MakeAttIdAnyText(a, hasText) == IF a[2] = 0 THEN <<a[1]>> ELSE a

(* The ID the pending row keeps for the same part. *)
MakeAttId(a, hasText) == IF a[2] = 0 /\ ~hasText THEN <<a[1]>> ELSE a

Shown(a) == room[<<PushedId(a, text[a[1]]), a[2]>>]

Event(kind, a, id) == [kind |-> kind, att |-> a, id |-> id]

NewRow(a) == [id |-> MakeAttId(a, text[a[1]]), count |-> 0, due |-> FALSE, old |-> FALSE]

(* What becomes of a part without payload, and of one with it. *)
ConvertedWithoutPayload == "notice"
ConvertedWithPayload(uploaded) == IF uploaded THEN "media" ELSE "error"

-----------------------------------------------------------------------------
RecoveryInit ==
    /\ up = TRUE
    /\ text \in [Guids -> BOOLEAN]
    /\ queue = <<>>
    /\ loop = Nobody
    /\ room = [p \in Ids \X Indices |-> "none"]
    /\ rows = [a \in Atts |-> NoRow]
    /\ work = Nobody
    /\ synced = {}
    /\ pushes = [g \in Guids |-> 0]
    /\ faults = 0
    /\ redacted = 0
    /\ tries = [a \in Atts |-> 0]
    /\ fate = [a \in Atts |-> "none"]

(* handleMessage queues one event per attachment, in order; the push stream *)
(* delivers a message again when the connection comes back.                 *)
Push(g) ==
    /\ up /\ pushes[g] < MaxPushes
    /\ pushes' = [pushes EXCEPT ![g] = @ + 1]
    /\ queue' = queue \o [n \in 1 .. Cardinality(Indices) |->
                             Event("message", <<g, n - 1>>, PushedId(<<g, n - 1>>, text[g]))]
    /\ UNCHANGED <<up, text, loop, room, rows, work, synced, faults, redacted, tries, fate>>

(* The event loop takes an event off the queue.  bridgev2 ignores a message *)
(* that is in its table already.                                           *)
TakeKnown ==
    /\ up /\ loop = Nobody /\ queue # <<>>
    /\ Head(queue).kind = "message"
    /\ room[<<Head(queue).id, Head(queue).att[2]>>] # "none"
    /\ queue' = Tail(queue)
    /\ UNCHANGED <<up, text, loop, room, rows, work, synced, pushes, faults, redacted, tries, fate>>

(* enqueuePendingMMCSRecovery: an existing row wins over the new one; after *)
(* three failed writes the notice is bridged without a row.                *)
Enqueue(a, stored) ==
    /\ rows' = IF stored /\ rows[a] = NoRow THEN [rows EXCEPT ![a] = NewRow(a)] ELSE rows
    /\ tries' = IF stored /\ rows[a] = NoRow THEN [tries EXCEPT ![a] = 0] ELSE tries
    /\ fate' = IF rows[a] # NoRow THEN fate
               ELSE [fate EXCEPT ![a] = IF stored THEN "none" ELSE "not stored"]
    /\ faults' = IF stored THEN faults ELSE faults + 1

(* ConvertMessageFunc: without payload the recovery is stored first, then  *)
(* the part is converted; sending it takes a while.                        *)
TakeMessage ==
    /\ up /\ loop = Nobody /\ queue # <<>>
    /\ Head(queue).kind = "message"
    /\ room[<<Head(queue).id, Head(queue).att[2]>>] = "none"
    /\ queue' = Tail(queue)
    /\ \/ /\ \E stored \in IF faults < MaxFaults THEN BOOLEAN ELSE {TRUE} : Enqueue(Head(queue).att, stored)
          /\ loop' = [Head(queue) EXCEPT !.kind = ConvertedWithoutPayload]
       \/ \E uploaded \in BOOLEAN :
            LET part == ConvertedWithPayload(uploaded) IN
              /\ loop' = IF part = "error" THEN Nobody ELSE [Head(queue) EXCEPT !.kind = part]
              /\ UNCHANGED <<rows, tries, fate, faults>>
    /\ UNCHANGED <<up, text, room, work, synced, pushes, redacted>>

(* The part has been sent: bridgev2 saves it in its message table. *)
SavePart ==
    /\ up /\ loop # Nobody
    /\ room' = [room EXCEPT ![<<loop.id, loop.att[2]>>] = loop.kind]
    /\ loop' = Nobody
    /\ UNCHANGED <<up, text, queue, rows, work, synced, pushes, faults, redacted, tries, fate>>

(* The edit the retrier queued: ConvertEditFunc uploads the attachment and *)
(* replaces the part with the same index, if it is still there.            *)
TakeEdit ==
    /\ up /\ loop = Nobody /\ queue # <<>>
    /\ Head(queue).kind = "edit"
    /\ queue' = Tail(queue)
    /\ LET a == Head(queue).att
           target == <<Head(queue).id, a[2]>>
       IN \E uploaded \in BOOLEAN :
            IF ConvertedWithPayload(uploaded) = "media"
            THEN /\ room' = IF room[target] = "none" THEN room
                            ELSE [room EXCEPT ![target] = "media"]
                 /\ fate' = fate
            ELSE /\ room' = room
                 /\ fate' = [fate EXCEPT ![a] = "upload failed"]
    /\ UNCHANGED <<up, text, loop, rows, work, synced, pushes, faults, redacted, tries>>

(* The user removes a bridged part. *)
Redact(a) ==
    /\ up /\ redacted < MaxUserActs
    /\ Shown(a) # "none"
    /\ redacted' = redacted + 1
    /\ room' = [room EXCEPT ![<<PushedId(a, text[a[1]]), a[2]>>] = "none"]
    /\ UNCHANGED <<up, text, queue, loop, rows, work, synced, pushes, faults, tries, fate>>

-----------------------------------------------------------------------------
(* The retrier.  tick takes the due rows one after another. *)
Attempt(a) ==
    /\ up /\ work = Nobody
    /\ rows[a] # NoRow /\ rows[a].due
    /\ work' = [att |-> a, row |-> rows[a], stage |-> "download"]
    /\ UNCHANGED <<up, text, queue, loop, room, rows, synced, pushes, faults, redacted, tries, fate>>

(* The push-time download repeated, and CloudKit's copy if its record came. *)
DownloadViaMMCS == {"ok", "failed", "empty"}
DownloadViaCloudKit(a) == {"failed"} \cup (IF a[1] \in synced THEN {"ok"} ELSE {})

Downloaded ==
    /\ up /\ work # Nobody /\ work.stage = "download"
    /\ \E mmcs \in DownloadViaMMCS :
         \E bytes \in IF mmcs = "failed" THEN DownloadViaCloudKit(work.att) ELSE {mmcs} :
           work' = [work EXCEPT !.stage = IF bytes = "ok" THEN "deliver" ELSE "failed"]
    /\ UNCHANGED <<up, text, queue, loop, room, rows, synced, pushes, faults, redacted, tries, fate>>

(* reschedule: give up after MaxAttempts attempts or the maximal lifetime. *)
Reschedule ==
    /\ up /\ work # Nobody /\ work.stage = "failed"
    /\ LET a == work.att
           count == work.row.count + 1
       IN IF count >= MaxAttempts \/ work.row.old
          THEN /\ rows' = [rows EXCEPT ![a] = NoRow]
               /\ fate' = [fate EXCEPT ![a] = "given up"]
          ELSE /\ rows' = [rows EXCEPT ![a] = IF @ = NoRow THEN NoRow
                                              ELSE [@ EXCEPT !.count = count, !.due = FALSE]]
               /\ fate' = fate
    /\ tries' = [tries EXCEPT ![work.att] = @ + 1]
    /\ work' = Nobody
    /\ UNCHANGED <<up, text, queue, loop, room, synced, pushes, faults, redacted>>

(* deliverAsEdit: without the notice there is nothing to replace; else the *)
(* edit is queued and attempt() deletes the row, which may fail: the row   *)
(* is then attempted once more.                                            *)
DropOrphan ==
    /\ up /\ work # Nobody /\ work.stage = "deliver"
    /\ room[<<work.row.id, work.att[2]>>] = "none"
    /\ rows' = [rows EXCEPT ![work.att] = NoRow]
    /\ fate' = IF loop # Nobody /\ loop.att = work.att
               THEN [fate EXCEPT ![work.att] = "unsaved notice"] ELSE fate
    /\ work' = Nobody
    /\ UNCHANGED <<up, text, queue, loop, room, synced, pushes, faults, redacted, tries>>

DeliverAsEdit ==
    /\ up /\ work # Nobody /\ work.stage = "deliver"
    /\ room[<<work.row.id, work.att[2]>>] # "none"
    /\ queue' = Append(queue, Event("edit", work.att, work.row.id))
    /\ \/ /\ rows' = [rows EXCEPT ![work.att] = NoRow]
          /\ faults' = faults
       \/ /\ faults < MaxFaults
          /\ faults' = faults + 1
          /\ rows' = rows
    /\ work' = Nobody
    /\ UNCHANGED <<up, text, loop, room, synced, pushes, redacted, tries, fate>>

-----------------------------------------------------------------------------
(* Time: a row's next_attempt_at passes; a row outlives its lifetime. *)
BecomesDue(a) ==
    /\ rows[a] # NoRow /\ ~rows[a].due
    /\ rows' = [rows EXCEPT ![a].due = TRUE]
    /\ UNCHANGED <<up, text, queue, loop, room, work, synced, pushes, faults, redacted, tries, fate>>

GrowsOld(a) ==
    /\ rows[a] # NoRow /\ ~rows[a].old
    /\ rows' = [rows EXCEPT ![a].old = TRUE]
    /\ UNCHANGED <<up, text, queue, loop, room, work, synced, pushes, faults, redacted, tries, fate>>

(* CloudKit sync stores the message with its attachments. *)
RecordSynced(g) ==
    /\ up /\ g \notin synced
    /\ synced' = synced \cup {g}
    /\ UNCHANGED <<up, text, queue, loop, room, rows, work, pushes, faults, redacted, tries, fate>>

(* The process ends: queued edits, a part being sent and the retrier's work *)
(* are gone.                                                                *)
Stop ==
    /\ up /\ faults < MaxFaults
    /\ up' = FALSE
    /\ faults' = faults + 1
    /\ queue' = <<>> /\ loop' = Nobody /\ work' = Nobody
    /\ fate' = [a \in Atts |->
                  IF rows[a] = NoRow /\ \E n \in DOMAIN queue : queue[n].kind = "edit" /\ queue[n].att = a
                  THEN "edit lost" ELSE fate[a]]
    /\ UNCHANGED <<text, room, rows, synced, pushes, redacted, tries>>

Start ==
    /\ ~up
    /\ up' = TRUE
    /\ UNCHANGED <<text, queue, loop, room, rows, work, synced, pushes, faults, redacted, tries, fate>>

EventLoop == TakeKnown \/ TakeMessage \/ SavePart \/ TakeEdit
Retrier == (\E a \in Atts : Attempt(a)) \/ Downloaded \/ Reschedule \/ DropOrphan \/ DeliverAsEdit
Environment ==
    \/ \E g \in Guids : Push(g) \/ RecordSynced(g)
    \/ \E a \in Atts : Redact(a) \/ BecomesDue(a) \/ GrowsOld(a)
    \/ Stop
    \/ Start

RecoveryNext == EventLoop \/ Retrier \/ Environment

RecoverySpec == RecoveryInit /\ [][RecoveryNext]_recoveryVars

-----------------------------------------------------------------------------
RecoveryTypeOK ==
    /\ up \in BOOLEAN
    /\ text \in [Guids -> BOOLEAN]
    /\ queue \in Seq([kind : {"message", "edit"}, att : Atts, id : Ids])
    /\ loop = Nobody \/ loop \in [kind : {"notice", "media"}, att : Atts, id : Ids]
    /\ room \in [Ids \X Indices -> {"none", "notice", "media"}]
    /\ \A a \in Atts :
         rows[a] = NoRow \/ rows[a] \in [id : Ids, count : 0 .. MaxAttempts, due : BOOLEAN, old : BOOLEAN]
    /\ synced \subseteq Guids
    /\ fate \in [Atts -> Fates]

(* A notice in the room is still being recovered: it has a row, or the     *)
(* edit that replaces it is queued.  It stays a notice for good only after *)
(* the retrier gave up, the row could not be stored, the retrier looked    *)
(* before the notice was saved, the queued edit was lost when the bridge   *)
(* stopped, or the edit's upload failed (enqueuePendingMMCSRecovery,       *)
(* attempt, deliverAsEdit).                                                *)
NoticeBacked ==
    \A a \in Atts : Shown(a) = "notice" =>
        \/ rows[a] # NoRow
        \/ \E n \in DOMAIN queue : queue[n].kind = "edit" /\ queue[n].att = a
        \/ fate[a] # "none"

(* A row's download fails at most MaxAttempts times, however often the     *)
(* push stream repeats the message and the bridge restarts: the repeated   *)
(* insert keeps the stored count (pendingAttachmentStore.Insert).          *)
AttemptsBounded == \A a \in Atts : tries[a] <= MaxAttempts

(* What the retrier owes the room: every notice is on its way to be        *)
(* replaced, and no attachment is asked for without end.                   *)
NoticesRecovered == NoticeBacked /\ AttemptsBounded
=============================================================================
