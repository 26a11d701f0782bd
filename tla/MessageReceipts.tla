--------------------------- MODULE MessageReceipts ---------------------------
(***************************************************************************)
(* Sent messages and the controls Apple returns for them (delivered, read,  *)
(* failed), which may arrive before the answer that tells the message's     *)
(* GUID and while its attachments are being stored.  Models the sends of    *)
(* BlueBubblesService, #outgoingAnnouncements, #pendingOutgoingControls and *)
(* the handlers of both (src/src/bluebubbles/service.ts), and the statement *)
(* each runs on the tables message and message_receipt (store.ts).          *)
(*                                                                          *)
(* Abstractions.  A message is its GUID: Own ones are sent by this profile, *)
(* Elsewhere are those the store has no row of (another device of the       *)
(* account sent them, or the GUID is that of an edit), a Foreign one is a   *)
(* peer's.  A control says what it reports, of which message, and by whom   *)
(* (a recipient, or the status of an error); the time it reports is left    *)
(* out, and so are receipt events and snapshots.  A step of `work' is one   *)
(* statement of the synchronous loop that applies controls, so that the     *)
(* process can die, or an exception leave the loop, between any two;        *)
(* nothing else of the process runs in between.  A send without files       *)
(* stores and publishes its message in one turn: its behaviours are those   *)
(* in which nothing comes between the two steps.                            *)
(***************************************************************************)
EXTENDS Integers, Sequences, FiniteSets

CONSTANTS
  Own, Elsewhere, Foreign,      \* messages
  Recipient, Code,              \* who reports a receipt, statuses of an error
  MaxMessages,                  \* messages with held controls (256 in the code)
  MaxControls,                  \* controls held for a message (8)
  Window,                       \* how long a control is held (15 minutes)
  MaxTime,                      \* bound of the clock
  None

Message == Own \cup Elsewhere \cup Foreign

ASSUME ReceiptAssumption ==
  /\ Own \cap (Elsewhere \cup Foreign) = {} /\ Elsewhere \cap Foreign = {}
  /\ IsFiniteSet(Message)
  /\ MaxMessages \in Nat \ {0} /\ MaxControls \in Nat \ {0}
  /\ Window \in Nat /\ MaxTime \in Nat
  /\ None \notin Code \cup Recipient

Control ==
  [target : Message, kind : {"delivered", "read"}, by : Recipient]
    \cup [target : Message, kind : {"error"}, by : Code]
Arrived == [control : Control, at : 0..MaxTime]
Receipt == [message : Message, type : {"delivered", "read"}, by : Recipient \cup {None}]
Status == [delivered : BOOLEAN, read : BOOLEAN, error : Code \cup {None}]

VARIABLES
  (* durable *)
  stored,       \* messages with a row
  status,       \* is_delivered, date_read and error of the row
  receipts,     \* rows of message_receipt; those of the backfill are by None
  (* the process *)
  up,
  sends,        \* sends[m]: how far the send of m is
  announcing,   \* #outgoingAnnouncements
  pending,      \* #pendingOutgoingControls: the controls held for a message
  older,        \* the order of its keys: <<a, b>> when a was added before b
  work, phase,  \* controls still to apply, the next statement for the first
  now,
  (* history *)
  announced,    \* messages whose own event was published
  early,        \* messages with a published change and no event before it
  updates,      \* "updated-message" events of the row
  heard         \* controls of Own this process received and has not given up

durable == <<stored, status, receipts>>
history == <<announced, early, updates>>
vars == <<stored, status, receipts, up, sends, announcing, pending,
          older, work, phase, now, announced, early, updates, heard>>

Fresh == [delivered |-> FALSE, read |-> FALSE, error |-> None]
HeldFor == {m \in Message : pending[m] # <<>>}

TypeOK ==
  /\ stored \subseteq Message
  /\ status \in [Message -> Status]
  /\ receipts \subseteq Receipt
  /\ up \in BOOLEAN
  /\ sends \in [Own -> {"idle", "requested", "storing", "done", "failed"}]
  /\ announcing \subseteq Own
  /\ pending \in [Message -> Seq(Arrived)]
  /\ older \subseteq Message \X Message
  /\ work \in Seq(Arrived)
  /\ phase \in {"record", "mark", "tell"}
  /\ now \in 0..MaxTime
  /\ announced \subseteq Message
  /\ early \subseteq Message
  /\ updates \in [Message -> Nat]
  /\ heard \subseteq Control

Init ==
  /\ stored = Foreign
  /\ status = [m \in Message |-> Fresh]
  /\ receipts = {}
  /\ up = TRUE
  /\ sends = [m \in Own |-> "idle"]
  /\ announcing = {}
  /\ pending = [m \in Message |-> <<>>]
  /\ older = {}
  /\ work = <<>>
  /\ phase = "record"
  /\ now = 0
  /\ announced = Foreign
  /\ early = {}
  /\ updates = [m \in Message |-> 0]
  /\ heard = {}

\* The event loop is free: no handler is in its synchronous part.
Free == up /\ work = <<>>

-----------------------------------------------------------------------------
(* The buffer of controls.                                                  *)

\* What is left of a message's controls when those received more than Window
\* before t are dropped.  They are in order of arrival, so these come first.
Unexpired(q, t) ==
  SubSeq(q, Cardinality({i \in DOMAIN q : q[i].at + Window < t}) + 1, Len(q))

\* The key to drop so that one for m can be added: the one added first, when
\* the buffer is full.
Evictions(m, kept) ==
  IF m \notin kept /\ Cardinality(kept) >= MaxMessages
    THEN {{k} : k \in {k \in kept : \A j \in kept : <<j, k>> \notin older}}
    ELSE {{}}

\* A control joins those of its message, of which the oldest makes room.
Joined(q, a) == IF Len(q) >= MaxControls THEN Append(Tail(q), a) ELSE Append(q, a)

HeldIn(p) == {c \in Control : \E i \in DOMAIN p[c.target] : p[c.target][i].control = c}

Noted(c) == IF c.target \in Own THEN {c} ELSE {}

\* #bufferOutgoingControl
Hold(a) ==
  LET m == a.control.target
      left == [k \in Message |-> Unexpired(pending[k], a.at)]
      kept == {k \in Message : left[k] # <<>>}
  IN \E evicted \in Evictions(m, kept) :
       /\ pending' = [k \in Message |->
                        IF k = m THEN Joined(left[m], a)
                        ELSE IF k \in evicted THEN <<>> ELSE left[k]]
       /\ older' = (older \cap ((kept \ evicted) \X (kept \ evicted)))
                     \cup (IF m \in kept THEN {} ELSE (kept \ evicted) \X {m})
       /\ heard' = (heard \cup Noted(a.control)) \ (HeldIn(pending) \ HeldIn(pending'))

-----------------------------------------------------------------------------
(* Controls.                                                                *)

\* Apple knows the message.
Known(m) == m \in Own => sends[m] # "idle"

\* Mutant: a control is applied while its message is being announced.
ArriveAndApply(c) ==
  /\ Free /\ Known(c.target)
  /\ LET a == [control |-> c, at |-> now] IN
     IF c.target \notin stored
       THEN Hold(a) /\ UNCHANGED work
       ELSE work' = <<a>> /\ heard' = heard \cup Noted(c) /\ UNCHANGED <<pending, older>>
  /\ UNCHANGED <<durable, up, sends, announcing, phase, now, history>>

\* #handleOutgoingControl
Arrive(c) ==
  /\ Free /\ Known(c.target)
  /\ LET a == [control |-> c, at |-> now] IN
     IF c.target \in announcing \/ c.target \notin stored
       THEN Hold(a) /\ UNCHANGED work
       ELSE work' = <<a>> /\ heard' = heard \cup Noted(c) /\ UNCHANGED <<pending, older>>
  /\ UNCHANGED <<durable, up, sends, announcing, phase, now, history>>

First == Head(work).control

\* A control of the loop has no row yet: it is held again.
HoldAgain ==
  /\ up /\ work # <<>> /\ phase = "record" /\ First.target \notin stored
  /\ Hold(Head(work))
  /\ work' = Tail(work)
  /\ UNCHANGED <<durable, up, sends, announcing, phase, now, history>>

\* A control cannot change a message that is not the account's.
Consume ==
  /\ up /\ work # <<>> /\ phase = "record" /\ First.target \in stored \cap Foreign
  /\ work' = Tail(work)
  /\ UNCHANGED <<durable, up, sends, announcing, pending, older, phase,
                 now, history, heard>>

\* recordMessageReceipt: the receipt takes the place of a backfilled one.
Record ==
  /\ up /\ work # <<>> /\ phase = "record" /\ First.target \in stored \ Foreign
  /\ receipts' =
       IF First.kind = "error" THEN receipts
       ELSE (receipts \ {[message |-> First.target, type |-> First.kind, by |-> None]})
              \cup {[message |-> First.target, type |-> First.kind, by |-> First.by]}
  /\ phase' = "mark"
  /\ UNCHANGED <<stored, status, up, sends, announcing, pending, older,
                 work, now, history, heard>>

\* Mutant: a read receipt leaves the delivered state alone.
MarkedReadOnly(s, c) ==
  CASE c.kind = "delivered" -> [s EXCEPT !.delivered = TRUE]
    [] c.kind = "read" -> [s EXCEPT !.read = TRUE]
    [] c.kind = "error" -> [s EXCEPT !.error = c.by]

\* markMessageDelivered, markMessageRead, markMessageError
Marked(s, c) ==
  CASE c.kind = "delivered" -> [s EXCEPT !.delivered = TRUE]
    [] c.kind = "read" -> [s EXCEPT !.delivered = TRUE, !.read = TRUE]
    [] c.kind = "error" -> [s EXCEPT !.error = c.by]

\* The row is updated; a control that changes nothing is told to nobody.
Mark ==
  /\ up /\ work # <<>> /\ phase = "mark"
  /\ status' = [status EXCEPT ![First.target] = Marked(@, First)]
  /\ IF status' = status
       THEN phase' = "record" /\ work' = Tail(work)
       ELSE phase' = "tell" /\ UNCHANGED work
  /\ UNCHANGED <<stored, receipts, up, sends, announcing, pending, older,
                 now, history, heard>>

\* "updated-message" or "message-send-error" is dispatched.
Tell ==
  /\ up /\ work # <<>> /\ phase = "tell"
  /\ early' = IF First.target \in announced THEN early ELSE early \cup {First.target}
  /\ updates' = IF First.kind = "error" THEN updates
                ELSE [updates EXCEPT ![First.target] = @ + 1]
  /\ work' = Tail(work)
  /\ phase' = "record"
  /\ UNCHANGED <<durable, up, sends, announcing, pending, older, now,
                 announced, heard>>

\* A statement or an event of the loop throws: the controls left are lost.
Throw ==
  /\ up /\ work # <<>>
  /\ work' = <<>>
  /\ phase' = "record"
  /\ heard' = heard \ {work[i].control : i \in DOMAIN work}
  /\ UNCHANGED <<durable, up, sends, announcing, pending, older, now, history>>

-----------------------------------------------------------------------------
(* Sends.                                                                   *)

\* Mutant: the controls held for an announced message are dropped.
FinishAndForget(m) ==
  /\ announcing' = announcing \ {m}
  /\ pending' = [pending EXCEPT ![m] = <<>>]
  /\ older' = {pair \in older : m \notin {pair[1], pair[2]}}
  /\ UNCHANGED work

\* #finishOutgoingAnnouncement: the held controls are taken to be applied.
Finish(m) ==
  /\ announcing' = announcing \ {m}
  /\ pending' = [pending EXCEPT ![m] = <<>>]
  /\ older' = {pair \in older : m \notin {pair[1], pair[2]}}
  /\ work' = pending[m]

\* engine.send...() is called.
Request(m) ==
  /\ Free /\ sends[m] = "idle"
  /\ sends' = [sends EXCEPT ![m] = "requested"]
  /\ UNCHANGED <<durable, up, announcing, pending, older, work, phase,
                 now, history, heard>>

RequestFails(m) ==
  /\ Free /\ sends[m] = "requested"
  /\ sends' = [sends EXCEPT ![m] = "failed"]
  /\ UNCHANGED <<durable, up, announcing, pending, older, work, phase,
                 now, history, heard>>

\* The answer: #beginOutgoingAnnouncement and insertOutgoing.
Answer(m) ==
  /\ Free /\ sends[m] = "requested"
  /\ sends' = [sends EXCEPT ![m] = "storing"]
  /\ announcing' = announcing \cup {m}
  /\ stored' = stored \cup {m}
  /\ UNCHANGED <<status, receipts, up, pending, older, work, phase, now,
                 history, heard>>

\* The answer, and insertOutgoing throws: the conversation was deleted.
InsertFails(m) ==
  /\ Free /\ sends[m] = "requested"
  /\ sends' = [sends EXCEPT ![m] = "failed"]
  /\ Finish(m)
  /\ UNCHANGED <<durable, up, phase, now, history, heard>>

\* The files are stored, #publishOutgoing tells of the message.
Publish(m) ==
  /\ Free /\ sends[m] = "storing" /\ m \in stored
  /\ sends' = [sends EXCEPT ![m] = "done"]
  /\ announced' = announced \cup {m}
  /\ Finish(m)
  /\ UNCHANGED <<durable, up, phase, now, early, updates, heard>>

\* Copying a file, a statement or the event throws: nothing was published.
StoringFails(m) ==
  /\ Free /\ sends[m] = "storing"
  /\ sends' = [sends EXCEPT ![m] = "failed"]
  /\ Finish(m)
  /\ UNCHANGED <<durable, up, phase, now, history, heard>>

-----------------------------------------------------------------------------
(* The other actors.                                                        *)

\* deleteMessage, deleteChat: the receipts go with the row.
Delete(m) ==
  /\ Free /\ m \in stored
  /\ stored' = stored \ {m}
  /\ status' = [status EXCEPT ![m] = Fresh]
  /\ receipts' = {r \in receipts : r.message # m}
  /\ updates' = [updates EXCEPT ![m] = 0]
  /\ UNCHANGED <<up, sends, announcing, pending, older, work, phase, now,
                 announced, early, heard>>

\* The process dies, or exits while sends are in flight.
End ==
  /\ up
  /\ up' = FALSE
  /\ sends' = [m \in Own |-> IF sends[m] \in {"requested", "storing"} THEN "failed"
                             ELSE sends[m]]
  /\ announcing' = {}
  /\ pending' = [m \in Message |-> <<>>]
  /\ older' = {}
  /\ work' = <<>>
  /\ phase' = "record"
  /\ heard' = {}
  /\ UNCHANGED <<durable, now, history>>

\* A row that says more than its receipts gets those of the backfill.
Backfilled ==
  {r \in [message : stored \ Foreign, type : {"delivered", "read"}, by : {None}] :
     /\ IF r.type = "read" THEN status[r.message].read ELSE status[r.message].delivered
     /\ ~ \E q \in receipts : q.message = r.message /\ q.type = r.type}

\* The store is opened and the service started.
Start ==
  /\ ~up
  /\ up' = TRUE
  /\ receipts' = receipts \cup Backfilled
  /\ UNCHANGED <<stored, status, sends, announcing, pending, older, work,
                 phase, now, history, heard>>

Tick ==
  /\ Free /\ now < MaxTime
  /\ now' = now + 1
  /\ UNCHANGED <<durable, up, sends, announcing, pending, older, work,
                 phase, history, heard>>

Next ==
  \/ \E c \in Control : Arrive(c)
  \/ HoldAgain \/ Consume \/ Record \/ Mark \/ Tell \/ Throw
  \/ \E m \in Own : \/ Request(m) \/ RequestFails(m) \/ Answer(m) \/ InsertFails(m)
                    \/ Publish(m) \/ StoringFails(m)
  \/ \E m \in Own : Delete(m)
  \/ End \/ Start \/ Tick

Spec == Init /\ [][Next]_vars

-----------------------------------------------------------------------------
(* Properties.                                                              *)

\* A row never says more than the receipts show (GET message/:guid/receipts):
\* a read message has the receipt of a reader and counts as delivered, and a
\* delivered one has a receipt, wherever a process died.
StatusIsBacked ==
  \A m \in Message :
    /\ status[m].read =>
         /\ status[m].delivered
         /\ \E r \in receipts : r.message = m /\ r.type = "read"
    /\ status[m].delivered => \E r \in receipts : r.message = m

\* The controls of a sent message are held only while it has no row or is being
\* announced: the end of an announcement, good or bad, flushes them, and none
\* slips in behind it to wait for a flush that does not come.
NothingHeldBack ==
  \A m \in Own \cap HeldFor : m \in announcing \/ m \notin stored

\* What a control says is in the row and the receipts.
Shown(c) ==
  IF c.kind = "error" THEN status[c.target].error # None
  ELSE /\ [message |-> c.target, type |-> c.kind, by |-> c.by] \in receipts
       /\ IF c.kind = "read" THEN status[c.target].read ELSE status[c.target].delivered

\* A control that arrived for a stored message of this process is waiting, being
\* applied, or shown, unless the buffer dropped it or its loop threw.
Accounted ==
  \A c \in heard :
    c.target \in Own \cap stored =>
      \/ c \in HeldIn(pending)
      \/ \E i \in DOMAIN work : work[i].control = c
      \/ Shown(c)

\* The buffer keeps its bounds, its keys are ordered by their age, and a message's
\* controls by theirs, which is what dropping the oldest first rests on.
BufferBounded ==
  /\ Cardinality(HeldFor) <= MaxMessages
  /\ \A m \in Message : Len(pending[m]) <= MaxControls
  /\ older \subseteq HeldFor \X HeldFor
  /\ \A a, b \in HeldFor : a # b => (<<a, b>> \in older <=> <<b, a>> \notin older)
  /\ \A m \in Message : \A i, j \in DOMAIN pending[m] :
       i <= j => pending[m][i].at <= pending[m][j].at

\* Nothing is published of a change of a sent message before the message itself,
\* unless its storing failed or was cut off, and it was never published.
ToldInOrder == \A m \in early \cap Own : sends[m] = "failed" /\ m \notin announced

\* Receipts that come twice, or come again to a later process, are told once: a
\* row has at most one update for each state it reached.
RepeatsSilent ==
  \A m \in Message :
    updates[m] <= (IF status[m].delivered THEN 1 ELSE 0) + (IF status[m].read THEN 1 ELSE 0)

\* "Clients always see the outgoing event before its delivery/read/error
\* transition" (docs/outbound-wire-audit.md).
AnnouncedFirst == early \cap Own = {}
=============================================================================
