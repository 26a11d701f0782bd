------------------------------ MODULE Outgoing ------------------------------
(***************************************************************************)
(* Messages of the Matrix user on their way out of the Go bridge           *)
(* (client.go and carrier_route.go): the choice between iMessage and the   *)
(* text-message relay, the one Matrix event that leaves as several         *)
(* iMessages, its redaction, and the unsends and echoes that come back     *)
(* over APNs meanwhile.  The room is one direct chat, flagged for the      *)
(* carrier or not.  bridgev2 takes the room's events one at a time         *)
(* (worker), the APNs callbacks run beside it.                             *)
(*                                                                         *)
(* Left to the environment: whether a send finds the contact on iMessage   *)
(* and whether a device relays text messages (both change at any time),    *)
(* the answers of Apple, and the double puppet.  A memo, the native side's *)
(* list of relays, a tracked unsend or a tracked echo may expire at any    *)
(* time.  Edits, tapbacks over iMessage and typing change no state kept    *)
(* here.                                                                   *)
(***************************************************************************)
EXTENDS Integers, Sequences, SequencesExt, FiniteSets

CONSTANTS UserMessages, \* Matrix events of the user
          Incoming,   \* messages of the contact
          Reactions,  \* reactions of the user
          MaxWorld,   \* changes of the surroundings, expiries, deliveries again
          MaxSendFaults \* failed calls and crashes

ASSUME OutgoingAssumption ==
  LET pieces == UserMessages \X {1, 2}
      events == UserMessages \X {"main", "caption"}
  IN /\ Incoming \cap Reactions = {} /\ (Incoming \cup Reactions) \cap (pieces \cup events) = {}
     /\ UserMessages \cap events = {}
     /\ {MaxWorld, MaxSendFaults} \subseteq Nat

Kinds == {"text", "long", "captioned"}
Pieces == UserMessages \X {1, 2}
Ids == Pieces \cup Incoming \cup Reactions
\* Matrix events: the user's own, the caption bridged apart, what was bridged in
Shown == (UserMessages \X {"main", "caption"}) \cup Incoming \cup Reactions

VARIABLES flag,      \* smsPortals[portal]: the room is a carrier chat
          contactOn, relayOn,       \* the world: iMessage, a relaying device
          relayed,   \* a device relayed since the list of relays was last outdated (history)
          memo,      \* what checkCarrierRoute, hasSMSRelay and the IDS cache remember
          job,       \* what the worker does
          queue,     \* remote events queued to the room
          bridged,   \* bridgev2's message rows
          stored,    \* cloud_message, per uuid
          phone,     \* what the recipient's device holds, per piece
          unsends, ownUnsends, echoes,   \* recentUnsends, recentOutboundUnsends,
                                         \* recentSmsReactionEchoes
          result,    \* what the user was told of a message and of a redaction
          retracted, \* messages of the contact it unsent, the handler having run
          excused,   \* why an observation may differ (history)
          world, sendFaults                  \* bounds
outgoingVars == <<flag, contactOn, relayOn, relayed, memo, job, queue, bridged, stored, phone,
          unsends, ownUnsends, echoes, result, retracted, excused, world, sendFaults>>

Answers == {"none", "yes", "no"}
NoJob == [at |-> "idle"]
NoMemo == [verified |-> FALSE, unreachable |-> FALSE, relay |-> "none", listed |-> "none"]
Row(ev, id, sibling, conts) == [ev |-> ev, id |-> id, sibling |-> sibling, conts |-> conts]
HasRow(id) == \E w \in bridged : w.id = id

OutgoingTypeOK ==
  /\ {flag, contactOn, relayOn, relayed} \subseteq BOOLEAN
  /\ memo \in [verified : BOOLEAN, unreachable : BOOLEAN, relay : Answers, listed : Answers]
  /\ \A w \in bridged : w.ev \in Shown /\ w.id \in Ids
  /\ stored \in [Ids -> {"none", "live", "dead"}]
  /\ phone \in [Pieces -> {"none", "imessage", "sms", "unsent"}]
  /\ unsends \subseteq Ids /\ ownUnsends \subseteq Ids /\ echoes \subseteq Reactions
  /\ result \in [UserMessages \cup (UserMessages \X {"main", "caption"}) ->
                   {"none", "sent", "refused", "removed", "failed", "died"}]

OutgoingInit ==
  /\ flag \in BOOLEAN /\ contactOn \in BOOLEAN /\ relayOn \in BOOLEAN /\ relayed = relayOn
  /\ memo = NoMemo /\ job = NoJob /\ queue = <<>> /\ bridged = {}
  /\ stored = [u \in Ids |-> "none"] /\ phone = [p \in Pieces |-> "none"]
  /\ unsends = {} /\ ownUnsends = {} /\ echoes = {}
  /\ result = [e \in UserMessages \cup (UserMessages \X {"main", "caption"}) |-> "none"]
  /\ retracted = {} /\ excused = {} /\ world = 0 /\ sendFaults = 0

Surroundings == <<contactOn, relayOn, relayed, world>>
Tracking == <<unsends, ownUnsends, echoes>>

SendFault == sendFaults < MaxSendFaults /\ sendFaults' = sendFaults + 1

----------------------------------------------------------------------------
(* HandleMatrixMessage and handleMatrixFile *)

\* HandleMatrixMessage: the conversation is made from the room's flag.
Begin(e, kind) ==
  /\ job = NoJob /\ result[e] = "none"
  /\ job' = [at |-> "route", e |-> e, kind |-> kind, sms |-> flag, i |-> 1,
             sent |-> {}, puppet |-> FALSE]
  /\ UNCHANGED <<flag, Surroundings, memo, queue, bridged, stored, phone, Tracking,
                 result, retracted, excused, sendFaults>>

\* classifyCarrierRoute: only a carrier-flagged direct chat is worth a question.
Verify == flag

\* recentlyVerifiedIMessage, recentlyCheckedUnreachable: asked within the hour
Remembered == memo.verified \/ memo.unreachable

\* noteVerifiedIMessage, noteCheckedUnreachable
Note(found) == memo' = [memo EXCEPT !.verified = found \/ @, !.unreachable = ~found \/ @]

\* reserveCarrierCheck and the pacing gate: no lookup when the rooms together reached the
\* ceiling of the hour, or the context ends while waiting
NoSlot == SendFault

\* checkCarrierRoute: TRUE sends this one message over iMessage; the flag stays.
Route ==
  /\ job.at = "route"
  /\ \/ /\ ~Verify \/ Remembered
        /\ job' = [job EXCEPT !.at = "relay", !.sms = @ /\ ~(Verify /\ memo.verified)]
        /\ UNCHANGED <<memo, sendFaults>>
     \/ /\ Verify /\ ~Remembered /\ NoSlot
        /\ job' = [job EXCEPT !.at = "relay"]
        /\ UNCHANGED memo
     \/ /\ Verify /\ ~Remembered
        /\ \E found \in BOOLEAN :
             /\ IF found = contactOn THEN UNCHANGED sendFaults ELSE ~found /\ SendFault
             /\ Note(found)
             /\ job' = [job EXCEPT !.at = "relay", !.sms = @ /\ ~found]
  /\ UNCHANGED <<flag, Surroundings, queue, bridged, stored, phone, Tracking, result,
                 retracted, excused>>

\* has_sms_relay of the native side: the list of the IDS cache while it is fresh, else a
\* lookup, and no when that fails or panics.
HasSmsRelay(has, list, failed) ==
  \/ memo.listed # "none" /\ has = (memo.listed = "yes") /\ list = memo.listed /\ ~failed
  \/ memo.listed = "none" /\ has = relayOn /\ list = (IF has THEN "yes" ELSE "no") /\ ~failed
  \/ memo.listed = "none" /\ ~has /\ list = "none" /\ failed

Told(failed) == IF failed THEN SendFault ELSE UNCHANGED sendFaults

\* hasSMSRelay: the memo of the last hour, the native answer, or TRUE on a panic of the call.
SmsRelay(has, kept, list) ==
  \/ memo.relay # "none" /\ has = (memo.relay = "yes") /\ kept = memo.relay /\ list = memo.listed
     /\ UNCHANGED sendFaults
  \/ memo.relay = "none" /\ kept = (IF has THEN "yes" ELSE "no")
     /\ \E failed \in BOOLEAN : HasSmsRelay(has, list, failed) /\ Told(failed)
  \/ memo.relay = "none" /\ has /\ kept = "none" /\ list = memo.listed /\ SendFault

\* HandleMatrixMessage: a carrier message with no relay is refused before it is sent.
Relay ==
  /\ job.at = "relay"
  /\ \/ /\ ~job.sms /\ job' = [job EXCEPT !.at = "send"]
        /\ UNCHANGED <<memo, result, sendFaults>>
     \/ /\ job.sms
        /\ \E has \in BOOLEAN, kept, list \in Answers :
             /\ SmsRelay(has, kept, list)
             /\ memo' = [memo EXCEPT !.relay = kept, !.listed = list]
             /\ IF has THEN job' = [job EXCEPT !.at = "send"] /\ UNCHANGED result
                ELSE job' = NoJob /\ result' = [result EXCEPT ![job.e] = "refused"]
  /\ UNCHANGED <<flag, Surroundings, queue, bridged, stored, phone, Tracking, retracted,
                 excused>>

\* (mutant) send_message leaves the question to the caller
PermittedAsAsked(ok, list, failed) ==
  ok = (job.sms \/ contactOn) /\ list = memo.listed /\ ~failed

\* send_message, send_attachment: a text message needs a relay the native side knows of
\* (NoSmsRelay), an iMessage keys of the contact (NoValidTargets); neither becomes the other.
Permitted(ok, list, failed) ==
  IF job.sms THEN HasSmsRelay(ok, list, failed)
  ELSE ok = contactOn /\ list = memo.listed /\ ~failed

\* What becomes of a piece Apple accepts: a text message no device relays is discarded.
Carried == IF ~job.sms THEN "imessage" ELSE IF relayOn THEN "sms" ELSE "none"
Count == IF job.kind = "text" THEN 1 ELSE 2

\* SendMessage or SendAttachment of the next piece.  A send that ends in SendTimedOut after
\* its retries may have landed all the same; only the first piece's failure is told.
SendPiece ==
  /\ job.at = "send"
  /\ LET p == <<job.e, job.i>> IN
     \E ok, failed, timedOut, landed \in BOOLEAN, list \in Answers :
       /\ Permitted(ok, list, failed)
       /\ timedOut => ok
       /\ landed => ok /\ Carried # "none"
       /\ ok /\ ~timedOut => landed = (Carried # "none")
       /\ Told(failed \/ timedOut)
       /\ memo' = [memo EXCEPT !.listed = list]
       /\ phone' = IF landed THEN [phone EXCEPT ![p] = Carried] ELSE phone
       /\ IF ok /\ ~timedOut
          THEN job' = [job EXCEPT !.at = "record", !.sent = @ \cup {p}] /\ UNCHANGED result
          ELSE IF job.i = 1 THEN job' = NoJob /\ result' = [result EXCEPT ![job.e] = "refused"]
          ELSE job' = [job EXCEPT !.at = "save"] /\ UNCHANGED result
       \* a relay went away while the native side still has it listed
       /\ excused' = IF ok /\ job.sms /\ relayed /\ ~relayOn
                     THEN excused \cup {<<p, "stale">>} ELSE excused
  /\ UNCHANGED <<flag, Surroundings, queue, bridged, stored, Tracking, retracted>>

\* persistMessageUUID; a caption is also shown as an event of its own by the double puppet.
Record ==
  /\ job.at = "record"
  /\ stored' = [stored EXCEPT ![<<job.e, job.i>>] = IF @ = "none" THEN "live" ELSE @]
  /\ \E puppet \in (IF job.kind = "captioned" /\ job.i = 2 THEN BOOLEAN ELSE {FALSE}) :
       /\ job' = [job EXCEPT !.at = IF job.kind = "long" /\ job.i = 2 THEN "hide"
                                   ELSE IF job.i = Count THEN "save" ELSE "send",
                             !.i = IF job.i = Count THEN @ ELSE @ + 1, !.puppet = puppet]
       /\ excused' = IF puppet THEN excused \cup {<<job.e, "apart">>} ELSE excused
  /\ UNCHANGED <<flag, Surroundings, memo, queue, bridged, phone, Tracking, result,
                 retracted, sendFaults>>

\* softDeleteMessageByGUID of a continuation, whose failure is only logged
Hide ==
  /\ job.at = "hide" /\ job' = [job EXCEPT !.at = "save"]
  /\ \/ stored' = [stored EXCEPT ![<<job.e, 2>>] = "dead"] /\ UNCHANGED sendFaults
     \/ SendFault /\ UNCHANGED stored
  /\ UNCHANGED <<flag, Surroundings, memo, queue, bridged, phone, Tracking, result,
                 retracted, excused>>

\* The rows bridgev2 keeps for the answer: continuations and the sibling are metadata.
Metadata ==
  LET e == job.e
      a == <<e, 1>>
      b == <<e, 2>>
      main == <<e, "main">>
      both == b \in job.sent
  IN CASE job.kind = "captioned" /\ both /\ job.puppet ->
            {Row(main, a, {}, <<>>), Row(<<e, "caption">>, b, {}, <<>>)}
       [] job.kind = "captioned" /\ both /\ ~job.puppet -> {Row(main, b, {a}, <<>>)}
       [] OTHER -> {Row(main, a, {}, IF both THEN <<b>> ELSE <<>>)}

\* bridgev2 saves the answer's row; PostSave's insert for the caption may fail.
SaveRows ==
  /\ job.at = "save"
  /\ \/ bridged' = bridged \cup Metadata /\ UNCHANGED sendFaults
     \/ bridged' = bridged \cup {w \in Metadata : w.ev[2] = "main"} /\ job.puppet /\ SendFault
  /\ result' = [result EXCEPT ![job.e] = "sent"]
  /\ job' = NoJob
  /\ UNCHANGED <<flag, Surroundings, memo, queue, stored, phone, Tracking, retracted,
                 excused>>

----------------------------------------------------------------------------
(* HandleMatrixMessageRemove *)

\* (mutant) only the message the row is named for
UnsendPrimary(w) == <<w.id>>

\* The sibling first, the continuations from the last one on, the primary at the end.
UnsendOrder(w) == SetToSeq(w.sibling) \o Reverse(w.conts) \o <<w.id>>

\* The user redacts one of their events; a carrier chat cannot retract.
Redact(w) ==
  /\ job = NoJob /\ w \in bridged /\ w.ev \in UserMessages \X {"main", "caption"}
  /\ result[w.ev] = "none"
  /\ IF flag THEN result' = [result EXCEPT ![w.ev] = "refused"] /\ UNCHANGED job
     ELSE job' = [at |-> "unsend", ev |-> w.ev, id |-> w.id, left |-> UnsendOrder(w), bad |-> FALSE]
          /\ UNCHANGED result
  /\ UNCHANGED <<flag, Surroundings, memo, queue, bridged, stored, phone, Tracking,
                 retracted, excused, sendFaults>>

\* trackOutboundUnsend, SendUnsend, softDeleteMessageByGUID of the next piece.  A device
\* that holds the piece as a text message keeps it; an unsend that timed out may have been
\* carried out.  The primary's row is scrubbed even when its unsend failed; that failure and
\* a failed scrub are told, the failed unsend of another piece is only logged.
Unsend ==
  /\ job.at = "unsend" /\ job.left # <<>>
  /\ LET p == Head(job.left) IN
     /\ ownUnsends' = ownUnsends \cup {p}
     /\ \E sent, landed, scrubbed \in BOOLEAN :
          /\ (sent => landed) /\ (landed => contactOn)
          /\ Told(~scrubbed \/ (contactOn /\ ~sent))
          /\ sent \/ p = job.id \/ scrubbed
          /\ phone' = [phone EXCEPT ![p] = IF landed /\ @ = "imessage" THEN "unsent" ELSE @]
          /\ stored' = [stored EXCEPT ![p] = IF scrubbed /\ (sent \/ p = job.id) THEN "dead" ELSE @]
          /\ job' = [job EXCEPT !.left = Tail(@),
                                !.bad = @ \/ (p = job.id /\ ~sent) \/ ~scrubbed]
     /\ excused' = excused \cup {<<p, "asked">>}
  /\ UNCHANGED <<flag, Surroundings, memo, queue, bridged, unsends, echoes, result,
                 retracted>>

Removed ==
  /\ job.at = "unsend" /\ job.left = <<>>
  /\ result' = [result EXCEPT ![job.ev] = IF job.bad THEN "failed" ELSE "removed"]
  /\ job' = NoJob
  /\ UNCHANGED <<flag, Surroundings, memo, queue, bridged, stored, phone, Tracking,
                 retracted, excused, sendFaults>>

----------------------------------------------------------------------------
(* HandleMatrixReaction and HandleMatrixReactionRemove in a carrier chat *)

\* The reaction leaves as a text message, then its uuid is tracked; one whose send timed
\* out may have left untracked.
React(r) ==
  /\ job = NoJob /\ flag /\ stored[r] = "none" /\ <<r, "sent">> \notin excused
  /\ \E ok, failed, timedOut \in BOOLEAN, list \in Answers :
       /\ HasSmsRelay(ok, list, failed)
       /\ timedOut => ok
       /\ Told(failed \/ timedOut)
       /\ memo' = [memo EXCEPT !.listed = list]
       /\ job' = IF ok /\ ~timedOut THEN [at |-> "track", r |-> r] ELSE NoJob
       /\ excused' = IF ~ok THEN excused
                     ELSE excused \cup {<<r, "sent">>}
                                  \cup (IF timedOut THEN {<<r, "echo">>} ELSE {})
  /\ UNCHANGED <<flag, Surroundings, queue, bridged, stored, phone, Tracking, result,
                 retracted>>

\* trackSmsReactionEcho
Track ==
  /\ job.at = "track"
  /\ echoes' = echoes \cup {job.r}
  /\ job' = NoJob
  /\ UNCHANGED <<flag, Surroundings, memo, queue, bridged, stored, phone, unsends,
                 ownUnsends, result, retracted, excused, sendFaults>>

----------------------------------------------------------------------------
(* The APNs callbacks *)

\* handleMessage with the room open: wasUnsent, wasSmsReactionEcho, the row of the same
\* room, then updatePortalSMS, persistMessageUUID and the queue.
HandleMessage(u, sms) ==
  IF u \in unsends \/ HasRow(u) THEN UNCHANGED <<flag, queue, stored, echoes>>
  ELSE IF u \in echoes THEN echoes' = echoes \ {u} /\ UNCHANGED <<flag, queue, stored>>
  ELSE /\ flag' = sms
       /\ stored' = [stored EXCEPT ![u] = IF @ = "none" THEN "live" ELSE @]
       /\ queue' = Append(queue, [op |-> "show", id |-> u])
       /\ UNCHANGED echoes

\* A message of the contact arrives, for the first time or again.
Arrives(x, sms) ==
  /\ IF stored[x] = "none" THEN UNCHANGED world ELSE world < MaxWorld /\ world' = world + 1
  /\ HandleMessage(x, sms)
  /\ UNCHANGED <<contactOn, relayOn, relayed, memo, job, bridged, phone, unsends,
                 ownUnsends, result, retracted, excused, sendFaults>>

\* The relaying device reports the text it sent for us.
ReactionEcho(r) ==
  /\ <<r, "sent">> \in excused
  /\ world < MaxWorld /\ world' = world + 1
  /\ HandleMessage(r, TRUE)
  \* the report is early, or not the first one
  /\ excused' = IF (job.at = "track" /\ job.r = r) \/ r \in echoes
                THEN excused \cup {<<r, "echo">>} ELSE excused
  /\ UNCHANGED <<contactOn, relayOn, relayed, memo, job, bridged, phone, unsends,
                 ownUnsends, result, retracted, sendFaults>>

\* (mutant) the unsend is not remembered
HandleUnsendOnce(u) ==
  IF u \in ownUnsends
  THEN ownUnsends' = ownUnsends \ {u} /\ UNCHANGED <<unsends, stored, queue, excused, sendFaults>>
  ELSE /\ stored' = [stored EXCEPT ![u] = "dead"]
       /\ queue' = Append(queue, [op |-> "remove", id |-> u])
       /\ UNCHANGED <<unsends, ownUnsends, excused, sendFaults>>

\* handleUnsend: the echo of an own unsend is dropped; otherwise the uuid is tracked, the
\* row scrubbed and the removal queued, unless the scrub failed.
HandleUnsend(u) ==
  IF u \in ownUnsends
  THEN ownUnsends' = ownUnsends \ {u} /\ UNCHANGED <<unsends, stored, queue, excused, sendFaults>>
  ELSE /\ unsends' = unsends \cup {u}
       /\ \/ /\ stored' = [stored EXCEPT ![u] = "dead"]
             /\ queue' = Append(queue, [op |-> "remove", id |-> u])
             /\ UNCHANGED <<excused, sendFaults>>
          \/ SendFault /\ excused' = excused \cup {<<u, "scrub">>} /\ UNCHANGED <<stored, queue>>
       /\ UNCHANGED ownUnsends

\* The contact unsends a message it sent us.
Retract(x) ==
  /\ stored[x] # "none" /\ x \notin retracted
  /\ HandleUnsend(x)
  /\ retracted' = retracted \cup {x}
  /\ UNCHANGED <<flag, Surroundings, memo, job, bridged, phone, echoes, result>>

\* The user unsends a piece on another device, or the own unsend comes back.
UnsendArrives(p) ==
  /\ world < MaxWorld /\ world' = world + 1
  /\ phone[p] \in {"imessage", "unsent"} /\ p \notin unsends
  /\ phone' = [phone EXCEPT ![p] = "unsent"]
  /\ HandleUnsend(p)
  /\ UNCHANGED <<flag, contactOn, relayOn, relayed, memo, job, bridged, echoes, result,
                 retracted>>

\* The room's worker takes the next remote event: a known id is shown once, a removal
\* redacts the event and deletes its row.
Handle ==
  /\ job = NoJob /\ queue # <<>> /\ queue' = Tail(queue)
  /\ LET q == Head(queue) IN
     bridged' = IF q.op = "remove" THEN {w \in bridged : w.id # q.id}
             ELSE IF HasRow(q.id) THEN bridged ELSE bridged \cup {Row(q.id, q.id, {}, <<>>)}
  /\ UNCHANGED <<flag, Surroundings, memo, job, stored, phone, Tracking, result,
                 retracted, excused, sendFaults>>

----------------------------------------------------------------------------
(* Surroundings *)

Change ==
  /\ world < MaxWorld /\ world' = world + 1
  /\ \/ contactOn' = ~contactOn /\ UNCHANGED <<relayOn, relayed>>
     \/ relayOn' = ~relayOn /\ relayed' = (relayed \/ relayOn') /\ UNCHANGED contactOn
  /\ UNCHANGED <<flag, memo, job, queue, bridged, stored, phone, Tracking, result,
                 retracted, excused, sendFaults>>

\* What outlives the memos of the process: the IDS cache, which is kept on disk.
OnlyListed == [NoMemo EXCEPT !.listed = memo.listed]

\* An hour passes for the memos, the list of relays is outdated, five minutes pass for what
\* is tracked.
Expire ==
  /\ world < MaxWorld /\ world' = world + 1
  /\ \/ memo # OnlyListed /\ memo' = OnlyListed /\ UNCHANGED <<relayed, Tracking, excused>>
     \/ /\ memo.listed # "none" /\ memo' = [memo EXCEPT !.listed = "none"] /\ relayed' = relayOn
        /\ UNCHANGED <<Tracking, excused>>
     \/ /\ unsends \cup ownUnsends \cup echoes # {}
        /\ unsends' = {} /\ ownUnsends' = {} /\ echoes' = {}
        /\ excused' = excused \cup {<<u, "forgotten">> : u \in unsends}
                              \cup {<<r, "echo">> : r \in echoes}
        /\ UNCHANGED <<memo, relayed>>
  /\ UNCHANGED <<flag, contactOn, relayOn, job, queue, bridged, stored, phone, result,
                 retracted, sendFaults>>

\* The process dies and starts again: rows, cloud_message, the saved flag and the IDS cache
\* remain.
Crash ==
  /\ SendFault
  /\ memo' = OnlyListed /\ job' = NoJob /\ queue' = <<>>
  /\ unsends' = {} /\ ownUnsends' = {} /\ echoes' = {}
  /\ result' = IF job.at \in {"route", "relay", "send", "record", "hide", "save"}
               THEN [result EXCEPT ![job.e] = "died"]
               ELSE IF job.at = "unsend" THEN [result EXCEPT ![job.ev] = "died"] ELSE result
  /\ excused' = excused \cup {<<u, "forgotten">> : u \in Ids} \cup {<<r, "echo">> : r \in Reactions}
  /\ UNCHANGED <<flag, Surroundings, bridged, stored, phone, retracted>>

OutgoingNext ==
  \/ \E e \in UserMessages, kind \in Kinds : Begin(e, kind)
  \/ Route \/ Relay \/ SendPiece \/ Record \/ Hide \/ SaveRows
  \/ \E w \in bridged : Redact(w)
  \/ Unsend \/ Removed
  \/ \E r \in Reactions : React(r) \/ ReactionEcho(r)
  \/ Track
  \/ \E x \in Incoming : (\E sms \in BOOLEAN : Arrives(x, sms)) \/ Retract(x)
  \/ \E p \in Pieces : UnsendArrives(p)
  \/ Handle \/ Change \/ Expire \/ Crash

OutgoingSpec == OutgoingInit /\ [][OutgoingNext]_outgoingVars

----------------------------------------------------------------------------
(* Properties *)

\* The pieces a Matrix event of the user stands for, from what was sent.
PiecesOf(w) == IF <<w.ev[1], "apart">> \in excused THEN {w.id} ELSE {w.ev[1]} \X {1, 2}

\* A redaction that reports success has taken the piece its event is named for from the
\* recipient's device (as an iMessage) and from the store; what else the device still holds of
\* the event, the bridge having its uuid, Apple was asked to take back
\* (HandleMatrixMessageRemove).
EveryPieceRecalled ==
  \A w \in bridged : w.ev \in UserMessages \X {"main", "caption"} /\ result[w.ev] = "removed" =>
    /\ phone[w.id] # "imessage" /\ stored[w.id] = "dead"
    /\ \A p \in PiecesOf(w) :
         phone[p] = "imessage" /\ stored[p] # "none" => <<p, "asked">> \in excused

\* A piece of a message told as sent that Apple accepted, the first one always, reached the
\* recipient, unless it is a text message whose relaying device went away while the native
\* side still had it listed: the TRUE hasSMSRelay may have to assume sends nothing
\* (has_sms_relay, send_message).
NoSilentLoss ==
  \A e \in UserMessages : result[e] = "sent" =>
    \A p \in {e} \X {1, 2} :
      (p[2] = 1 \/ stored[p] # "none") /\ phone[p] = "none" => <<p, "stale">> \in excused

\* A message its sender took back is gone from the room once the room's queue is empty,
\* unless it came again after the unsend was forgotten or its scrub failed (handleUnsend).
UnsentStaysGone ==
  queue = <<>> =>
    \A x \in retracted : HasRow(x) => {<<x, "forgotten">>, <<x, "scrub">>} \cap excused # {}

\* The text a reaction left as is not shown as a message of its own, unless its report
\* came before the uuid was tracked, came twice, or came late, or its send timed out though
\* it landed (trackSmsReactionEcho).
ReactionSilent == \A r \in Reactions : HasRow(r) => <<r, "echo">> \in excused

\* What was taken back or already shown does not come back by an echo or a late delivery.
NothingReturns == UnsentStaysGone /\ ReactionSilent
=============================================================================
