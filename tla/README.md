# iBlue verification project

TLA+ models of the two programs of this repository: the Node service that
speaks the BlueBubbles API for one Apple account profile (`src/src`), and the
Go bridge that puts iMessage into Matrix rooms (`src/pkg/connector`). Both
drive Apple's protocols through an external Rust library. The models are
translated from the sources; TLC checks them on small instances, and TLAPS
proves the main safety properties of fourteen components for every instance.

    tlc -config MCWebhookOutbox.cfg MCWebhookOutbox.tla
    tlapm WebhookOutboxProofs.tla

## The system

### The service

One process serves one profile. Its state is one SQLite database, a session
file, a few JSON files, and what the process keeps in memory. It is
single-threaded JavaScript: what runs between two `await`s is atomic, and what
matters happens across `await`s, across commits, and across the death of the
process.

| Component | Source | State | Operations | Correct when |
|---|---|---|---|---|
| Webhook outbox | `service.ts` (dispatch, worker), `store.ts` (`webhook`, `webhook_delivery`) | rows, their attempts and retry times; worker flags, timer, open POSTs | register, delete, dispatch, drain, POST, retry, dead-letter, start, stop | per endpoint, deliveries arrive in order, none is lost, none is posted beside another; the worker never sleeps on a due row |
| Scheduled messages | `scheduler.ts`, `store.ts`, routes in `server.ts` | rows with status, due time, schedule; timers; sends in flight | create, update, delete, wake, settle, reschedule, restore, stop | a pending job has a timer; an occurrence is sent at most once, never early, and in the end; a deleted job stays deleted |
| Incoming envelopes | `service.ts` (`#handleIncoming`), `store.ts` (`incoming_event`, `message`), lease | claims with owner and completion; tasks; announced calls | claim, store, publish, complete, release, drain at stop | an envelope is handled by one task, published once per process, and suppressed only once it is done |
| Outgoing messages and receipts | `service.ts`, `store.ts` | rows, announcements, bounded buffer of early receipts, receipt rows | send, announce, apply or buffer a receipt | clients see the message before its receipts, duplicates change nothing, nothing held back is forgotten |
| RPC client, lease, lifecycle, canary, notifications, FaceTime rules and media, HTTP, store, converters | see `PROJECT.json` | | | not modelled |

A notification of the sidecar becomes a task of *incoming envelopes*; its end
calls `dispatch()`, which writes webhook rows and emits the event on Socket.IO.
`dispatch()` also ends every API send and every scheduled send. The scheduler
sends through `sendText`, an RPC with a timeout. `stop()` stops the scheduler,
closes the engine, drains the tasks, and stops the webhook worker, in this order.

### The Go bridge

One process, one `IMClient` per login. Its goroutines share maps under mutexes
and tables in SQLite: the cloud sync goroutine, one event loop per portal (a
portal is a conversation, keyed by its peer, its group UUID or its members),
the callbacks of the APNs stream, timers, a watchdog and background retriers.
The framework (bridgev2: portals, rooms, message rows, double puppet) is
external.

| Component | Source in `pkg/connector` | State | Operations | Correct when |
|---|---|---|---|---|
| CloudKit sync and backfill | `sync_controller.go`, `cloud_backfill_store.go`, `client.go` | `cloud_chat`, `cloud_message`, tokens, versions; gate, held and buffered messages, counters, list of deleted portals | page, token, tombstone, create rooms, open gate, flush, backfill, sync again, delete, restore, scrub | nothing is lost behind a token, history precedes what follows it, what was deleted stays away until it is restored, the gate opens |
| Group routing | `client.go`, `sync_controller.go` | key caches, rosters, aliases, service flags | find or make a portal key, re-key, consolidate, follow member changes | groups do not mix, replies go to people who are members, aliases lead to rooms |
| Attachments | `attachment_retrier.go`, `client.go`, `sync_controller.go` | retry rows, upload cache, failure counts, tombstones, byte budget | push, retry, edit; sweep, warm, convert | a notice is recovered or its loss has a cause; memory is bounded; failures are not retried for ever |
| Login, session, logout | `connector.go`, `login.go`, `identity_store.go`, `commands.go` | login row, backup file, keystore, clients, connections | login, restore, rebuild, save, watchdog, log out | Apple sees a new device only when it must, one connection per token, what was logged out stays out once its files are gone |
| Outgoing messages of Matrix | `client.go`, `carrier_route.go` | rows and siblings, echoes, memos of routes | send, relay, redact, unsend, react | a loss is told, a redaction asks for every part it knows, nothing comes back |
| Receipts of sent messages | `client.go`, `cloud_backfill_store.go` | handlers, rows, portal keys | read marker, delivered tick, hand over to the framework | a marker is in the room of its message; a late row still gets its tick |
| Presence | `statuskit_*.go`, `client.go`, `sync_controller.go` | last states, titles, aliases, keys, tokens, floors, subscriptions | report, resolve, title, expire, pass, subscribe | a moon ends when the focus ends; every key is subscribed to; a recovery walk misses nobody |
| Shared albums | `sharedstreams.go` | album cache, dialog, downloads | poll, announce, list, pick, download | news is told; the photo picked is the photo downloaded |
| FaceTime calls and links | `facetime.go`, `client.go`, Rust `lib.rs` | links, slots, routes from links to sessions | place, ring, share, join, rotate, revoke | a link leads to the call it was told for |
| Messages of a Mac | `chatdb.go`, `client.go` | portals of chats, pages | initial sync, merge, forward and backward pages | each message is in one room |
| Contacts, other commands, CLIs, installers, validation data | see `PROJECT.json` | | | not modelled |

How they interact. The sync writes the store and asks for rooms; the gate keeps
live messages back until the histories are in; every message is given a portal
key by group routing; attachments that fail on the way become rows for the
retrier or the next sweep; receipts look for the row that the send they belong
to has still to save. Sessions underlie all of it: a rebuilt client takes over
the connection, the row and the keys of the former one.

What is hard in both: retries that race late answers; state read before an
`await`, an unlock or a query and used after it; a wake-up or an edit lost
between two steps; a crash between two commits; two processes or two clients
beside one another; events that precede what they are about. The hazards, at
the lines where each bites and with the properties about them, are in
`PROJECT.json`.

## Modules

Each module starts with a comment that says what it models and what it leaves
to its surroundings; `PROJECT.json` maps every definition to its lines.

| Module | Models | Checked by | Proved in |
|---|---|---|---|
| `OrderedDelivery` | abstract: numbered deliveries, accepted in order, owed until accepted or given up | | `WebhookOutboxProofs` |
| `WebhookOutbox` | the outbox, its worker, the network, the receivers | `MCWebhookOutbox` | `WebhookOutboxProofs` |
| `ScheduledMessages` | the scheduler | `MCScheduledMessages` | `ServiceProofs` |
| `IncomingEvents` | incoming envelopes | `MCEvents` | `ServiceProofs` |
| `MessageReceipts` | the service's sends and their receipts | `MCEvents` | `MessageReceiptsProofs` |
| `CloudStore` | the statements of the bridge's store, as operators | in the next three | |
| `CloudSync` | the sync goroutine | `MCCloudSync` | `CloudKitProofs` |
| `LiveMessages` | what `handleMessage` decides, as an operator | in the next two | |
| `BackfillGate` | gate, backfills, delayed passes, flushes, watchdog | `MCBackfillGate` | `BackfillGateProofs` |
| `ChatLifecycle` | deletion, recycle bin, restore, scrubber | `MCChatLifecycle` | `ChatLifecycleProofs` |
| `GroupRouting` | portal keys, rosters, notices | `MCGroupRouting` | `ConnectorProofs` |
| `AttachmentRecovery` | attachments of pushed messages | `MCHistory` | `HistoryProofs` |
| `CloudAttachments` | attachments of history | `MCHistory` | `HistoryProofs` |
| `SharedAlbums` | albums, their watcher and dialog | `MCHistory` | `HistoryProofs` |
| `ChatHistory` | history from a Mac's database | `MCHistory` | `HistoryProofs` |
| `FaceTimeCalls` | calls, links, guests | `MCHistory` | `HistoryProofs` |
| `Session` | registrations, clients, login, logout | `MCConnector` | `ConnectorProofs` |
| `Outgoing` | messages, reactions and unsends of Matrix | `MCConnector` | `ConnectorProofs` |
| `BridgeReceipts` | receipts of the bridge | `MCConnector` | `ConnectorProofs` |
| `Presence` | titles with a moon | `MCPresence` | |
| `PresenceKeys` | keys, passes, subscriptions | `MCPresence` | `CloudKitProofs` |

`MCEvents`, `MCHistory`, `MCConnector` and `MCPresence` instantiate several
components that share no state. A behaviour is one of the parts, chosen at the
start; the others stay in their initial states, since interleaving independent
parts would multiply the states and show nothing new.

### WebhookOutbox

`webhook` and `outbox` are the two tables, with the rows' times kept relative
to a clock (`Tick`). `worker`, `drain`, `posting`, `wake` and `timer` are
`#webhookStarted`/`#webhookStopping`, `#webhookDrain`, the batch in flight,
`#webhookWakeRequested` and `#webhookTimer`. The pass that fetches due heads
(the `NOT EXISTS` query), posts them and waits for all of them is `DrainLoop`,
`PostSucceeds`, `PostFails`, `DrainResumes`; its `finally` block is `DrainEnds`.
A POST whose answer is lost or late leaves its request in `wire`, which
outlives time-outs, dead letters and the process. `Crash` clears the memory and
keeps the tables.

`OrderedDelivery` states what an endpoint is promised; `accepted` (first
arrivals, the receiver dropping ids it has seen, as the README of the
repository asks it to) and `abandoned` are the history the refinement maps.

### ScheduledMessages

A row is `jobs[i]`; `timers` and `sending` are the scheduler's two maps;
`Wake` is the timer callback with its reload, its early-timer and its
duplicate checks, `SendSettles` the code behind the `await` on the send.
`StartScheduler` restores: an interrupted or expired job is settled as an error, a
recurring one moves on, and an unrepresentable next date throws and leaves the
process `"half"` started, its earlier timers running. An edition numbers the
drafts, so that properties can tell what a client last stored from what is
sent; `sent` are the occurrences, by edition and due time, handed to `send()`.

### IncomingEvents

`claims` is `incoming_event`, `tasks` the promises of `#incomingTasks` with the
stage each has reached, `emitted` what was published and by whom. A process is
new, up (it holds the lease), draining (its engine is gone, its tasks are not),
down or crashed; several processes live one after the other or overlap, because
the lease goes with the engine and the tasks do not. `overlapped` remembers the
processes that were still draining when another one started.

### MessageReceipts

`stored`, `status` and `receipts` are the message row, the state Apple's
controls gave it, and `message_receipt`; `announcing` and `pending` are
`#outgoingAnnouncements` and `#pendingOutgoingControls`, whose insertion order
is `older`. A send is `Request`, `Answer` (the row is stored and the
announcement begun) and `Publish`, or fails before, between or after them. A
control that arrives is held, or enters `work`, the synchronous loop of
`#finishOutgoingAnnouncement`, whose statements are steps: `Record`, `Mark`,
`Tell`. `Throw` leaves the loop, `End` kills the process between any two of
them, and `Start` runs the backfill of the receipt table. `heard` remembers the
controls this process took responsibility for: what the limits of the buffer or
an exception drop leaves it, and nothing else may. A message of another device
of the account is followed only while it has no row.

### CloudStore, CloudSync, LiveMessages, BackfillGate, ChatLifecycle

`chat` and `msg` are `cloud_chat` and `cloud_message`. `CloudStore` has one
operator per statement, and `LiveMessages` one for the verdict of
`handleMessage` (drop, hold, queue, queue and create), so that the three state
machines read and write the store with the same words.

`CloudSync` walks the two zones page by page. `pc` is the place of
`runCloudSyncController`: rows of a page first (`MsgRead`, `MsgWrite`,
`ChatLive`, `ChatGone`), the token after them (`SaveToken`), each a statement
that may fail (`Fail`, with `MsgWriteLate` and `PassFails` as what the code
does then). `Erase`, `List`, `Create` and `Finish` are the end of a bootstrap.
Apple's feeds change, the user deletes, and the process dies between any two
steps.

`BackfillGate` has the controller's `List`, `Queue`, `OpenGate` and `Load`, its
delayed passes (`SyncAgain`, after which it lists the portals that got something
newer, `PassEnds`), the event loop of each portal (`MakeRoom`, `FetchForward`,
`CatchUp`, `Deliver`, `Callback`, `BackwardPage`, `ShowLive`), and four goroutines
that may flush (`Pick`, `Act`, `Held`). Reading the gate and acting on it are two
steps. A delayed pass leaves the counter of pending backfills alone, but the
fetches it asks for count it down like the others. So do the fetches of a
restore (client.go:850), which are not in this module: what they add is what the
delayed passes show.

`ChatLifecycle` has the four ways a chat is deleted and the four it comes back
by; each restore is a goroutine (`Undelete`, `Unscrub`, `RecoverMessages`,
`RefreshMetadata`, `RecoverOnApple`, `Fetch`, `Import`, `QueueResync`) beside
the scrubber (`StartScrub` reads a cutoff, `Scrub` erases). `deletedAt` is the
time the store keeps of a deletion. A second deletion does not move it
(cloud_backfill_store.go:2166-2169), so a message sent between two deletions
brings the chat back. A restore promises the messages of the chat but for those
that were deleted on a device before the store had a row of them: the row made
then names no portal (`Stub`), its text stays marked as erased, and when
`recoverMessagesFromRecycleBin` takes the row over it has nothing to show.

### GroupRouting

`mem` holds the caches and `db` the tables; writes made in goroutines are
`jobs`. `PortalKey` is `makePortalKey` with its look-ups by UUID, alias and
members in the order of the code, `RouteMessage` everything `handleMessage` does
about the portal, with the redirection of a text that lists nobody
(`SmsRedirect`), `ParticipantChange` the re-keying. `Consolidate` plans the
start-up merge of one group's rooms and re-keys its rows; each `MoveRoom` then
moves one room, with messages and changes in between, as
`consolidateOneCarrierGroup` holds the locks of the caches for one room at a
time. A room that an event has still to make is made under the key its portal
has by then (`Requeued`). `roster`, `ever` and `home` are what is true of the
groups: a message is at home in the portal it is put in unless it was `Guessed`,
that is, put there although neither a list of members nor its UUID names that
portal. `TypingShown`, `ReceiptShown` and `BareShown` are the rooms a notice, or
a text that lists nobody, is shown in; they are state functions, as showing a
notice changes nothing here.

### AttachmentRecovery, CloudAttachments, SharedAlbums, ChatHistory

`AttachmentRecovery`: `Push` repeats messages; `TakeMessage` and `SavePart`
bridge parts and write retry rows; `Attempt`, `Downloaded`, `Reschedule`,
`DropOrphan` and `DeliverAsEdit` are the retrier; `TakeEdit` is the event loop
applying the edit. `fate` is a history of how a notice may lose its row.
`CloudAttachments`: `StartSwept`, `StartWarmed` and `StartConverted` are the
three loops that start uploads, `jobs` the uploads under way; sizes are 32-bit
in the record (`Wrap`) as `RecoveredSize` undoes it. `SharedAlbums`: a poll is
taken album by album, the dialog keeps the list it has shown, a download is a
goroutine. `ChatHistory`: `StartSync`, `Hand`, `Waited` and
`FinishSync` are the initial sync, `FetchForward` and `FetchBackward` the pages
merged over the chats of one contact; `unread`, `uneven` and `split` name what a
failed read, pages of unequal depth, and missing contacts leave out.

### FaceTimeCalls

`links` says of each link whether it is free, in a slot, or used; `routes` is
the table from links to sessions, in memory; `calls`, `rings` and `ringing` are
the sessions, the notices and the contacts to be rung when the user joins. A
call is set up in steps (`TakeLink`, `BindCall` or `BindRing`, `Move`, `Mint`),
which other calls may interleave; `Open` to `Joined` is a guest asking to be
let in. `strays` are the links whose guest was put elsewhere than where the
notice said, `crossed` those of calls set up side by side and `past` those told
before a restart.

### Session, Outgoing, BridgeReceipts

`Session`: `row`, `backup` and `keystore` are the three memories of a
registration, `client` the `IMClient`s ever made, `login` the login flow. A
session that Apple takes no longer, or that lacks a service, is `expired`, and
`FinishLogin` registers it again with the identity it has (`Renewed`), of which
contacts hear nothing. `needless` collects the registrations of a new identity
made although a usable copy of the last one completed existed: one spent before
a passcode step that fails was saved nowhere, and is made again. `Logout` ends
the login, `ClearLocalSessionBackup` removes the files, and the process may die
in between or a login flow hold a copy: `signedOut` starts at `Logout`,
`LogoutAgain` is the branch of `fnLogout` for no login, and `escaped` names the
registrations that one of those cases has kept.
`Outgoing`: `job` is the event the portal's loop works on, through `Route`,
`Relay`, `SendPiece`, `Record`, `Hide` and `SaveRows`; `phone` is what the
contact's device holds. Whether a device relays text messages is asked twice: by
`SmsRelay` (Go, remembered for an hour) before the message, and by the native
side (`HasSmsRelay`, whose list outlives the Go memos) in `Permitted` at each
piece, which refuses a text message without a relay and never turns an iMessage
into one. A send that timed out may have landed, unrecorded. `excused` names why
an observation may differ: a relay that went away while it was listed
(`"stale"`), a piece Apple was asked to take back (`"asked"`), a memo that
expired.
`BridgeReceipts`: the read handler is one thread (`ReadArrives`, `ReadPortal`,
`ReadMark`), each delivery a goroutine (`TickArrives`, `Tick` for each of its
look-ups); `slow` are the rows saved later than all its pauses together.

### Presence, PresenceKeys

`Presence`: each report is a goroutine (`ResolveLocally`, `ResolveViaIDS`,
`StorePresence`, `SetTitle`), titles are queued and applied later, `Expire` is
the moon's time to live. `PresenceKeys`: a pass walks the zone (`BeginPass`,
`Page`, `EndPass`, `CutShort`) under the floors of its meta row;
`OnKeysReceived` arms the debounce, `Subscribe` takes the lock. `promised` are
the invitations a recovery walk set out to read.

## Runs

| Run | Question | Instance |
|---|---|---|
| `outbox` | order, at-least-once, one POST, refinement of the abstract queue; does a healthy endpoint get everything | 2 endpoints, one that may refuse, 2 deliveries, 2 attempts, 2 processes |
| `scheduler` | single sending; is every due occurrence sent while the process serves, unless edited or deleted | 2 jobs, 2 editions, a timer limit of 1, an overflowing schedule |
| `events` | two parts, see `MCEvents`: nothing suppressed before it is done, no duplicate without a crash or an overlap; order, backing and fate of early receipts | a message, a ring, an end, 2 processes; a sent message, 2 GUIDs without a row, a peer's message, a buffer of 2 by 2 |
| `cloud_sync` | is anything lost behind a token; do deleted chats get rooms; does the gate open | 2 chats of one message, one of each already in the feeds, one change, a failure of each kind, one deletion, one crash |
| `backfill_gate` | order of history, of flush and history, and does every live message arrive | 2 conversations with 1 old message each, 2 more that CloudKit has late, one of them also live, 1 delayed pass, a page of 1, one room that cannot be made |
| `chat_lifecycle` | does what is deleted stay away; is a restore complete; does it end | 1 chat, an old and a new message, one act on each side, one restart |
| `group_routing` | do groups mix, in messages that list members or are placed by their UUID, or in typing notices, receipts and texts that list nobody; aliases | an iMessage group of three with 2 UUIDs, a text group of two, a sender in both and one in the first alone, 2 messages, one membership change |
| `history` | five parts, see `MCHistory` | one message with two attachments; two stored attachments, one with a wrapped size; 2 albums of 2 photos; 4 messages over 2 numbers of a contact; 2 calls, 3 links |
| `connector` | three parts, see `MCConnector` | 3 clients of 2 registrations, one of which may expire; 1 message of up to 2 pieces, 1 answer, 1 reaction; 2 messages, 2 receipts |
| `presence` | two parts, see `MCPresence` | a contact with one alias, 2 reports at a time; 2 invitations, a live key |
| `group_service_lost` | is the service of a text group saved (it is not) | the text group alone |
| `signout_cut_short` | is what was signed out never resumed (it is, after a crash) | 2 clients, 1 registration, no faults but the death of the process |

`PROJECT.json` names the properties of each and, for every one, a change of
the code that breaks it.

Why the bounds suffice. Order needs two deliveries of one endpoint; independence
needs a second endpoint; a retry and a dead letter need two attempts; recovery
needs two processes. A job races its own earlier send with two editions and
another job's restoring with a second row; `MaxTimeout = 1` makes every longer
delay take the re-arming path, `MaxDate` below one of the schedules makes the
overflow happen. Claims concern one envelope and two processes. Receipts need
one sent message, whose fate no other message shares but through the buffer, and
two other GUIDs to overflow that. A token passes a record by one page, so two
records per zone and one change tell a record behind it from one ahead. Two
portals are the fewest for a counter that one of them keeps from zero; a page of
one makes every fetch of more take several; one delayed pass with two messages
to bring gives a room a fetch nobody counted, with something to catch up or not.
Portals are deleted and restored independently, so one is enough, with a message
on each side of the deletion. Two groups and three people are the smallest in
which one group's members are part of the other's. The byte budget is exceeded
by two attachments. Pages of two numbers end apart with three messages besides
the one the room starts from. A link is reused once a second call needs one and
a third link is free to be minted. A stranded invitation needs one before the
token and one behind it. The failures, crashes and changes of each model are
capped by constants named `Max...`, `Changes`, `Crashes`, `Deletes`, `Restarts`,
`CallFaults`, `SqlFaults` or `Failures`; one or two of each is what the property
needs to be hit between any two steps. The proofs cover the values TLC cannot
reach.

Deadlock checking is off: every model has bounds at which its surroundings stop.

Fairness. In `outbox` and `scheduler`: timers fire, promises settle (a POST has
`AbortSignal.timeout`, an RPC its 120 s limit), a stopping process goes on, the
clock advances, and the endpoint named healthy answers; nothing is assumed of
clients, crashes, or the other endpoint. Time is never urgent, so a timer may be
late by any amount. In the bridge, goroutines go on: the controller
(`WF_vars(Controller)`), each event loop, flusher and the watchdog, the restore
pipelines, the report handlers and the moon's timer. Apple, the user, failures
and restarts are never fair; `GateOpens` holds because the failures are finite
in number, as the code's own limit on consecutive errors (`MaxErrors`) makes
them for it.

## Proofs

Every theorem is checked by TLAPS with no assumption but the named ones on the
constants, which TLC also evaluates: `OutboxAssumption`, `SchedulerAssumption`,
`IncomingAssumption`, `ReceiptAssumption`, `StoreAssumption`, `SyncAssumption`,
`GateAssumption`, `LifecycleAssumption`, `PresenceAssumption`,
`SessionAssumption`, `OutgoingAssumption`, `ReceiptsAssumption`,
`IndicesAssumption`, `BoundsAssumption`, `SizesAssumption`, `LimitsAssumption`,
`AlbumsAssumption`, `ChatsAssumption`, `TimesAssumption`, `CallsAssumption` and
`RoutingAssumption`. They say that bounds are natural numbers, that sorts of
model values are disjoint (a message is not a piece of another, `"none"` is no
chat), that no two messages have one time stamp, that the UUIDs clients made up
for one group are of no other group, and what sets are finite. Five theorems
have a hypothesis of their own. The flush waits for the history if the first
backfill is not capped (`Unlimited`: a cap leaves older history out of the rooms
by intent). Deleted chats get no room if every record with the UUID of a group
has the group's portal (`OwnAliases`). That is so unless a portal was given
another id by hand: deleting such a chat by its UUID also erases rows of the
other portal, whose deletion nobody has put on the list. Deleted chats stay gone
if every conversation has a record in iCloud (`Recorded`): the row of that
record is what the next process knows of a deletion. That a restored chat is
shown in full is proved from both, as a deletion by UUID may erase what a
restore of another portal has just fetched. The byte budget bounds the memory of
the uploads if the limit on sizes is at most 4 GiB (`Limit <= Wrap`): CloudKit's
sizes are told modulo 2^32, so above it the size gate cannot see that a file is
larger than it was told.

* **Outbox.** `OutboxInv` is inductive with types: ids are unique and issued
  (`Numbered`); without them "the head of the queue" would not be one row. Then
  only the head of a queue is ever posted, so a request in `wire` is older than
  everything its endpoint is still owed (`NoOvertaking`). The refinement maps
  `pending` to the live rows and steps to `OrderedDelivery`'s; first arrivals in
  order and nothing lost follow from the abstract invariant. `WorkerWoken` needs
  its own strengthening: a drain in progress or a wake request stands for the
  timer that is not armed.
* **Scheduler.** `SchedulerInv` adds `Bookkept` to the properties: rows are
  numbered, editions are unique, and what was sent was due. At-most-once sending
  is an action property: a pending row's occurrence is not in `sent`
  (`PendingIsUnsent`), and only pending rows are sent. That a pending job has a
  timer (`PendingIsArmed`) and a deleted one stays deleted are proved with it.
* **Incoming.** `IncomingInv` adds who holds the lease (`LeaseInv`), that a task
  owns its claim unless its process was overlapped (`TaskInv`), what each stage
  has done (`StageInv`), and that who published and neither crashed nor was
  overlapped still holds the claim (`PublisherInv`). A second publisher would
  have had to take that claim, which only a dead or overlapped owner permits.
* **Receipts of the service.** `ReceiptsInv` says what is true in the middle of
  the loop: none of its controls is of a message being announced, and the phase
  tells what is done for the first of them (`LoopInv`); what a send's state says
  of the row, the announcement and the publication (`SendInv`); that there are
  no controls of a message before it is sent (`IdleInv`); that no more was told
  than the row reached, the change about to be told included (`CountInv`); and
  that a control still answered for is held, in the loop, or shown (`HeardInv`),
  which must be stated from the moment of the request, before there is a row, to
  be preserved by `Answer`.
* **Receipts of the bridge.** A handler keeps what it has found across steps in
  which the group's portal key may change. The proof rests on one observation: a
  room outlives the key of its portal (`RoomName`), so what a handler remembers
  is stated of the room, not of the key (`ReadInv`, `TickInv`). With the history
  having its rows from the beginning (`HistoryInv`), every marker is in the room
  of its message, and a tick is given up for want of a row only when that row
  was slower than all pauses.
* **Presence keys.** `Shape` gives numbers and a pass that is off nothing found.
  `KeysReached` is then inductive: a key is subscribed to, or the timer of the
  newest generation, a call that waits, the call that runs, or the pass that
  found it still owes its subscription. For `NoneStranded`, `WalkInv` relates
  the token to the place of the pass and says a recovery walk holds all the
  promised invitations it has passed, before it is counted and after.

* **Cloud sync.** `SyncShape` is the types of the tables; `PlaceInv` says for
  each place of `runCloudSyncController` which page, token and lists are in
  hand. `ReadInv` then states `MessagesKept` of the token in memory as well as
  of the saved one (`Behind`): a page in hand starts where the token is, and a
  record behind it is in the store, gone, superseded, or forgotten on purpose. A
  token is saved only at a place where the rows of its page are written, so no
  crash and no failed statement gets between the two. `ListedInv` is the same
  for the list of deleted portals: one whose chats are all deleted is on it
  unless a statement failed, or it is the portal being worked on.
  `NoRoomForDeleted` follows, outside the window its definition names.
* **Backfill gate.** What a room shows is in order and what was fetched for it
  is newer (`RoomInv`), since a backward page waits until the room shows
  something, or until the forward backfill is done and the room is empty because
  there is no history; this holds through the delayed passes as well.
  `FlushWaitsForHistory` is said of the time before the first of them, and needs
  to know where events come from: before the gate opens only the bootstrap's own
  event makes a room, it is the first of its portal (`EventInv`), and no
  goroutine that flushes has read anything else (`FreshInv`). So each portal
  with history is counted once, down once, and the counter is the number of
  those that still wait (`CountInv`).
* **Deleted chats.** `DeletionsStand`: from its deletion on the rows of a chat stay
  deleted, one of them is as young as the deletion (`Dated`), the list of deleted
  portals holds the chat, no override is set, and no restore has gone past its
  first step. Each of these closes one way back. The rows and their time let
  `handleMessage` tell a replay from a message that is newer
  (`OnlyNewer`, from what `DeletedTail` computes); the list keeps
  `CreatePortals` away, and is rebuilt from the rows by a restart; the start's
  look at the recycle bin finds neither a live row nor an override to go by. That
  tables keep one portal per row (`Shape`) makes the steps of one chat leave the
  others alone, though a deletion may erase rows of a second portal.
  `RestoredInFull` needs what is `Due` of a promised message at each stage of the
  restore, up to its row being live, from CloudKit, and with its text when the
  room is asked for. It is said only while the room is not there or about to go
  (`Gone`): messages in a room may be scrubbed. What keeps the scrubber away in
  between is `YoungInv`: a scrub that is under way when a room is being removed
  began before the deletion did, so rows that are live after the deletion were
  written since its cutoff.
* **Session.** The session of the row, of `session.json`, of a login flow and
  of the client in use are the last registration's, and their keys are in the
  keystore (`RememberedInv`, `LoginInv`, `CurrentInv`), but for one that a start
  has loaded and not yet connected: a restart may find a row whose keys are
  lost, and until `Connect` has looked nobody knows. A registration is made only
  when no source has such a session, so none is needless. Open connections that
  belong to no login flow are the one in use (`OpenInv`); what was saved last is
  what the row has (`SavedInv`); a registration signed out is in none of the
  places once the files are gone (`SignedOutInv`): between `Logout` and
  `ClearLocalSessionBackup` the file may have it, or a login that picked it up
  before, and what a crash, a failed removal or such a login keeps is `escaped`.
  A session that expires keeps its registration, so all this survives a renewal.
* **Outgoing.** A message is sent by one job, once. `UnsentInv` says nothing of
  it is out before; `StageInv` says for each stage which pieces are out, that one
  that was accepted and reached nobody is `Known` to have had a relay that went
  away, and that a second piece that timed out is `Loose`: on the device,
  perhaps, but of no uuid the bridge has. That a relay went away is what
  `ListedInv` says of the native list: what it has listed did relay since it was
  looked up, so a text message that is permitted and not carried met a change.
  `RowsInv` says that the row of an event names the pieces that went out, and
  `UnsendInv` that a piece of the event being redacted is taken back or was asked
  for (`Clear`), is still to come, or spoils the answer. The order of the unsends
  (`UnsendOrder`) is shown to hold every piece of the row, the one the event is
  named for last, whose failure is the only one that is told. Beside it,
  `GoneInv` says that a message taken back is remembered and that in the queue
  its removal comes after every showing of it, and `EchoInv` that a reaction sent
  as a text is tracked until its report.
* **Attachments.** `RowsInv` says that a row of the retrier has its part's place
  and counts the attempts made for it; `NoticeInv`
  that every notice in the room or on its way is backed by a row, an edit that
  is queued, or a recorded fate of its part. For the sweeps, the downloads of an
  attachment are at most its recorded failures and one in flight, as long as it
  is not in the cache, and one that a sweep may still take has failed less often
  than `MaxRetries`.
* **Albums.** What the dialog shows and what the watcher has told are related
  to the recorded summary: news is in the notice being sent or told
  already, and the room of an album stays that album's.
* **History of a Mac.** What a room lacks is older than everything it shows as
  long as its backward pages go on, so a page that comes back full leaves
  nothing behind it, and one that is not full ends the history; a
  contact whose chats were not split has one room, or one entry in the sync
  under way.
* **FaceTime.** A slot, a used link and a route agree on the session a link
  leads to; a guest who was let in met the call of the notice, or the notice's
  call is among those set up side by side or before a restart.

* **Group routing.** That two given groups without a common member list never
  meet is not inductive, and is false of three: two groups come to share a room
  through a third that had the members of both, one after the other. `NoMixing`
  is therefore said of sets `K` of groups: if no group of `K` ever had the
  members of one outside it, they share no room. For each such `K` the portals
  split in two: those named by a UUID of `K` or by a member list a group of `K`
  had, and the others (`OwnPortals`). `RoutingInv` says that whatever leads to a
  portal keeps to its side. A UUID of `K` or a list of `K`, in a cache, an
  alias, a row, the portals' metadata or a write still under way, leads to a
  portal of `K`, and what a group of `K` sent, with its members or under its
  UUID, is in such portals (`CachesKept`, `StoreKept`, `WritesKept`,
  `HomesKept`); as the complement of `K` is such a set too, nothing crosses in
  the other direction. Every portal `makePortalKey` finds, by whichever of its
  look-ups, is on the side of its event (`PortalKeyKept`), and a portal is moved
  to one on its own side (`FollowedKept`, `MovedKept`, `RequeuedKept`): in
  `ParticipantChange` because the group has now both lists, in `MoveRoom`
  because the plan was made from rows with one list. A new list can only make
  fewer sets `K` count (`OneMoreRoster`). Aliases lead to rooms
  (`AliasesHaveRooms`), since an alias is made only of a room that was found,
  and is redirected when that room moves. `NoticesStay` follows from
  `SendersInv`: the group last written to by somebody (`SendersKept`) is a
  portal of a side that had them as a member, and the index by member holds keys
  with that member in them; a look-up by UUID stays on the side of the notice,
  so a notice that crosses came by its sender. A text that lists nobody is put
  by its UUID, which is covered by the same look-ups, or by its sender, which
  makes it a notice in this sense; in which groups' rooms such texts end up is
  all `NoticesStay` says of them.
* **Byte budget.** A sum is the number of its units (`Units`): what is taken of
  the budget is a set of pairs of an upload and a unit of its weight, so that the
  lemmas on cardinalities say what a start adds, an end frees, and a download
  that became an upload keeps, without an induction over the uploads.
  `BudgetInv` is that this number fits the budget. With two uploads neither
  weighs all of it, so both sizes are known, and then what was read is no more
  than the weight: a size told short is short by a whole 2^32, and the limit has
  refused it (`ReadFitsWeight`).

Several theorems prove properties that were model-checked on the way and are
not in a run of their own (`PROJECT.json` lists these without a property).

Model-checked only. All liveness (`HealthyReceiverGetsAll`, `DueIsSent`,
`GateOpens`, `LiveShown`, `RestoreArrives`, `MoonHeals`), because fairness and
`ENABLED` are out of the provers' reach.
`Presence` has no safety property in a run, its correctness being that a moon
heals. `QueuedIsSettled` and `StopCompletes` (outbox) and `BufferBounded`
(receipts) are stated and hold on the instances of their modules, but are in no
run.

`NoticesStay` says less of typing notices and receipts than one would like,
which is `ShownAmongMembers`: in a room of a group their sender was a member of.
That is not so for two groups, one on iMessage and one on SMS, of the same two
members, after a change of the first to two others, when all three people write
and `MaxChanges` is 2: a goroutine of `makePortalKey` saves the UUID of the
first group in the metadata of a portal whose key the first group has left and
the consolidation has given to the second, and a restart reads it back; a notice
with that UUID from the new member, who is not in the second group, is then
shown there. Nothing in the repository promises otherwise. The same instance
shows that `findGroupPortalForMember` may name a key without a room, since
`reIDPortalWithCacheUpdate` indexes the key also for a room that has moved
elsewhere since the consolidation was planned; bridgev2 drops such a notice.

## Where the code does not do what it says

Two are runs. `group_service_lost`: the first message of a text message group
sets its service in memory before the portal exists, later ones change nothing,
and nothing is ever saved, although client.go:3176 says "Persist IsSms change to
DB immediately so it survives a crash." `signout_cut_short`: `fnLogout` removes
the login first and `session.json` after it (commands.go:502, 509); a process
that dies in between takes the file, at its next start, for what is left of a
lost database, and signs in again. The comment says the removal is there "so a
re-login can't silently resume the identity that was just signed out"
(commands.go:423-425).

The following properties are stated in the modules and violated; listing one in
the configuration of its MC module gives the counterexample, on its instance or
the one named.

| Property | What happens | What the repository says |
|---|---|---|
| `ScheduledMessages!NoObsoleteJob` | a completion writes back the row read before the send, over an edit made meanwhile; a recurring job goes on with the obsolete text (scheduler.ts:140) | "an update/delete cannot fire an obsolete job" (scheduler.ts:24-25) |
| `ScheduledMessages!RestartCompletes` | a large interval makes the next date unrepresentable, and every restart fails while the row exists (scheduler.ts:170) | "One-time and recurring jobs survive restart" (docs/bluebubbles-compatibility.md:57) |
| `IncomingEvents!EmittedOnce` | publication and completion are two commits; a crash in between publishes the envelope twice (service.ts:1631) | "keeps webhooks and Socket.IO events idempotent across process restarts" (store.ts:735-736) |
| `IncomingEvents!RingReported` | a ring is marked announced before the engine is asked; when that request fails, the replayed ring is completed and never published (service.ts:1645) | "Do not permanently suppress a replay when ... queueing failed before the event was completed" (service.ts:1634-1635) |
| `MessageReceipts!AnnouncedFirst` | when storing the files of a sent message fails, its row stays, and its receipts are published without the message (service.ts:1099) | "Clients always see the outgoing event before its delivery/read/error transition" (docs/outbound-wire-audit.md:75-76) |
| `CloudSync!UserDeleteKept` | a restart loads every deleted portal as a tombstone, also those the user deleted, and a live CloudKit record then brings it back (sync_controller.go:2991) | "soft-deleted (Beeper-deleted) chats stay deleted through CloudKit re-sync" (sync_controller.go:2973) |
| `BackfillGate!FlushAfterBackfills` | a delayed pass asks for a portal again whose first backfill is over, while another's is not: the catch-up, which nobody counted up, counts down, and the buffer is flushed without the other's history (sync_controller.go:2148-2192, client.go:7969-7975); a restore's fetches do the same (client.go:850) | "once all forward backfills are complete" (sync_controller.go:104-111) |
| `BackfillGate!NoneHeldBack` (without `Late` messages and delayed passes, `l1` in the `History`, `l2` in `p2`, `Earlier` the set of `{h1}` alone) | the counter of backfills reaches zero while portals are still being queued; a replayed message reads the closed gate, the gate opens, the held list is flushed, and the message is held after that for good (client.go:3340) | "Flushed by setCloudSyncDone with CreatePortal=true" (client.go:557-561) |
| `ChatLifecycle!DeletedNotBridged` | a message deleted on a device is shown when a copy of it is still on its way to a room that exists (client.go:4445) | the row is written because otherwise "the message would later bridge to Matrix with the body Apple has already deleted" (client.go:4431) |
| `MCPresence!LinkedIsHeard` | the mapping is written while the room is looked up, and what was stored before is read after that; the batch finds its own mapping, takes it for an old one, and leaves the cached state of the alias | "so the next update for this handle is treated as a fresh first-sighting" (statuskit_alias_resolver.go:717) |
| `BridgeReceipts!RealtimeGoesThrough` | the sync brings the CloudKit record of a message the user has just sent, and its read receipt is taken for one of history | "real-time messages whose ghost receipts should go through" (cloud_backfill_store.go:3559) |
| `MCHistory!CompleteHistory` | each chat of the contact gives a page of its own, and the next page starts before the oldest message of them all: what lies between the end of one chat's page and that message is never asked for | "merged DM portals get complete history" (chatdb.go:139) |
| `MCHistory!NoticesKept` | a restart forgets which call a link was told for, and two calls set up side by side take one link | "Tapping this link will ring ..." (client.go:4246) |

These are read off the models' actions; the properties leave them out, as no
property that forbade them would hold.

| Where | What happens | What the repository says |
|---|---|---|
| `Outgoing!Unsend` | the unsend of a sibling or a continuation fails: it is logged, and the redaction is told as done while that piece stays on the device (client.go:6756-6759, 6776-6779). `EveryPieceRecalled` promises of such a piece only that Apple was asked | "otherwise Matrix would show the message deleted while the tail stayed on the recipient's device" (client.go:6272-6274) |
| `Outgoing!SendPiece` | a continuation whose send timed out after its retries has landed, and its uuid is not recorded (lib.rs:12888-12895, client.go:6277-6284) | "Every UUID that does land is recorded" (client.go:6272-6274) |
| `Outgoing!HasSmsRelay` | the native answer is no when its lookup fails (lib.rs:15292-15356), and Go remembers that no for an hour; only a panic of the call itself gives TRUE. A message is then refused that a relay would have carried | "Errs toward true on every failure" (carrier_route.go:325-327) |
| `Outgoing!Permitted` | an iMessage to nobody's keys is an error; nothing sends it as a text (lib.rs:12873-12932) | "rustpush retried an unreachable iMessage as SMS" (client.go:6250-6253) |
| `GroupRouting!SmsRedirect` | a text that lists nobody goes to the one group its sender is indexed in, which may be another group than it was sent in, when that one has no room yet: it is then shown to people who are not in its group | "Only redirect DM->group when there is unambiguous evidence" (client.go:3136-3140) |
| `GroupRouting!SyncJobs` | the roster of each event is written by a goroutine of its own: of two events of one group the older may be written last, and replies go to the members of before (client.go:11101, 11335-11366) | "Refresh the persisted roster for a gid: portal immediately on an explicit membership change" (client.go:3752) |
| `Session!FinishLogin` | a login that reuses a session registers again when the certificates have run out, a service is missing, or its data changed (lib.rs:7050-7122), though with the identity it has | "avoids calling register() which triggers notifications" (login.go:594-595) |
| `SharedAlbums!PollFails` | the summary is recorded before the notice is sent (sharedstreams.go:903): what a failing or interrupted poll recorded is never told, and `AlbumsRight` leaves it out | "posts a management-room notice for each batch of changed albums" (sharedstreams.go:875-876) |

A Mac's history has one more such place, of which the repository says nothing: a
live message that makes a room before its contact's chats are merged
(client.go:12988), contacts that are missing, or a sync that stops leave a
contact with two rooms whose pages overlap. `EachMessageOnce` leaves these
contacts out (`split`).

## Bounds of the models, and what is not modelled

Within the modelled parts:

* Service: payload contents, error texts, realtime (Socket.IO) listeners that
  throw, and SQLite writes that fail are left out, but for the loop of
  `MessageReceipts`; receipt events, the times receipts report, edits and
  unsends are left out of `MessageReceipts`, and a snapshot that a handled
  envelope asks for out of `IncomingEvents`.
* Sync: a page is one record; the conversion of rows, group photos, the cleanup
  of old rows and housekeeping are left out.
* `GroupRouting`: rosters of two or more besides the user, one other handle of
  the user, group names left out; re-keying a portal is the framework's and
  atomic.
* Attachments: taking bytes of the budget is one step; messages with several
  attachments and the video of Live Photos are left out; readings of the clock
  are "due" and "old".
* `Session`: checking and writing in `persistState` are one step, a client saves
  once at a time; a renewal at Apple succeeds; one user with one login; the
  legacy identity file and the preferred handle of the configuration are left
  out.
* `Outgoing` and `BridgeReceipts`: one direct room, and a direct and a group
  room; edits, tapbacks and typing keep no state; Go's memos of a route expire
  together, the native list of relays apart; a message leaves as two pieces at
  most; the guess of a receipt's portal is any.
* `Presence`: memory and table hold the same state and are one variable; the
  user's own status, names and avatars are left out; floors are steps of a
  scale. The sweep over status invitations is disabled by a constant in the
  code and is left out.
* `SharedAlbums`, `ChatHistory`: photos are ordered by date, times are distinct,
  the initial sync is not limited in number.
* `FaceTimeCalls`: one handle of the account; getting the link of a usage is
  one step of the external library; one guest at a time; the dialogs that drive
  a session by its id and the media of a call are left out.

Not modelled, each with its reason in `PROJECT.json`: the RPC client with the
profile lease, the service's start and stop as a whole, the IDS canary, the
notification rules, the FaceTime rules and media gateway of the service, the
lookup guard (Rust); they are self-contained, and next in line. The HTTP layer,
the store's plain queries, payload converters, generated bindings, contacts,
commands without state, command-line tools, installers, validation data and
vendored patches have no protocol state of this repository.
