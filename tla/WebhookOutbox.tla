--------------------------- MODULE WebhookOutbox ---------------------------
(***************************************************************************)
(* The durable webhook outbox of a profile: the tables webhook and         *)
(* webhook_delivery (src/src/bluebubbles/store.ts), the dispatcher that    *)
(* fills them and the retrying worker that drains them                     *)
(* (src/src/bluebubbles/service.ts), the network and the receivers, and    *)
(* the process that can be stopped or killed at any point.                 *)
(*                                                                         *)
(* Abstractions.  UNIQUE(url) and ON DELETE CASCADE make a delivery's      *)
(* webhook_id and its url name the same subscription, so rows carry the    *)
(* url.  next_attempt_at and the timer's target are kept relative to now:  *)
(* "wait" is the time left, and Tick is the clock.  The payload is left    *)
(* out: a delivery is its id.  Everything between two awaits of the        *)
(* JavaScript code is one action.                                          *)
(***************************************************************************)
EXTENDS Integers, Sequences, FiniteSets

CONSTANTS
  Url,               \* endpoints that may be registered
  EventName,         \* event types the service dispatches
  Subscriptions,     \* the event lists clients register
  RetryDelays,       \* #webhookRetryDelaysMs, a nonempty sequence
  MaxAttempts,       \* #webhookMaxAttempts
  BatchLimit,        \* deliveries fetched per pass (8 in the code)
  Healthy,           \* endpoints that answer every POST they get
  MaxDeliveries, MaxRegistrations, MaxRuns   \* bounds of a TLC run

ASSUME OutboxAssumption ==
  /\ IsFiniteSet(Url)
  /\ RetryDelays \in Seq(Nat) /\ Len(RetryDelays) > 0
  /\ MaxAttempts \in Nat \ {0}
  /\ BatchLimit \in Nat \ {0}
  /\ Healthy \subseteq Url

VARIABLES
  (* durable *)
  webhook,        \* [id, events] of the row with this url; id 0: no such row
  lastWebhook,    \* sqlite_sequence of webhook
  outbox,         \* rows of webhook_delivery
  lastDelivery,   \* sqlite_sequence of webhook_delivery
  (* the process *)
  worker,         \* "down", "starting", "on" or "stopping"
  drain,          \* #webhookDrain: "idle", "posting" or "ending"
  posting,        \* the deliveries of the pass whose POST has not settled
  wake,           \* #webhookWakeRequested
  timer,          \* #webhookTimer: time left, or NoTimer
  runs,           \* how many times the process was started
  (* outside the process *)
  wire,           \* POST requests a receiver may still process
  accepted,       \* accepted[u]: delivery ids u has processed, in order
  abandoned       \* abandoned[u]: delivery ids exhausted or cancelled

stored == <<webhook, lastWebhook, outbox, lastDelivery>>
volatile == <<drain, posting, wake, timer>>
outside == <<wire, accepted, abandoned>>
vars == <<stored, volatile, worker, runs, outside>>

NoTimer == -1

Row == [id : Nat \ {0}, url : Url, attempts : Nat, wait : Nat, failed : BOOLEAN]
Request == [id : Nat \ {0}, url : Url]
Post == [id : Nat \ {0}, url : Url, attempts : Nat]

TypeOK ==
  /\ webhook \in [Url -> [id : Nat, events : Subscriptions \cup {{}}]]
  /\ lastWebhook \in Nat /\ lastDelivery \in Nat /\ runs \in Nat
  /\ outbox \subseteq Row
  /\ worker \in {"down", "starting", "on", "stopping"}
  /\ drain \in {"idle", "posting", "ending"}
  /\ posting \subseteq Post
  /\ wake \in BOOLEAN
  /\ timer \in Nat \cup {NoTimer}
  /\ wire \subseteq Request
  /\ accepted \in [Url -> Seq(Nat)]
  /\ abandoned \in [Url -> SUBSET Nat]

NotRegistered == [id |-> 0, events |-> {}]

Init ==
  /\ webhook = [u \in Url |-> NotRegistered]
  /\ lastWebhook = 0 /\ lastDelivery = 0 /\ runs = 0
  /\ outbox = {}
  /\ worker = "down"
  /\ drain = "idle" /\ posting = {} /\ wake = FALSE /\ timer = NoTimer
  /\ wire = {}
  /\ accepted = [u \in Url |-> <<>>]
  /\ abandoned = [u \in Url |-> {}]

-----------------------------------------------------------------------------
(* The queries of the store.                                               *)

Live == {r \in outbox : ~r.failed}

(* No earlier live row for the same webhook: the head of its queue. *)
Heads == {r \in Live : \A e \in Live : e.url = r.url => r.id <= e.id}

DueWebhookDeliveries ==
  LET due == {r \in Heads : r.wait = 0}
  IN  {r \in due : Cardinality({e \in due : e.id < r.id}) < BatchLimit}

IsHead(x) == \E r \in Heads : r.id = x.id /\ r.url = x.url
LiveIds(u) == {r.id : r \in {x \in Live : x.url = u}}
AcceptedIds(u) == {accepted[u][i] : i \in DOMAIN accepted[u]}

-----------------------------------------------------------------------------
(* Scheduling the worker.                                                  *)

(* A timer that is due no later is kept, any other one is replaced. *)
ArmTimer(delay) ==
  timer' = IF timer # NoTimer /\ timer <= delay THEN timer ELSE delay

ScheduleWebhookDrain(delay) ==
  \/ /\ worker # "on"
     /\ UNCHANGED <<timer, wake>>
  \/ /\ worker = "on" /\ drain # "idle"
     /\ wake' = TRUE
     /\ UNCHANGED timer
  \/ /\ worker = "on" /\ drain = "idle"
     /\ ArmTimer(delay)
     /\ UNCHANGED wake

(* One turn of the drain loop: POST a batch, or leave the loop. *)
DrainLoop ==
  LET batch == DueWebhookDeliveries
  IN  \/ /\ worker = "on" /\ batch # {}
         /\ drain' = "posting"
         /\ posting' = {[id |-> r.id, url |-> r.url, attempts |-> r.attempts] : r \in batch}
         /\ wire' = wire \cup {[id |-> r.id, url |-> r.url] : r \in batch}
      \/ /\ worker # "on" \/ batch = {}
         /\ drain' = "ending"
         /\ UNCHANGED <<posting, wire>>

-----------------------------------------------------------------------------
(* Clients: registering webhooks over the API.  The API is served between   *)
(* BlueBubblesService.start and BlueBubblesServer.stop.                    *)

CreateWebhook(u, events) ==
  /\ worker = "on"
  /\ \/ /\ webhook[u].id = 0
        /\ lastWebhook < MaxRegistrations
        /\ lastWebhook' = lastWebhook + 1
        /\ webhook' = [webhook EXCEPT ![u] = [id |-> lastWebhook + 1, events |-> events]]
     \/ /\ webhook[u].id # 0
        /\ webhook' = [webhook EXCEPT ![u].events = events]
        /\ UNCHANGED lastWebhook
  /\ UNCHANGED <<outbox, lastDelivery, volatile, worker, runs, outside>>

(* Mutant: foreign keys are off, the deliveries stay. *)
DeleteWithoutCascade(u) ==
  /\ worker = "on"
  /\ webhook[u].id # 0
  /\ webhook' = [webhook EXCEPT ![u] = NotRegistered]
  /\ abandoned' = [abandoned EXCEPT ![u] = @ \cup LiveIds(u)]
  /\ UNCHANGED <<outbox, lastWebhook, lastDelivery, volatile, worker, runs, wire, accepted>>

(* ON DELETE CASCADE removes the webhook's deliveries, posted ones included. *)
DeleteWebhook(u) ==
  /\ worker = "on"
  /\ webhook[u].id # 0
  /\ webhook' = [webhook EXCEPT ![u] = NotRegistered]
  /\ outbox' = {r \in outbox : r.url # u}
  /\ abandoned' = [abandoned EXCEPT ![u] = @ \cup LiveIds(u)]
  /\ UNCHANGED <<lastWebhook, lastDelivery, volatile, worker, runs, wire, accepted>>

-----------------------------------------------------------------------------
(* The dispatcher: fan an event out to the subscribed webhooks.            *)

Subscribed(u, event) ==
  /\ webhook[u].id # 0
  /\ \/ "*" \in webhook[u].events
     \/ event \in webhook[u].events
     \/ event = "imessage-aliases-removed" /\ "imessage-alias-removed" \in webhook[u].events

(* line is the list of targets in ascending webhook id. *)
InIdOrder(line, targets) ==
  /\ \A u \in targets : \E i \in DOMAIN line : line[i] = u
  /\ \A i, j \in DOMAIN line : i < j => webhook[line[i]].id < webhook[line[j]].id

NewRow(id, u) == [id |-> id, url |-> u, attempts |-> 0, wait |-> 0, failed |-> FALSE]

(* Mutant: no AUTOINCREMENT, the next id is the largest stored one plus 1. *)
EnqueueReusingIds(line) ==
  LET last == CHOOSE n \in {0} \cup {r.id : r \in outbox} : \A r \in outbox : r.id <= n
  IN  /\ outbox' = outbox \cup {NewRow(last + i, line[i]) : i \in DOMAIN line}
      /\ lastDelivery' = last + Len(line)

(* One transaction inserts a row per target. *)
EnqueueWebhookDeliveries(line) ==
  /\ outbox' = outbox \cup {NewRow(lastDelivery + i, line[i]) : i \in DOMAIN line}
  /\ lastDelivery' = lastDelivery + Len(line)

Dispatch(event) ==
  /\ worker \in {"starting", "on"}
  /\ LET targets == {u \in Url : Subscribed(u, event)}
     IN  \E n \in 0..Cardinality(Url) : \E line \in [1..n -> targets] :
           /\ InIdOrder(line, targets)
           /\ lastDelivery + n <= MaxDeliveries
           /\ EnqueueWebhookDeliveries(line)
           /\ IF n > 0 THEN ScheduleWebhookDrain(0) ELSE UNCHANGED <<timer, wake>>
  /\ UNCHANGED <<webhook, lastWebhook, drain, posting, worker, runs, outside>>

-----------------------------------------------------------------------------
(* The worker.                                                             *)

TimerFires ==
  /\ worker = "on" /\ timer = 0
  /\ timer' = NoTimer
  /\ DrainLoop
  /\ UNCHANGED <<stored, wake, worker, runs, accepted, abandoned>>

(* response.ok: the receiver has processed the request. *)
PostSucceeds(p) ==
  /\ p \in posting
  /\ p.id \in AcceptedIds(p.url)
  /\ posting' = posting \ {p}
  /\ outbox' = {r \in outbox : r.id # p.id}
  /\ UNCHANGED <<webhook, lastWebhook, lastDelivery, drain, wake, timer, worker, runs, outside>>

RetryDelay(failedAttempts) ==
  RetryDelays[IF failedAttempts <= Len(RetryDelays) THEN failedAttempts ELSE Len(RetryDelays)]

(* recordWebhookDeliveryFailure: the new count comes from the row, the      *)
(* verdict and the delay from the count read when the batch was fetched.   *)
FailedRow(r, p) ==
  [r EXCEPT !.attempts = @ + 1, !.wait = RetryDelay(p.attempts + 1),
            !.failed = p.attempts + 1 >= MaxAttempts]

(* A refusal, an error status, a lost answer or the abort signal; whether  *)
(* the receiver processes the request stays open.                         *)
PostFails(p) ==
  /\ p \in posting
  /\ p.url \notin Healthy
  /\ posting' = posting \ {p}
  /\ outbox' = {IF r.id = p.id THEN FailedRow(r, p) ELSE r : r \in outbox}
  /\ abandoned' = IF p.attempts + 1 >= MaxAttempts /\ p.id \in LiveIds(p.url)
                  THEN [abandoned EXCEPT ![p.url] = @ \cup {p.id}]
                  ELSE abandoned
  /\ UNCHANGED <<webhook, lastWebhook, lastDelivery, drain, wake, timer, worker, runs,
                 wire, accepted>>

(* Promise.all over the batch has settled: the next turn of the loop. *)
DrainResumes ==
  /\ drain = "posting" /\ posting = {}
  /\ DrainLoop
  /\ UNCHANGED <<stored, wake, timer, worker, runs, accepted, abandoned>>

(* Mutant: a wake-up noted during the drain is cleared and forgotten. *)
DrainEndsForgettingWake ==
  /\ drain = "ending"
  /\ drain' = "idle"
  /\ \/ /\ worker = "on" /\ wake
        /\ wake' = FALSE
        /\ UNCHANGED timer
     \/ /\ worker = "on" /\ ~wake
        /\ \E r \in Heads : (\A e \in Heads : r.wait <= e.wait) /\ ArmTimer(r.wait)
        /\ UNCHANGED wake
     \/ /\ worker # "on" \/ (~wake /\ Heads = {})
        /\ UNCHANGED <<wake, timer>>
  /\ UNCHANGED <<stored, posting, worker, runs, outside>>

(* The finally block: honour a wake-up that came meanwhile, or sleep until  *)
(* the next retry is due.                                                  *)
DrainEnds ==
  /\ drain = "ending"
  /\ drain' = "idle"
  /\ \/ /\ worker = "on" /\ wake
        /\ wake' = FALSE
        /\ ArmTimer(0)
     \/ /\ worker = "on" /\ ~wake
        /\ \E r \in Heads : (\A e \in Heads : r.wait <= e.wait) /\ ArmTimer(r.wait)
        /\ UNCHANGED wake
     \/ /\ worker # "on" \/ (~wake /\ Heads = {})
        /\ UNCHANGED <<wake, timer>>
  /\ UNCHANGED <<stored, posting, worker, runs, outside>>

-----------------------------------------------------------------------------
(* The process: start, stop, crash.                                        *)

NoVolatile == drain' = "idle" /\ posting' = {} /\ wake' = FALSE /\ timer' = NoTimer

Boot ==
  /\ worker = "down" /\ runs < MaxRuns
  /\ worker' = "starting" /\ runs' = runs + 1
  /\ UNCHANGED <<stored, volatile, outside>>

StartWorker ==
  /\ worker = "starting"
  /\ worker' = "on"
  /\ ArmTimer(0)
  /\ UNCHANGED <<stored, drain, posting, wake, runs, outside>>

StopWorker ==
  /\ worker = "on"
  /\ worker' = "stopping"
  /\ timer' = NoTimer
  /\ UNCHANGED <<stored, drain, posting, wake, runs, outside>>

(* #stopWebhookWorker has awaited the drain and the process ends. *)
Exit ==
  /\ worker = "stopping" /\ drain = "idle"
  /\ worker' = "down"
  /\ NoVolatile
  /\ UNCHANGED <<stored, runs, outside>>

Crash ==
  /\ worker # "down"
  /\ worker' = "down"
  /\ NoVolatile
  /\ UNCHANGED <<stored, runs, outside>>

-----------------------------------------------------------------------------
(* The world: receivers and time.                                          *)

(* A receiver processes a request, however late; a repeated id is dropped. *)
ReceiverAccepts(q) ==
  /\ q \in wire
  /\ wire' = wire \ {q}
  /\ accepted' = [accepted EXCEPT ![q.url] =
                    IF q.id \in AcceptedIds(q.url) THEN @ ELSE Append(@, q.id)]
  /\ UNCHANGED <<stored, volatile, worker, runs, abandoned>>

Sooner(wait) == IF wait > 0 THEN wait - 1 ELSE wait

Tick ==
  /\ timer > 0 \/ \E r \in outbox : r.wait > 0
  /\ outbox' = {[r EXCEPT !.wait = Sooner(@)] : r \in outbox}
  /\ timer' = Sooner(timer)
  /\ UNCHANGED <<webhook, lastWebhook, lastDelivery, drain, posting, wake, worker, runs, outside>>

Next ==
  \/ \E u \in Url, events \in Subscriptions : CreateWebhook(u, events)
  \/ \E u \in Url : DeleteWebhook(u)
  \/ \E event \in EventName : Dispatch(event)
  \/ TimerFires
  \/ \E p \in posting : PostSucceeds(p)
  \/ \E p \in posting : PostFails(p)
  \/ DrainResumes
  \/ DrainEnds
  \/ Boot \/ StartWorker \/ StopWorker \/ Exit \/ Crash
  \/ \E q \in wire : ReceiverAccepts(q)
  \/ Tick

Spec == Init /\ [][Next]_vars

(* Node runs the worker's timers and promise continuations, fetch settles   *)
(* every POST within #webhookTimeoutMs, time passes, a starting or stopping *)
(* process gets on with it, and a healthy receiver answers.  Nothing is     *)
(* assumed of clients, of crashes, or of the other receivers.               *)
Fairness ==
  /\ WF_vars(TimerFires) /\ WF_vars(DrainResumes) /\ WF_vars(DrainEnds)
  /\ WF_vars(\E p \in posting : PostSucceeds(p) \/ PostFails(p))
  /\ WF_vars(StartWorker) /\ WF_vars(Exit) /\ WF_vars(Tick)
  /\ WF_vars(\E q \in wire : q.url \in Healthy /\ ReceiverAccepts(q))

FairSpec == Spec /\ Fairness

-----------------------------------------------------------------------------
(* Safety.                                                                 *)

(* Every id in the system has been issued, and names one row. *)
Numbered ==
  /\ \A r \in outbox : r.id <= lastDelivery
  /\ \A r, e \in outbox : r.id = e.id => r = e
  /\ \A u \in Url : AcceptedIds(u) \cup abandoned[u] \subseteq 1..lastDelivery
  /\ \A x \in posting \cup wire : x.id <= lastDelivery

(* The dead letters are the rows that were given up. *)
GivenUp ==
  \A r \in outbox : r.failed <=> r.id \in abandoned[r.url]

(* A pass keeps one POST open per receiver, that of the head of its queue as *)
(* the pass read it, unless the webhook was deleted meanwhile: the NOT       *)
(* EXISTS of dueWebhookDeliveries and the Promise.all of #runWebhookDrain.   *)
OnePostPerReceiver ==
  /\ \A p, q \in posting : p.url = q.url => p = q
  /\ \A p \in posting :
       \/ \E r \in Heads : r.id = p.id /\ r.url = p.url /\ r.attempts = p.attempts
       \/ p.id \in abandoned[p.url] /\ \A r \in outbox : r.id # p.id

(* Whatever a receiver can still be handed is the head of its queue, or      *)
(* settled: a retry, a late arrival or a request of a crashed run never      *)
(* overtakes an older delivery that is still owed.                           *)
NoOvertaking ==
  /\ \A q \in wire : \/ q.id \in AcceptedIds(q.url) \cup abandoned[q.url]
                     \/ IsHead(q)
  /\ \A u \in Url : \A a \in AcceptedIds(u) \cup abandoned[u], d \in LiveIds(u) : a <= d

(* An idle worker holds a timer for the next retry of every queue: no        *)
(* enqueue, failure or finished pass leaves a delivery that nothing will     *)
(* wake the worker for (#scheduleWebhookDrain, #webhookWakeRequested, and    *)
(* the finally block of #runWebhookDrain).                                   *)
NoLostWakeup ==
  worker = "on" /\ drain = "idle" =>
    \A r \in Heads : timer # NoTimer /\ timer <= r.wait

(* At most one drain exists: a timer is armed only while none runs, and a    *)
(* drain holds no POST once it has left its loop.                            *)
OneDrain ==
  /\ timer # NoTimer => drain = "idle" /\ worker = "on"
  /\ posting # {} => drain = "posting"
  /\ drain # "idle" => worker \in {"on", "stopping"}

(* The inductive invariant: the parts above hold together or not at all.    *)
OutboxInv ==
  /\ Numbered
  /\ GivenUp
  /\ OnePostPerReceiver
  /\ NoOvertaking
  /\ OneDrain

(* The outbox implements ordered, at-least-once delivery per receiver. *)
OD == INSTANCE OrderedDelivery WITH
        Receivers <- Url,
        MaxFanout <- Cardinality(Url),
        issued <- lastDelivery,
        pending <- [u \in Url |-> LiveIds(u)],
        dropped <- abandoned,
        seen <- accepted

(* Every step of the outbox, crashes and restarts included, is a step that   *)
(* the abstract ordered queue allows or leaves it unchanged: "jobs survive   *)
(* restart, remain ordered per endpoint" (docs/bluebubbles-api-surface.md). *)
ImplementsOrderedDelivery == OD!AbsSpec

(* Receivers meet first arrivals in publication order, given-up ones apart. *)
FirstArrivalsInOrder == OD!SeenInOrder

(* A committed delivery stays owed until it is accepted or given up. *)
NothingLost == OD!NoneForgotten

-----------------------------------------------------------------------------
(* Liveness.                                                               *)

(* While a process stays up, every delivery is accepted or given up in the   *)
(* end: retries end, and a dead receiver does not stop the queue.            *)
QueuedIsSettled ==
  <>[](worker = "on") =>
    \A u \in Url, d \in 1..MaxDeliveries : d \in LiveIds(u) ~> d \notin LiveIds(u)

(* A receiver that answers is given every delivery it was owed, whatever the *)
(* other endpoints do, unless its webhook is deleted first.                  *)
HealthyReceiverGetsAll ==
  <>[](worker = "on") =>
    \A u \in Healthy, d \in 1..MaxDeliveries :
      d \in LiveIds(u) ~> d \in AcceptedIds(u) \cup abandoned[u]

(* #stopWebhookWorker waits for the POSTs of the current pass, and only for  *)
(* those: the drain starts no new pass, so stopping ends.                    *)
StopCompletes == worker = "stopping" ~> worker = "down"
=============================================================================
