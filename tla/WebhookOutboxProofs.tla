------------------------ MODULE WebhookOutboxProofs ------------------------
(***************************************************************************)
(* The webhook outbox is type correct, keeps its inductive invariant, and  *)
(* implements ordered delivery, for every set of endpoints, every list of  *)
(* retry delays, every retry and batch limit and every number of runs.     *)
(***************************************************************************)
EXTENDS WebhookOutbox, OrderedDelivery, FiniteSetTheorems, SequenceTheorems, TLAPS

(* A delay is picked from the list whatever the count of failures. *)
LEMMA RetryDelayType ==
  ASSUME NEW n \in Nat \ {0}
  PROVE  RetryDelay(n) \in Nat
BY OutboxAssumption DEF RetryDelay

(* The timer of #scheduleWebhookDrain keeps its type. *)
LEMMA ArmTimerType ==
  ASSUME timer \in Nat \cup {NoTimer}, NEW delay \in Nat, ArmTimer(delay)
  PROVE  timer' \in Nat \cup {NoTimer}
BY DEF ArmTimer

LEMMA ScheduleType ==
  ASSUME TypeOK, NEW delay \in Nat, ScheduleWebhookDrain(delay)
  PROVE  timer' \in Nat \cup {NoTimer} /\ wake' \in BOOLEAN
BY ArmTimerType DEF ScheduleWebhookDrain, TypeOK

(* A batch consists of stored live rows. *)
LEMMA BatchInOutbox ==
  ASSUME TypeOK
  PROVE  /\ DueWebhookDeliveries \subseteq Heads
         /\ Heads \subseteq Live
         /\ Live \subseteq outbox
         /\ outbox \subseteq Row
BY DEF DueWebhookDeliveries, Heads, Live, TypeOK

LEMMA DrainLoopType ==
  ASSUME TypeOK, DrainLoop
  PROVE  /\ drain' \in {"idle", "posting", "ending"}
         /\ posting' \subseteq Post
         /\ wire' \subseteq Request
<1>1. DueWebhookDeliveries \subseteq Row
  BY BatchInOutbox
<1>2. /\ {[id |-> r.id, url |-> r.url, attempts |-> r.attempts] : r \in DueWebhookDeliveries}
           \subseteq Post
      /\ {[id |-> r.id, url |-> r.url] : r \in DueWebhookDeliveries} \subseteq Request
  BY <1>1 DEF Row, Post, Request
<1> QED BY <1>2 DEF DrainLoop, TypeOK

(* What Dispatch does to the tables: a list of receivers gets a row each,   *)
(* numbered on from the last id.                                            *)
LEMMA DispatchEffect ==
  ASSUME TypeOK, NEW event \in EventName, Dispatch(event)
  PROVE  \E n \in 0..Cardinality(Url) : \E line \in [1..n -> Url] :
           /\ n \in Nat /\ line \in Seq(Url) /\ Len(line) = n /\ DOMAIN line = 1..n
           /\ outbox' = outbox \cup {NewRow(lastDelivery + i, line[i]) : i \in 1..n}
           /\ lastDelivery' = lastDelivery + n
           /\ IF n > 0 THEN ScheduleWebhookDrain(0) ELSE UNCHANGED <<timer, wake>>
<1>1. PICK n \in 0..Cardinality(Url) :
        \E line \in [1..n -> {u \in Url : Subscribed(u, event)}] :
          /\ EnqueueWebhookDeliveries(line)
          /\ IF n > 0 THEN ScheduleWebhookDrain(0) ELSE UNCHANGED <<timer, wake>>
  BY DEF Dispatch
<1>2. PICK line \in [1..n -> Url] :
          /\ EnqueueWebhookDeliveries(line)
          /\ IF n > 0 THEN ScheduleWebhookDrain(0) ELSE UNCHANGED <<timer, wake>>
  BY <1>1
<1>3. n \in Nat
  BY FS_CardinalityType, OutboxAssumption
<1>4. line \in Seq(Url) /\ DOMAIN line = 1..n
  BY <1>3
<1>5. Len(line) = n
  BY <1>3, <1>4
<1>6. /\ outbox' = outbox \cup {NewRow(lastDelivery + i, line[i]) : i \in 1..n}
      /\ lastDelivery' = lastDelivery + n
  BY <1>2, <1>4, <1>5 DEF EnqueueWebhookDeliveries
<1> QED BY <1>2, <1>3, <1>4, <1>5, <1>6

(* Every variable keeps its type: ids and counts are natural numbers, the   *)
(* timer is armed for the future or not at all, the retry delay is always   *)
(* one of the list.                                                         *)
THEOREM TypeCorrect == Spec => []TypeOK
<1>1. Init => TypeOK
  <2> SUFFICES ASSUME Init PROVE TypeOK
    OBVIOUS
  <2>1. webhook \in [Url -> [id : Nat, events : Subscriptions \cup {{}}]]
    BY DEF Init, NotRegistered
  <2>2. accepted \in [Url -> Seq(Nat)] /\ abandoned \in [Url -> SUBSET Nat]
    <3>1. <<>> \in Seq(Nat)
      OBVIOUS
    <3> QED BY <3>1 DEF Init
  <2>3. timer \in Nat \cup {NoTimer} /\ wake \in BOOLEAN
    BY DEF Init
  <2>4. lastWebhook \in Nat /\ lastDelivery \in Nat /\ runs \in Nat
    BY DEF Init
  <2>5. posting \subseteq Post /\ outbox \subseteq Row /\ wire \subseteq Request
    BY DEF Init
  <2>6. /\ worker \in {"down", "starting", "on", "stopping"}
        /\ drain \in {"idle", "posting", "ending"}
    BY DEF Init
  <2> QED BY <2>1, <2>2, <2>3, <2>4, <2>5, <2>6 DEF TypeOK
<1>2. TypeOK /\ [Next]_vars => TypeOK'
  <2> SUFFICES ASSUME TypeOK, [Next]_vars PROVE TypeOK'
    OBVIOUS
  <2>1. ASSUME NEW u \in Url, NEW events \in Subscriptions, CreateWebhook(u, events)
        PROVE  TypeOK'
    <3> DEFINE Registration == [id : Nat, events : Subscriptions \cup {{}}]
    <3>1. webhook' \in [Url -> Registration]
      <4>1. webhook \in [Url -> Registration]
        BY DEF TypeOK
      <4>2. [id |-> lastWebhook + 1, events |-> events] \in Registration
        BY DEF TypeOK
      <4>3. [webhook[u] EXCEPT !.events = events] \in Registration
        BY <4>1
      <4> HIDE DEF Registration
      <4> QED BY <2>1, <4>1, <4>2, <4>3 DEF CreateWebhook
    <3>2. lastWebhook' \in Nat
      BY <2>1 DEF TypeOK, CreateWebhook
    <3> QED BY <2>1, <3>1, <3>2 DEF TypeOK, CreateWebhook, volatile, outside
  <2>2. ASSUME NEW u \in Url, DeleteWebhook(u)
        PROVE  TypeOK'
    <3>1. LiveIds(u) \subseteq Nat
      BY DEF LiveIds, Live, TypeOK, Row
    <3> QED BY <2>2, <3>1 DEF TypeOK, DeleteWebhook, volatile, NotRegistered
  <2>3. ASSUME NEW event \in EventName, Dispatch(event)
        PROVE  TypeOK'
    <3>0. PICK n \in Nat : \E line \in [1..n -> Url] :
            /\ outbox' = outbox \cup {NewRow(lastDelivery + i, line[i]) : i \in 1..n}
            /\ lastDelivery' = lastDelivery + n
            /\ IF n > 0 THEN ScheduleWebhookDrain(0) ELSE UNCHANGED <<timer, wake>>
      BY <2>3, DispatchEffect
    <3>1. PICK line \in [1..n -> Url] :
            /\ outbox' = outbox \cup {NewRow(lastDelivery + i, line[i]) : i \in 1..n}
            /\ lastDelivery' = lastDelivery + n
            /\ IF n > 0 THEN ScheduleWebhookDrain(0) ELSE UNCHANGED <<timer, wake>>
      BY <3>0
    <3>2. timer' \in Nat \cup {NoTimer} /\ wake' \in BOOLEAN
      BY <3>1, ScheduleType DEF TypeOK
    <3>3. ASSUME NEW i \in 1..n PROVE NewRow(lastDelivery + i, line[i]) \in Row
      BY DEF NewRow, Row, TypeOK
    <3>4. outbox' \subseteq Row /\ lastDelivery' \in Nat
      BY <3>1, <3>3 DEF TypeOK
    <3>5. UNCHANGED <<webhook, lastWebhook, drain, posting, worker, runs, outside>>
      BY <2>3 DEF Dispatch
    <3> QED BY <3>2, <3>4, <3>5 DEF TypeOK, outside
  <2>4. CASE TimerFires
    BY <2>4, DrainLoopType DEF TypeOK, TimerFires, stored
  <2>5. ASSUME NEW p \in posting, PostSucceeds(p)
        PROVE  TypeOK'
    BY <2>5 DEF TypeOK, PostSucceeds, outside
  <2>6. ASSUME NEW p \in posting, PostFails(p)
        PROVE  TypeOK'
    <3>1. p.attempts + 1 \in Nat \ {0} /\ p.id \in Nat /\ p.url \in Url
      BY DEF TypeOK, Post
    <3>2. RetryDelay(p.attempts + 1) \in Nat
      BY <3>1, RetryDelayType
    <3>3. ASSUME NEW r \in outbox PROVE FailedRow(r, p) \in Row
      <4>1. r.id \in Nat \ {0} /\ r.url \in Url /\ r.attempts + 1 \in Nat
        BY DEF TypeOK, Row
      <4> DEFINE delay == RetryDelay(p.attempts + 1)
                 terminal == p.attempts + 1 >= MaxAttempts
      <4>2. FailedRow(r, p) = [r EXCEPT !.attempts = @ + 1, !.wait = delay, !.failed = terminal]
        BY DEF FailedRow
      <4>3. delay \in Nat /\ terminal \in BOOLEAN
        BY <3>2
      <4> HIDE DEF delay, terminal
      <4> QED BY <4>1, <4>2, <4>3 DEF TypeOK, Row
    <3>4. outbox' \subseteq Row
      BY <2>6, <3>3 DEF PostFails, TypeOK
    <3>5. abandoned' \in [Url -> SUBSET Nat]
      BY <2>6, <3>1 DEF PostFails, TypeOK
    <3> QED BY <2>6, <3>4, <3>5 DEF TypeOK, PostFails
  <2>7. CASE DrainResumes
    BY <2>7, DrainLoopType DEF TypeOK, DrainResumes, stored
  <2>8. CASE DrainEnds
    <3>1. ASSUME NEW r \in Heads PROVE r.wait \in Nat
      BY BatchInOutbox DEF Row
    <3>2. timer' \in Nat \cup {NoTimer} /\ wake' \in BOOLEAN
      BY <2>8, <3>1, ArmTimerType DEF DrainEnds, TypeOK
    <3> QED BY <2>8, <3>2 DEF TypeOK, DrainEnds, stored, outside
  <2>9. CASE Boot
    BY <2>9 DEF TypeOK, Boot, stored, volatile, outside
  <2>10. CASE StartWorker
    BY <2>10, ArmTimerType DEF TypeOK, StartWorker, stored, outside
  <2>11. CASE StopWorker
    BY <2>11 DEF TypeOK, StopWorker, stored, outside
  <2>12. CASE Exit \/ Crash
    BY <2>12 DEF TypeOK, Exit, Crash, NoVolatile, stored, outside
  <2>13. ASSUME NEW q \in wire, ReceiverAccepts(q)
        PROVE  TypeOK'
    <3>1. q.url \in Url /\ q.id \in Nat
      BY DEF TypeOK, Request
    <3>2. Append(accepted[q.url], q.id) \in Seq(Nat)
      BY <3>1 DEF TypeOK
    <3>3. accepted' \in [Url -> Seq(Nat)]
      <4> DEFINE Log == Seq(Nat)
      <4>1. accepted \in [Url -> Log] /\ Append(accepted[q.url], q.id) \in Log
        BY <3>2 DEF TypeOK
      <4> HIDE DEF Log
      <4>2. accepted' \in [Url -> Log]
        BY <2>13, <3>1, <4>1 DEF ReceiverAccepts
      <4> QED BY <4>2 DEF Log
    <3>4. wire' \subseteq wire /\ UNCHANGED <<stored, volatile, worker, runs, abandoned>>
      BY <2>13 DEF ReceiverAccepts
    <3>5. wire' \subseteq Request
      BY <3>4 DEF TypeOK
    <3>6. UNCHANGED <<webhook, lastWebhook, outbox, lastDelivery, drain, posting, wake, timer,
                      worker, runs, abandoned>>
      BY <3>4 DEF stored, volatile
    <3> QED BY <3>3, <3>5, <3>6 DEF TypeOK
  <2>14. CASE Tick
    <3>1. ASSUME NEW n \in Nat PROVE Sooner(n) \in Nat
      BY DEF Sooner
    <3>2. ASSUME NEW r \in outbox PROVE [r EXCEPT !.wait = Sooner(@)] \in Row
      <4>1. r \in Row /\ Sooner(r.wait) \in Nat
        BY <3>1 DEF TypeOK, Row
      <4> QED BY <4>1 DEF Row
    <3>3. outbox' \subseteq Row
      BY <2>14, <3>2 DEF Tick
    <3>4. timer' \in Nat \cup {NoTimer}
      BY <2>14 DEF Tick, Sooner, TypeOK, NoTimer
    <3> QED BY <2>14, <3>3, <3>4 DEF TypeOK, Tick, outside
  <2>15. CASE UNCHANGED vars
    BY <2>15 DEF TypeOK, vars, stored, volatile, outside
  <2> QED
    BY <2>1, <2>2, <2>3, <2>4, <2>5, <2>6, <2>7, <2>8, <2>9, <2>10, <2>11, <2>12, <2>13,
       <2>14, <2>15 DEF Next
<1> QED BY <1>1, <1>2, PTL DEF Spec

-----------------------------------------------------------------------------
(* The queues of the receivers.                                            *)

(* The head of a queue is its least live id, before and after a step. *)
LEMMA HeadIffLeast ==
  ASSUME NEW x
  PROVE  /\ IsHead(x) <=> x.id \in LiveIds(x.url) /\ \A d \in LiveIds(x.url) : x.id <= d
         /\ (IsHead(x) <=> x.id \in LiveIds(x.url) /\ \A d \in LiveIds(x.url) : x.id <= d)'
<1>1. IsHead(x) <=> x.id \in LiveIds(x.url) /\ \A d \in LiveIds(x.url) : x.id <= d
  BY DEF IsHead, Heads, Live, LiveIds
<1>2. (IsHead(x) <=> x.id \in LiveIds(x.url) /\ \A d \in LiveIds(x.url) : x.id <= d)'
  BY DEF IsHead, Heads, Live, LiveIds
<1> QED BY <1>1, <1>2

(* A step that leaves the table alone leaves every query of it alone. *)
LEMMA SameRows ==
  ASSUME UNCHANGED outbox
  PROVE  /\ Live' = Live /\ Heads' = Heads
         /\ DueWebhookDeliveries' = DueWebhookDeliveries
         /\ \A u : LiveIds(u)' = LiveIds(u)
         /\ \A x : IsHead(x)' = IsHead(x)
BY DEF Live, Heads, DueWebhookDeliveries, LiveIds, IsHead

(* The parts of the invariant that speak of rows and receivers survive every *)
(* step that changes neither and adds no POST.                               *)
LEMMA SettledWorld ==
  ASSUME OutboxInv, UNCHANGED <<outbox, lastDelivery, accepted, abandoned>>,
         posting' \subseteq posting, wire' \subseteq wire
  PROVE  Numbered' /\ GivenUp' /\ OnePostPerReceiver' /\ NoOvertaking'
<1>1. Numbered'
  BY DEF OutboxInv, Numbered, AcceptedIds
<1>2. GivenUp'
  BY DEF OutboxInv, GivenUp
<1>3. OnePostPerReceiver'
  BY SameRows DEF OutboxInv, OnePostPerReceiver
<1>4. NoOvertaking'
  BY SameRows DEF OutboxInv, NoOvertaking, AcceptedIds
<1> QED BY <1>1, <1>2, <1>3, <1>4

(* A turn of the drain loop posts heads only, one per receiver. *)
LEMMA DrainLoopInv ==
  ASSUME TypeOK, OutboxInv, DrainLoop, posting = {},
         UNCHANGED <<outbox, lastDelivery, accepted, abandoned>>
  PROVE  /\ Numbered' /\ GivenUp' /\ OnePostPerReceiver' /\ NoOvertaking'
         /\ drain' # "idle" /\ (posting' # {} => drain' = "posting")
         /\ worker # "on" => posting' = {}
<1>1. CASE UNCHANGED <<posting, wire>> /\ drain' = "ending"
  BY <1>1, SettledWorld
<1>2. CASE /\ worker = "on" /\ drain' = "posting"
           /\ posting' = {[id |-> r.id, url |-> r.url, attempts |-> r.attempts] : r \in DueWebhookDeliveries}
           /\ wire' = wire \cup {[id |-> r.id, url |-> r.url] : r \in DueWebhookDeliveries}
  <2>1. /\ DueWebhookDeliveries \subseteq Heads /\ Heads \subseteq Live /\ Live \subseteq outbox
        /\ outbox \subseteq Row
    BY BatchInOutbox
  <2>2. Numbered'
    BY <1>2, <2>1 DEF OutboxInv, Numbered, AcceptedIds
  <2>3. OnePostPerReceiver'
    <3>1. ASSUME NEW r \in Heads, NEW e \in Heads, r.url = e.url PROVE r = e
      <4>1. r.id <= e.id /\ e.id <= r.id /\ r.id \in Nat /\ e.id \in Nat
        BY <3>1, <2>1 DEF Heads, Row
      <4> QED BY <4>1, <2>1 DEF OutboxInv, Numbered
    <3> QED BY <1>2, <2>1, <3>1, SameRows DEF OnePostPerReceiver
  <2>4. NoOvertaking'
    <3>1. ASSUME NEW q \in wire' \ wire PROVE IsHead(q)
      BY <1>2, <2>1 DEF IsHead
    <3> QED BY <3>1, SameRows DEF OutboxInv, NoOvertaking, AcceptedIds
  <2>5. GivenUp'
    BY DEF OutboxInv, GivenUp
  <2> QED BY <1>2, <2>2, <2>3, <2>4, <2>5
<1> QED BY <1>1, <1>2 DEF DrainLoop

(* Publishing appends to the queues: new ids are larger than all the others. *)
LEMMA DispatchInv ==
  ASSUME TypeOK, OutboxInv, NEW event \in EventName, Dispatch(event)
  PROVE  Numbered' /\ GivenUp' /\ OnePostPerReceiver' /\ NoOvertaking'
<1>0. PICK n \in Nat : \E line \in [1..n -> Url] :
        /\ outbox' = outbox \cup {NewRow(lastDelivery + i, line[i]) : i \in 1..n}
        /\ lastDelivery' = lastDelivery + n
  BY DispatchEffect
<1>1. PICK line \in [1..n -> Url] :
        /\ outbox' = outbox \cup {NewRow(lastDelivery + i, line[i]) : i \in 1..n}
        /\ lastDelivery' = lastDelivery + n
  BY <1>0
<1>2. UNCHANGED <<posting, wire, accepted, abandoned>>
  BY DEF Dispatch, outside
<1>3. /\ lastDelivery \in Nat /\ outbox \subseteq Row
      /\ \A u \in Url : abandoned[u] \subseteq Nat
  BY DEF TypeOK
<1>4. /\ \A r \in outbox' \ outbox : \E i \in 1..n : r = NewRow(lastDelivery + i, line[i])
      /\ \A r \in outbox' \ outbox : r.id > lastDelivery /\ r.id <= lastDelivery' /\ ~r.failed
      /\ \A r \in outbox : r.id \in Nat /\ r.id <= lastDelivery
      /\ outbox \subseteq outbox'
  BY <1>1, <1>3 DEF NewRow, OutboxInv, Numbered, Row
<1>5. Numbered'
  <2>1. \A r, e \in outbox' : r.id = e.id => r = e
    <3> SUFFICES ASSUME NEW r \in outbox', NEW e \in outbox', r.id = e.id PROVE r = e
      OBVIOUS
    <3>1. CASE r \in outbox /\ e \in outbox
      BY <3>1 DEF OutboxInv, Numbered
    <3>2. CASE r \notin outbox /\ e \notin outbox
      <4>1. PICK i \in 1..n : r = NewRow(lastDelivery + i, line[i])
        BY <1>4, <3>2
      <4>2. PICK j \in 1..n : e = NewRow(lastDelivery + j, line[j])
        BY <1>4, <3>2
      <4>3. i = j
        BY <4>1, <4>2, <1>3 DEF NewRow
      <4> QED BY <4>1, <4>2, <4>3
    <3>3. CASE (r \in outbox) # (e \in outbox)
      BY <3>3, <1>3, <1>4
    <3> QED BY <3>1, <3>2, <3>3
  <2>2. \A r \in outbox' : r.id <= lastDelivery'
    BY <1>1, <1>3, <1>4
  <2>3. \A u \in Url : AcceptedIds(u)' \cup abandoned'[u] \subseteq 1..lastDelivery'
    BY <1>1, <1>2, <1>3 DEF OutboxInv, Numbered, AcceptedIds
  <2>4. \A x \in posting' \cup wire' : x.id <= lastDelivery'
    BY <1>1, <1>2, <1>3 DEF OutboxInv, Numbered, TypeOK, Post, Request
  <2> QED BY <2>1, <2>2, <2>3, <2>4 DEF Numbered
<1>6. GivenUp'
  <2> SUFFICES ASSUME NEW r \in outbox' PROVE r.failed <=> r.id \in abandoned[r.url]
    BY <1>2 DEF GivenUp
  <2>1. CASE r \in outbox
    BY <2>1 DEF OutboxInv, GivenUp
  <2>2. CASE r \notin outbox
    <3>1. r.url \in Url /\ ~r.failed /\ r.id > lastDelivery /\ r.id \in Nat
      BY <2>2, <1>3, <1>4 DEF NewRow
    <3> QED BY <3>1, <1>3 DEF OutboxInv, Numbered
  <2> QED BY <2>1, <2>2
<1>7. \A u \in Url : /\ LiveIds(u) \subseteq LiveIds(u)'
                     /\ \A d \in LiveIds(u)' \ LiveIds(u) : d \in Nat /\ d > lastDelivery
                     /\ \A d \in LiveIds(u) : d \in Nat /\ d <= lastDelivery
  BY <1>3, <1>4, <1>1 DEF LiveIds, Live, NewRow
<1>8. ASSUME NEW x, x.url \in Url, x.id \in Nat, IsHead(x) PROVE IsHead(x)'
  BY <1>3, <1>7, <1>8, HeadIffLeast
<1>9. OnePostPerReceiver'
  <2> SUFFICES ASSUME NEW p \in posting
               PROVE  \/ \E r \in Heads' : r.id = p.id /\ r.url = p.url /\ r.attempts = p.attempts
                      \/ p.id \in abandoned[p.url] /\ \A r \in outbox' : r.id # p.id
    BY <1>2 DEF OutboxInv, OnePostPerReceiver
  <2>1. p.url \in Url /\ p.id \in Nat /\ p.id <= lastDelivery
    BY DEF TypeOK, Post, OutboxInv, Numbered
  <2>2. CASE \E r \in Heads : r.id = p.id /\ r.url = p.url /\ r.attempts = p.attempts
    <3>1. PICK r \in Heads : r.id = p.id /\ r.url = p.url /\ r.attempts = p.attempts
      BY <2>2
    <3>2. IsHead(p)'
      BY <1>8, <2>1, <3>1 DEF IsHead
    <3>3. PICK e \in Heads' : e.id = p.id /\ e.url = p.url
      BY <3>2 DEF IsHead
    <3>4. r \in outbox' /\ e \in outbox'
      BY <3>1, <3>3, <1>4 DEF Heads, Live
    <3>5. r = e
      BY <3>1, <3>3, <3>4, <1>5 DEF Numbered
    <3> QED BY <3>1, <3>3, <3>5
  <2>3. CASE p.id \in abandoned[p.url] /\ \A r \in outbox : r.id # p.id
    BY <2>3, <2>1, <1>4, <1>3
  <2> QED BY <2>2, <2>3 DEF OutboxInv, OnePostPerReceiver
<1>10. NoOvertaking'
  <2>1. \A q \in wire : q.url \in Url /\ q.id \in Nat
    BY DEF TypeOK, Request
  <2>2. \A q \in wire' : q.id \in (AcceptedIds(q.url) \cup abandoned[q.url])' \/ IsHead(q)'
    BY <2>1, <1>2, <1>8 DEF OutboxInv, NoOvertaking, AcceptedIds
  <2>3. \A u \in Url : \A a \in (AcceptedIds(u) \cup abandoned[u])', d \in LiveIds(u)' : a <= d
    BY <1>2, <1>3, <1>7 DEF OutboxInv, NoOvertaking, Numbered, AcceptedIds
  <2> QED BY <2>2, <2>3 DEF NoOvertaking
<1> QED BY <1>5, <1>6, <1>9, <1>10

(* Deleting a webhook empties one queue and gives its deliveries up. *)
LEMMA DeleteInv ==
  ASSUME TypeOK, OutboxInv, NEW u \in Url, DeleteWebhook(u)
  PROVE  Numbered' /\ GivenUp' /\ OnePostPerReceiver' /\ NoOvertaking'
<1>1. /\ outbox' = {r \in outbox : r.url # u}
      /\ abandoned' = [abandoned EXCEPT ![u] = @ \cup LiveIds(u)]
      /\ UNCHANGED <<lastDelivery, posting, wire, accepted>>
  BY DEF DeleteWebhook, volatile
<1>2. /\ lastDelivery \in Nat /\ outbox \subseteq Row
      /\ abandoned \in [Url -> SUBSET Nat]
  BY DEF TypeOK
<1>3. /\ abandoned'[u] = abandoned[u] \cup LiveIds(u)
      /\ \A v \in Url \ {u} : abandoned'[v] = abandoned[v]
  BY <1>1, <1>2
<1>4. LiveIds(u)' = {} /\ \A v \in Url \ {u} : LiveIds(v)' = LiveIds(v)
  BY <1>1 DEF LiveIds, Live
<1>5. \A d \in LiveIds(u) : d \in Nat /\ d \in 1..lastDelivery
  BY <1>2 DEF LiveIds, Live, OutboxInv, Numbered, Row
<1>6. \A x : x.url \in Url \ {u} => (IsHead(x)' <=> IsHead(x))
  BY <1>4, HeadIffLeast
<1>7. Numbered'
  BY <1>1, <1>2, <1>3, <1>5 DEF OutboxInv, Numbered, AcceptedIds
<1>8. GivenUp'
  BY <1>1, <1>2, <1>3 DEF OutboxInv, GivenUp, Row
<1>9. OnePostPerReceiver'
  <2> SUFFICES ASSUME NEW p \in posting
               PROVE  \/ \E r \in Heads' : r.id = p.id /\ r.url = p.url /\ r.attempts = p.attempts
                      \/ p.id \in abandoned'[p.url] /\ \A r \in outbox' : r.id # p.id
    BY <1>1 DEF OutboxInv, OnePostPerReceiver
  <2>1. p.url \in Url /\ p.id \in Nat
    BY DEF TypeOK, Post
  <2>2. ASSUME NEW r \in Heads, r.id = p.id, r.url = p.url, r.attempts = p.attempts, p.url = u
        PROVE  p.id \in abandoned'[p.url] /\ \A e \in outbox' : e.id # p.id
    <3>1. p.id \in LiveIds(u) /\ r \in outbox
      BY <2>2 DEF Heads, Live, LiveIds
    <3> QED BY <2>2, <3>1, <1>1, <1>3 DEF OutboxInv, Numbered
  <2>3. ASSUME NEW r \in Heads, r.id = p.id, r.url = p.url, r.attempts = p.attempts, p.url # u
        PROVE  r \in Heads'
    BY <2>3, <1>1 DEF Heads, Live
  <2>4. CASE p.id \in abandoned[p.url] /\ \A r \in outbox : r.id # p.id
    BY <2>1, <2>4, <1>1, <1>3
  <2> QED BY <2>2, <2>3, <2>4 DEF OutboxInv, OnePostPerReceiver
<1>10. NoOvertaking'
  <2>1. ASSUME NEW q \in wire
        PROVE  q.id \in (AcceptedIds(q.url) \cup abandoned[q.url])' \/ IsHead(q)'
    <3>1. q.url \in Url
      BY DEF TypeOK, Request
    <3>2. CASE q.url = u
      BY <3>2, <1>1, <1>3, HeadIffLeast DEF OutboxInv, NoOvertaking, AcceptedIds
    <3>3. CASE q.url # u
      BY <3>1, <3>3, <1>1, <1>3, <1>6 DEF OutboxInv, NoOvertaking, AcceptedIds
    <3> QED BY <3>2, <3>3
  <2>2. \A v \in Url : \A a \in (AcceptedIds(v) \cup abandoned[v])', d \in LiveIds(v)' : a <= d
    BY <1>1, <1>3, <1>4 DEF OutboxInv, NoOvertaking, AcceptedIds
  <2> QED BY <1>1, <2>1, <2>2 DEF NoOvertaking
<1> QED BY <1>7, <1>8, <1>9, <1>10

(* The row of an open POST, when there is one, is the live head it was read *)
(* from; a delivery whose row is gone was given up.                         *)
LEMMA PostedRow ==
  ASSUME TypeOK, OutboxInv, NEW p \in posting
  PROVE  /\ p.url \in Url /\ p.id \in Nat
         /\ \A r \in outbox : r.id = p.id =>
              r \in Heads /\ ~r.failed /\ r.url = p.url /\ r.attempts = p.attempts
<1>1. p.url \in Url /\ p.id \in Nat
  BY DEF TypeOK, Post
<1>2. ASSUME NEW r \in outbox, r.id = p.id
      PROVE  r \in Heads /\ ~r.failed /\ r.url = p.url /\ r.attempts = p.attempts
  <2>1. PICK e \in Heads : e.id = p.id /\ e.url = p.url /\ e.attempts = p.attempts
    BY <1>2 DEF OutboxInv, OnePostPerReceiver
  <2>2. e \in outbox /\ ~e.failed
    BY DEF Heads, Live
  <2>3. e = r
    BY <1>2, <2>1, <2>2 DEF OutboxInv, Numbered
  <2> QED BY <2>1, <2>2, <2>3
<1> QED BY <1>1, <1>2

(* A completed delivery leaves its queue; the POSTs of the others go on. *)
LEMMA PostSucceedsInv ==
  ASSUME TypeOK, OutboxInv, NEW p \in posting, PostSucceeds(p)
  PROVE  Numbered' /\ GivenUp' /\ OnePostPerReceiver' /\ NoOvertaking'
<1>1. /\ outbox' = {r \in outbox : r.id # p.id}
      /\ posting' = posting \ {p}
      /\ p.id \in AcceptedIds(p.url)
      /\ UNCHANGED <<lastDelivery, wire, accepted, abandoned>>
  BY DEF PostSucceeds, outside
<1>2. /\ p.url \in Url /\ p.id \in Nat
      /\ \A r \in outbox : r.id = p.id => r.url = p.url
  BY PostedRow
<1>3. \A v : LiveIds(v)' = LiveIds(v) \ {p.id}
  BY <1>1 DEF LiveIds, Live
<1>4. \A x : IsHead(x) /\ x.id # p.id => IsHead(x)'
  BY <1>3, HeadIffLeast
<1>5. Numbered'
  BY <1>1 DEF OutboxInv, Numbered, AcceptedIds
<1>6. GivenUp'
  BY <1>1 DEF OutboxInv, GivenUp
<1>7. OnePostPerReceiver'
  <2> SUFFICES ASSUME NEW q \in posting, q # p
               PROVE  \/ \E r \in Heads' : r.id = q.id /\ r.url = q.url /\ r.attempts = q.attempts
                      \/ q.id \in abandoned[q.url] /\ \A r \in outbox' : r.id # q.id
    BY <1>1 DEF OutboxInv, OnePostPerReceiver
  <2>1. ASSUME NEW r \in Heads, r.id = q.id, r.url = q.url, r.attempts = q.attempts
        PROVE  r \in Heads'
    <3>1. r.id # p.id
      <4>1. r \in outbox
        BY DEF Heads, Live
      <4> QED BY <2>1, <4>1, <1>2 DEF OutboxInv, OnePostPerReceiver
    <3> QED BY <3>1, <1>1 DEF Heads, Live
  <2>2. CASE q.id \in abandoned[q.url] /\ \A r \in outbox : r.id # q.id
    BY <2>2, <1>1
  <2> QED BY <2>1, <2>2 DEF OutboxInv, OnePostPerReceiver
<1>8. NoOvertaking'
  <2>1. ASSUME NEW q \in wire
        PROVE  q.id \in (AcceptedIds(q.url) \cup abandoned[q.url])' \/ IsHead(q)'
    <3>1. CASE IsHead(q) /\ q.id = p.id
      BY <3>1, <1>1, <1>2 DEF IsHead, Heads, Live, AcceptedIds
    <3> QED BY <3>1, <1>1, <1>4 DEF OutboxInv, NoOvertaking, AcceptedIds
  <2>2. \A v \in Url : \A a \in (AcceptedIds(v) \cup abandoned[v])', d \in LiveIds(v)' : a <= d
    BY <1>1, <1>3 DEF OutboxInv, NoOvertaking, AcceptedIds
  <2> QED BY <1>1, <2>1, <2>2 DEF NoOvertaking
<1> QED BY <1>5, <1>6, <1>7, <1>8

(* What a failure does to the row of the delivery and to its queue. *)
LEMMA FailureEffect ==
  ASSUME TypeOK, OutboxInv, NEW p \in posting, PostFails(p)
  PROVE  LET terminal == p.attempts + 1 >= MaxAttempts
         IN  /\ \A r \in outbox : r.id # p.id => r \in outbox'
             /\ \A e \in outbox' : \/ e \in outbox /\ e.id # p.id
                                   \/ /\ e.id = p.id /\ e.url = p.url /\ (e.failed <=> terminal)
                                      /\ \E r \in outbox : r.id = p.id
             /\ \A r \in outbox : r.id = p.id =>
                  \E e \in outbox' : e.id = p.id /\ e.url = p.url /\ (e.failed <=> terminal)
             /\ \A e, f \in outbox' : e.id = f.id => e = f
             /\ \A v : LiveIds(v)' = IF terminal THEN LiveIds(v) \ {p.id} ELSE LiveIds(v)
<1> DEFINE terminal == p.attempts + 1 >= MaxAttempts
<1>1. outbox' = {IF r.id = p.id THEN FailedRow(r, p) ELSE r : r \in outbox}
  BY DEF PostFails
<1>2. ASSUME NEW r \in outbox, r.id = p.id
      PROVE  LET e == FailedRow(r, p)
             IN  e.id = p.id /\ e.url = p.url /\ (e.failed <=> terminal)
  <2>1. r \in Row /\ r.url = p.url
    BY <1>2, PostedRow DEF TypeOK
  <2> DEFINE attempts == r.attempts + 1
             wait == RetryDelay(p.attempts + 1)
             e == [r EXCEPT !.attempts = attempts, !.wait = wait, !.failed = terminal]
  <2>2. FailedRow(r, p) = e
    BY DEF FailedRow
  <2> HIDE DEF terminal, attempts, wait
  <2>3. e.id = r.id /\ e.url = r.url /\ e.failed = terminal
    BY <2>1 DEF Row
  <2> HIDE DEF e
  <2>4. FailedRow(r, p).failed = terminal /\ FailedRow(r, p).id = p.id /\ FailedRow(r, p).url = p.url
    BY <1>2, <2>1, <2>2, <2>3
  <2> QED BY <2>4
<1> HIDE DEF terminal
<1>3. \A r \in outbox : r.id # p.id => r \in outbox'
  BY <1>1
<1>4. \A e \in outbox' : \/ e \in outbox /\ e.id # p.id
                         \/ /\ e.id = p.id /\ e.url = p.url /\ (e.failed <=> terminal)
                            /\ \E r \in outbox : r.id = p.id /\ e = FailedRow(r, p)
  BY <1>1, <1>2
<1>5. \A r \in outbox : r.id = p.id =>
        \E e \in outbox' : e.id = p.id /\ e.url = p.url /\ (e.failed <=> terminal)
  BY <1>1, <1>2
<1>6. \A e, f \in outbox' : e.id = f.id => e = f
  BY <1>4 DEF OutboxInv, Numbered
<1>7. ASSUME NEW v
      PROVE  LiveIds(v)' = IF terminal THEN LiveIds(v) \ {p.id} ELSE LiveIds(v)
  <2>1. \A d : d \in LiveIds(v) <=> \E r \in outbox : r.id = d /\ r.url = v /\ ~r.failed
    BY DEF LiveIds, Live
  <2>2. \A d : d \in LiveIds(v)' <=> \E r \in outbox' : r.id = d /\ r.url = v /\ ~r.failed
    BY DEF LiveIds, Live
  <2>3. ASSUME NEW d, d # p.id PROVE d \in LiveIds(v)' <=> d \in LiveIds(v)
    BY <2>1, <2>2, <2>3, <1>3, <1>4
  <2>4. p.id \in LiveIds(v)' <=> (~terminal /\ p.id \in LiveIds(v))
    <3>1. ASSUME p.id \in LiveIds(v)' PROVE ~terminal /\ p.id \in LiveIds(v)
      <4>1. PICK e \in outbox' : e.id = p.id /\ e.url = v /\ ~e.failed
        BY <2>2, <3>1
      <4>2. e.url = p.url /\ ~terminal /\ \E r \in outbox : r.id = p.id
        BY <4>1, <1>4
      <4> QED BY <4>1, <4>2, <2>1, PostedRow
    <3>2. ASSUME ~terminal, p.id \in LiveIds(v) PROVE p.id \in LiveIds(v)'
      <4>1. PICK r \in outbox : r.id = p.id /\ r.url = v
        BY <2>1, <3>2
      <4>2. v = p.url
        BY <4>1, PostedRow
      <4> QED BY <4>1, <4>2, <1>5, <2>2, <3>2
    <3> QED BY <3>1, <3>2
  <2> QED BY <2>3, <2>4
<1> QED BY <1>3, <1>4, <1>5, <1>6, <1>7 DEF terminal

(* A failed delivery waits for its retry or becomes a dead letter.          *)
LEMMA PostFailsInv ==
  ASSUME TypeOK, OutboxInv, NEW p \in posting, PostFails(p)
  PROVE  Numbered' /\ GivenUp' /\ OnePostPerReceiver' /\ NoOvertaking'
<1> DEFINE terminal == p.attempts + 1 >= MaxAttempts
<1>1. /\ posting' = posting \ {p}
      /\ UNCHANGED <<lastDelivery, wire, accepted>>
      /\ abandoned' = IF terminal /\ p.id \in LiveIds(p.url)
                      THEN [abandoned EXCEPT ![p.url] = @ \cup {p.id}]
                      ELSE abandoned
  BY DEF PostFails
<1>2. /\ p.url \in Url /\ p.id \in Nat
      /\ \A r \in outbox : r.id = p.id => r \in Heads /\ ~r.failed /\ r.url = p.url
  BY PostedRow
<1>3. /\ \A r \in outbox : r.id # p.id => r \in outbox'
      /\ \A e \in outbox' : \/ e \in outbox /\ e.id # p.id
                            \/ /\ e.id = p.id /\ e.url = p.url /\ (e.failed <=> terminal)
                               /\ \E r \in outbox : r.id = p.id
      /\ \A e, f \in outbox' : e.id = f.id => e = f
      /\ \A v : LiveIds(v)' = IF terminal THEN LiveIds(v) \ {p.id} ELSE LiveIds(v)
  BY FailureEffect
<1>4. /\ lastDelivery \in Nat /\ outbox \subseteq Row
      /\ abandoned \in [Url -> SUBSET Nat]
  BY DEF TypeOK
<1> HIDE DEF terminal
<1>5. /\ \A v \in Url \ {p.url} : abandoned'[v] = abandoned[v]
      /\ \A v \in Url : abandoned[v] \subseteq abandoned'[v]
      /\ abandoned'[p.url] = IF terminal /\ p.id \in LiveIds(p.url)
                             THEN abandoned[p.url] \cup {p.id} ELSE abandoned[p.url]
  BY <1>1, <1>2, <1>4
<1>6. (\E r \in outbox : r.id = p.id) => p.id \in LiveIds(p.url) /\ IsHead(p)
  BY <1>2 DEF LiveIds, Live, IsHead, Heads
<1>7. \A x : IsHead(x) /\ x.id # p.id => IsHead(x)'
  BY <1>3, HeadIffLeast
<1>8. Numbered'
  <2>1. \A e \in outbox' : e.id <= lastDelivery
    BY <1>3 DEF OutboxInv, Numbered
  <2>2. p.id \in 1..lastDelivery
    <3>1. p.id \in Nat \ {0} /\ p.id <= lastDelivery
      BY DEF OutboxInv, Numbered, TypeOK, Post
    <3> QED BY <3>1, <1>4
  <2>3. \A u \in Url : abandoned'[u] \subseteq 1..lastDelivery
    <3>1. \A u \in Url : abandoned[u] \subseteq 1..lastDelivery
      BY DEF OutboxInv, Numbered
    <3> QED BY <1>2, <1>5, <2>2, <3>1
  <2> QED BY <1>1, <1>3, <2>1, <2>3 DEF OutboxInv, Numbered, AcceptedIds
<1>9. GivenUp'
  <2> SUFFICES ASSUME NEW e \in outbox' PROVE e.failed <=> e.id \in abandoned'[e.url]
    BY DEF GivenUp
  <2>1. CASE e \in outbox /\ e.id # p.id
    BY <2>1, <1>4, <1>5 DEF OutboxInv, GivenUp, Row
  <2>2. CASE /\ e.id = p.id /\ e.url = p.url /\ (e.failed <=> terminal)
             /\ \E r \in outbox : r.id = p.id
    <3>1. p.id \notin abandoned[p.url]
      BY <2>2, <1>2 DEF OutboxInv, GivenUp
    <3> QED BY <2>2, <3>1, <1>5, <1>6
  <2> QED BY <2>1, <2>2, <1>3
<1>10. OnePostPerReceiver'
  <2> SUFFICES ASSUME NEW q \in posting, q # p
               PROVE  \/ \E r \in Heads' : r.id = q.id /\ r.url = q.url /\ r.attempts = q.attempts
                      \/ q.id \in abandoned'[q.url] /\ \A r \in outbox' : r.id # q.id
    BY <1>1 DEF OutboxInv, OnePostPerReceiver
  <2>1. q.url \in Url
    BY PostedRow
  <2>2. ASSUME NEW r \in Heads, r.id = q.id, r.url = q.url, r.attempts = q.attempts
        PROVE  \E e \in Heads' : e.id = q.id /\ e.url = q.url /\ e.attempts = q.attempts
    <3>1. r \in outbox /\ ~r.failed /\ r.id # p.id
      <4>1. r \in outbox /\ ~r.failed
        BY DEF Heads, Live
      <4> QED BY <2>2, <4>1, <1>2 DEF OutboxInv, OnePostPerReceiver
    <3>2. IsHead(r)'
      BY <3>1, <1>7 DEF IsHead
    <3>3. PICK e \in Heads' : e.id = r.id /\ e.url = r.url
      BY <3>2 DEF IsHead
    <3>4. e = r
      BY <3>1, <3>3, <1>3 DEF Heads, Live
    <3> QED BY <2>2, <3>3, <3>4
  <2>3. CASE q.id \in abandoned[q.url] /\ \A r \in outbox : r.id # q.id
    BY <2>1, <2>3, <1>3, <1>5
  <2> QED BY <2>2, <2>3 DEF OutboxInv, OnePostPerReceiver
<1>11. NoOvertaking'
  <2>1. ASSUME NEW q \in wire
        PROVE  q.id \in (AcceptedIds(q.url) \cup abandoned[q.url])' \/ IsHead(q)'
    <3>1. q.url \in Url
      BY DEF TypeOK, Request
    <3>2. CASE IsHead(q) /\ q.id = p.id
      <4>1. q.url = p.url /\ p.id \in LiveIds(p.url)
        BY <3>2, <1>2, <1>6 DEF IsHead, Heads, Live
      <4>2. CASE terminal
        BY <3>2, <4>1, <4>2, <1>5
      <4>3. CASE ~terminal
        BY <3>2, <4>3, <1>3, HeadIffLeast
      <4> QED BY <4>2, <4>3
    <3>3. CASE IsHead(q) /\ q.id # p.id
      BY <3>3, <1>7
    <3>4. CASE q.id \in AcceptedIds(q.url) \cup abandoned[q.url]
      BY <3>1, <3>4, <1>1, <1>5 DEF AcceptedIds
    <3> QED BY <3>2, <3>3, <3>4 DEF OutboxInv, NoOvertaking
  <2>2. ASSUME NEW v \in Url, NEW a \in (AcceptedIds(v) \cup abandoned[v])', NEW d \in LiveIds(v)'
        PROVE  a <= d
    <3>1. d \in LiveIds(v)
      BY <1>3
    <3>2. CASE a \in AcceptedIds(v) \cup abandoned[v]
      BY <3>1, <3>2 DEF OutboxInv, NoOvertaking
    <3>3. CASE a = p.id /\ v = p.url /\ IsHead(p)
      BY <3>1, <3>3, HeadIffLeast
    <3>4. (p.id \in LiveIds(p.url)) => IsHead(p)
      BY <1>6 DEF LiveIds, Live
    <3> QED BY <3>2, <3>3, <3>4, <1>1, <1>5 DEF AcceptedIds
  <2> QED BY <1>1, <2>1, <2>2 DEF NoOvertaking
<1> QED BY <1>8, <1>9, <1>10, <1>11

(* What a receiver processes: a request it was already handed. *)
LEMMA AcceptEffect ==
  ASSUME TypeOK, NEW q \in wire, ReceiverAccepts(q)
  PROVE  /\ q.url \in Url /\ q.id \in Nat
         /\ \A u \in Url \ {q.url} : accepted'[u] = accepted[u]
         /\ accepted'[q.url] = IF q.id \in AcceptedIds(q.url) THEN accepted[q.url]
                               ELSE Append(accepted[q.url], q.id)
         /\ \A u \in Url : AcceptedIds(u)' = IF u = q.url THEN AcceptedIds(u) \cup {q.id}
                                                          ELSE AcceptedIds(u)
<1> DEFINE Log == Seq(Nat)
           log == IF q.id \in AcceptedIds(q.url) THEN accepted[q.url]
                  ELSE Append(accepted[q.url], q.id)
<1>1. q.url \in Url /\ q.id \in Nat
  BY DEF TypeOK, Request
<1>2. accepted \in [Url -> Log]
  BY DEF TypeOK
<1>3. accepted' = [accepted EXCEPT ![q.url] = log]
  BY DEF ReceiverAccepts
<1>4. accepted[q.url] \in Seq(Nat)
  BY <1>1, <1>2
<1> HIDE DEF Log, log
<1>5. /\ \A u \in Url \ {q.url} : accepted'[u] = accepted[u]
      /\ accepted'[q.url] = log
  BY <1>1, <1>2, <1>3
<1>6. AcceptedIds(q.url)' = AcceptedIds(q.url) \cup {q.id}
  <2>1. CASE q.id \in AcceptedIds(q.url)
    BY <2>1, <1>5 DEF log, AcceptedIds
  <2>2. CASE q.id \notin AcceptedIds(q.url)
    <3> DEFINE s == accepted[q.url]
    <3>1. accepted'[q.url] = Append(s, q.id)
      BY <2>2, <1>5 DEF log
    <3>2. DOMAIN Append(s, q.id) = DOMAIN s \cup {Len(s) + 1} /\ DOMAIN s = 1..Len(s)
      BY <1>1, <1>4
    <3>3. \A i \in DOMAIN s : Append(s, q.id)[i] = s[i]
      BY <1>1, <1>4
    <3>4. Append(s, q.id)[Len(s) + 1] = q.id
      BY <1>1, <1>4
    <3> HIDE DEF s
    <3>5. {Append(s, q.id)[i] : i \in DOMAIN Append(s, q.id)} = {s[i] : i \in DOMAIN s} \cup {q.id}
      BY <3>2, <3>3, <3>4
    <3> QED BY <3>1, <3>5 DEF AcceptedIds, s
  <2> QED BY <2>1, <2>2
<1>7. \A u \in Url \ {q.url} : AcceptedIds(u)' = AcceptedIds(u)
  BY <1>5 DEF AcceptedIds
<1> QED BY <1>1, <1>5, <1>6, <1>7 DEF log

(* Whatever arrives is the head of its queue or was settled. *)
LEMMA AcceptInv ==
  ASSUME TypeOK, OutboxInv, NEW q \in wire, ReceiverAccepts(q)
  PROVE  Numbered' /\ GivenUp' /\ OnePostPerReceiver' /\ NoOvertaking'
<1>1. UNCHANGED <<outbox, lastDelivery, posting, abandoned>> /\ wire' = wire \ {q}
  BY DEF ReceiverAccepts, stored, volatile
<1>2. /\ q.url \in Url /\ q.id \in Nat
      /\ \A u \in Url : AcceptedIds(u)' = IF u = q.url THEN AcceptedIds(u) \cup {q.id}
                                                       ELSE AcceptedIds(u)
  BY AcceptEffect
<1>3. Numbered'
  <2>1. q.id \in 1..lastDelivery
    <3>1. q.id \in Nat \ {0} /\ q.id <= lastDelivery /\ lastDelivery \in Nat
      BY DEF TypeOK, Request, OutboxInv, Numbered
    <3> QED BY <3>1
  <2> QED BY <1>1, <1>2, <2>1 DEF OutboxInv, Numbered
<1>4. GivenUp' /\ OnePostPerReceiver'
  BY <1>1, SameRows DEF OutboxInv, GivenUp, OnePostPerReceiver
<1>5. NoOvertaking'
  <2>1. \A x \in wire : x.url \in Url
    BY DEF TypeOK, Request
  <2>2. \A x \in wire' : x.id \in (AcceptedIds(x.url) \cup abandoned[x.url])' \/ IsHead(x)'
    BY <1>1, <1>2, <2>1, SameRows DEF OutboxInv, NoOvertaking
  <2>3. \A d \in LiveIds(q.url) : q.id <= d
    BY <1>2, HeadIffLeast DEF OutboxInv, NoOvertaking
  <2>4. \A u \in Url : \A a \in (AcceptedIds(u) \cup abandoned[u])', d \in LiveIds(u)' : a <= d
    BY <1>1, <1>2, <2>3, SameRows DEF OutboxInv, NoOvertaking
  <2> QED BY <2>2, <2>4 DEF NoOvertaking
<1> QED BY <1>3, <1>4, <1>5

(* The clock changes no more than the time left. *)
LEMMA TickEffect ==
  ASSUME TypeOK, Tick
  PROVE  /\ \A r \in outbox : \E e \in outbox' :
              e.id = r.id /\ e.url = r.url /\ e.attempts = r.attempts /\ e.failed = r.failed
         /\ \A e \in outbox' : \E r \in outbox :
              /\ e = [r EXCEPT !.wait = Sooner(r.wait)]
              /\ e.id = r.id /\ e.url = r.url /\ e.attempts = r.attempts /\ e.failed = r.failed
              /\ e.wait = Sooner(r.wait)
<1>1. outbox' = {[r EXCEPT !.wait = Sooner(@)] : r \in outbox}
  BY DEF Tick
<1>2. ASSUME NEW r \in outbox
      PROVE  LET e == [r EXCEPT !.wait = Sooner(@)]
             IN  /\ e.id = r.id /\ e.url = r.url /\ e.attempts = r.attempts /\ e.failed = r.failed
                 /\ e.wait = Sooner(r.wait)
  <2>1. r \in Row
    BY DEF TypeOK
  <2> QED BY <2>1 DEF Row
<1> QED BY ZenonT(60), <1>1, <1>2

LEMMA TickInv ==
  ASSUME TypeOK, OutboxInv, Tick
  PROVE  Numbered' /\ GivenUp' /\ OnePostPerReceiver' /\ NoOvertaking'
<1>1. UNCHANGED <<lastDelivery, posting, wire, accepted, abandoned>>
  BY DEF Tick, outside
<1>2. /\ \A r \in outbox : \E e \in outbox' :
           e.id = r.id /\ e.url = r.url /\ e.attempts = r.attempts /\ e.failed = r.failed
      /\ \A e \in outbox' : \E r \in outbox :
           /\ e = [r EXCEPT !.wait = Sooner(r.wait)]
           /\ e.id = r.id /\ e.url = r.url /\ e.attempts = r.attempts /\ e.failed = r.failed
  BY TickEffect
<1>3. \A u : LiveIds(u)' = LiveIds(u)
  BY <1>2 DEF LiveIds, Live
<1>4. \A x : IsHead(x)' <=> IsHead(x)
  BY <1>3, HeadIffLeast
<1>5. Numbered'
  BY <1>1, <1>2 DEF OutboxInv, Numbered, AcceptedIds
<1>6. GivenUp'
  BY <1>1, <1>2 DEF OutboxInv, GivenUp
<1>7. OnePostPerReceiver'
  <2> SUFFICES ASSUME NEW p \in posting
               PROVE  \/ \E r \in Heads' : r.id = p.id /\ r.url = p.url /\ r.attempts = p.attempts
                      \/ p.id \in abandoned[p.url] /\ \A r \in outbox' : r.id # p.id
    BY <1>1 DEF OutboxInv, OnePostPerReceiver
  <2>1. ASSUME NEW r \in Heads, r.id = p.id, r.url = p.url, r.attempts = p.attempts
        PROVE  \E e \in Heads' : e.id = p.id /\ e.url = p.url /\ e.attempts = p.attempts
    <3>1. PICK e \in Heads' : e.id = p.id /\ e.url = p.url
      BY <2>1, <1>4 DEF IsHead
    <3>2. r \in outbox /\ e \in outbox'
      BY DEF Heads, Live
    <3>3. PICK s \in outbox : e.id = s.id /\ e.attempts = s.attempts
      BY <1>2, <3>2
    <3>4. s = r
      BY <2>1, <3>1, <3>2, <3>3 DEF OutboxInv, Numbered
    <3> QED BY <2>1, <3>1, <3>3, <3>4
  <2>2. CASE p.id \in abandoned[p.url] /\ \A r \in outbox : r.id # p.id
    BY <2>2, <1>2
  <2> QED BY <2>1, <2>2 DEF OutboxInv, OnePostPerReceiver
<1>8. NoOvertaking'
  BY <1>1, <1>3, <1>4 DEF OutboxInv, NoOvertaking, AcceptedIds
<1> QED BY <1>5, <1>6, <1>7, <1>8

-----------------------------------------------------------------------------
(* The inductive invariant.                                                *)

LEMMA InitInv == Init => OutboxInv
BY DEF Init, OutboxInv, Numbered, GivenUp, OnePostPerReceiver, NoOvertaking, OneDrain,
       AcceptedIds, LiveIds, Live, NoTimer

LEMMA OneDrainStep ==
  ASSUME TypeOK, OutboxInv, [Next]_vars
  PROVE  OneDrain'
<1> USE DEF OneDrain
<1>1. OneDrain /\ worker \in {"down", "starting", "on", "stopping"}
      /\ drain \in {"idle", "posting", "ending"}
  BY DEF OutboxInv, TypeOK
<1>2. ASSUME NEW u \in Url, NEW events \in Subscriptions, CreateWebhook(u, events)
      PROVE  OneDrain'
  BY <1>1, <1>2 DEF CreateWebhook, volatile
<1>3. ASSUME NEW u \in Url, DeleteWebhook(u) PROVE OneDrain'
  BY <1>1, <1>3 DEF DeleteWebhook, volatile
<1>4. ASSUME NEW event \in EventName, Dispatch(event) PROVE OneDrain'
  <2>1. UNCHANGED <<worker, drain, posting>>
    BY <1>4 DEF Dispatch
  <2>2. UNCHANGED timer \/ (worker = "on" /\ drain = "idle")
    <3>1. ScheduleWebhookDrain(0) \/ UNCHANGED timer
      BY <1>4, DispatchEffect
    <3> QED BY <3>1 DEF ScheduleWebhookDrain
  <2> QED BY <1>1, <2>1, <2>2
<1>5. ASSUME TimerFires \/ DrainResumes PROVE OneDrain'
  <2>1. DrainLoop /\ posting = {} /\ timer' = NoTimer
    BY <1>1, <1>5 DEF TimerFires, DrainResumes, NoTimer
  <2>2. UNCHANGED <<outbox, lastDelivery, accepted, abandoned, worker>>
    BY <1>5 DEF TimerFires, DrainResumes, stored
  <2>3. drain' # "idle" /\ (posting' # {} => drain' = "posting")
    BY <2>1, <2>2, DrainLoopInv
  <2>4. worker \in {"on", "stopping"}
    BY <1>1, <1>5 DEF TimerFires, DrainResumes
  <2> QED BY <2>1, <2>2, <2>3, <2>4
<1>6. ASSUME NEW p \in posting, PostSucceeds(p) \/ PostFails(p) PROVE OneDrain'
  BY <1>1, <1>6 DEF PostSucceeds, PostFails
<1>7. CASE DrainEnds
  BY <1>1, <1>7 DEF DrainEnds, ArmTimer
<1>8. CASE Boot \/ StartWorker \/ StopWorker \/ Exit \/ Crash
  BY <1>1, <1>8 DEF Boot, StartWorker, StopWorker, Exit, Crash, ArmTimer, NoVolatile, volatile
<1>9. ASSUME NEW q \in wire, ReceiverAccepts(q) PROVE OneDrain'
  BY <1>1, <1>9 DEF ReceiverAccepts, volatile
<1>10. CASE Tick
  BY <1>1, <1>10 DEF Tick, Sooner, NoTimer
<1>11. CASE UNCHANGED vars
  BY <1>1, <1>11 DEF vars, volatile
<1> QED BY <1>2, <1>3, <1>4, <1>5, <1>6, <1>7, <1>8, <1>9, <1>10, <1>11 DEF Next

LEMMA InvStep ==
  ASSUME TypeOK, OutboxInv, [Next]_vars
  PROVE  OutboxInv'
<1>1. OneDrain'
  BY OneDrainStep
<1>2. Numbered' /\ GivenUp' /\ OnePostPerReceiver' /\ NoOvertaking'
  <2>1. ASSUME NEW u \in Url, NEW events \in Subscriptions, CreateWebhook(u, events)
        PROVE  UNCHANGED <<outbox, lastDelivery, posting, wire, accepted, abandoned>>
    BY <2>1 DEF CreateWebhook, volatile, outside
  <2>2. ASSUME Boot \/ StartWorker \/ DrainEnds \/ UNCHANGED vars
        PROVE  UNCHANGED <<outbox, lastDelivery, posting, wire, accepted, abandoned>>
    BY <2>2 DEF Boot, StartWorker, DrainEnds, vars, stored, volatile, outside
  <2>3. ASSUME StopWorker \/ Exit \/ Crash
        PROVE  /\ UNCHANGED <<outbox, lastDelivery, wire, accepted, abandoned>>
               /\ posting' \subseteq posting
    BY <2>3 DEF StopWorker, Exit, Crash, NoVolatile, stored, outside
  <2>4. CASE TimerFires \/ DrainResumes
    <3>1. DrainLoop /\ posting = {}
      BY <2>4 DEF TimerFires, DrainResumes, OutboxInv, OneDrain, NoTimer
    <3>2. UNCHANGED <<outbox, lastDelivery, accepted, abandoned>>
      BY <2>4 DEF TimerFires, DrainResumes, stored
    <3> QED BY <3>1, <3>2, DrainLoopInv
  <2> QED BY <2>1, <2>2, <2>3, <2>4, SettledWorld, DispatchInv, DeleteInv, PostSucceedsInv,
             PostFailsInv, AcceptInv, TickInv DEF Next
<1> QED BY <1>1, <1>2 DEF OutboxInv

(* No interleaving of clients, posts, timers, crashes and late receivers     *)
(* gives a receiver two open POSTs in one pass, lets a delivery overtake an  *)
(* older one that is still owed, or starts a second drain beside the first.  *)
THEOREM OutboxSafe == Spec => []OutboxInv
<1>1. TypeOK /\ OutboxInv /\ [Next]_vars => OutboxInv'
  BY InvStep
<1> QED BY <1>1, InitInv, TypeCorrect, PTL DEF Spec

(* The parts of the invariant, each under the name the runs check. *)
THEOREM OnePost == Spec => []OnePostPerReceiver
<1>1. OutboxInv => OnePostPerReceiver
  BY DEF OutboxInv
<1> QED BY <1>1, OutboxSafe, PTL

THEOREM NeverOvertaken == Spec => []NoOvertaking
<1>1. OutboxInv => NoOvertaking
  BY DEF OutboxInv
<1> QED BY <1>1, OutboxSafe, PTL

THEOREM SingleDrain == Spec => []OneDrain
<1>1. OutboxInv => OneDrain
  BY DEF OutboxInv
<1> QED BY <1>1, OutboxSafe, PTL

-----------------------------------------------------------------------------
(* The outbox implements ordered delivery and always wakes its worker. *)

(* What the invariant says of the queues, in the words of OrderedDelivery.  *)
LEMMA LiveIssued ==
  ASSUME TypeOK, OutboxInv, NEW u \in Url
  PROVE  /\ LiveIds(u) \subseteq 1..lastDelivery
         /\ AcceptedIds(u) = OD!SeenIds(u)
<1>1. ASSUME NEW d \in LiveIds(u) PROVE d \in 1..lastDelivery
  <2>1. PICK r \in outbox : r.id = d
    BY DEF LiveIds, Live
  <2>2. r.id \in Nat \ {0} /\ r.id <= lastDelivery /\ lastDelivery \in Nat
    BY DEF TypeOK, Row, OutboxInv, Numbered
  <2> QED BY <2>1, <2>2
<1> QED BY <1>1 DEF AcceptedIds, OD!SeenIds

LEMMA SameQueuesStutter ==
  ASSUME UNCHANGED <<lastDelivery, accepted, abandoned>>,
         \A u \in Url : LiveIds(u)' = LiveIds(u)
  PROVE  UNCHANGED OD!absVars
BY DEF OD!absVars

LEMMA DispatchPublishes ==
  ASSUME TypeOK, OutboxInv, NEW event \in EventName, Dispatch(event)
  PROVE  OD!AbsNext
<1>1. PICK n \in 0..Cardinality(Url) : \E line \in [1..n -> Url] :
        /\ n \in Nat /\ line \in Seq(Url) /\ Len(line) = n /\ DOMAIN line = 1..n
        /\ outbox' = outbox \cup {NewRow(lastDelivery + i, line[i]) : i \in 1..n}
        /\ lastDelivery' = lastDelivery + n
  BY DispatchEffect
<1>2. PICK line \in [1..n -> Url] :
        /\ n \in Nat /\ line \in Seq(Url) /\ Len(line) = n /\ DOMAIN line = 1..n
        /\ outbox' = outbox \cup {NewRow(lastDelivery + i, line[i]) : i \in 1..n}
        /\ lastDelivery' = lastDelivery + n
  BY <1>1
<1>3. UNCHANGED <<accepted, abandoned>>
  BY DEF Dispatch, outside
<1> DEFINE New(u) == {lastDelivery + i : i \in {j \in DOMAIN line : line[j] = u}}
<1>4. ASSUME NEW u \in Url
      PROVE  LiveIds(u)' = LiveIds(u) \cup New(u)
  <2>1. \A d : d \in LiveIds(u)' <=> \E r \in outbox' : r.id = d /\ r.url = u /\ ~r.failed
    BY DEF LiveIds, Live
  <2>2. \A d : d \in LiveIds(u) <=> \E r \in outbox : r.id = d /\ r.url = u /\ ~r.failed
    BY DEF LiveIds, Live
  <2>3. ASSUME NEW r \in outbox', r \notin outbox, r.url = u PROVE r.id \in New(u)
    <3>1. PICK i \in 1..n : r = NewRow(lastDelivery + i, line[i])
      BY <1>2, <2>3
    <3>2. r.id = lastDelivery + i /\ line[i] = u
      BY <2>3, <3>1 DEF NewRow
    <3> QED BY <1>2, <3>2
  <2>4. ASSUME NEW d \in New(u) PROVE \E r \in outbox' : r.id = d /\ r.url = u /\ ~r.failed
    <3>1. PICK i \in 1..n : line[i] = u /\ d = lastDelivery + i
      BY <1>2, <2>4
    <3>2. NewRow(lastDelivery + i, line[i]) \in outbox'
      BY <1>2
    <3> QED BY <3>1, <3>2 DEF NewRow
  <2>5. outbox \subseteq outbox'
    BY <1>2
  <2> HIDE DEF New
  <2> QED BY <2>1, <2>2, <2>3, <2>4, <2>5
<1>5. OD!Publish(line)
  <2>1. [u \in Url |-> LiveIds(u)]' = [u \in Url |-> [v \in Url |-> LiveIds(v)][u] \cup New(u)]
    <3> HIDE DEF New
    <3>1. [u \in Url |-> LiveIds(u)]' = [u \in Url |-> LiveIds(u) \cup New(u)]
      BY <1>4
    <3> QED BY <3>1
  <2> QED BY <1>2, <1>3, <2>1 DEF OD!Publish
<1> HIDE DEF New
<1>6. \E m \in 0..Cardinality(Url) : \E l \in [1..m -> Url] : OD!Publish(l)
  BY <1>5
<1> QED BY <1>6 DEF OD!AbsNext

LEMMA AcceptAccepts ==
  ASSUME TypeOK, OutboxInv, NEW q \in wire, ReceiverAccepts(q)
  PROVE  [OD!AbsNext]_OD!absVars
<1>1. /\ UNCHANGED <<outbox, lastDelivery, abandoned>>
      /\ accepted' = [accepted EXCEPT ![q.url] =
                        IF q.id \in AcceptedIds(q.url) THEN @ ELSE Append(@, q.id)]
  BY DEF ReceiverAccepts, stored
<1>2. q.url \in Url /\ q.id \in 1..lastDelivery /\ (\A u \in Url : LiveIds(u)' = LiveIds(u))
  <2>1. q.url \in Url /\ q.id \in Nat \ {0} /\ q.id <= lastDelivery /\ lastDelivery \in Nat
    BY DEF TypeOK, Request, OutboxInv, Numbered
  <2> QED BY <2>1, <1>1, SameRows
<1>3. CASE q.id \in AcceptedIds(q.url)
  <2>1. accepted' = accepted
    BY <1>1, <1>3 DEF TypeOK
  <2> QED BY <1>1, <1>2, <2>1, SameQueuesStutter
<1>4. CASE q.id \notin AcceptedIds(q.url)
  <2>1. q.id \notin OD!SeenIds(q.url)
    BY <1>2, <1>4, LiveIssued
  <2>2. \/ q.id \in LiveIds(q.url) /\ \A e \in LiveIds(q.url) : q.id <= e
        \/ q.id \in abandoned[q.url]
    BY <1>2, <1>4, HeadIffLeast DEF OutboxInv, NoOvertaking
  <2>3. OD!Accept(q.url, q.id)
    BY <1>1, <1>2, <1>4, <2>1, <2>2 DEF OD!Accept
  <2> QED BY <1>2, <2>3 DEF OD!AbsNext
<1> QED BY <1>3, <1>4

LEMMA SuccessSettles ==
  ASSUME TypeOK, OutboxInv, NEW p \in posting, PostSucceeds(p)
  PROVE  [OD!AbsNext]_OD!absVars
<1>1. /\ outbox' = {r \in outbox : r.id # p.id} /\ p.id \in AcceptedIds(p.url)
      /\ UNCHANGED <<lastDelivery, accepted, abandoned>>
  BY DEF PostSucceeds, outside
<1>2. /\ p.url \in Url
      /\ \A r \in outbox : r.id = p.id => r.url = p.url
  BY PostedRow
<1>3. \A u \in Url : LiveIds(u)' = IF u = p.url THEN LiveIds(u) \ {p.id} ELSE LiveIds(u)
  BY <1>1, <1>2 DEF LiveIds, Live
<1>4. CASE p.id \in LiveIds(p.url)
  <2>1. p.id \in 1..lastDelivery /\ p.id \in OD!SeenIds(p.url)
    BY <1>1, <1>2, <1>4, LiveIssued
  <2>2. OD!Settle(p.url, p.id)
    BY <1>1, <1>2, <1>3, <1>4, <2>1 DEF OD!Settle
  <2> QED BY <1>2, <2>1, <2>2 DEF OD!AbsNext
<1>5. CASE p.id \notin LiveIds(p.url)
  BY <1>1, <1>3, <1>5, SameQueuesStutter
<1> QED BY <1>4, <1>5

LEMMA FailureGivesUp ==
  ASSUME TypeOK, OutboxInv, NEW p \in posting, PostFails(p)
  PROVE  [OD!AbsNext]_OD!absVars
<1> DEFINE terminal == p.attempts + 1 >= MaxAttempts
<1>1. /\ UNCHANGED <<lastDelivery, accepted>>
      /\ abandoned' = IF terminal /\ p.id \in LiveIds(p.url)
                      THEN [abandoned EXCEPT ![p.url] = @ \cup {p.id}]
                      ELSE abandoned
  BY DEF PostFails
<1>2. /\ p.url \in Url
      /\ \A r \in outbox : r.id = p.id => r \in Heads /\ r.url = p.url
  BY PostedRow
<1>3. \A u : LiveIds(u)' = IF terminal THEN LiveIds(u) \ {p.id} ELSE LiveIds(u)
  BY FailureEffect
<1> HIDE DEF terminal
<1>4. \A u \in Url : p.id \in LiveIds(u) => u = p.url /\ IsHead(p)
  BY <1>2 DEF LiveIds, Live, IsHead
<1>5. CASE terminal /\ p.id \in LiveIds(p.url)
  <2>1. p.id \in 1..lastDelivery /\ \A e \in LiveIds(p.url) : p.id <= e /\ e \in Nat
    BY <1>2, <1>4, <1>5, LiveIssued, HeadIffLeast DEF TypeOK
  <2>2. \A u \in Url : LiveIds(u)' = IF u = p.url THEN LiveIds(u) \ {p.id} ELSE LiveIds(u)
    BY <1>3, <1>4, <1>5
  <2>3. \A d \in {p.id}, e \in LiveIds(p.url) \ {p.id} : d < e
    BY <2>1
  <2>4. OD!GiveUp(p.url, {p.id})
    BY <1>1, <1>2, <1>5, <2>2, <2>3 DEF OD!GiveUp
  <2> QED BY <1>2, <2>1, <2>4 DEF OD!AbsNext
<1>6. CASE ~(terminal /\ p.id \in LiveIds(p.url))
  <2>1. \A u \in Url : LiveIds(u)' = LiveIds(u)
    BY <1>3, <1>4, <1>6
  <2> QED BY <1>1, <1>6, <2>1, SameQueuesStutter
<1> QED BY <1>5, <1>6

LEMMA DeleteGivesUp ==
  ASSUME TypeOK, OutboxInv, NEW u \in Url, DeleteWebhook(u)
  PROVE  OD!AbsNext
<1>1. /\ outbox' = {r \in outbox : r.url # u}
      /\ abandoned' = [abandoned EXCEPT ![u] = @ \cup LiveIds(u)]
      /\ UNCHANGED <<lastDelivery, accepted>>
  BY DEF DeleteWebhook
<1>2. LiveIds(u)' = {} /\ \A v \in Url \ {u} : LiveIds(v)' = LiveIds(v)
  BY <1>1 DEF LiveIds, Live
<1>3. LiveIds(u) \subseteq 1..lastDelivery
  BY LiveIssued
<1>4. OD!GiveUp(u, LiveIds(u))
  BY <1>1, <1>2 DEF OD!GiveUp
<1> QED BY <1>3, <1>4 DEF OD!AbsNext

LEMMA StepRefines ==
  ASSUME TypeOK, OutboxInv, [Next]_vars
  PROVE  [OD!AbsNext]_OD!absVars
<1>1. ASSUME NEW u \in Url, NEW events \in Subscriptions, CreateWebhook(u, events)
      PROVE  UNCHANGED <<outbox, lastDelivery, accepted, abandoned>>
  BY <1>1 DEF CreateWebhook, outside
<1>2. ASSUME \/ TimerFires \/ DrainResumes \/ DrainEnds \/ Boot \/ StartWorker \/ StopWorker
             \/ Exit \/ Crash \/ UNCHANGED vars
      PROVE  UNCHANGED <<outbox, lastDelivery, accepted, abandoned>>
  BY <1>2 DEF TimerFires, DrainResumes, DrainEnds, Boot, StartWorker, StopWorker, Exit, Crash,
              vars, stored, outside
<1>3. ASSUME UNCHANGED <<outbox, lastDelivery, accepted, abandoned>>
      PROVE  UNCHANGED OD!absVars
  BY <1>3, SameRows, SameQueuesStutter
<1>4. ASSUME Tick PROVE UNCHANGED OD!absVars
  <2>1. UNCHANGED <<lastDelivery, accepted, abandoned>>
    BY <1>4 DEF Tick, outside
  <2>2. \A u \in Url : LiveIds(u)' = LiveIds(u)
    BY <1>4, TickEffect DEF LiveIds, Live
  <2> QED BY <2>1, <2>2, SameQueuesStutter
<1> QED
  BY <1>1, <1>2, <1>3, <1>4, DispatchPublishes, AcceptAccepts, SuccessSettles, FailureGivesUp,
     DeleteGivesUp DEF Next

(* Every behaviour of the outbox, crashes and restarts included, is one of   *)
(* ordered at-least-once delivery ("jobs survive restart, remain ordered per *)
(* endpoint", docs/bluebubbles-api-surface.md).                              *)
THEOREM OutboxRefines == Spec => ImplementsOrderedDelivery
<1>1. Init => OD!AbsInit
  BY DEF Init, OD!AbsInit, LiveIds, Live
<1>2. TypeOK /\ OutboxInv /\ [Next]_vars => [OD!AbsNext]_OD!absVars
  BY StepRefines
<1> QED BY <1>1, <1>2, TypeCorrect, OutboxSafe, PTL DEF Spec, ImplementsOrderedDelivery, OD!AbsSpec

(* A late or repeated arrival never comes before one it should follow.      *)
LEMMA OrderStep ==
  ASSUME TypeOK, OutboxInv, FirstArrivalsInOrder, [Next]_vars
  PROVE  FirstArrivalsInOrder'
<1> USE DEF FirstArrivalsInOrder, OD!SeenInOrder
<1>1. ASSUME NEW q \in wire, ReceiverAccepts(q) PROVE FirstArrivalsInOrder'
  <2> DEFINE s == accepted[q.url]
  <2>1. /\ q.url \in Url /\ q.id \in Nat
        /\ \A u \in Url \ {q.url} : accepted'[u] = accepted[u]
        /\ accepted'[q.url] = IF q.id \in AcceptedIds(q.url) THEN s ELSE Append(s, q.id)
        /\ UNCHANGED abandoned
    BY <1>1, AcceptEffect DEF ReceiverAccepts
  <2>2. CASE q.id \in AcceptedIds(q.url)
    BY <2>1, <2>2
  <2>3. CASE q.id \notin AcceptedIds(q.url)
    <3>1. s \in Seq(Nat)
      BY <2>1 DEF TypeOK
    <3>2. /\ DOMAIN Append(s, q.id) = DOMAIN s \cup {Len(s) + 1}
          /\ DOMAIN s = 1..Len(s) /\ Len(s) \in Nat
          /\ \A i \in DOMAIN s : Append(s, q.id)[i] = s[i]
          /\ Append(s, q.id)[Len(s) + 1] = q.id
      BY <3>1
    <3>3. \A i \in DOMAIN s : s[i] \in AcceptedIds(q.url) /\ s[i] \in Nat
      BY <3>1, <3>2 DEF AcceptedIds
    <3>4. q.id \in abandoned[q.url] \/ \A a \in AcceptedIds(q.url) : a <= q.id
      BY <2>1, <2>3, HeadIffLeast DEF OutboxInv, NoOvertaking
    <3> SUFFICES ASSUME NEW u \in Url, NEW i \in DOMAIN accepted'[u],
                        NEW j \in DOMAIN accepted'[u], i < j
                 PROVE  accepted'[u][i] < accepted'[u][j] \/ accepted'[u][j] \in abandoned[u]
      BY <2>1
    <3> HIDE DEF s
    <3>5. CASE u # q.url
      BY <2>1, <3>5
    <3>6. CASE u = q.url /\ j \in DOMAIN s
      <4>1. i \in DOMAIN s /\ accepted'[u][i] = s[i] /\ accepted'[u][j] = s[j]
        BY <2>1, <2>3, <3>2, <3>6
      <4>2. s[i] < s[j] \/ s[j] \in abandoned[q.url]
        BY <2>1, <3>6, <4>1 DEF s
      <4> QED BY <3>6, <4>1, <4>2
    <3>7. CASE u = q.url /\ j \notin DOMAIN s
      <4>1. j = Len(s) + 1 /\ i \in DOMAIN s
        BY <2>1, <2>3, <3>2, <3>7
      <4>2. accepted'[u][j] = q.id /\ accepted'[u][i] = s[i]
        BY <2>1, <2>3, <3>2, <3>7, <4>1
      <4>3. s[i] # q.id
        BY <2>3, <3>3, <4>1
      <4> QED BY <2>1, <3>3, <3>4, <3>7, <4>1, <4>2, <4>3
    <3> QED BY <3>5, <3>6, <3>7
  <2> QED BY <2>2, <2>3
<1>2. ASSUME UNCHANGED accepted, \A u \in Url : abandoned[u] \subseteq abandoned'[u]
      PROVE  FirstArrivalsInOrder'
  BY <1>2
<1>3. ASSUME NEW u \in Url, DeleteWebhook(u)
      PROVE  UNCHANGED accepted /\ \A v \in Url : abandoned[v] \subseteq abandoned'[v]
  BY <1>3 DEF DeleteWebhook, TypeOK
<1>4. ASSUME NEW p \in posting, PostFails(p)
      PROVE  UNCHANGED accepted /\ \A v \in Url : abandoned[v] \subseteq abandoned'[v]
  BY <1>4 DEF PostFails, TypeOK
<1>5. ASSUME \/ \E u \in Url, events \in Subscriptions : CreateWebhook(u, events)
             \/ \E event \in EventName : Dispatch(event)
             \/ \E p \in posting : PostSucceeds(p)
      PROVE  UNCHANGED <<accepted, abandoned>>
  BY <1>5 DEF CreateWebhook, Dispatch, PostSucceeds, outside
<1>6. ASSUME \/ TimerFires \/ DrainResumes \/ DrainEnds \/ Boot \/ StartWorker \/ StopWorker
             \/ Exit \/ Crash \/ Tick \/ UNCHANGED vars
      PROVE  UNCHANGED <<accepted, abandoned>>
  BY <1>6 DEF TimerFires, DrainResumes, DrainEnds, Boot, StartWorker, StopWorker, Exit, Crash,
              Tick, vars, outside
<1> QED BY <1>1, <1>2, <1>3, <1>4, <1>5, <1>6 DEF Next

(* Receivers meet first arrivals in publication order, given-up ones apart, *)
(* across retries, late arrivals, crashes and restarts.                     *)
THEOREM ArrivalsInOrder == Spec => []FirstArrivalsInOrder
<1>1. Init => FirstArrivalsInOrder
  BY DEF Init, FirstArrivalsInOrder, OD!SeenInOrder
<1>2. TypeOK /\ OutboxInv /\ FirstArrivalsInOrder /\ [Next]_vars => FirstArrivalsInOrder'
  BY OrderStep
<1> QED BY <1>1, <1>2, TypeCorrect, OutboxSafe, PTL DEF Spec

(* A delivery that leaves its queue was accepted or given up; one that is    *)
(* published enters a queue.                                                 *)
LEMMA NothingLostStep ==
  ASSUME TypeOK, OutboxInv, NothingLost, [Next]_vars
  PROVE  NothingLost'
<1> DEFINE Known(u) == LiveIds(u) \cup abandoned[u] \cup AcceptedIds(u)
<1>1. (NothingLost <=> \A d \in 1..lastDelivery : \E u \in Url : d \in Known(u))
      /\ (NothingLost <=> \A d \in 1..lastDelivery : \E u \in Url : d \in Known(u))'
  BY DEF NothingLost, OD!NoneForgotten, OD!SeenIds, AcceptedIds
<1>2. ASSUME UNCHANGED lastDelivery, \A u \in Url : Known(u) \subseteq Known(u)'
      PROVE  NothingLost'
  <2> HIDE DEF Known
  <2> QED BY <1>1, <1>2
<1>3. ASSUME UNCHANGED <<outbox, abandoned, accepted>>
      PROVE  \A u \in Url : Known(u) \subseteq Known(u)'
  BY <1>3, SameRows DEF AcceptedIds
<1>4. ASSUME NEW event \in EventName, Dispatch(event) PROVE NothingLost'
  <2>1. PICK n \in Nat : \E line \in [1..n -> Url] :
          /\ outbox' = outbox \cup {NewRow(lastDelivery + i, line[i]) : i \in 1..n}
          /\ lastDelivery' = lastDelivery + n
    BY <1>4, DispatchEffect
  <2>2. PICK line \in [1..n -> Url] :
          /\ outbox' = outbox \cup {NewRow(lastDelivery + i, line[i]) : i \in 1..n}
          /\ lastDelivery' = lastDelivery + n
    BY <2>1
  <2>3. UNCHANGED <<accepted, abandoned>> /\ lastDelivery \in Nat
    BY <1>4 DEF Dispatch, outside, TypeOK
  <2>4. \A u \in Url : Known(u) \subseteq Known(u)'
    BY <2>2, <2>3 DEF LiveIds, Live, AcceptedIds
  <2>5. ASSUME NEW i \in 1..n PROVE lastDelivery + i \in LiveIds(line[i])'
    <3> DEFINE r == NewRow(lastDelivery + i, line[i])
    <3>1. r \in outbox'
      BY <2>2
    <3>2. r.id = lastDelivery + i /\ r.url = line[i] /\ ~r.failed
      BY DEF NewRow
    <3> HIDE DEF r
    <3> QED BY <3>1, <3>2 DEF LiveIds, Live
  <2>6. ASSUME NEW d \in 1..lastDelivery' PROVE \E u \in Url : d \in Known(u)'
    <3>1. CASE d \in 1..lastDelivery
      <4> HIDE DEF Known
      <4> QED BY <3>1, <1>1, <2>4
    <3>2. CASE d \notin 1..lastDelivery
      <4>1. d - lastDelivery \in 1..n /\ d = lastDelivery + (d - lastDelivery)
        BY <2>2, <2>3, <3>2
      <4>2. PICK i \in 1..n : d = lastDelivery + i
        BY <4>1
      <4>3. PICK u \in Url : u = line[i]
        OBVIOUS
      <4>4. d \in LiveIds(u)'
        BY <4>2, <4>3, <2>5
      <4> QED BY <4>4
    <3> QED BY <3>1, <3>2
  <2> HIDE DEF Known
  <2> QED BY <1>1, <2>6
<1>5. ASSUME NEW u \in Url, DeleteWebhook(u) PROVE NothingLost'
  <2>1. /\ outbox' = {r \in outbox : r.url # u}
        /\ abandoned' = [abandoned EXCEPT ![u] = @ \cup LiveIds(u)]
        /\ UNCHANGED <<lastDelivery, accepted>>
    BY <1>5 DEF DeleteWebhook
  <2>2. \A v \in Url \ {u} : LiveIds(v)' = LiveIds(v)
    BY <2>1 DEF LiveIds, Live
  <2>3. \A v \in Url : abandoned'[v] = IF v = u THEN abandoned[v] \cup LiveIds(v) ELSE abandoned[v]
    BY <2>1 DEF TypeOK
  <2> QED BY <1>2, <2>1, <2>2, <2>3 DEF AcceptedIds
<1>6. ASSUME NEW p \in posting, PostSucceeds(p) PROVE NothingLost'
  <2>1. /\ outbox' = {r \in outbox : r.id # p.id} /\ p.id \in AcceptedIds(p.url)
        /\ UNCHANGED <<lastDelivery, accepted, abandoned>>
    BY <1>6 DEF PostSucceeds, outside
  <2>2. \A u \in Url : LiveIds(u) \subseteq LiveIds(u)' \cup AcceptedIds(u)
    BY <2>1, PostedRow DEF LiveIds, Live
  <2> QED BY <1>2, <2>1, <2>2 DEF AcceptedIds
<1>7. ASSUME NEW p \in posting, PostFails(p) PROVE NothingLost'
  <2> DEFINE terminal == p.attempts + 1 >= MaxAttempts
  <2>1. /\ UNCHANGED <<lastDelivery, accepted>>
        /\ abandoned' = IF terminal /\ p.id \in LiveIds(p.url)
                        THEN [abandoned EXCEPT ![p.url] = @ \cup {p.id}]
                        ELSE abandoned
    BY <1>7 DEF PostFails
  <2>2. \A u : LiveIds(u)' = IF terminal THEN LiveIds(u) \ {p.id} ELSE LiveIds(u)
    BY <1>7, FailureEffect
  <2>3. \A u \in Url : p.id \in LiveIds(u) => u = p.url
    BY PostedRow DEF LiveIds, Live
  <2> HIDE DEF terminal
  <2>4. \A u \in Url : abandoned[u] \subseteq abandoned'[u]
    BY <2>1 DEF TypeOK
  <2>5. \A u \in Url : LiveIds(u) \subseteq LiveIds(u)' \cup abandoned'[u]
    BY <2>1, <2>2, <2>3 DEF TypeOK
  <2> QED BY <1>2, <2>1, <2>4, <2>5 DEF AcceptedIds
<1>8. ASSUME NEW q \in wire, ReceiverAccepts(q) PROVE NothingLost'
  <2>1. UNCHANGED <<lastDelivery, outbox, abandoned>>
    BY <1>8 DEF ReceiverAccepts, stored
  <2>2. \A u \in Url : AcceptedIds(u) \subseteq AcceptedIds(u)'
    BY <1>8, AcceptEffect
  <2> QED BY <1>2, <2>1, <2>2, SameRows
<1>9. ASSUME Tick PROVE NothingLost'
  <2>1. UNCHANGED <<lastDelivery, accepted, abandoned>>
    BY <1>9 DEF Tick, outside
  <2>2. \A u \in Url : LiveIds(u)' = LiveIds(u)
    BY <1>9, TickEffect DEF LiveIds, Live
  <2> QED BY <1>2, <2>1, <2>2 DEF AcceptedIds
<1>10. ASSUME NEW u \in Url, NEW events \in Subscriptions, CreateWebhook(u, events)
       PROVE  NothingLost'
  BY <1>2, <1>3, <1>10 DEF CreateWebhook, outside
<1>11. ASSUME \/ TimerFires \/ DrainResumes \/ DrainEnds \/ Boot \/ StartWorker \/ StopWorker
              \/ Exit \/ Crash \/ UNCHANGED vars
       PROVE  NothingLost'
  <2>1. UNCHANGED <<outbox, lastDelivery, accepted, abandoned>>
    BY <1>11 DEF TimerFires, DrainResumes, DrainEnds, Boot, StartWorker, StopWorker, Exit, Crash,
                 vars, stored, outside
  <2> QED BY <2>1, <1>2, <1>3
<1> QED
  BY <1>4, <1>5, <1>6, <1>7, <1>8, <1>9, <1>10, <1>11 DEF Next

(* A committed delivery stays owed until it is accepted or given up. *)
THEOREM DeliveriesKept == Spec => []NothingLost
<1>1. Init => NothingLost
  BY DEF Init, NothingLost, OD!NoneForgotten
<1>2. TypeOK /\ OutboxInv /\ NothingLost /\ [Next]_vars => NothingLost'
  BY NothingLostStep
<1> QED BY <1>1, <1>2, TypeCorrect, OutboxSafe, PTL DEF Spec

-----------------------------------------------------------------------------
(* The worker's wake-ups.                                                  *)

(* Arming never postpones a timer, and leaves one due in time. *)
LEMMA ArmTimerEffect ==
  ASSUME timer \in Nat \cup {NoTimer}, NEW delay \in Nat, ArmTimer(delay)
  PROVE  /\ timer' \in Nat /\ timer' <= delay
         /\ timer # NoTimer => timer' <= timer
BY DEF ArmTimer, NoTimer

LEMMA WakeupStep ==
  ASSUME TypeOK, OutboxInv, NoLostWakeup, [Next]_vars
  PROVE  NoLostWakeup'
<1> USE DEF NoLostWakeup
<1>1. /\ timer \in Nat \cup {NoTimer} /\ OneDrain /\ Heads \subseteq outbox /\ outbox \subseteq Row
      /\ \A r \in Heads : r.wait \in Nat
  BY BatchInOutbox DEF TypeOK, OutboxInv, Row
<1>2. ASSUME UNCHANGED <<worker, drain, timer>>, Heads' \subseteq Heads PROVE NoLostWakeup'
  BY <1>2
<1>3. ASSUME NEW u \in Url, NEW events \in Subscriptions, CreateWebhook(u, events)
      PROVE  NoLostWakeup'
  BY <1>2, <1>3, SameRows DEF CreateWebhook, volatile
<1>4. ASSUME NEW u \in Url, DeleteWebhook(u) PROVE NoLostWakeup'
  BY <1>2, <1>4 DEF DeleteWebhook, volatile, Heads, Live
<1>5. ASSUME NEW event \in EventName, Dispatch(event) PROVE NoLostWakeup'
  <2>1. PICK n \in Nat : \E line \in [1..n -> Url] :
          /\ outbox' = outbox \cup {NewRow(lastDelivery + i, line[i]) : i \in 1..n}
          /\ IF n > 0 THEN ScheduleWebhookDrain(0) ELSE UNCHANGED <<timer, wake>>
    BY <1>5, DispatchEffect
  <2>2. PICK line \in [1..n -> Url] :
          /\ outbox' = outbox \cup {NewRow(lastDelivery + i, line[i]) : i \in 1..n}
          /\ IF n > 0 THEN ScheduleWebhookDrain(0) ELSE UNCHANGED <<timer, wake>>
    BY <2>1
  <2>3. UNCHANGED <<worker, drain>>
    BY <1>5 DEF Dispatch
  <2>4. CASE n = 0
    <3>1. UNCHANGED <<outbox, timer>>
      BY <2>2, <2>4
    <3> QED BY <1>2, <2>3, <3>1, SameRows
  <2>5. CASE n > 0 /\ worker = "on" /\ drain = "idle"
    <3>1. ArmTimer(0)
      BY <2>2, <2>5 DEF ScheduleWebhookDrain
    <3>2. timer' = 0
      BY <1>1, <3>1, ArmTimerEffect
    <3>3. \A r \in outbox' : r.wait \in Nat
      BY <1>1, <2>2 DEF Row, NewRow
    <3> QED BY <3>2, <3>3 DEF Heads, Live, NoTimer
  <2>6. CASE ~(worker = "on" /\ drain = "idle")
    BY <2>3, <2>6
  <2> QED BY <2>4, <2>5, <2>6
<1>6. ASSUME TimerFires \/ DrainResumes PROVE NoLostWakeup'
  <2>1. DrainLoop
    BY <1>6 DEF TimerFires, DrainResumes
  <2>2. drain' # "idle"
    BY <2>1 DEF DrainLoop
  <2> QED BY <2>2
<1>7. ASSUME NEW p \in posting, PostSucceeds(p) \/ PostFails(p) PROVE NoLostWakeup'
  BY <1>1, <1>7 DEF PostSucceeds, PostFails, OneDrain
<1>8. CASE DrainEnds
  <2>1. timer = NoTimer /\ UNCHANGED <<outbox, worker>>
    BY <1>1, <1>8 DEF DrainEnds, OneDrain, stored
  <2>2. CASE worker = "on" /\ wake
    <3>1. timer' = 0
      BY <1>1, <1>8, <2>2, ArmTimerEffect DEF DrainEnds
    <3> QED BY <1>1, <2>1, <3>1, SameRows DEF NoTimer
  <2>3. CASE worker = "on" /\ ~wake /\ Heads # {}
    <3>1. PICK r \in Heads : (\A e \in Heads : r.wait <= e.wait) /\ ArmTimer(r.wait)
      BY <1>8, <2>3 DEF DrainEnds
    <3>2. timer' = r.wait
      BY <2>1, <3>1 DEF ArmTimer
    <3> QED BY <1>1, <2>1, <3>1, <3>2, SameRows DEF NoTimer
  <2>4. CASE Heads = {}
    BY <2>1, <2>4, SameRows
  <2>5. CASE worker # "on"
    BY <2>1, <2>5
  <2> QED BY <2>2, <2>3, <2>4, <2>5
<1>9. CASE StartWorker
  <2>1. timer' = 0 /\ UNCHANGED outbox
    BY <1>1, <1>9, ArmTimerEffect DEF StartWorker, stored
  <2> QED BY <1>1, <2>1, SameRows DEF NoTimer
<1>10. CASE Boot \/ StopWorker \/ Exit \/ Crash
  BY <1>10 DEF Boot, StopWorker, Exit, Crash
<1>11. ASSUME NEW q \in wire, ReceiverAccepts(q) PROVE NoLostWakeup'
  BY <1>2, <1>11, SameRows DEF ReceiverAccepts, stored, volatile
<1>12. CASE Tick
  <2>1. UNCHANGED <<worker, drain>> /\ timer' = Sooner(timer)
    BY <1>12 DEF Tick
  <2>2. ASSUME NEW e \in Heads' PROVE \E r \in Heads : e.wait = Sooner(r.wait)
    <3>1. PICK r \in outbox : /\ e.id = r.id /\ e.url = r.url /\ e.failed = r.failed
                              /\ e.wait = Sooner(r.wait)
      BY <1>12, TickEffect DEF Heads, Live
    <3>2. r \in Heads
      BY <1>12, <3>1, TickEffect DEF Heads, Live
    <3> QED BY <3>1, <3>2
  <2>3. ASSUME NEW e \in Heads', worker = "on", drain = "idle"
        PROVE  timer' # NoTimer /\ timer' <= e.wait
    <3>1. PICK r \in Heads : e.wait = Sooner(r.wait)
      BY <2>2
    <3>2. timer \in Nat /\ r.wait \in Nat /\ timer <= r.wait
      BY <1>1, <2>3
    <3> QED BY <2>1, <3>1, <3>2 DEF Sooner, NoTimer
  <2> QED BY <2>1, <2>3
<1>13. CASE UNCHANGED vars
  BY <1>2, <1>13, SameRows DEF vars, stored, volatile
<1> QED BY <1>3, <1>4, <1>5, <1>6, <1>7, <1>8, <1>9, <1>10, <1>11, <1>12, <1>13 DEF Next

(* Whenever the worker idles while a delivery waits, a timer will wake it in *)
(* time, whatever was enqueued, failed, deleted or finished meanwhile.       *)
THEOREM WorkerWoken == Spec => []NoLostWakeup
<1>1. Init => NoLostWakeup
  BY DEF Init, NoLostWakeup
<1>2. TypeOK /\ OutboxInv /\ NoLostWakeup /\ [Next]_vars => NoLostWakeup'
  BY WakeupStep
<1> QED BY <1>1, <1>2, TypeCorrect, OutboxSafe, PTL DEF Spec

-----------------------------------------------------------------------------
(* What ordered delivery itself gives a receiver: the first arrivals are in *)
(* publication order, given-up ones apart, and nothing is forgotten.        *)

(* The ids already settled for a receiver are older than its pending ones.  *)
SettledAreOlder ==
  \A u \in Receivers : \A d \in pending[u] :
    /\ \A e \in dropped[u] : e < d
    /\ \A e \in SeenIds(u) : e <= d

AbsInv == AbsTypeOK /\ SettledAreOlder /\ SeenInOrder /\ NoneForgotten

(* A longer log: one more id, and the earlier positions unchanged.          *)
LEMMA AppendedLog ==
  ASSUME NEW S, NEW s \in Seq(S), NEW d
  PROVE  /\ DOMAIN Append(s, d) = DOMAIN s \cup {Len(s) + 1}
         /\ DOMAIN s = 1..Len(s) /\ Len(s) \in Nat
         /\ \A i \in DOMAIN s : Append(s, d)[i] = s[i]
         /\ Append(s, d)[Len(s) + 1] = d
OBVIOUS

LEMMA AbsPublishInv ==
  ASSUME AbsInv, NEW n \in Nat, NEW line \in [1..n -> Receivers], Publish(line)
  PROVE  AbsInv'
<1> USE DEF AbsInv
<1>1. line \in Seq(Receivers) /\ Len(line) = n /\ DOMAIN line = 1..n
  <2>1. line \in Seq(Receivers) /\ DOMAIN line = 1..n
    OBVIOUS
  <2> QED BY <2>1
<1>2. /\ issued' = issued + n /\ issued \in Nat /\ issued' \in Nat
      /\ dropped' = dropped /\ seen' = seen
      /\ pending' = [u \in Receivers |-> pending[u] \cup {issued + i : i \in {j \in 1..n : line[j] = u}}]
  BY <1>1 DEF Publish, AbsTypeOK
<1>3. 1..issued \subseteq 1..issued'
  BY <1>2
<1>4. AbsTypeOK'
  <2>1. pending' \in [Receivers -> SUBSET (1..issued')]
    BY <1>2, <1>3 DEF AbsTypeOK
  <2>2. dropped' \in [Receivers -> SUBSET (1..issued')]
    BY <1>2, <1>3 DEF AbsTypeOK
  <2>3. seen' \in [Receivers -> Seq(1..issued')]
    <3>1. ASSUME NEW u \in Receivers PROVE seen[u] \in Seq(1..issued')
      <4>1. seen[u] \in Seq(1..issued)
        BY DEF AbsTypeOK
      <4> QED BY <4>1, <1>3, SeqMonotonic
    <3> DEFINE Log == Seq(1..issued')
    <3>2. seen = [u \in Receivers |-> seen[u]]
      BY DEF AbsTypeOK
    <3>3. \A u \in Receivers : seen[u] \in Log
      BY <3>1
    <3> HIDE DEF Log
    <3>4. seen \in [Receivers -> Log]
      BY <3>2, <3>3
    <3> QED BY <3>4, <1>2 DEF Log
  <2> QED BY <1>2, <2>1, <2>2, <2>3 DEF AbsTypeOK
<1>5. SettledAreOlder'
  <2> SUFFICES ASSUME NEW u \in Receivers, NEW d \in pending'[u]
               PROVE  (\A e \in dropped[u] : e < d) /\ (\A e \in SeenIds(u) : e <= d)
    BY <1>2 DEF SettledAreOlder, SeenIds
  <2>1. CASE d \in pending[u]
    BY <2>1 DEF SettledAreOlder
  <2>2. CASE d \notin pending[u]
    <3>1. PICK i \in 1..n : d = issued + i
      BY <2>2, <1>2
    <3>2. dropped[u] \subseteq 1..issued /\ SeenIds(u) \subseteq 1..issued
      BY DEF AbsTypeOK, SeenIds
    <3> QED BY <3>1, <3>2, <1>2
  <2> QED BY <2>1, <2>2
<1>6. SeenInOrder'
  BY <1>2 DEF SeenInOrder
<1>7. NoneForgotten'
  <2> SUFFICES ASSUME NEW d \in 1..issued'
               PROVE  \E u \in Receivers : d \in pending'[u] \cup dropped[u] \cup SeenIds(u)
    BY <1>2 DEF NoneForgotten, SeenIds
  <2>1. CASE d \in 1..issued
    BY <2>1, <1>2 DEF NoneForgotten
  <2>2. CASE d \notin 1..issued
    <3>1. d - issued \in 1..n /\ d = issued + (d - issued)
      BY <2>2, <1>2
    <3>2. line[d - issued] \in Receivers
      BY <3>1
    <3> QED BY <3>1, <3>2, <1>2
  <2> QED BY <2>1, <2>2
<1> QED BY <1>4, <1>5, <1>6, <1>7

LEMMA AbsAcceptInv ==
  ASSUME AbsInv, NEW u \in Receivers, NEW d \in 1..issued, Accept(u, d)
  PROVE  AbsInv'
<1> USE DEF AbsInv
<1> DEFINE s == seen[u]
           Log == Seq(1..issued)
<1>1. /\ UNCHANGED <<issued, pending, dropped>>
      /\ seen' = [seen EXCEPT ![u] = Append(s, d)]
  BY DEF Accept
<1>2. seen \in [Receivers -> Log] /\ s \in Seq(1..issued)
  BY DEF AbsTypeOK
<1>3. Append(s, d) \in Seq(1..issued)
  BY <1>2
<1>4. /\ DOMAIN Append(s, d) = DOMAIN s \cup {Len(s) + 1}
      /\ DOMAIN s = 1..Len(s) /\ Len(s) \in Nat
      /\ \A i \in DOMAIN s : Append(s, d)[i] = s[i]
      /\ Append(s, d)[Len(s) + 1] = d
  BY <1>2, AppendedLog
<1> HIDE DEF Log
<1>5. seen'[u] = Append(s, d) /\ \A v \in Receivers \ {u} : seen'[v] = seen[v]
  BY <1>1, <1>2
<1>6. seen' \in [Receivers -> Log]
  BY <1>1, <1>2, <1>3 DEF Log
<1>7. AbsTypeOK'
  BY <1>1, <1>6 DEF AbsTypeOK, Log
<1> HIDE DEF s
<1>8. SeenIds(u)' = SeenIds(u) \cup {d}
  BY <1>4, <1>5 DEF SeenIds, s
<1>9. \A v \in Receivers \ {u} : SeenIds(v)' = SeenIds(v)
  BY <1>5 DEF SeenIds
<1>10. d \notin SeenIds(u) /\ (d \in dropped[u] \/ \A e \in pending[u] : d <= e)
  BY DEF Accept
<1>11. SettledAreOlder'
  <2> SUFFICES ASSUME NEW v \in Receivers, NEW e \in pending[v], NEW f \in SeenIds(v)' PROVE f <= e
    BY <1>1 DEF SettledAreOlder
  <2>1. CASE f \in SeenIds(v)
    BY <2>1 DEF SettledAreOlder
  <2>2. CASE v = u /\ f = d
    <3>1. e \in Nat /\ d \in Nat
      BY DEF AbsTypeOK
    <3> QED BY <2>2, <3>1, <1>10 DEF SettledAreOlder
  <2> QED BY <2>1, <2>2, <1>8, <1>9
<1>12. SeenInOrder'
  <2> SUFFICES ASSUME NEW v \in Receivers, NEW i \in DOMAIN seen'[v], NEW j \in DOMAIN seen'[v], i < j
               PROVE  seen'[v][i] < seen'[v][j] \/ seen'[v][j] \in dropped[v]
    BY <1>1 DEF SeenInOrder
  <2>1. CASE v # u
    BY <2>1, <1>5 DEF SeenInOrder
  <2>2. CASE v = u /\ j \in DOMAIN s
    <3>1. i \in DOMAIN s
      BY <2>2, <1>4, <1>5
    <3> QED BY <2>2, <3>1, <1>4, <1>5 DEF SeenInOrder, s
  <2>3. CASE v = u /\ j = Len(s) + 1
    <3>1. seen'[v][j] = d
      BY <2>3, <1>4, <1>5
    <3>2. i \in DOMAIN s /\ seen'[v][i] = s[i]
      BY <2>3, <1>4, <1>5
    <3>3. s[i] \in SeenIds(u) /\ s[i] \in Nat /\ d \in Nat
      <4>1. s[i] \in 1..issued
        BY <3>2, <1>2, <1>4, ElementOfSeq
      <4>2. issued \in Nat
        BY DEF AbsTypeOK
      <4> QED BY <3>2, <4>1, <4>2 DEF SeenIds, s
    <3>4. CASE d \in dropped[u]
      BY <2>3, <3>1, <3>4
    <3>5. CASE d \notin dropped[u]
      <4>1. d \in pending[u]
        BY <3>5 DEF Accept
      <4> QED BY <2>3, <3>1, <3>2, <3>3, <4>1, <1>10 DEF SettledAreOlder
    <3> QED BY <3>4, <3>5
  <2> QED BY <2>1, <2>2, <2>3, <1>4, <1>5
<1>13. NoneForgotten'
  BY <1>1, <1>8, <1>9 DEF NoneForgotten
<1> QED BY <1>7, <1>11, <1>12, <1>13

LEMMA AbsSettleInv ==
  ASSUME AbsInv, NEW u \in Receivers, NEW d \in 1..issued, Settle(u, d)
  PROVE  AbsInv'
<1> USE DEF AbsInv
<1>1. /\ UNCHANGED <<issued, dropped, seen>> /\ d \in SeenIds(u)
      /\ pending' = [pending EXCEPT ![u] = @ \ {d}]
  BY DEF Settle
<1>2. /\ \A v \in Receivers : pending'[v] = IF v = u THEN pending[v] \ {d} ELSE pending[v]
      /\ pending' \in [Receivers -> SUBSET (1..issued)]
  BY <1>1 DEF AbsTypeOK
<1>3. AbsTypeOK'
  BY <1>1, <1>2 DEF AbsTypeOK
<1>4. SettledAreOlder' /\ SeenInOrder'
  BY <1>1, <1>2 DEF SettledAreOlder, SeenInOrder, SeenIds
<1>5. NoneForgotten'
  BY <1>1, <1>2 DEF NoneForgotten, SeenIds
<1> QED BY <1>3, <1>4, <1>5

LEMMA AbsGiveUpInv ==
  ASSUME AbsInv, NEW u \in Receivers, NEW ids \in SUBSET (1..issued), GiveUp(u, ids)
  PROVE  AbsInv'
<1> USE DEF AbsInv
<1>1. /\ UNCHANGED <<issued, seen>>
      /\ \A d \in ids, e \in pending[u] \ ids : d < e
      /\ pending' = [pending EXCEPT ![u] = @ \ ids]
      /\ dropped' = [dropped EXCEPT ![u] = @ \cup ids]
  BY DEF GiveUp
<1>2. /\ \A v \in Receivers : pending'[v] = IF v = u THEN pending[v] \ ids ELSE pending[v]
      /\ pending' \in [Receivers -> SUBSET (1..issued)]
  BY <1>1 DEF AbsTypeOK
<1>3. /\ \A v \in Receivers : dropped'[v] = IF v = u THEN dropped[v] \cup ids ELSE dropped[v]
      /\ dropped' \in [Receivers -> SUBSET (1..issued)]
  BY <1>1 DEF AbsTypeOK
<1>4. AbsTypeOK'
  BY <1>1, <1>2, <1>3 DEF AbsTypeOK
<1>5. SettledAreOlder'
  BY <1>1, <1>2, <1>3 DEF SettledAreOlder, SeenIds
<1>6. SeenInOrder'
  BY <1>1, <1>3 DEF SeenInOrder
<1>7. NoneForgotten'
  BY <1>1, <1>2, <1>3 DEF NoneForgotten, SeenIds
<1> QED BY <1>4, <1>5, <1>6, <1>7

(* Receivers meet first arrivals in publication order and nothing published *)
(* is forgotten, in every behaviour of ordered delivery.                    *)
THEOREM DeliveryOrdered ==
  ASSUME MaxFanout \in Nat
  PROVE  AbsSpec => [](SeenInOrder /\ NoneForgotten)
<1>1. AbsInit => AbsInv
  <2> SUFFICES ASSUME AbsInit PROVE AbsInv
    OBVIOUS
  <2>1. <<>> \in Seq(1..issued)
    OBVIOUS
  <2>2. AbsTypeOK
    BY <2>1 DEF AbsInit, AbsTypeOK
  <2> QED BY <2>2 DEF AbsInit, AbsInv, SettledAreOlder, SeenInOrder, NoneForgotten
<1>2. AbsInv /\ [AbsNext]_absVars => AbsInv'
  <2> SUFFICES ASSUME AbsInv, [AbsNext]_absVars PROVE AbsInv'
    OBVIOUS
  <2>1. ASSUME NEW n \in 0..MaxFanout, NEW line \in [1..n -> Receivers], Publish(line)
        PROVE  AbsInv'
    <3>1. n \in Nat
      OBVIOUS
    <3> QED BY <2>1, <3>1, AbsPublishInv
  <2>2. CASE UNCHANGED absVars
    BY <2>2 DEF absVars, AbsInv, AbsTypeOK, SettledAreOlder, SeenInOrder, NoneForgotten,
                SeenIds
  <2> QED BY <2>1, <2>2, AbsAcceptInv, AbsSettleInv, AbsGiveUpInv DEF AbsNext
<1>3. AbsInv => SeenInOrder /\ NoneForgotten
  BY DEF AbsInv
<1> QED BY <1>1, <1>2, <1>3, PTL DEF AbsSpec
=============================================================================
