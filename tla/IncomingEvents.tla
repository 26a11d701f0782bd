--------------------------- MODULE IncomingEvents ---------------------------
(***************************************************************************)
(* Incoming IDS envelopes: the durable claims of the table incoming_event   *)
(* (src/src/bluebubbles/store.ts), the tasks that handle an envelope        *)
(* (#handleIncoming and #handleClaimedIncoming of                           *)
(* src/src/bluebubbles/service.ts), and the processes of one profile, which *)
(* the native lease (src/src/native) keeps from using the engine together.  *)
(*                                                                          *)
(* Abstractions.  An envelope is its semantic key (incomingEventKey); it is *)
(* a message (a row, then files), a signal (an event and nothing else: a    *)
(* typing indicator, a read mark), or the ring or the end of one FaceTime   *)
(* call.  A process lives once and is its own claim owner, as every store   *)
(* object draws a fresh one.  Replays whose claim is refused change nothing *)
(* and are left out, and so are receipts, which are not claimed, and        *)
(* envelopes that publish nothing (a shared profile).  A step is what runs  *)
(* between two awaits or two commits, so that a process can die between any *)
(* two commits.  The snapshot a handled message asks for is left out.       *)
(***************************************************************************)
EXTENDS Integers

CONSTANTS
  Text, Signal, Ring, CallEnd,  \* envelope keys, by kind
  Process,                      \* the processes that may be started
  NoProcess

Key == Text \cup Signal \cup Ring \cup CallEnd

ASSUME IncomingAssumption ==
  /\ NoProcess \notin Process
  /\ Text \cap (Signal \cup Ring \cup CallEnd) = {}
  /\ Signal \cap (Ring \cup CallEnd) = {} /\ Ring \cap CallEnd = {}

VARIABLES
  (* durable *)
  claims,       \* rows of incoming_event by key
  ingested,     \* messages with a row
  emitted,      \* emitted[k][p]: events p published for k (webhook rows and
                \* Socket.IO)
  (* the processes *)
  process,      \* "new", "up", "draining", "down" or "crashed"
  overlapped,   \* processes that were still draining when another one started
  lease,        \* the process holding the profile lease, or NoProcess
  tasks,        \* #incomingTasks
  rung          \* #incomingFaceTimeAnnouncements holds the call

incomingVars == <<claims, ingested, emitted, process, overlapped, lease, tasks, rung>>

Claim == [owner : Process \cup {NoProcess}, completed : BOOLEAN]
Task == [key : Key, process : Process, stage : {"claimed", "stored", "asking", "handled"}]

NoClaim == [owner |-> NoProcess, completed |-> FALSE]

IncomingTypeOK ==
  /\ claims \in [Key -> Claim]
  /\ ingested \subseteq Text
  /\ emitted \in [Key -> [Process -> Nat]]
  /\ process \in [Process -> {"new", "up", "draining", "down", "crashed"}]
  /\ overlapped \subseteq Process
  /\ lease \in Process \cup {NoProcess}
  /\ tasks \subseteq Task
  /\ rung \in [Process -> BOOLEAN]

IncomingInit ==
  /\ claims = [k \in Key |-> NoClaim]
  /\ ingested = {}
  /\ emitted = [k \in Key |-> [p \in Process |-> 0]]
  /\ process = [p \in Process |-> "new"]
  /\ overlapped = {}
  /\ lease = NoProcess
  /\ tasks = {}
  /\ rung = [p \in Process |-> FALSE]

-----------------------------------------------------------------------------
(* Handling an envelope.                                                    *)

(* INSERT OR IGNORE, or the reclaim of an incomplete claim of another owner. *)
Claimable(p, k) ==
  \/ claims[k].owner = NoProcess
  \/ ~claims[k].completed /\ claims[k].owner # p

(* A ring is announced once; before its announcement the engine is asked    *)
(* for the call.  A ring that was announced already is handled.             *)
FirstStage(p, k) ==
  IF k \in Ring THEN IF rung[p] THEN "handled" ELSE "asking" ELSE "claimed"

Deliver(p, k) ==
  /\ process[p] = "up"
  /\ Claimable(p, k)
  /\ claims' = [claims EXCEPT ![k] = [owner |-> p, completed |-> FALSE]]
  /\ tasks' = tasks \cup {[key |-> k, process |-> p, stage |-> FirstStage(p, k)]}
  /\ rung' = [rung EXCEPT ![p] = k \in Ring \/ (@ /\ k \notin CallEnd)]
  /\ UNCHANGED <<ingested, emitted, process, overlapped, lease>>

Moved(t, stage) == (tasks \ {t}) \cup {[t EXCEPT !.stage = stage]}

(* ingestIncoming: the row is committed, the attachments are being written. *)
Store(t) ==
  /\ t.stage = "claimed" /\ t.key \in Text
  /\ ingested' = ingested \cup {t.key}
  /\ tasks' = Moved(t, "stored")
  /\ UNCHANGED <<claims, emitted, process, overlapped, lease, rung>>

(* The event can be published: the files of a message are written, a signal   *)
(* has nothing to wait for, and the engine, while it runs, answered a ring.  *)
Ready(t) ==
  \/ t.stage = "stored"
  \/ t.stage = "claimed" /\ t.key \notin Text
  \/ t.stage = "asking" /\ process[t.process] = "up"

(* dispatch(): the webhook rows are committed and the event is emitted. *)
Emit(t) ==
  /\ Ready(t)
  /\ emitted' = [emitted EXCEPT ![t.key][t.process] = @ + 1]
  /\ tasks' = Moved(t, "handled")
  /\ UNCHANGED <<claims, ingested, process, overlapped, lease, rung>>

(* completeIncomingEvent and releaseIncomingEvent touch only a claim that is *)
(* still the caller's own.                                                  *)
Owned(t) == claims[t.key].owner = t.process /\ ~claims[t.key].completed

Complete(t) ==
  /\ t.stage = "handled"
  /\ tasks' = tasks \ {t}
  /\ claims' = IF Owned(t) THEN [claims EXCEPT ![t.key].completed = TRUE] ELSE claims
  /\ UNCHANGED <<ingested, emitted, process, overlapped, lease, rung>>

(* Mutant: a failed task keeps its claim. *)
FailWithoutRelease(t) ==
  /\ t.stage # "handled"
  /\ tasks' = tasks \ {t}
  /\ UNCHANGED <<claims, ingested, emitted, process, overlapped, lease, rung>>

(* Writing a file, asking the engine or queueing the event threw.  The       *)
(* announcement of a ring is not taken back.                                *)
Fail(t) ==
  /\ t.stage # "handled"
  /\ tasks' = tasks \ {t}
  /\ claims' = IF Owned(t) THEN [claims EXCEPT ![t.key] = NoClaim] ELSE claims
  /\ UNCHANGED <<ingested, emitted, process, overlapped, lease, rung>>

-----------------------------------------------------------------------------
(* The processes.                                                           *)

Tasks(p) == {t \in tasks : t.process = p}

StartProcess(p) ==
  /\ process[p] = "new" /\ lease = NoProcess
  /\ process' = [process EXCEPT ![p] = "up"]
  /\ lease' = p
  /\ overlapped' = overlapped \cup {q \in Process : process[q] = "draining"}
  /\ UNCHANGED <<claims, ingested, emitted, tasks, rung>>

(* engine.close(), or the death of the engine: the child exits, which fails  *)
(* what it was asked and releases the lease; the tasks in flight go on.     *)
CloseEngine(p) ==
  /\ process[p] = "up"
  /\ process' = [process EXCEPT ![p] = "draining"]
  /\ lease' = NoProcess
  /\ UNCHANGED <<claims, ingested, emitted, overlapped, tasks, rung>>

(* Mutant: stop() does not wait for the tasks in flight. *)
ExitAtOnce(p) ==
  /\ process[p] = "draining"
  /\ process' = [process EXCEPT ![p] = "down"]
  /\ tasks' = tasks \ Tasks(p)
  /\ UNCHANGED <<claims, ingested, emitted, overlapped, lease, rung>>

Exit(p) ==
  /\ process[p] = "draining"
  /\ Tasks(p) = {}
  /\ process' = [process EXCEPT ![p] = "down"]
  /\ UNCHANGED <<claims, ingested, emitted, overlapped, lease, tasks, rung>>

(* The operating system releases the lease of a dead process. *)
Crash(p) ==
  /\ process[p] \in {"up", "draining"}
  /\ process' = [process EXCEPT ![p] = "crashed"]
  /\ lease' = IF lease = p THEN NoProcess ELSE lease
  /\ tasks' = tasks \ Tasks(p)
  /\ UNCHANGED <<claims, ingested, emitted, overlapped, rung>>

IncomingNext ==
  \/ \E p \in Process, k \in Key : Deliver(p, k)
  \/ \E t \in tasks : Store(t) \/ Emit(t) \/ Complete(t) \/ Fail(t)
  \/ \E p \in Process : StartProcess(p) \/ CloseEngine(p) \/ Exit(p) \/ Crash(p)

IncomingSpec == IncomingInit /\ [][IncomingNext]_incomingVars

-----------------------------------------------------------------------------
(* Safety.                                                                  *)

Alive(p) == process[p] \in {"up", "draining"}

(* An incomplete claim is never a tombstone: a living owner has a task for    *)
(* it, and the claim of a dead one can be reclaimed by any process that is up *)
(* (releaseIncomingEvent in #handleIncoming, the reclaim of                  *)
(* claimIncomingEvent).                                                      *)
NoTombstone ==
  \A k \in Key :
    claims[k].owner # NoProcess /\ ~claims[k].completed =>
      \/ \E t \in tasks : t.key = k /\ t.process = claims[k].owner
      \/ /\ ~Alive(claims[k].owner)
         /\ \A p \in Process : process[p] = "up" => Claimable(p, k)

(* A completed envelope was published, and a completed message is stored:    *)
(* the claim suppresses replays only of what is done.  A ring may be         *)
(* completed in favour of another ring.                                      *)
CompletedIsDone ==
  \A k \in Key \ Ring :
    claims[k].completed => /\ \E p \in Process : emitted[k][p] > 0
                           /\ k \in Text => k \in ingested

(* One task handles an envelope in a process, and two processes handle the   *)
(* same envelope only while one of them is past its engine.close().          *)
OneHandler ==
  \A t, u \in tasks :
    t.key = u.key /\ t # u =>
      /\ t.process # u.process
      /\ process[t.process] = "draining" \/ process[u.process] = "draining"

(* However often an envelope is replayed, a process publishes it once. *)
OncePerProcess == \A k \in Key, p \in Process : emitted[k][p] <= 1

(* An envelope is published by a second process only when one of the two      *)
(* crashed, or was still draining its tasks when another one got the lease:  *)
(* a shutdown that ends before the next start hands over cleanly.            *)
DuplicateNeedsCrash ==
  \A k \in Key : \A p, q \in Process :
    p # q /\ emitted[k][p] > 0 /\ emitted[k][q] > 0 =>
      \E r \in {p, q} : process[r] = "crashed" \/ r \in overlapped

-----------------------------------------------------------------------------
(* The inductive invariant.                                                 *)

(* One process is up, the holder of the lease; a process that drains beside  *)
(* it, or beside another one that drains, was overlapped.                    *)
LeaseInv ==
  /\ \A p \in Process : process[p] = "up" <=> lease = p
  /\ \A p \in Process : process[p] = "new" =>
       \A k \in Key : claims[k].owner # p /\ emitted[k][p] = 0
  /\ \A p \in overlapped : process[p] \notin {"new", "up"}
  /\ \A p, q \in Process :
       process[p] = "draining" /\ (process[q] = "up" \/ (process[q] = "draining" /\ p # q)) =>
         p \in overlapped \/ q \in overlapped

(* A task belongs to a living process, is the only one for its envelope      *)
(* there, and owns the claim unless its process was overlapped.              *)
TaskInv ==
  /\ \A t \in tasks : Alive(t.process)
  /\ \A t \in tasks : Owned(t) \/ t.process \in overlapped
  /\ \A t \in tasks : claims[t.key].owner = t.process => ~claims[t.key].completed
  /\ \A t, u \in tasks : t.key = u.key /\ t.process = u.process => t = u

(* How far a task is says what was stored and published. *)
StageInv ==
  \A t \in tasks :
    /\ t.stage = "asking" => t.key \in Ring
    /\ t.stage # "handled" => emitted[t.key][t.process] = 0
    /\ t.stage = "handled" /\ t.key \notin Ring => emitted[t.key][t.process] > 0
    /\ t.stage \in {"stored", "handled"} /\ t.key \in Text => t.key \in ingested

(* Who published an envelope, and neither crashed nor was overlapped, holds  *)
(* its claim: for good, or until its task completes it.                      *)
PublisherInv ==
  \A k \in Key, p \in Process :
    emitted[k][p] > 0 /\ p \notin overlapped /\ process[p] # "crashed" =>
      /\ claims[k].owner = p
      /\ \/ claims[k].completed
         \/ \E t \in tasks : t.key = k /\ t.process = p /\ t.stage = "handled"

IncomingInv ==
  /\ LeaseInv /\ TaskInv /\ StageInv /\ PublisherInv
  /\ NoTombstone /\ CompletedIsDone /\ OncePerProcess /\ DuplicateNeedsCrash

-----------------------------------------------------------------------------
(* Claims of comments the code does not keep.                               *)

(* "this durable key keeps webhooks and Socket.IO events idempotent across   *)
(* process restarts" (claimIncomingEvent).                                   *)
EmittedOnce ==
  \A k \in Key : \A p, q \in Process :
    emitted[k][p] > 0 /\ emitted[k][q] > 0 => p = q

(* "Do not permanently suppress a replay when [...] failed before the event  *)
(* was completed" (#handleIncoming): once a ring of the call is completed,   *)
(* some ring of it was published.                                            *)
RingReported ==
  (\E k \in Ring : claims[k].completed) =>
    \E k \in Ring, p \in Process : emitted[k][p] > 0
=============================================================================
