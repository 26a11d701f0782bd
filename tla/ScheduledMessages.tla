------------------------- MODULE ScheduledMessages -------------------------
(***************************************************************************)
(* The durable scheduler of a profile: the table scheduled_message          *)
(* (src/src/bluebubbles/store.ts), the timers and tasks of                  *)
(* BlueBubblesScheduler (src/src/bluebubbles/scheduler.ts), its clients on  *)
(* the API (src/src/bluebubbles/server.ts), and a process that can be       *)
(* stopped or killed at any point while the clock goes on.                  *)
(*                                                                          *)
(* Abstractions.  A payload is the number of the draft that carried it (its *)
(* edition); a schedule is its step in milliseconds, 0 for "once"; the      *)
(* error and sent_at columns and the realtime events are left out.  Between *)
(* two awaits the code is one action: start() awaits nothing but its own    *)
(* microtasks, so it is one action too.                                     *)
(***************************************************************************)
EXTENDS Integers

CONSTANTS
  Dues, Steps,  \* times and schedules of the drafts clients send; step 0 is "once"
  MaxTimeout,   \* MAX_TIMEOUT_MS, the longest delay of setTimeout
  MaxDate,      \* the latest Date; toISOString throws a RangeError past it
  MaxJobs, MaxEditions, MaxTime   \* bounds of a TLC run

ASSUME SchedulerAssumption ==
  /\ Dues \subseteq Nat /\ Steps \subseteq Nat
  /\ MaxTimeout \in Nat \ {0}
  /\ MaxDate \in Nat
  /\ MaxJobs \in Nat /\ MaxEditions \in Nat /\ MaxTime \in Nat

VARIABLES
  now,          \* Date.now()
  jobs,         \* rows of scheduled_message by id
  lastJob,      \* sqlite_sequence of scheduled_message
  service,      \* "down", "on", "half" (start threw, timers run), "stopping"
  timers,       \* #timers: when the timer of an id fires, or NoTimer
  sending,      \* #inFlight: the row each running #wake read
  editions,     \* number of drafts accepted so far
  latest,       \* edition of the last draft a client stored under an id
  sent          \* occurrences handed to send()

schedulerVars == <<now, jobs, lastJob, service, timers, sending, editions, latest, sent>>

Id == 1..MaxJobs
Status == {"none", "pending", "in-progress", "complete", "error"}
Job == [edition : Nat, due : Nat, step : Nat, status : Status]
Active == [id : Id, edition : Nat, due : Nat, step : Nat]
Occurrence == [edition : Nat, due : Nat]

NoJob == [edition |-> 0, due |-> 0, step |-> 0, status |-> "none"]
NoTimer == -1
NoTimers == [i \in Id |-> NoTimer]

SchedulerTypeOK ==
  /\ now \in Nat
  /\ jobs \in [Id -> Job]
  /\ lastJob \in 0..MaxJobs
  /\ service \in {"down", "on", "half", "stopping"}
  /\ timers \in [Id -> Nat \cup {NoTimer}]
  /\ sending \subseteq Active
  /\ editions \in Nat
  /\ latest \in [Id -> Nat]
  /\ sent \subseteq Occurrence

SchedulerInit ==
  /\ now = 0
  /\ jobs = [i \in Id |-> NoJob]
  /\ lastJob = 0
  /\ service = "down"
  /\ timers = NoTimers
  /\ sending = {}
  /\ editions = 0
  /\ latest = [i \in Id |-> 0]
  /\ sent = {}

-----------------------------------------------------------------------------
(* #reschedule: the first occurrence after the one at hand that is still    *)
(* ahead of the clock.                                                      *)

NextDue(job) ==
  job.due + job.step * (1 + (IF now > job.due THEN (now - job.due) \div job.step ELSE 0))

Recurs(job) == job.step > 0

Overflows(job) == Recurs(job) /\ NextDue(job) > MaxDate

(* A row after an attempt: a one-time job ends with the outcome, a recurring *)
(* one is pending again, whatever the outcome was.                          *)
Settled(job, outcome) ==
  [edition |-> job.edition, step |-> job.step,
   due    |-> IF Recurs(job) THEN NextDue(job) ELSE job.due,
   status |-> IF Recurs(job) THEN "pending" ELSE outcome]

-----------------------------------------------------------------------------
(* #arm: only a started scheduler arms, and only pending jobs.               *)

Started == service \in {"on", "half"}

Later(t) == IF t > now THEN t ELSE now

(* setTimeout cannot wait longer than MaxTimeout. *)
FireTime(due) == IF due > now + MaxTimeout THEN now + MaxTimeout ELSE Later(due)

Armed(i, job) ==
  IF Started /\ job.status = "pending"
  THEN [timers EXCEPT ![i] = FireTime(job.due)]
  ELSE timers

-----------------------------------------------------------------------------
(* Clients.  The API is served while the process is "on"; a draft is         *)
(* refused when its time has passed or is not a Date.                       *)

Draft(due, step) ==
  [edition |-> editions + 1, due |-> due, step |-> step, status |-> "pending"]

Acceptable(due) == now <= due /\ due <= MaxDate

StoreDraft(i, due, step) ==
  /\ service = "on"
  /\ Acceptable(due)
  /\ editions < MaxEditions
  /\ editions' = editions + 1
  /\ jobs' = [jobs EXCEPT ![i] = Draft(due, step)]
  /\ latest' = [latest EXCEPT ![i] = editions + 1]
  /\ timers' = Armed(i, Draft(due, step))
  /\ UNCHANGED <<now, service, sending, sent>>

Create(due, step) ==
  /\ lastJob < MaxJobs
  /\ lastJob' = lastJob + 1
  /\ StoreDraft(lastJob + 1, due, step)

Update(i, due, step) ==
  /\ jobs[i].status # "none"
  /\ StoreDraft(i, due, step)
  /\ UNCHANGED lastJob

Delete(i) ==
  /\ service = "on"
  /\ jobs[i].status # "none"
  /\ jobs' = [jobs EXCEPT ![i] = NoJob]
  /\ latest' = [latest EXCEPT ![i] = 0]
  /\ timers' = [timers EXCEPT ![i] = NoTimer]
  /\ UNCHANGED <<now, lastJob, service, sending, editions, sent>>

-----------------------------------------------------------------------------
(* #wake.                                                                   *)

Snapshot(i) ==
  [id |-> i, edition |-> jobs[i].edition, due |-> jobs[i].due, step |-> jobs[i].step]

Attempt(i) ==
  /\ timers' = [timers EXCEPT ![i] = NoTimer]
  /\ jobs' = [jobs EXCEPT ![i].status = "in-progress"]
  /\ sending' = sending \cup {Snapshot(i)}
  /\ sent' = sent \cup {[edition |-> jobs[i].edition, due |-> jobs[i].due]}

(* Mutant: a timer that fires early is not armed again. *)
WakeWithoutRearm(i) ==
  /\ Started
  /\ timers[i] # NoTimer /\ timers[i] <= now
  /\ \/ /\ jobs[i].status # "pending" \/ jobs[i].due > now
        /\ timers' = [timers EXCEPT ![i] = NoTimer]
        /\ UNCHANGED <<jobs, sending, sent>>
     \/ /\ jobs[i].status = "pending" /\ jobs[i].due <= now
        /\ Attempt(i)
  /\ UNCHANGED <<now, lastJob, service, editions, latest>>

(* The row is read again: it may be gone or settled, or not due yet (the    *)
(* timer was cut to MaxTimeout), or it is sent.                             *)
Wake(i) ==
  /\ Started
  /\ timers[i] # NoTimer /\ timers[i] <= now
  /\ \/ /\ jobs[i].status # "pending"
        /\ timers' = [timers EXCEPT ![i] = NoTimer]
        /\ UNCHANGED <<jobs, sending, sent>>
     \/ /\ jobs[i].status = "pending" /\ jobs[i].due > now
        /\ timers' = Armed(i, jobs[i])
        /\ UNCHANGED <<jobs, sending, sent>>
     \/ /\ jobs[i].status = "pending" /\ jobs[i].due <= now
        /\ Attempt(i)
  /\ UNCHANGED <<now, lastJob, service, editions, latest>>

(* send() resolved ("complete") or rejected ("error").  The row read before  *)
(* the send, not the row of now, is what is written back under its id.      *)
SendSettles(a, outcome) ==
  /\ a \in sending /\ ~Overflows(a)
  /\ sending' = sending \ {a}
  /\ \/ /\ jobs[a.id].status = "none"
        /\ UNCHANGED <<jobs, timers>>
     \/ /\ jobs[a.id].status # "none"
        /\ jobs' = [jobs EXCEPT ![a.id] = Settled(a, outcome)]
        /\ timers' = IF Recurs(a) THEN Armed(a.id, Settled(a, outcome)) ELSE timers
  /\ UNCHANGED <<now, lastJob, service, editions, latest, sent>>

-----------------------------------------------------------------------------
(* The process.                                                             *)

Gone ==
  /\ service' = "down"
  /\ timers' = NoTimers
  /\ sending' = {}
  /\ UNCHANGED <<now, jobs, lastJob, editions, latest, sent>>

(* #reschedule throws, again from the catch block: an unhandled rejection,   *)
(* which ends the process.                                                  *)
SendOverflows(a) ==
  /\ a \in sending /\ Overflows(a)
  /\ Gone

(* #restore does not leave a row of an earlier run as it is when the run     *)
(* ended in the middle of it, or when its time passed meanwhile.             *)
Stale(job) ==
  \/ job.status = "in-progress"
  \/ job.status = "pending" /\ job.due <= now
  \/ job.status \in {"complete", "error"} /\ Recurs(job)

(* Mutant: a job the last run was sending is tried again. *)
RestoredForRetry(job) ==
  IF job.status = "in-progress" THEN [job EXCEPT !.status = "pending"]
  ELSE IF Stale(job) THEN Settled(job, "error") ELSE job

Restored(job) == IF Stale(job) THEN Settled(job, "error") ELSE job

(* start() restores the rows in the order of their ids, up to the first one  *)
(* whose #reschedule throws: nothing after that row is restored, and the     *)
(* timers armed so far stay.                                                *)
Restores(i) == \A k \in 1..i : ~(Stale(jobs[k]) /\ Overflows(jobs[k]))

StartScheduler ==
  /\ service = "down"
  /\ service' = IF Restores(MaxJobs) THEN "on" ELSE "half"
  /\ jobs' = [i \in Id |-> IF Restores(i) THEN Restored(jobs[i]) ELSE jobs[i]]
  /\ timers' = [i \in Id |-> IF Restores(i) /\ Restored(jobs[i]).status = "pending"
                             THEN FireTime(Restored(jobs[i]).due)
                             ELSE NoTimer]
  /\ UNCHANGED <<now, lastJob, sending, editions, latest, sent>>

Stop ==
  /\ service = "on"
  /\ service' = "stopping"
  /\ timers' = NoTimers
  /\ UNCHANGED <<now, jobs, lastJob, sending, editions, latest, sent>>

(* stop() has awaited the tasks in flight. *)
ExitScheduler ==
  /\ service = "stopping" /\ sending = {}
  /\ Gone

CrashScheduler ==
  /\ service # "down"
  /\ Gone

Tick ==
  /\ now < MaxTime
  /\ now' = now + 1
  /\ UNCHANGED <<jobs, lastJob, service, timers, sending, editions, latest, sent>>

SchedulerNext ==
  \/ \E due \in Dues, step \in Steps : Create(due, step)
  \/ \E i \in Id, due \in Dues, step \in Steps : Update(i, due, step)
  \/ \E i \in Id : Delete(i)
  \/ \E i \in Id : Wake(i)
  \/ \E a \in sending, outcome \in {"complete", "error"} : SendSettles(a, outcome)
  \/ \E a \in sending : SendOverflows(a)
  \/ StartScheduler \/ Stop \/ ExitScheduler \/ CrashScheduler
  \/ Tick

SchedulerSpec == SchedulerInit /\ [][SchedulerNext]_schedulerVars

(* Timers fire, sends end (the engine's requests time out), and time passes  *)
(* until the end of the run.  Nothing is assumed of clients or of crashes.   *)
Fairness ==
  /\ \A i \in Id : WF_schedulerVars(Wake(i))
  /\ WF_schedulerVars(\E a \in sending :
               \/ \E outcome \in {"complete", "error"} : SendSettles(a, outcome)
               \/ SendOverflows(a))
  /\ WF_schedulerVars(Tick)

FairSpec == SchedulerSpec /\ Fairness

-----------------------------------------------------------------------------
(* Safety.                                                                  *)

(* A served scheduler holds a timer for every pending job that fires no      *)
(* later than the job is due: neither an edit, nor a completion that comes   *)
(* after an edit, nor a timer cut to MAX_TIMEOUT_MS, nor a restart leaves a  *)
(* job without one (#arm, #wake, #restore).                                 *)
PendingIsArmed ==
  service = "on" =>
    \A i \in Id : jobs[i].status = "pending" =>
      timers[i] # NoTimer /\ timers[i] <= jobs[i].due

(* Once stop() has cleared the timers nothing arms one again, the tasks      *)
(* still in flight included (the check of #started in #arm).                 *)
QuietAfterStop == ~Started => timers = NoTimers

(* While a process serves or stops, a job in progress has a task that will   *)
(* settle it: a crash in the middle of a send leaves no row in progress      *)
(* behind after the restart (#restore).                                      *)
NoOrphanedAttempt ==
  service \in {"on", "stopping"} =>
    \A i \in Id : jobs[i].status = "in-progress" => Snapshot(i) \in sending

(* #wake validates the due time of the row it reads: no occurrence is sent   *)
(* before its time.                                                          *)
NeverEarly == \A s \in sent : s.due <= now

(* An edition names one job, and a task one attempt of it. *)
OneAttemptPerEdition ==
  /\ \A i, k \in Id : jobs[i].edition = jobs[k].edition /\ jobs[i].status # "none" => i = k
  /\ \A a \in sending : \A i \in Id :
       a.edition = jobs[i].edition =>
         a.id = i /\ jobs[i].status = "in-progress" /\ jobs[i].due = a.due
  /\ \A a, b \in sending : a.edition = b.edition => a = b

(* What is pending has not been sent yet, in this run or an earlier one. *)
PendingIsUnsent ==
  \A i \in Id, s \in sent :
    s.edition = jobs[i].edition =>
      s.due < jobs[i].due \/ (s.due = jobs[i].due /\ jobs[i].status # "pending")

(* What the counters and histories say of each other. *)
Bookkept ==
  /\ service = "down" => sending = {}
  /\ \A i \in Id :
       /\ jobs[i].status = "none" <=> jobs[i].edition = 0
       /\ jobs[i].edition <= editions
       /\ i > lastJob => jobs[i].status = "none"
  /\ \A x \in sending \cup sent : 0 < x.edition /\ x.edition <= editions
  /\ \A a \in sending : a.id <= lastJob
  /\ \A a \in sending, s \in sent : s.edition = a.edition => s.due <= a.due

(* The inductive invariant. *)
SchedulerInv ==
  /\ Bookkept
  /\ PendingIsArmed
  /\ QuietAfterStop
  /\ NoOrphanedAttempt
  /\ NeverEarly
  /\ OneAttemptPerEdition
  /\ PendingIsUnsent

(* No occurrence is handed to send() twice, whatever crashes, restarts and   *)
(* edits come between: #wake marks the row before it sends, and #restore     *)
(* never sends an attempt that was cut short again.                          *)
SentOnce ==
  [][\A a \in sending' \ sending : [edition |-> a.edition, due |-> a.due] \notin sent]_schedulerVars

(* A deleted job stays deleted: a task that settles after the DELETE updates *)
(* no row (saveScheduledMessage is an UPDATE), and ids are not reused.       *)
DeletedStaysDeleted ==
  [][\A i \in 1..lastJob : jobs[i].status = "none" => jobs'[i].status = "none"]_schedulerVars

-----------------------------------------------------------------------------
(* Claims of comments and docs the code does not keep.                      *)

(* "every wake reloads the SQLite row and validates its due time, so an      *)
(* update/delete cannot fire an obsolete job" (class comment): the edition   *)
(* handed to send() is the last one a client stored.                        *)
NoObsoleteJob == [][\A a \in sending' \ sending : a.edition = latest[a.id]]_schedulerVars

(* "One-time and recurring jobs survive restart"                             *)
(* (docs/bluebubbles-compatibility.md): start() comes to its end.            *)
RestartCompletes == service # "half"

-----------------------------------------------------------------------------
(* Liveness.                                                                *)

(* While a process serves, the time of a pending occurrence comes and it is  *)
(* handed to send(), unless a client edits or deletes the job first: cut     *)
(* timers are armed again and each wake rereads the row (#arm, #wake).  Not  *)
(* so for an edit stored while the job is being sent: the send may write its *)
(* own row back over it (scheduler.ts:140).                                  *)
DueIsSent ==
  \A i \in Id, e \in 1..MaxEditions, d \in 0..MaxTime : \A l \in e..MaxEditions :
    LET waiting == /\ service = "on" /\ latest[i] = l
                   /\ jobs[i].status = "pending" /\ jobs[i].edition = e /\ jobs[i].due = d
                   /\ \A a \in sending : a.id # i
    IN  waiting ~> \/ [edition |-> e, due |-> d] \in sent
                   \/ latest[i] # l \/ service # "on"
=============================================================================
