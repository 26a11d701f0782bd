---------------------------- MODULE ServiceProofs ----------------------------
(***************************************************************************)
(* The durable work of the service.  Incoming envelopes: claims and tasks   *)
(* keep each envelope to one handler and one publication per process, and   *)
(* to one publication at all but for crashes and overlapping processes.     *)
(* The scheduler keeps a timer for whatever is pending, never sends an      *)
(* occurrence early or twice, and leaves no attempt orphaned.               *)
(***************************************************************************)
EXTENDS IncomingEvents, ScheduledMessages, TLAPS

(* Incoming envelopes. *)

(* Every variable keeps its type. *)
THEOREM TypeCorrect == IncomingSpec => []IncomingTypeOK
<1>1. IncomingInit => IncomingTypeOK
  BY DEF IncomingInit, IncomingTypeOK, NoClaim, Claim
<1>2. IncomingTypeOK /\ [IncomingNext]_incomingVars => IncomingTypeOK'
  <2> SUFFICES ASSUME IncomingTypeOK, [IncomingNext]_incomingVars PROVE IncomingTypeOK'
    OBVIOUS
  <2> USE DEF IncomingTypeOK
  <2>1. ASSUME NEW p \in Process, NEW k \in Key, Deliver(p, k) PROVE IncomingTypeOK'
    <3>1. [key |-> k, process |-> p, stage |-> FirstStage(p, k)] \in Task
      BY DEF Task, FirstStage
    <3>2. [owner |-> p, completed |-> FALSE] \in Claim
      BY DEF Claim
    <3>3. (k \in Ring \/ (rung[p] /\ k \notin CallEnd)) \in BOOLEAN
      OBVIOUS
    <3>4. rung' \in [Process -> BOOLEAN]
      BY <2>1, <3>3 DEF Deliver
    <3>5. claims' \in [Key -> Claim] /\ tasks' \subseteq Task
      BY <2>1, <3>1, <3>2 DEF Deliver
    <3> QED BY <2>1, <3>4, <3>5 DEF Deliver
  <2>2. ASSUME NEW t \in tasks, Store(t) \/ Emit(t) \/ Complete(t) \/ Fail(t) PROVE IncomingTypeOK'
    <3>1. t \in Task /\ t.key \in Key /\ t.process \in Process
      BY DEF Task
    <3>2. \A stage \in {"stored", "handled"} : Moved(t, stage) \subseteq Task
      BY <3>1 DEF Moved, Task
    <3>3. tasks' \subseteq Task
      BY <2>2, <3>2 DEF Store, Emit, Complete, Fail
    <3>4. claims' \in [Key -> Claim]
      <4>1. NoClaim \in Claim /\ [claims[t.key] EXCEPT !.completed = TRUE] \in Claim
        BY <3>1 DEF NoClaim, Claim
      <4>2. \/ claims' = claims
            \/ claims' = [claims EXCEPT ![t.key] = [claims[t.key] EXCEPT !.completed = TRUE]]
            \/ claims' = [claims EXCEPT ![t.key] = NoClaim]
        BY <2>2, <3>1 DEF Store, Emit, Complete, Fail
      <4> QED BY <3>1, <4>1, <4>2
    <3>5. emitted' \in [Key -> [Process -> Nat]]
      <4>1. [emitted[t.key] EXCEPT ![t.process] = @ + 1] \in [Process -> Nat]
        BY <3>1
      <4>2. \/ emitted' = emitted
            \/ emitted' = [emitted EXCEPT ![t.key] = [emitted[t.key] EXCEPT ![t.process] = @ + 1]]
        BY <2>2, <3>1 DEF Store, Emit, Complete, Fail
      <4> QED BY <3>1, <4>1, <4>2
    <3>6. ingested' \subseteq Text
      BY <2>2 DEF Store, Emit, Complete, Fail
    <3> QED BY <2>2, <3>3, <3>4, <3>5, <3>6 DEF Store, Emit, Complete, Fail
  <2>3. ASSUME NEW p \in Process, StartProcess(p) \/ CloseEngine(p) \/ Exit(p) \/ Crash(p)
        PROVE  IncomingTypeOK'
    BY <2>3 DEF StartProcess, CloseEngine, Exit, Crash, Tasks
  <2>4. CASE UNCHANGED incomingVars
    BY <2>4 DEF incomingVars
  <2> QED BY <2>1, <2>2, <2>3, <2>4 DEF IncomingNext
<1> QED BY <1>1, <1>2, PTL DEF IncomingSpec

(* A claim can be taken from a process that has not crashed only when it was  *)
(* overlapped, and never when it published the envelope itself.              *)
LEMMA DeliverInv ==
  ASSUME IncomingTypeOK, IncomingInv, NEW p \in Process, NEW k \in Key, Deliver(p, k)
  PROVE  IncomingInv'
<1> DEFINE n == [key |-> k, process |-> p, stage |-> FirstStage(p, k)]
<1>1. /\ n.key = k /\ n.process = p /\ n.stage \in {"claimed", "asking", "handled"}
      /\ n.stage = "asking" => k \in Ring
      /\ n.stage = "handled" => k \in Ring
  BY DEF FirstStage
<1>2. /\ tasks' = tasks \cup {n}
      /\ process[p] = "up" /\ Claimable(p, k)
      /\ UNCHANGED <<ingested, emitted, process, overlapped, lease>>
      /\ p # NoProcess
  BY IncomingAssumption DEF Deliver
<1>3. /\ claims'[k].owner = p /\ claims'[k].completed = FALSE
      /\ \A j \in Key : j # k => claims'[j] = claims[j]
  BY DEF Deliver, IncomingTypeOK
<1> HIDE DEF n
<1>4. \A q \in Process : q # p => process[q] # "up"
  BY <1>2 DEF IncomingInv, LeaseInv
<1>5. p \notin overlapped
  BY <1>2 DEF IncomingInv, LeaseInv
<1>6. \A t \in tasks : t.key \in Key /\ t.process \in Process
  BY DEF IncomingTypeOK, Task
<1>7. \A t \in tasks : t.process = p => t.key # k
  BY <1>2, <1>5 DEF IncomingInv, TaskInv, Owned, Claimable
<1>8. \A t \in tasks : t.key = k => t.process \in overlapped
  BY <1>2, <1>4, <1>5, <1>6, <1>7 DEF IncomingInv, TaskInv, Alive, LeaseInv
<1>9. \A q \in Process : ~(emitted[k][q] > 0 /\ q \notin overlapped /\ process[q] # "crashed")
  <2> SUFFICES ASSUME NEW q \in Process,
                      emitted[k][q] > 0, q \notin overlapped, process[q] # "crashed"
               PROVE  FALSE
    OBVIOUS
  <2>1. claims[k].owner = q /\ q # NoProcess
    BY IncomingAssumption DEF IncomingInv, PublisherInv
  <2>2. ~claims[k].completed /\ q # p
    BY <1>2, <2>1 DEF Claimable
  <2>3. PICK t \in tasks : t.key = k /\ t.process = q
    BY <2>2 DEF IncomingInv, PublisherInv
  <2> QED BY <1>8, <2>3
<1>10. emitted[k][p] = 0
  BY <1>2, <1>5, <1>9 DEF IncomingTypeOK
<1>11. LeaseInv'
  BY <1>2, <1>3 DEF IncomingInv, LeaseInv
<1>12. TaskInv'
  <2>1. \A t \in tasks' : Alive(t.process)'
    BY <1>1, <1>2 DEF IncomingInv, TaskInv, Alive
  <2>2. \A t \in tasks' : Owned(t)' \/ t.process \in overlapped'
    BY <1>1, <1>2, <1>3, <1>6, <1>8 DEF IncomingInv, TaskInv, Owned
  <2>3. \A t \in tasks' : claims'[t.key].owner = t.process => ~claims'[t.key].completed
    BY <1>1, <1>2, <1>3, <1>6 DEF IncomingInv, TaskInv
  <2>4. \A t, u \in tasks' : t.key = u.key /\ t.process = u.process => t = u
    BY <1>1, <1>2, <1>7 DEF IncomingInv, TaskInv
  <2> QED BY <2>1, <2>2, <2>3, <2>4 DEF TaskInv
<1>13. StageInv'
  BY <1>1, <1>2, <1>10, IncomingAssumption DEF IncomingInv, StageInv
<1>14. PublisherInv'
  <2> SUFFICES ASSUME NEW j \in Key, NEW q \in Process,
                      emitted[j][q] > 0, q \notin overlapped, process[q] # "crashed"
               PROVE  /\ claims'[j].owner = q
                      /\ \/ claims'[j].completed
                         \/ \E t \in tasks' : t.key = j /\ t.process = q /\ t.stage = "handled"
    BY <1>2 DEF PublisherInv
  <2>1. j # k
    BY <1>9
  <2> QED BY <1>2, <1>3, <2>1 DEF IncomingInv, PublisherInv
<1>15. NoTombstone'
  <2> SUFFICES ASSUME NEW j \in Key, claims'[j].owner # NoProcess, ~claims'[j].completed
               PROVE  \/ \E t \in tasks' : t.key = j /\ t.process = claims'[j].owner
                      \/ /\ process'[claims'[j].owner] \notin {"up", "draining"}
                         /\ \A q \in Process : process'[q] = "up" =>
                              (claims'[j].owner = NoProcess \/ claims'[j].owner # q)
    BY DEF NoTombstone, Alive, Claimable
  <2>1. CASE j = k
    BY <1>1, <1>2, <1>3, <2>1
  <2>2. CASE j # k
    BY <1>2, <1>3, <2>2 DEF IncomingInv, NoTombstone, Alive, Claimable
  <2> QED BY <2>1, <2>2
<1>16. CompletedIsDone'
  BY <1>2, <1>3 DEF IncomingInv, CompletedIsDone
<1>17. OncePerProcess' /\ DuplicateNeedsCrash'
  BY <1>2 DEF IncomingInv, OncePerProcess, DuplicateNeedsCrash
<1> QED BY <1>11, <1>12, <1>13, <1>14, <1>15, <1>16, <1>17 DEF IncomingInv

-----------------------------------------------------------------------------
(* A task that moves on stays the only one of its envelope in its process.    *)
LEMMA MovedTask ==
  ASSUME IncomingTypeOK, NEW t \in tasks, NEW stage, tasks' = Moved(t, stage)
  PROVE  \E u : /\ u.key = t.key /\ u.process = t.process /\ u.stage = stage
                /\ tasks' = (tasks \ {t}) \cup {u}
<1> DEFINE u == [t EXCEPT !.stage = stage]
<1>1. u.key = t.key /\ u.process = t.process /\ u.stage = stage
  BY DEF IncomingTypeOK, Task
<1>2. tasks' = (tasks \ {t}) \cup {u}
  BY DEF Moved
<1> QED BY <1>1, <1>2

(* Storing a message moves its task; no claim and no publication changes. *)
LEMMA StoreInv ==
  ASSUME IncomingTypeOK, IncomingInv, NEW t \in tasks, Store(t)
  PROVE  IncomingInv'
<1>1. /\ t.stage = "claimed" /\ t.key \in Text
      /\ ingested' = ingested \cup {t.key}
      /\ UNCHANGED <<claims, emitted, process, overlapped, lease>>
  BY DEF Store
<1>2. PICK u : /\ u.key = t.key /\ u.process = t.process /\ u.stage = "stored"
               /\ tasks' = (tasks \ {t}) \cup {u}
  BY MovedTask DEF Store
<1>3. LeaseInv' /\ OncePerProcess' /\ DuplicateNeedsCrash'
  BY <1>1 DEF IncomingInv, LeaseInv, OncePerProcess, DuplicateNeedsCrash
<1>4. TaskInv'
  BY <1>1, <1>2 DEF IncomingInv, TaskInv, Alive, Owned
<1>5. StageInv'
  BY <1>1, <1>2 DEF IncomingInv, StageInv
<1>6. PublisherInv'
  BY <1>1, <1>2 DEF IncomingInv, PublisherInv
<1>7. NoTombstone'
  BY <1>1, <1>2 DEF IncomingInv, NoTombstone, Alive, Claimable
<1>8. CompletedIsDone'
  BY <1>1 DEF IncomingInv, CompletedIsDone
<1> QED BY <1>3, <1>4, <1>5, <1>6, <1>7, <1>8 DEF IncomingInv

(* A task that publishes owns its claim, unless its process was overlapped;  *)
(* nobody else who published the envelope can then hold it.                  *)
LEMMA EmitInv ==
  ASSUME IncomingTypeOK, IncomingInv, NEW t \in tasks, Emit(t)
  PROVE  IncomingInv'
<1>1. /\ Ready(t) /\ t.stage # "handled"
      /\ UNCHANGED <<claims, ingested, process, overlapped, lease>>
  BY DEF Emit, Ready
<1>2. PICK u : /\ u.key = t.key /\ u.process = t.process /\ u.stage = "handled"
               /\ tasks' = (tasks \ {t}) \cup {u}
  BY MovedTask DEF Emit
<1>3. t.key \in Key /\ t.process \in Process
  BY DEF IncomingTypeOK, Task
<1>4. /\ emitted'[t.key][t.process] = emitted[t.key][t.process] + 1
      /\ \A j \in Key, q \in Process :
           j # t.key \/ q # t.process => emitted'[j][q] = emitted[j][q]
  BY <1>3 DEF Emit, IncomingTypeOK
<1>5. emitted[t.key][t.process] = 0 /\ emitted'[t.key][t.process] = 1
  BY <1>1, <1>3, <1>4 DEF IncomingInv, StageInv
<1>6. Alive(t.process) /\ (Owned(t) \/ t.process \in overlapped)
  BY DEF IncomingInv, TaskInv
<1>7. \A w \in tasks : w # t => w.key # t.key \/ w.process # t.process
  BY DEF IncomingInv, TaskInv
<1>8. \A w \in tasks : w.key \in Key /\ w.process \in Process
  BY DEF IncomingTypeOK, Task
<1>9. LeaseInv'
  BY <1>1, <1>3, <1>4, <1>6 DEF IncomingInv, LeaseInv, Alive
<1>10. TaskInv'
  BY <1>1, <1>2 DEF IncomingInv, TaskInv, Alive, Owned
<1>11. StageInv'
  <2> SUFFICES ASSUME NEW w \in tasks'
               PROVE  /\ w.stage = "asking" => w.key \in Ring
                      /\ w.stage # "handled" => emitted'[w.key][w.process] = 0
                      /\ w.stage = "handled" /\ w.key \notin Ring => emitted'[w.key][w.process] > 0
                      /\ w.stage \in {"stored", "handled"} /\ w.key \in Text => w.key \in ingested'
    BY DEF StageInv
  <2>1. CASE w = u
    <3>1. t.key \in Text => t.key \in ingested
      BY <1>1, IncomingAssumption DEF IncomingInv, StageInv, Ready
    <3> QED BY <1>1, <1>2, <1>5, <2>1, <3>1
  <2>2. CASE w # u
    BY <1>1, <1>2, <1>4, <1>7, <1>8, <2>2 DEF IncomingInv, StageInv
  <2> QED BY <2>1, <2>2
<1>12. PublisherInv'
  <2> SUFFICES ASSUME NEW j \in Key, NEW q \in Process,
                      emitted'[j][q] > 0, q \notin overlapped, process[q] # "crashed"
               PROVE  /\ claims[j].owner = q
                      /\ \/ claims[j].completed
                         \/ \E w \in tasks' : w.key = j /\ w.process = q /\ w.stage = "handled"
    BY <1>1 DEF PublisherInv
  <2>1. CASE j = t.key /\ q = t.process
    BY <1>2, <1>6, <2>1 DEF Owned
  <2>2. CASE j # t.key \/ q # t.process
    BY <1>1, <1>2, <1>4, <2>2 DEF IncomingInv, PublisherInv
  <2> QED BY <2>1, <2>2
<1>13. NoTombstone'
  BY <1>1, <1>2 DEF IncomingInv, NoTombstone, Alive, Claimable
<1>14. CompletedIsDone'
  <2>1. \A j \in Key, q \in Process : emitted[j][q] > 0 => emitted'[j][q] > 0
    BY <1>3, <1>4, <1>5
  <2> QED BY <1>1, <2>1 DEF IncomingInv, CompletedIsDone
<1>15. OncePerProcess'
  <2> SUFFICES ASSUME NEW j \in Key, NEW q \in Process PROVE emitted'[j][q] <= 1
    BY DEF OncePerProcess
  <2> QED BY <1>4, <1>5 DEF IncomingInv, OncePerProcess
<1>16. DuplicateNeedsCrash'
  <2> SUFFICES ASSUME NEW j \in Key, NEW q \in Process, NEW r \in Process, q # r,
                      emitted'[j][q] > 0, emitted'[j][r] > 0
               PROVE  \E x \in {q, r} : process[x] = "crashed" \/ x \in overlapped
    BY <1>1 DEF DuplicateNeedsCrash
  <2>1. CASE j # t.key \/ (q # t.process /\ r # t.process)
    BY <1>4, <2>1 DEF IncomingInv, DuplicateNeedsCrash
  <2>2. CASE j = t.key /\ q = t.process
    BY <1>4, <1>6, <2>2 DEF IncomingInv, PublisherInv, Owned
  <2>3. CASE j = t.key /\ r = t.process
    BY <1>4, <1>6, <2>3 DEF IncomingInv, PublisherInv, Owned
  <2> QED BY <2>1, <2>2, <2>3
<1> QED BY <1>9, <1>10, <1>11, <1>12, <1>13, <1>14, <1>15, <1>16 DEF IncomingInv

(* A task that ends completes or releases the claim if it still owns it; the  *)
(* claim of another owner stays as it is.                                    *)
LEMMA EndInv ==
  ASSUME IncomingTypeOK, IncomingInv, NEW t \in tasks, Complete(t) \/ Fail(t)
  PROVE  IncomingInv'
<1>1. /\ tasks' = tasks \ {t}
      /\ UNCHANGED <<ingested, emitted, process, overlapped, lease>>
  BY DEF Complete, Fail
<1>2. t.key \in Key /\ t.process \in Process /\ t.process # NoProcess
  BY IncomingAssumption DEF IncomingTypeOK, Task
<1>3. \A j \in Key : j # t.key \/ ~Owned(t) => claims'[j] = claims[j]
  BY <1>2 DEF Complete, Fail, IncomingTypeOK
<1>4. Owned(t) => \/ /\ t.stage = "handled"
                     /\ claims'[t.key].owner = t.process /\ claims'[t.key].completed = TRUE
                  \/ /\ t.stage # "handled"
                     /\ claims'[t.key].owner = NoProcess /\ claims'[t.key].completed = FALSE
  BY <1>2 DEF Complete, Fail, IncomingTypeOK, Claim, NoClaim, Owned
<1>5. \A w \in tasks : w # t => w.key # t.key \/ w.process # t.process
  BY DEF IncomingInv, TaskInv
<1>6. \A w \in tasks : w.key \in Key /\ w.process \in Process /\ w.process # NoProcess
  BY IncomingAssumption DEF IncomingTypeOK, Task
<1>7. LeaseInv'
  <2>1. \A j \in Key : claims'[j].owner \in {claims[j].owner, NoProcess}
    BY <1>3, <1>4 DEF Owned
  <2> QED BY <1>1, <2>1, IncomingAssumption DEF IncomingInv, LeaseInv
<1>8. TaskInv'
  <2> SUFFICES ASSUME NEW w \in tasks, w # t
               PROVE  /\ Alive(w.process)'
                      /\ Owned(w)' \/ w.process \in overlapped'
                      /\ claims'[w.key].owner = w.process => ~claims'[w.key].completed
    BY <1>1 DEF IncomingInv, TaskInv
  <2>1. Alive(w.process)'
    BY <1>1 DEF IncomingInv, TaskInv, Alive
  <2>2. CASE Owned(t) /\ w.key = t.key
    <3>1. w.process # t.process /\ ~Owned(w)
      BY <1>5, <2>2 DEF Owned
    <3>2. w.process \in overlapped'
      BY <1>1, <3>1 DEF IncomingInv, TaskInv
    <3>3. claims'[w.key].owner # w.process
      BY <1>4, <1>6, <2>2, <3>1
    <3> QED BY <2>1, <3>2, <3>3
  <2>3. CASE ~(Owned(t) /\ w.key = t.key)
    <3>1. claims'[w.key] = claims[w.key]
      BY <1>3, <1>6, <2>3
    <3> QED BY <1>1, <2>1, <3>1 DEF IncomingInv, TaskInv, Owned
  <2> QED BY <2>2, <2>3
<1>9. StageInv'
  BY <1>1 DEF IncomingInv, StageInv
<1>10. PublisherInv'
  <2> SUFFICES ASSUME NEW j \in Key, NEW q \in Process,
                      emitted[j][q] > 0, q \notin overlapped, process[q] # "crashed"
               PROVE  /\ claims'[j].owner = q
                      /\ \/ claims'[j].completed
                         \/ \E w \in tasks' : w.key = j /\ w.process = q /\ w.stage = "handled"
    BY <1>1 DEF PublisherInv
  <2>1. /\ claims[j].owner = q
        /\ \/ claims[j].completed
           \/ \E w \in tasks : w.key = j /\ w.process = q /\ w.stage = "handled"
    BY DEF IncomingInv, PublisherInv
  <2>2. CASE Owned(t) /\ j = t.key
    <3>1. t.stage = "handled"
      BY <2>1, <2>2 DEF Owned, IncomingInv, StageInv
    <3> QED BY <1>4, <2>1, <2>2, <3>1 DEF Owned
  <2>3. CASE ~(Owned(t) /\ j = t.key)
    <3>1. claims'[j] = claims[j]
      BY <1>3, <2>3
    <3>2. CASE claims[j].completed
      BY <2>1, <3>1, <3>2
    <3>3. CASE ~claims[j].completed
      <4>1. PICK w \in tasks : w.key = j /\ w.process = q /\ w.stage = "handled"
        BY <2>1, <3>3
      <4>2. w # t
        BY <2>1, <2>3, <3>3, <4>1 DEF Owned
      <4> QED BY <1>1, <2>1, <3>1, <4>1, <4>2
    <3> QED BY <3>2, <3>3
  <2> QED BY <2>2, <2>3
<1>11. NoTombstone'
  <2> SUFFICES ASSUME NEW j \in Key, claims'[j].owner # NoProcess, ~claims'[j].completed
               PROVE  \/ \E w \in tasks' : w.key = j /\ w.process = claims'[j].owner
                      \/ /\ process'[claims'[j].owner] \notin {"up", "draining"}
                         /\ \A q \in Process : process'[q] = "up" =>
                              (claims'[j].owner = NoProcess \/ claims'[j].owner # q)
    BY DEF NoTombstone, Alive, Claimable
  <2>1. ~(Owned(t) /\ j = t.key) /\ claims'[j] = claims[j]
    BY <1>3, <1>4
  <2>2. \A w \in tasks : w.key = j /\ w.process = claims[j].owner => w # t
    BY <2>1 DEF Owned
  <2>3. \/ \E w \in tasks : w.key = j /\ w.process = claims[j].owner
        \/ /\ process[claims[j].owner] \notin {"up", "draining"}
           /\ \A q \in Process : process[q] = "up" =>
                (claims[j].owner = NoProcess \/ claims[j].owner # q)
    BY <2>1 DEF IncomingInv, NoTombstone, Alive, Claimable
  <2> QED BY <1>1, <2>1, <2>2, <2>3
<1>12. CompletedIsDone'
  <2> SUFFICES ASSUME NEW j \in Key, j \notin Ring, claims'[j].completed
               PROVE  /\ \E q \in Process : emitted[j][q] > 0
                      /\ j \in Text => j \in ingested
    BY <1>1 DEF CompletedIsDone
  <2>1. CASE claims[j].completed
    BY <2>1 DEF IncomingInv, CompletedIsDone
  <2>2. CASE ~claims[j].completed
    <3>1. Owned(t) /\ j = t.key /\ t.stage = "handled"
      BY <1>3, <1>4, <2>2
    <3> QED BY <1>2, <3>1 DEF IncomingInv, StageInv
  <2> QED BY <2>1, <2>2
<1>13. OncePerProcess' /\ DuplicateNeedsCrash'
  BY <1>1 DEF IncomingInv, OncePerProcess, DuplicateNeedsCrash
<1> QED BY <1>7, <1>8, <1>9, <1>10, <1>11, <1>12, <1>13 DEF IncomingInv

(* The lease lets a process start only when no other one is up. *)
LEMMA StartInv ==
  ASSUME IncomingTypeOK, IncomingInv, NEW p \in Process, StartProcess(p)
  PROVE  IncomingInv'
<1>1. /\ process[p] = "new" /\ lease = NoProcess /\ lease' = p
      /\ process'[p] = "up" /\ \A q \in Process : q # p => process'[q] = process[q]
      /\ overlapped' = overlapped \cup {q \in Process : process[q] = "draining"}
      /\ UNCHANGED <<claims, ingested, emitted, tasks>>
  BY DEF StartProcess, IncomingTypeOK
<1>2. /\ \A q \in Process : process[q] # "up"
      /\ \A j \in Key : claims[j].owner # p /\ emitted[j][p] = 0
      /\ p \notin overlapped
  BY <1>1, IncomingAssumption DEF IncomingInv, LeaseInv
<1>3. \A t \in tasks : t.process \in Process /\ t.process # p
  BY <1>1 DEF IncomingInv, TaskInv, Alive, IncomingTypeOK, Task
<1>4. LeaseInv'
  <2>1. \A q \in Process : process'[q] = "up" <=> lease' = q
    BY <1>1, <1>2 DEF IncomingInv, LeaseInv
  <2>2. \A q \in Process : process'[q] = "new" =>
          \A j \in Key : claims'[j].owner # q /\ emitted'[j][q] = 0
    BY <1>1, <1>2 DEF IncomingInv, LeaseInv
  <2>3. \A q \in overlapped' : process'[q] \notin {"new", "up"}
    BY <1>1, <1>2 DEF IncomingInv, LeaseInv, IncomingTypeOK
  <2>4. \A q, r \in Process :
          process'[q] = "draining" /\ (process'[r] = "up" \/ (process'[r] = "draining" /\ q # r)) =>
            q \in overlapped' \/ r \in overlapped'
    BY <1>1, <1>2 DEF IncomingInv, LeaseInv
  <2> QED BY <2>1, <2>2, <2>3, <2>4 DEF LeaseInv
<1>5. TaskInv'
  BY <1>1, <1>3 DEF IncomingInv, TaskInv, Alive, Owned
<1>6. StageInv' /\ CompletedIsDone' /\ OncePerProcess'
  BY <1>1 DEF IncomingInv, StageInv, CompletedIsDone, OncePerProcess
<1>7. PublisherInv'
  BY <1>1, <1>2 DEF IncomingInv, PublisherInv
<1>8. NoTombstone'
  <2> SUFFICES ASSUME NEW j \in Key, claims[j].owner # NoProcess, ~claims[j].completed,
                      ~\E t \in tasks : t.key = j /\ t.process = claims[j].owner
               PROVE  /\ process'[claims[j].owner] \notin {"up", "draining"}
                      /\ \A q \in Process : process'[q] = "up" => claims[j].owner # q
    BY <1>1 DEF NoTombstone, Alive, Claimable
  <2>1. claims[j].owner \in Process /\ claims[j].owner # p
    BY <1>2 DEF IncomingTypeOK, Claim
  <2>2. process[claims[j].owner] \notin {"up", "draining"}
    BY DEF IncomingInv, NoTombstone, Alive
  <2> QED BY <1>1, <2>1, <2>2
<1>9. DuplicateNeedsCrash'
  <2> SUFFICES ASSUME NEW j \in Key, NEW q \in Process, NEW r \in Process, q # r,
                      emitted[j][q] > 0, emitted[j][r] > 0
               PROVE  \E x \in {q, r} : process'[x] = "crashed" \/ x \in overlapped'
    BY <1>1 DEF DuplicateNeedsCrash
  <2>1. q # p /\ r # p
    BY <1>2
  <2> QED BY <1>1, <2>1 DEF IncomingInv, DuplicateNeedsCrash
<1> QED BY <1>4, <1>5, <1>6, <1>7, <1>8, <1>9 DEF IncomingInv

(* The engine is closed: what drains besides was overlapped already. *)
LEMMA CloseEngineInv ==
  ASSUME IncomingTypeOK, IncomingInv, NEW p \in Process, CloseEngine(p)
  PROVE  IncomingInv'
<1>1. /\ process[p] = "up" /\ lease' = NoProcess
      /\ process'[p] = "draining" /\ \A q \in Process : q # p => process'[q] = process[q]
      /\ UNCHANGED <<claims, ingested, emitted, overlapped, tasks>>
  BY DEF CloseEngine, IncomingTypeOK
<1>2. \A q \in Process : q # p => process[q] # "up"
  BY <1>1 DEF IncomingInv, LeaseInv
<1>3. LeaseInv'
  <2>1. \A q \in Process : process'[q] = "up" <=> lease' = q
    BY <1>1, <1>2, IncomingAssumption DEF IncomingInv, LeaseInv
  <2>2. \A q \in Process : process'[q] = "new" =>
          \A j \in Key : claims'[j].owner # q /\ emitted'[j][q] = 0
    BY <1>1, <1>2, IncomingAssumption DEF IncomingInv, LeaseInv
  <2>3. \A q \in overlapped' : process'[q] \notin {"new", "up"}
    BY <1>1, <1>2, IncomingAssumption DEF IncomingInv, LeaseInv, IncomingTypeOK
  <2>4. \A q, r \in Process :
          process'[q] = "draining" /\ (process'[r] = "up" \/ (process'[r] = "draining" /\ q # r)) =>
            q \in overlapped' \/ r \in overlapped'
    BY <1>1, <1>2, IncomingAssumption DEF IncomingInv, LeaseInv
  <2> QED BY <2>1, <2>2, <2>3, <2>4 DEF LeaseInv
<1>4. \A q \in Process : Alive(q)' <=> Alive(q)
  BY <1>1 DEF Alive
<1>5. \A t \in tasks : t.process \in Process
  BY DEF IncomingTypeOK, Task
<1>6. TaskInv'
  BY <1>1, <1>4, <1>5 DEF IncomingInv, TaskInv, Owned
<1>7. StageInv' /\ CompletedIsDone' /\ OncePerProcess'
  BY <1>1 DEF IncomingInv, StageInv, CompletedIsDone, OncePerProcess
<1>8. PublisherInv' /\ DuplicateNeedsCrash'
  BY <1>1 DEF IncomingInv, PublisherInv, DuplicateNeedsCrash
<1>9. NoTombstone'
  <2>1. \A j \in Key : claims[j].owner # NoProcess => claims[j].owner \in Process
    BY DEF IncomingTypeOK, Claim
  <2> QED BY <1>1, <2>1 DEF IncomingInv, NoTombstone, Alive, Claimable
<1> QED BY <1>3, <1>6, <1>7, <1>8, <1>9 DEF IncomingInv

(* stop() ends once every task in flight has. *)
LEMMA ExitInv ==
  ASSUME IncomingTypeOK, IncomingInv, NEW p \in Process, Exit(p)
  PROVE  IncomingInv'
<1>1. /\ process[p] = "draining" /\ Tasks(p) = {}
      /\ process'[p] = "down" /\ \A q \in Process : q # p => process'[q] = process[q]
      /\ UNCHANGED <<claims, ingested, emitted, overlapped, lease, tasks>>
  BY DEF Exit, IncomingTypeOK
<1>2. \A t \in tasks : t.process \in Process /\ t.process # p
  BY <1>1 DEF Tasks, IncomingTypeOK, Task
<1>3. LeaseInv'
  <2>1. \A q \in Process : process'[q] = "up" <=> lease' = q
    BY <1>1 DEF IncomingInv, LeaseInv
  <2>2. \A q \in Process : process'[q] = "new" =>
          \A j \in Key : claims'[j].owner # q /\ emitted'[j][q] = 0
    BY <1>1 DEF IncomingInv, LeaseInv
  <2>3. \A q \in overlapped' : process'[q] \notin {"new", "up"}
    BY <1>1 DEF IncomingInv, LeaseInv, IncomingTypeOK
  <2>4. \A q, r \in Process :
          process'[q] = "draining" /\ (process'[r] = "up" \/ (process'[r] = "draining" /\ q # r)) =>
            q \in overlapped' \/ r \in overlapped'
    BY <1>1 DEF IncomingInv, LeaseInv
  <2> QED BY <2>1, <2>2, <2>3, <2>4 DEF LeaseInv
<1>4. TaskInv'
  BY <1>1, <1>2 DEF IncomingInv, TaskInv, Alive, Owned
<1>5. StageInv' /\ CompletedIsDone' /\ OncePerProcess'
  BY <1>1 DEF IncomingInv, StageInv, CompletedIsDone, OncePerProcess
<1>6. PublisherInv' /\ DuplicateNeedsCrash'
  BY <1>1 DEF IncomingInv, PublisherInv, DuplicateNeedsCrash
<1>7. NoTombstone'
  <2>1. \A j \in Key : claims[j].owner # NoProcess => claims[j].owner \in Process
    BY DEF IncomingTypeOK, Claim
  <2> QED BY <1>1, <2>1 DEF IncomingInv, NoTombstone, Alive, Claimable
<1> QED BY <1>3, <1>4, <1>5, <1>6, <1>7 DEF IncomingInv

(* A crash ends the tasks of the process and leaves its claims reclaimable. *)
LEMMA CrashInv ==
  ASSUME IncomingTypeOK, IncomingInv, NEW p \in Process, Crash(p)
  PROVE  IncomingInv'
<1>1. /\ process[p] \in {"up", "draining"}
      /\ process'[p] = "crashed" /\ \A q \in Process : q # p => process'[q] = process[q]
      /\ lease' = IF lease = p THEN NoProcess ELSE lease
      /\ \A t : t \in tasks' <=> t \in tasks /\ t.process # p
      /\ UNCHANGED <<claims, ingested, emitted, overlapped>>
  BY DEF Crash, IncomingTypeOK, Tasks
<1>2. p # NoProcess
  BY IncomingAssumption
<1>3. \A t \in tasks : t.process \in Process
  BY DEF IncomingTypeOK, Task
<1>4. LeaseInv'
  <2>1. \A q \in Process : process'[q] = "up" <=> lease' = q
    BY <1>1, <1>2, IncomingAssumption DEF IncomingInv, LeaseInv
  <2>2. \A q \in Process : process'[q] = "new" =>
          \A j \in Key : claims'[j].owner # q /\ emitted'[j][q] = 0
    BY <1>1, <1>2, IncomingAssumption DEF IncomingInv, LeaseInv
  <2>3. \A q \in overlapped' : process'[q] \notin {"new", "up"}
    BY <1>1, <1>2, IncomingAssumption DEF IncomingInv, LeaseInv, IncomingTypeOK
  <2>4. \A q, r \in Process :
          process'[q] = "draining" /\ (process'[r] = "up" \/ (process'[r] = "draining" /\ q # r)) =>
            q \in overlapped' \/ r \in overlapped'
    BY <1>1, <1>2, IncomingAssumption DEF IncomingInv, LeaseInv
  <2> QED BY <2>1, <2>2, <2>3, <2>4 DEF LeaseInv
<1>5. TaskInv'
  BY <1>1, <1>3 DEF IncomingInv, TaskInv, Alive, Owned
<1>6. StageInv'
  BY <1>1 DEF IncomingInv, StageInv
<1>7. CompletedIsDone' /\ OncePerProcess' /\ DuplicateNeedsCrash'
  <2>1. \A q \in Process : process[q] = "crashed" => process'[q] = "crashed"
    BY <1>1
  <2> QED BY <1>1, <2>1 DEF IncomingInv, CompletedIsDone, OncePerProcess, DuplicateNeedsCrash
<1>8. PublisherInv'
  BY <1>1 DEF IncomingInv, PublisherInv
<1>9. NoTombstone'
  <2> SUFFICES ASSUME NEW j \in Key, claims[j].owner # NoProcess, ~claims[j].completed,
                      ~\E t \in tasks' : t.key = j /\ t.process = claims[j].owner
               PROVE  /\ process'[claims[j].owner] \notin {"up", "draining"}
                      /\ \A q \in Process : process'[q] = "up" => claims[j].owner # q
    BY <1>1 DEF NoTombstone, Alive, Claimable
  <2>1. claims[j].owner \in Process
    BY DEF IncomingTypeOK, Claim
  <2>2. CASE claims[j].owner = p
    BY <1>1, <2>2
  <2>3. CASE claims[j].owner # p
    <3>1. ~\E t \in tasks : t.key = j /\ t.process = claims[j].owner
      BY <1>1, <2>3
    <3>2. process[claims[j].owner] \notin {"up", "draining"}
      BY <3>1 DEF IncomingInv, NoTombstone, Alive
    <3> QED BY <1>1, <2>1, <2>3, <3>2
  <2> QED BY <2>2, <2>3
<1> QED BY <1>4, <1>5, <1>6, <1>7, <1>8, <1>9 DEF IncomingInv

-----------------------------------------------------------------------------
(* The invariant is inductive: whatever is replayed, fails, drains or        *)
(* crashes, the claims, the tasks and the publications agree.                *)
THEOREM IncomingSafe == IncomingSpec => []IncomingInv
<1>1. IncomingInit => IncomingInv
  <2> SUFFICES ASSUME IncomingInit PROVE IncomingInv
    OBVIOUS
  <2>1. LeaseInv
    BY IncomingAssumption DEF IncomingInit, LeaseInv, NoClaim
  <2>2. TaskInv /\ StageInv
    BY DEF IncomingInit, TaskInv, StageInv
  <2>3. PublisherInv /\ OncePerProcess /\ DuplicateNeedsCrash
    BY DEF IncomingInit, PublisherInv, OncePerProcess, DuplicateNeedsCrash
  <2>4. NoTombstone /\ CompletedIsDone
    BY DEF IncomingInit, NoTombstone, CompletedIsDone, NoClaim
  <2> QED BY <2>1, <2>2, <2>3, <2>4 DEF IncomingInv
<1>2. IncomingTypeOK /\ IncomingInv /\ [IncomingNext]_incomingVars => IncomingInv'
  <2> SUFFICES ASSUME IncomingTypeOK, IncomingInv, [IncomingNext]_incomingVars PROVE IncomingInv'
    OBVIOUS
  <2>1. ASSUME NEW p \in Process, NEW k \in Key, Deliver(p, k) PROVE IncomingInv'
    BY <2>1, DeliverInv
  <2>2. ASSUME NEW t \in tasks, Store(t) \/ Emit(t) \/ Complete(t) \/ Fail(t) PROVE IncomingInv'
    BY <2>2, StoreInv, EmitInv, EndInv
  <2>3. ASSUME NEW p \in Process, StartProcess(p) \/ CloseEngine(p) \/ Exit(p) \/ Crash(p)
        PROVE  IncomingInv'
    BY <2>3, StartInv, CloseEngineInv, ExitInv, CrashInv
  <2>4. CASE UNCHANGED incomingVars
    BY <2>4 DEF incomingVars, IncomingInv, LeaseInv, TaskInv, StageInv, PublisherInv, NoTombstone,
                CompletedIsDone, OncePerProcess, DuplicateNeedsCrash, Alive, Owned, Claimable
  <2> QED BY <2>1, <2>2, <2>3, <2>4 DEF IncomingNext
<1> QED BY <1>1, <1>2, TypeCorrect, PTL DEF IncomingSpec

(* An envelope whose handling did not complete is handled now or can be      *)
(* handled again: a failure or a death leaves no tombstone.                  *)
THEOREM Reclaimable == IncomingSpec => []NoTombstone
<1>1. IncomingInv => NoTombstone
  BY DEF IncomingInv
<1> QED BY <1>1, IncomingSafe, PTL

(* Replays are suppressed only of what was published and stored. *)
THEOREM CompletedDone == IncomingSpec => []CompletedIsDone
<1>1. IncomingInv => CompletedIsDone
  BY DEF IncomingInv
<1> QED BY <1>1, IncomingSafe, PTL

(* One task per envelope and process, and no two processes that are both up   *)
(* handle the same envelope.                                                 *)
THEOREM Exclusive == IncomingSpec => []OneHandler
<1>1. IncomingTypeOK /\ IncomingInv => OneHandler
  <2> SUFFICES ASSUME IncomingTypeOK, IncomingInv, NEW t \in tasks, NEW u \in tasks,
                      t.key = u.key, t # u
               PROVE  /\ t.process # u.process
                      /\ process[t.process] = "draining" \/ process[u.process] = "draining"
    BY DEF OneHandler
  <2>1. t.process # u.process
    BY DEF IncomingInv, TaskInv
  <2>2. t.process \in Process /\ u.process \in Process
    BY DEF IncomingTypeOK, Task
  <2>3. Alive(t.process) /\ Alive(u.process)
    BY DEF IncomingInv, TaskInv
  <2> QED BY <2>1, <2>2, <2>3 DEF IncomingInv, LeaseInv, Alive
<1> QED BY <1>1, TypeCorrect, IncomingSafe, PTL

(* No process publishes an envelope twice. *)
THEOREM PublishedOncePerProcess == IncomingSpec => []OncePerProcess
<1>1. IncomingInv => OncePerProcess
  BY DEF IncomingInv
<1> QED BY <1>1, IncomingSafe, PTL

(* Two processes publish the same envelope only if one of them crashed or was *)
(* overlapped.                                                               *)
THEOREM DuplicatesExplained == IncomingSpec => []DuplicateNeedsCrash
<1>1. IncomingInv => DuplicateNeedsCrash
  BY DEF IncomingInv
<1> QED BY <1>1, IncomingSafe, PTL

-----------------------------------------------------------------------------
(* The scheduler. *)

LEMMA Quotient ==
  ASSUME NEW n \in Nat, NEW step \in Nat \ {0}
  PROVE  n \div step \in Nat /\ n < step * (1 + n \div step)
<1>1. n = step * (n \div step) + (n % step) /\ n % step \in 0..(step - 1) /\ n \div step \in Int
  BY Z3
<1>2. n \div step >= 0
  BY Z3
<1> QED BY <1>1, <1>2, Z3

(* #reschedule moves a recurring job past its own time and past the clock. *)
LEMMA NextDueIsAhead ==
  ASSUME now \in Nat, NEW job, job.due \in Nat, job.step \in Nat, Recurs(job)
  PROVE  NextDue(job) \in Nat /\ NextDue(job) > now /\ NextDue(job) > job.due
<1>1. CASE now > job.due
  <2>1. now - job.due \in Nat /\ job.step \in Nat \ {0}
    BY <1>1 DEF Recurs
  <2> DEFINE q == (now - job.due) \div job.step
  <2>2. q \in Nat /\ now - job.due < job.step * (1 + q)
    BY <2>1, Quotient
  <2>3. NextDue(job) = job.due + job.step * (1 + q)
    BY <1>1 DEF NextDue
  <2>4. job.step * (1 + q) \in Nat
    BY <2>1, <2>2
  <2> HIDE DEF q
  <2> QED BY <1>1, <2>2, <2>3, <2>4
<1>2. CASE ~(now > job.due)
  BY <1>2 DEF NextDue, Recurs
<1> QED BY <1>1, <1>2

LEMMA SettledFields ==
  ASSUME now \in Nat, NEW job, job.due \in Nat, job.step \in Nat, job.edition \in Nat,
         NEW outcome \in {"complete", "error"}
  PROVE  /\ Settled(job, outcome) \in Job
         /\ Settled(job, outcome).edition = job.edition
         /\ Settled(job, outcome).status \in {"pending", "complete", "error"}
         /\ Settled(job, outcome).due >= job.due
         /\ Settled(job, outcome).status = "pending" =>
              /\ Recurs(job)
              /\ Settled(job, outcome).due > job.due
              /\ Settled(job, outcome).due > now
<1>1. Recurs(job) => NextDue(job) \in Nat /\ NextDue(job) > now /\ NextDue(job) > job.due
  BY NextDueIsAhead
<1> QED BY <1>1 DEF Settled, Job, Status

LEMMA RestoredFields ==
  ASSUME SchedulerTypeOK, NEW i \in Id
  PROVE  /\ Restored(jobs[i]) \in Job
         /\ Restored(jobs[i]).edition = jobs[i].edition
         /\ Restored(jobs[i]).status = "none" <=> jobs[i].status = "none"
         /\ Restored(jobs[i]).status # "in-progress"
         /\ Restored(jobs[i]).due >= jobs[i].due
         /\ Restored(jobs[i]).status = "pending" =>
              /\ Restored(jobs[i]).due > now
              /\ Restored(jobs[i]).due > jobs[i].due \/ Restored(jobs[i]) = jobs[i]
<1>1. jobs[i] \in Job /\ now \in Nat
  BY DEF SchedulerTypeOK
<1>2. CASE Stale(jobs[i])
  BY <1>1, <1>2, SettledFields DEF Restored, Job, Stale
<1>3. CASE ~Stale(jobs[i])
  BY <1>1, <1>3 DEF Restored, Job, Stale, Status
<1> QED BY <1>2, <1>3

(* A timer is set for no later than the time it stands for. *)
LEMMA FireTimeType ==
  ASSUME now \in Nat, NEW due \in Nat
  PROVE  /\ FireTime(due) \in Nat
         /\ FireTime(due) # NoTimer
         /\ now <= due => FireTime(due) <= due
BY SchedulerAssumption DEF FireTime, Later, NoTimer

LEMMA ArmedType ==
  ASSUME SchedulerTypeOK, NEW i \in Id, NEW job, job.due \in Nat
  PROVE  Armed(i, job) \in [Id -> Nat \cup {NoTimer}]
BY FireTimeType DEF Armed, SchedulerTypeOK

(* Every variable keeps its type: in particular a rescheduled time is a      *)
(* number and a timer is set to a time or not at all.                        *)
THEOREM SchedulerTypeCorrect == SchedulerSpec => []SchedulerTypeOK
<1>1. SchedulerInit => SchedulerTypeOK
  BY SchedulerAssumption DEF SchedulerInit, SchedulerTypeOK, NoJob, Job, Status, NoTimers, NoTimer, Id
<1>2. SchedulerTypeOK /\ [SchedulerNext]_schedulerVars => SchedulerTypeOK'
  <2> SUFFICES ASSUME SchedulerTypeOK, [SchedulerNext]_schedulerVars PROVE SchedulerTypeOK'
    OBVIOUS
  <2> USE DEF SchedulerTypeOK
  <2>0. ASSUME NEW i \in Id, NEW due \in Dues, NEW step \in Steps, StoreDraft(i, due, step)
        PROVE  /\ timers' \in [Id -> Nat \cup {NoTimer}]
               /\ jobs' \in [Id -> Job] /\ latest' \in [Id -> Nat] /\ editions' \in Nat
               /\ UNCHANGED <<now, service, sending, sent>>
    <3>1. Draft(due, step) \in Job /\ Draft(due, step).due \in Nat
      BY SchedulerAssumption DEF Draft, Job, Status
    <3>2. timers' \in [Id -> Nat \cup {NoTimer}]
      BY <2>0, <3>1, ArmedType DEF StoreDraft
    <3>3. /\ jobs' \in [Id -> Job] /\ latest' \in [Id -> Nat] /\ editions' \in Nat
          /\ UNCHANGED <<now, service, sending, sent>>
      BY <2>0, <3>1 DEF StoreDraft
    <3> QED BY <3>2, <3>3
  <2>1. ASSUME NEW due \in Dues, NEW step \in Steps, Create(due, step) PROVE SchedulerTypeOK'
    <3>1. lastJob + 1 \in Id /\ lastJob' \in 0..MaxJobs
      BY <2>1, SchedulerAssumption DEF Create, Id
    <3>2. StoreDraft(lastJob + 1, due, step)
      BY <2>1 DEF Create
    <3> QED BY <2>0, <3>1, <3>2
  <2>2. ASSUME NEW i \in Id, NEW due \in Dues, NEW step \in Steps, Update(i, due, step)
        PROVE SchedulerTypeOK'
    BY <2>0, <2>2 DEF Update
  <2>3. ASSUME NEW i \in Id, Delete(i) PROVE SchedulerTypeOK'
    BY <2>3 DEF Delete, NoJob, Job, Status
  <2>4. ASSUME NEW i \in Id, Wake(i) PROVE SchedulerTypeOK'
    <3>1. jobs[i] \in Job /\ jobs[i].due \in Nat
      BY DEF Job
    <3>2. timers' \in [Id -> Nat \cup {NoTimer}]
      BY <2>4, <3>1, ArmedType DEF Wake, Attempt
    <3>3. Snapshot(i) \in Active /\ [edition |-> jobs[i].edition, due |-> jobs[i].due] \in Occurrence
      BY <3>1 DEF Snapshot, Active, Occurrence, Job
    <3>4. jobs' \in [Id -> Job]
      BY <2>4 DEF Wake, Attempt, Job, Status
    <3> QED BY <2>4, <3>2, <3>3, <3>4 DEF Wake, Attempt
  <2>5. ASSUME NEW a \in sending, NEW outcome \in {"complete", "error"}, SendSettles(a, outcome)
        PROVE SchedulerTypeOK'
    <3>1. a.id \in Id /\ a.edition \in Nat /\ a.due \in Nat /\ a.step \in Nat
      BY DEF Active
    <3>2. Settled(a, outcome) \in Job /\ Settled(a, outcome).due \in Nat
      BY <3>1, SettledFields DEF Job
    <3>3. timers' \in [Id -> Nat \cup {NoTimer}]
      BY <2>5, <3>1, <3>2, ArmedType DEF SendSettles
    <3> QED BY <2>5, <3>1, <3>2, <3>3 DEF SendSettles
  <2>6. CASE StartScheduler
    <3>1. \A i \in Id : Restored(jobs[i]) \in Job /\ Restored(jobs[i]).due \in Nat
      BY RestoredFields DEF Job
    <3>2. jobs' \in [Id -> Job]
      BY <2>6, <3>1 DEF StartScheduler
    <3>3. timers' \in [Id -> Nat \cup {NoTimer}]
      BY <2>6, <3>1, FireTimeType DEF StartScheduler
    <3> QED BY <2>6, <3>2, <3>3 DEF StartScheduler
  <2>7. CASE (\E a \in sending : SendOverflows(a)) \/ Stop \/ ExitScheduler \/ CrashScheduler
    BY <2>7 DEF SendOverflows, Stop, ExitScheduler, CrashScheduler, Gone, NoTimers
  <2>8. CASE Tick
    BY <2>8 DEF Tick
  <2>9. CASE UNCHANGED schedulerVars
    BY <2>9 DEF schedulerVars
  <2> QED BY <2>1, <2>2, <2>3, <2>4, <2>5, <2>6, <2>7, <2>8, <2>9 DEF SchedulerNext
<1> QED BY <1>1, <1>2, PTL DEF SchedulerSpec

-----------------------------------------------------------------------------
(* A draft stored under an id: the two ways to store one are the same but    *)
(* for the id, which is new or held a row.                                   *)
LEMMA DraftStep ==
  ASSUME SchedulerTypeOK, SchedulerInv, NEW i \in Id, NEW due \in Dues, NEW step \in Steps,
         StoreDraft(i, due, step), lastJob' \in Nat, lastJob <= lastJob', i <= lastJob'
  PROVE  SchedulerInv'
<1> USE DEF StoreDraft
<1> DEFINE d == Draft(due, step)
<1>1. /\ d.edition = editions + 1 /\ d.due = due /\ d.step = step /\ d.status = "pending"
      /\ due \in Nat /\ now <= due /\ step \in Nat /\ editions \in Nat /\ now \in Nat
  BY SchedulerAssumption DEF Draft, Acceptable, SchedulerTypeOK
<1>2. /\ jobs'[i] = d
      /\ \A k \in Id : k # i => jobs'[k] = jobs[k]
      /\ \A k \in Id : jobs[k] \in Job /\ jobs[k].edition <= editions
  BY DEF SchedulerTypeOK, SchedulerInv, Bookkept
<1>3. \A x \in sending \cup sent : x.edition <= editions /\ x.edition \in Nat
  BY DEF SchedulerTypeOK, SchedulerInv, Bookkept, Active, Occurrence
<1>4. /\ timers' = [timers EXCEPT ![i] = FireTime(due)]
      /\ FireTime(due) # NoTimer /\ FireTime(due) <= due
  BY <1>1, FireTimeType DEF Armed, Started
<1> HIDE DEF d
<1>5. Bookkept'
  <2>1. service' = "down" => sending' = {}
    OBVIOUS
  <2>2. \A k \in Id : /\ jobs'[k].status = "none" <=> jobs'[k].edition = 0
                      /\ jobs'[k].edition <= editions'
                      /\ k > lastJob' => jobs'[k].status = "none"
    BY SMTT(30), <1>1, <1>2 DEF SchedulerInv, Bookkept, SchedulerTypeOK, Job, Id
  <2>3. \A x \in sending \cup sent : 0 < x.edition /\ x.edition <= editions'
    BY <1>1, <1>3 DEF SchedulerInv, Bookkept
  <2>4. \A a \in sending : a.id <= lastJob'
    BY DEF SchedulerInv, Bookkept, SchedulerTypeOK, Active, Id
  <2>5. \A a \in sending, s \in sent : s.edition = a.edition => s.due <= a.due
    BY DEF SchedulerInv, Bookkept
  <2> QED BY <2>1, <2>2, <2>3, <2>4, <2>5 DEF Bookkept
<1>6. PendingIsArmed'
  BY <1>1, <1>2, <1>4 DEF SchedulerInv, PendingIsArmed, SchedulerTypeOK
<1>7. QuietAfterStop' /\ NeverEarly'
  BY DEF SchedulerInv, QuietAfterStop, NeverEarly, Started
<1>8. NoOrphanedAttempt'
  <2>1. \A k \in Id : k # i => Snapshot(k)' = Snapshot(k)
    BY <1>2 DEF Snapshot
  <2> QED BY <1>1, <1>2, <2>1 DEF SchedulerInv, NoOrphanedAttempt
<1>9. OneAttemptPerEdition'
  <2>1. \A k, m \in Id : jobs'[k].edition = jobs'[m].edition /\ jobs'[k].status # "none" => k = m
    BY <1>1, <1>2 DEF SchedulerInv, OneAttemptPerEdition, Job
  <2>2. \A a \in sending : \A k \in Id :
          a.edition = jobs'[k].edition =>
            a.id = k /\ jobs'[k].status = "in-progress" /\ jobs'[k].due = a.due
    BY <1>1, <1>2, <1>3 DEF SchedulerInv, OneAttemptPerEdition, Job
  <2> QED BY <2>1, <2>2 DEF SchedulerInv, OneAttemptPerEdition
<1>10. PendingIsUnsent'
  <2> SUFFICES ASSUME NEW k \in Id, NEW s \in sent, s.edition = jobs'[k].edition
               PROVE  s.due < jobs'[k].due \/ (s.due = jobs'[k].due /\ jobs'[k].status # "pending")
    BY DEF PendingIsUnsent
  <2>1. k # i
    BY <1>1, <1>2, <1>3
  <2> QED BY <1>2, <2>1 DEF SchedulerInv, PendingIsUnsent
<1> QED BY <1>5, <1>6, <1>7, <1>8, <1>9, <1>10 DEF SchedulerInv

LEMMA CreateInv ==
  ASSUME SchedulerTypeOK, SchedulerInv, NEW due \in Dues, NEW step \in Steps, Create(due, step)
  PROVE  SchedulerInv'
<1>1. lastJob + 1 \in Id /\ lastJob \in Nat
  BY SchedulerAssumption DEF Create, Id, SchedulerTypeOK
<1>2. StoreDraft(lastJob + 1, due, step) /\ lastJob' = lastJob + 1
  BY DEF Create
<1> QED BY <1>1, <1>2, DraftStep

LEMMA UpdateInv ==
  ASSUME SchedulerTypeOK, SchedulerInv, NEW i \in Id, NEW due \in Dues, NEW step \in Steps,
         Update(i, due, step)
  PROVE  SchedulerInv'
<1>1. i <= lastJob /\ lastJob \in Nat
  BY DEF Update, SchedulerInv, Bookkept, Id, SchedulerTypeOK
<1>2. StoreDraft(i, due, step) /\ lastJob' = lastJob
  BY DEF Update
<1> QED BY <1>1, <1>2, DraftStep

LEMMA DeleteInv ==
  ASSUME SchedulerTypeOK, SchedulerInv, NEW i \in Id, Delete(i)
  PROVE  SchedulerInv'
<1> USE DEF Delete
<1>1. /\ jobs'[i] = NoJob
      /\ \A k \in Id : k # i => jobs'[k] = jobs[k] /\ timers'[k] = timers[k]
      /\ NoJob.status = "none" /\ NoJob.edition = 0
  BY DEF SchedulerTypeOK, NoJob
<1>2. \A x \in sending \cup sent : x.edition > 0 /\ x.edition \in Nat
  BY DEF SchedulerTypeOK, SchedulerInv, Bookkept, Active, Occurrence
<1>3. Bookkept'
  BY <1>1 DEF SchedulerInv, Bookkept, SchedulerTypeOK
<1>4. PendingIsArmed'
  BY <1>1 DEF SchedulerInv, PendingIsArmed
<1>5. QuietAfterStop' /\ NeverEarly'
  BY DEF SchedulerInv, QuietAfterStop, NeverEarly, Started
<1>6. NoOrphanedAttempt'
  BY <1>1 DEF SchedulerInv, NoOrphanedAttempt, Snapshot
<1>7. OneAttemptPerEdition'
  <2>1. \A k \in Id : jobs[k].status # "none" => jobs[k].edition # 0
    BY DEF SchedulerInv, Bookkept
  <2> QED BY <1>1, <1>2, <2>1 DEF SchedulerInv, OneAttemptPerEdition
<1>8. PendingIsUnsent'
  BY <1>1, <1>2 DEF SchedulerInv, PendingIsUnsent
<1> QED BY <1>3, <1>4, <1>5, <1>6, <1>7, <1>8 DEF SchedulerInv

(* A wake that sends nothing only touches the timer of its job. *)
LEMMA IdleWakeInv ==
  ASSUME SchedulerTypeOK, SchedulerInv, NEW i \in Id, Wake(i),
         jobs[i].status # "pending" \/ jobs[i].due > now
  PROVE  SchedulerInv'
<1>1. UNCHANGED <<now, jobs, lastJob, service, sending, editions, latest, sent>>
  BY DEF Wake, Attempt, SchedulerTypeOK, Job
<1>2. jobs[i].due \in Nat /\ now \in Nat
  BY DEF SchedulerTypeOK, Job
<1>3. /\ \A k \in Id : k # i => timers'[k] = timers[k]
      /\ jobs[i].status = "pending" => timers'[i] # NoTimer /\ timers'[i] <= jobs[i].due
  BY <1>2, FireTimeType DEF Wake, Attempt, Armed, SchedulerTypeOK
<1>4. Started
  BY DEF Wake
<1>5. PendingIsArmed' /\ QuietAfterStop'
  BY <1>1, <1>3, <1>4 DEF SchedulerInv, PendingIsArmed, QuietAfterStop, Started
<1> QED BY <1>1, <1>5 DEF SchedulerInv, Bookkept, NoOrphanedAttempt, Snapshot, NeverEarly,
                          OneAttemptPerEdition, PendingIsUnsent

(* An attempt takes the pending row, which no task and no earlier attempt    *)
(* stands for, and becomes the task of that row.                             *)
LEMMA AttemptInv ==
  ASSUME SchedulerTypeOK, SchedulerInv, NEW i \in Id, Wake(i),
         jobs[i].status = "pending", jobs[i].due <= now
  PROVE  SchedulerInv'
<1> DEFINE a == Snapshot(i)
           o == [edition |-> jobs[i].edition, due |-> jobs[i].due]
<1>1. jobs[i] \in Job /\ jobs[i].due \in Nat /\ now \in Nat /\ jobs[i].edition \in Nat
  BY DEF SchedulerTypeOK, Job
<1>2. /\ timers' = [timers EXCEPT ![i] = NoTimer]
      /\ jobs' = [jobs EXCEPT ![i].status = "in-progress"]
      /\ sending' = sending \cup {a}
      /\ sent' = sent \cup {o}
      /\ UNCHANGED <<now, lastJob, service, editions, latest>>
  BY <1>1 DEF Wake, Attempt
<1>3. /\ jobs'[i] \in Job
      /\ jobs'[i].status = "in-progress" /\ jobs'[i].edition = jobs[i].edition
      /\ jobs'[i].due = jobs[i].due /\ jobs'[i].step = jobs[i].step
      /\ \A k \in Id : k # i => jobs'[k] = jobs[k] /\ timers'[k] = timers[k]
  BY <1>1, <1>2 DEF SchedulerTypeOK, Job, Status
<1>4. /\ a.id = i /\ a.edition = jobs[i].edition /\ a.due = jobs[i].due
      /\ o.edition = jobs[i].edition /\ o.due = jobs[i].due
      /\ Snapshot(i)' = a
  BY <1>3 DEF Snapshot
<1>5. 0 < jobs[i].edition /\ jobs[i].edition <= editions /\ i <= lastJob
  BY <1>1 DEF SchedulerInv, Bookkept, SchedulerTypeOK, Id
<1>6. \A b \in sending : b.edition # jobs[i].edition
  BY DEF SchedulerInv, OneAttemptPerEdition
<1>7. \A s \in sent : s.edition = jobs[i].edition => s.due < jobs[i].due
  BY DEF SchedulerInv, PendingIsUnsent
<1>8. \A s \in sent : s.due \in Nat
  BY DEF SchedulerTypeOK, Occurrence
<1> HIDE DEF a, o
<1>9. Bookkept'
  <2>1. service' = "down" => sending' = {}
    BY <1>2 DEF Wake, Started
  <2>2. \A k \in Id : /\ jobs'[k].status = "none" <=> jobs'[k].edition = 0
                      /\ jobs'[k].edition <= editions'
                      /\ k > lastJob' => jobs'[k].status = "none"
    BY <1>2, <1>3, <1>5 DEF SchedulerInv, Bookkept, SchedulerTypeOK, Id
  <2>3. \A x \in sending' \cup sent' : 0 < x.edition /\ x.edition <= editions'
    BY <1>2, <1>4, <1>5 DEF SchedulerInv, Bookkept
  <2>4. \A b \in sending' : b.id <= lastJob'
    BY <1>2, <1>4, <1>5 DEF SchedulerInv, Bookkept
  <2>5. \A b \in sending', s \in sent' : s.edition = b.edition => s.due <= b.due
    <3> SUFFICES ASSUME NEW b \in sending', NEW s \in sent', s.edition = b.edition
                 PROVE  s.due <= b.due
      OBVIOUS
    <3>1. CASE b = a /\ s = o
      BY <1>1, <1>4, <3>1
    <3>2. CASE b = a /\ s \in sent
      BY <1>1, <1>4, <1>7, <1>8, <3>2
    <3>3. CASE b \in sending /\ s = o
      BY <1>4, <1>6, <3>3
    <3>4. CASE b \in sending /\ s \in sent
      BY <3>4 DEF SchedulerInv, Bookkept
    <3> QED BY <1>2, <3>1, <3>2, <3>3, <3>4
  <2> QED BY <2>1, <2>2, <2>3, <2>4, <2>5 DEF Bookkept
<1>10. PendingIsArmed' /\ QuietAfterStop'
  BY <1>2, <1>3 DEF SchedulerInv, PendingIsArmed, QuietAfterStop, Started, Wake
<1>11. NoOrphanedAttempt'
  <2>1. \A k \in Id : k # i => Snapshot(k)' = Snapshot(k)
    BY <1>3 DEF Snapshot
  <2> QED BY <1>2, <1>3, <1>4, <2>1 DEF SchedulerInv, NoOrphanedAttempt
<1>12. NeverEarly'
  BY <1>2, <1>4 DEF SchedulerInv, NeverEarly
<1>13. OneAttemptPerEdition'
  <2>1. \A k, m \in Id : jobs'[k].edition = jobs'[m].edition /\ jobs'[k].status # "none" => k = m
    BY <1>3 DEF SchedulerInv, OneAttemptPerEdition
  <2>2. \A b \in sending' : \A k \in Id :
          b.edition = jobs'[k].edition =>
            b.id = k /\ jobs'[k].status = "in-progress" /\ jobs'[k].due = b.due
    <3> SUFFICES ASSUME NEW b \in sending', NEW k \in Id, b.edition = jobs'[k].edition
                 PROVE  b.id = k /\ jobs'[k].status = "in-progress" /\ jobs'[k].due = b.due
      OBVIOUS
    <3>1. CASE b = a
      BY <1>3, <1>4, <3>1 DEF SchedulerInv, OneAttemptPerEdition
    <3>2. CASE b \in sending
      BY <1>3, <1>6, <3>2 DEF SchedulerInv, OneAttemptPerEdition
    <3> QED BY <1>2, <3>1, <3>2
  <2>3. \A b, c \in sending' : b.edition = c.edition => b = c
    BY <1>2, <1>4, <1>6 DEF SchedulerInv, OneAttemptPerEdition
  <2> QED BY <2>1, <2>2, <2>3 DEF OneAttemptPerEdition
<1>14. PendingIsUnsent'
  <2> SUFFICES ASSUME NEW k \in Id, NEW s \in sent', s.edition = jobs'[k].edition
               PROVE  s.due < jobs'[k].due \/ (s.due = jobs'[k].due /\ jobs'[k].status # "pending")
    BY DEF PendingIsUnsent
  <2>1. CASE k = i
    BY <1>2, <1>3, <1>4, <1>7, <2>1
  <2>2. CASE k # i /\ s = o
    BY <1>3, <1>4, <2>2 DEF SchedulerInv, OneAttemptPerEdition
  <2>3. CASE k # i /\ s \in sent
    BY <1>3, <2>3 DEF SchedulerInv, PendingIsUnsent
  <2> QED BY <1>2, <2>1, <2>2, <2>3
<1> QED BY <1>9, <1>10, <1>11, <1>12, <1>13, <1>14 DEF SchedulerInv

LEMMA WakeInv ==
  ASSUME SchedulerTypeOK, SchedulerInv, NEW i \in Id, Wake(i)
  PROVE  SchedulerInv'
<1>1. jobs[i].due \in Nat /\ now \in Nat
  BY DEF SchedulerTypeOK, Job
<1>2. (jobs[i].status # "pending" \/ jobs[i].due > now)
      \/ (jobs[i].status = "pending" /\ jobs[i].due <= now)
  BY <1>1
<1> QED BY <1>2, IdleWakeInv, AttemptInv

(* A task writes its row back under an edition that no other row and no      *)
(* other task has.                                                           *)
LEMMA SendSettlesInv ==
  ASSUME SchedulerTypeOK, SchedulerInv, NEW a \in sending, NEW outcome \in {"complete", "error"},
         SendSettles(a, outcome)
  PROVE  SchedulerInv'
<1> DEFINE j == Settled(a, outcome)
           i == a.id
<1>1. /\ i \in Id /\ a.edition \in Nat /\ a.due \in Nat /\ a.step \in Nat /\ now \in Nat
      /\ a.edition > 0 /\ a.edition <= editions /\ i <= lastJob
      /\ \A s \in sent : s.due \in Nat
      /\ \A k \in Id : jobs[k].edition \in Nat /\ jobs[k].due \in Nat
  BY DEF SchedulerTypeOK, Active, Occurrence, Job, SchedulerInv, Bookkept
<1>2. /\ j \in Job /\ j.edition = a.edition /\ j.due >= a.due /\ j.due \in Nat
      /\ j.status \in {"pending", "complete", "error"}
      /\ j.status = "pending" => Recurs(a) /\ j.due > a.due /\ j.due > now
  BY <1>1, SettledFields DEF Job
<1>3. /\ sending' = sending \ {a}
      /\ UNCHANGED <<now, lastJob, service, editions, latest, sent>>
  BY DEF SendSettles
<1>4. /\ \A b \in sending' : b \in sending /\ b.edition # a.edition
      /\ \A k \in Id : k # i => jobs[k].edition # a.edition
      /\ \A s \in sent : s.edition = a.edition => s.due <= a.due
  BY <1>3 DEF SchedulerInv, OneAttemptPerEdition, Bookkept
<1>5. CASE jobs[i].status = "none"
  <2>1. UNCHANGED <<jobs, timers>>
    BY <1>5 DEF SendSettles
  <2>2. NoOrphanedAttempt'
    BY <1>3, <1>5, <2>1 DEF SchedulerInv, NoOrphanedAttempt, Snapshot
  <2> QED BY <1>3, <2>1, <2>2 DEF SchedulerInv, Bookkept, PendingIsArmed, QuietAfterStop,
            Started, NeverEarly, OneAttemptPerEdition, PendingIsUnsent
<1>6. CASE jobs[i].status # "none"
  <2>1. /\ jobs' = [jobs EXCEPT ![i] = j]
        /\ timers' = IF Recurs(a) THEN Armed(i, j) ELSE timers
    BY <1>6 DEF SendSettles
  <2>2. /\ jobs'[i] = j
        /\ \A k \in Id : k # i => jobs'[k] = jobs[k] /\ timers'[k] = timers[k]
    BY <1>1, <2>1 DEF SchedulerTypeOK, Armed
  <2>3. Started /\ j.status = "pending" => timers'[i] # NoTimer /\ timers'[i] <= j.due
    BY <1>1, <1>2, <2>1, FireTimeType DEF Armed, SchedulerTypeOK
  <2>4. ~Started => timers' = timers
    BY <2>1 DEF Armed
  <2> HIDE DEF j
  <2>5. Bookkept'
    <3>1. \A k \in Id : /\ jobs'[k].status = "none" <=> jobs'[k].edition = 0
                        /\ jobs'[k].edition <= editions
                        /\ k > lastJob => jobs'[k].status = "none"
      BY <1>1, <1>2, <2>2 DEF SchedulerInv, Bookkept, Id, SchedulerTypeOK
    <3> QED BY <1>3, <3>1 DEF SchedulerInv, Bookkept
  <2>6. PendingIsArmed' /\ QuietAfterStop'
    BY <1>3, <2>2, <2>3, <2>4 DEF SchedulerInv, PendingIsArmed, QuietAfterStop, Started
  <2>7. NoOrphanedAttempt'
    <3>1. \A k \in Id : k # i => Snapshot(k)' = Snapshot(k) /\ Snapshot(k) # a
      BY <2>2 DEF Snapshot
    <3> QED BY <1>2, <1>3, <2>2, <3>1 DEF SchedulerInv, NoOrphanedAttempt
  <2>8. NeverEarly'
    BY <1>3 DEF SchedulerInv, NeverEarly
  <2>9. OneAttemptPerEdition'
    <3>1. \A k, m \in Id : jobs'[k].edition = jobs'[m].edition /\ jobs'[k].status # "none" => k = m
      BY <1>2, <1>4, <2>2 DEF SchedulerInv, OneAttemptPerEdition
    <3>2. \A b \in sending' : \A k \in Id :
            b.edition = jobs'[k].edition =>
              b.id = k /\ jobs'[k].status = "in-progress" /\ jobs'[k].due = b.due
      BY <1>2, <1>4, <2>2 DEF SchedulerInv, OneAttemptPerEdition
    <3>3. \A b, c \in sending' : b.edition = c.edition => b = c
      BY <1>3 DEF SchedulerInv, OneAttemptPerEdition
    <3> QED BY <3>1, <3>2, <3>3 DEF OneAttemptPerEdition
  <2>10. PendingIsUnsent'
    <3> SUFFICES ASSUME NEW k \in Id, NEW s \in sent, s.edition = jobs'[k].edition
                 PROVE  s.due < jobs'[k].due \/ (s.due = jobs'[k].due /\ jobs'[k].status # "pending")
      BY <1>3 DEF PendingIsUnsent
    <3>1. CASE k = i
      BY <1>1, <1>2, <1>4, <2>2, <3>1
    <3>2. CASE k # i
      BY <2>2, <3>2 DEF SchedulerInv, PendingIsUnsent
    <3> QED BY <3>1, <3>2
  <2> QED BY <2>5, <2>6, <2>7, <2>8, <2>9, <2>10 DEF SchedulerInv
<1> QED BY <1>5, <1>6

(* A restart keeps every edition in its place and only moves times ahead.    *)
LEMMA SchedulerStartInv ==
  ASSUME SchedulerTypeOK, SchedulerInv, StartScheduler
  PROVE  SchedulerInv'
<1> DEFINE r(i) == Restored(jobs[i])
<1>1. /\ sending = {} /\ sending' = {} /\ service' \in {"on", "half"}
      /\ UNCHANGED <<now, lastJob, editions, latest, sent>>
  BY DEF StartScheduler, SchedulerInv, Bookkept
<1>2. \A i \in Id : /\ jobs[i] \in Job /\ r(i) \in Job /\ r(i).due \in Nat /\ jobs[i].due \in Nat
                    /\ r(i).edition = jobs[i].edition
                    /\ r(i).status = "none" <=> jobs[i].status = "none"
                    /\ r(i).status # "in-progress"
                    /\ r(i).due >= jobs[i].due
                    /\ r(i).status = "pending" =>
                         /\ r(i).due > now
                         /\ r(i).due > jobs[i].due \/ r(i) = jobs[i]
  BY RestoredFields DEF SchedulerTypeOK, Job
<1>3. \A i \in Id : jobs'[i] = r(i) \/ jobs'[i] = jobs[i]
  BY DEF StartScheduler
<1>4. service' = "on" => \A i \in Id : /\ jobs'[i] = r(i)
                                       /\ r(i).status = "pending" => timers'[i] = FireTime(r(i).due)
  <2>1. Restores(MaxJobs) => \A i \in Id : Restores(i)
    BY SchedulerAssumption DEF Restores, Id
  <2> QED BY <2>1 DEF StartScheduler
<1>5. now \in Nat
  BY DEF SchedulerTypeOK
<1>6. \A i \in Id : r(i).status = "pending" =>
                      FireTime(r(i).due) # NoTimer /\ FireTime(r(i).due) <= r(i).due
  BY <1>2, <1>5, FireTimeType
<1>7. \A s \in sent : s.due \in Nat
  BY DEF SchedulerTypeOK, Occurrence
<1> HIDE DEF r
<1>8. \A i \in Id : /\ jobs'[i].edition = jobs[i].edition
                    /\ jobs'[i].status = "none" <=> jobs[i].status = "none"
  BY <1>2, <1>3
<1>9. Bookkept'
  BY <1>1, <1>8 DEF SchedulerInv, Bookkept
<1>10. PendingIsArmed' /\ QuietAfterStop' /\ NoOrphanedAttempt'
  BY <1>1, <1>2, <1>4, <1>6 DEF PendingIsArmed, QuietAfterStop, Started, NoOrphanedAttempt
<1>11. NeverEarly'
  BY <1>1 DEF SchedulerInv, NeverEarly
<1>12. OneAttemptPerEdition'
  BY <1>1, <1>8 DEF SchedulerInv, OneAttemptPerEdition
<1>13. PendingIsUnsent'
  <2> SUFFICES ASSUME NEW k \in Id, NEW s \in sent, s.edition = jobs'[k].edition
               PROVE  s.due < jobs'[k].due \/ (s.due = jobs'[k].due /\ jobs'[k].status # "pending")
    BY <1>1 DEF PendingIsUnsent
  <2>1. s.due < jobs[k].due \/ (s.due = jobs[k].due /\ jobs[k].status # "pending")
    BY <1>8 DEF SchedulerInv, PendingIsUnsent
  <2>2. CASE jobs'[k] = jobs[k]
    BY <2>1, <2>2
  <2>3. CASE jobs'[k] = r(k) /\ r(k) # jobs[k]
    BY <1>2, <1>7, <2>1, <2>3
  <2> QED BY <1>3, <2>2, <2>3
<1> QED BY <1>9, <1>10, <1>11, <1>12, <1>13 DEF SchedulerInv

(* Stopping, dying and waiting leave the rows alone. *)
LEMMA ProcessInv ==
  ASSUME SchedulerTypeOK, SchedulerInv, Gone \/ Stop \/ Tick \/ UNCHANGED schedulerVars
  PROVE  SchedulerInv'
<1>1. UNCHANGED <<jobs, lastJob, editions, sent>> /\ sending' \subseteq sending
      /\ now \in Nat /\ now' \in Nat /\ now <= now' /\ \A s \in sent : s.due \in Nat
  BY DEF Gone, Stop, Tick, schedulerVars, SchedulerTypeOK, Occurrence
<1>2. \/ service' = "down" /\ timers' = NoTimers /\ sending' = {}
      \/ service = "on" /\ service' = "stopping" /\ timers' = NoTimers /\ sending' = sending
      \/ service' = service /\ timers' = timers /\ sending' = sending
  BY DEF Gone, Stop, Tick, schedulerVars
<1>3. Bookkept'
  BY <1>1, <1>2 DEF SchedulerInv, Bookkept
<1>4. PendingIsArmed' /\ QuietAfterStop'
  BY <1>1, <1>2 DEF SchedulerInv, PendingIsArmed, QuietAfterStop, Started, NoTimers
<1>5. NoOrphanedAttempt'
  BY <1>1, <1>2 DEF SchedulerInv, NoOrphanedAttempt, Snapshot
<1>6. NeverEarly'
  BY <1>1 DEF SchedulerInv, NeverEarly
<1>7. OneAttemptPerEdition' /\ PendingIsUnsent'
  BY <1>1 DEF SchedulerInv, OneAttemptPerEdition, PendingIsUnsent
<1> QED BY <1>3, <1>4, <1>5, <1>6, <1>7 DEF SchedulerInv

(* No interleaving of edits, wakes, sends, crashes and restarts leaves a     *)
(* pending job without a timer, an attempt without a task, a timer behind a  *)
(* stop, or an occurrence pending that was sent before.                      *)
THEOREM SchedulerSafe == SchedulerSpec => []SchedulerInv
<1>1. SchedulerInit => SchedulerInv
  BY DEF SchedulerInit, SchedulerInv, Bookkept, PendingIsArmed, QuietAfterStop, NoOrphanedAttempt,
         NeverEarly, OneAttemptPerEdition, PendingIsUnsent, NoJob, Id
<1>2. SchedulerTypeOK /\ SchedulerInv /\ [SchedulerNext]_schedulerVars => SchedulerInv'
  <2> SUFFICES ASSUME SchedulerTypeOK, SchedulerInv, [SchedulerNext]_schedulerVars PROVE SchedulerInv'
    OBVIOUS
  <2>1. CASE (\E a \in sending : SendOverflows(a)) \/ Stop \/ ExitScheduler \/ CrashScheduler \/ Tick
             \/ UNCHANGED schedulerVars
    BY <2>1, ProcessInv DEF SendOverflows, ExitScheduler, CrashScheduler
  <2> QED BY <2>1, CreateInv, UpdateInv, DeleteInv, WakeInv, SendSettlesInv, SchedulerStartInv DEF SchedulerNext
<1> QED BY <1>1, <1>2, SchedulerTypeCorrect, PTL DEF SchedulerSpec

(* The parts of the invariant, each under the name the runs check. *)
THEOREM Armament == SchedulerSpec => [](PendingIsArmed /\ QuietAfterStop)
<1>1. SchedulerInv => PendingIsArmed /\ QuietAfterStop
  BY DEF SchedulerInv
<1> QED BY <1>1, SchedulerSafe, PTL

THEOREM AttemptsAccounted == SchedulerSpec => [](NoOrphanedAttempt /\ NeverEarly)
<1>1. SchedulerInv => NoOrphanedAttempt /\ NeverEarly
  BY DEF SchedulerInv
<1> QED BY <1>1, SchedulerSafe, PTL

(* At most once: #wake never hands an occurrence to send() that was handed   *)
(* to it before, in this run or in one that crashed in the middle of it.     *)
THEOREM AtMostOnce == SchedulerSpec => SentOnce
<1>1. SchedulerTypeOK /\ SchedulerInv /\ [SchedulerNext]_schedulerVars =>
        [\A a \in sending' \ sending : [edition |-> a.edition, due |-> a.due] \notin sent]_schedulerVars
  <2> SUFFICES ASSUME SchedulerTypeOK, SchedulerInv, SchedulerNext, NEW a \in sending' \ sending
               PROVE  [edition |-> a.edition, due |-> a.due] \notin sent
    OBVIOUS
  <2>1. PICK i \in Id : Wake(i) /\ jobs[i].status = "pending"
                        /\ sending' = sending \cup {Snapshot(i)}
    BY DEF SchedulerNext, Create, Update, StoreDraft, Delete, Wake, Attempt, SendSettles, SendOverflows,
           StartScheduler, Stop, ExitScheduler, CrashScheduler, Gone, Tick
  <2>2. a.edition = jobs[i].edition /\ a.due = jobs[i].due
    BY <2>1 DEF Snapshot
  <2>3. jobs[i].due \in Nat
    BY DEF SchedulerTypeOK, Job
  <2> QED BY <2>1, <2>2, <2>3 DEF SchedulerInv, PendingIsUnsent
<1> QED BY <1>1, SchedulerSafe, SchedulerTypeCorrect, PTL DEF SchedulerSpec, SentOnce

(* A deleted job stays deleted, whatever task of it is still in flight. *)
THEOREM Deleted == SchedulerSpec => DeletedStaysDeleted
<1>1. SchedulerTypeOK /\ SchedulerInv /\ [SchedulerNext]_schedulerVars =>
        [\A i \in 1..lastJob : jobs[i].status = "none" => jobs'[i].status = "none"]_schedulerVars
  <2> SUFFICES ASSUME SchedulerTypeOK, SchedulerInv, SchedulerNext, NEW i \in 1..lastJob, jobs[i].status = "none"
               PROVE  jobs'[i].status = "none"
    OBVIOUS
  <2>1. i \in Id /\ lastJob \in Nat
    BY SchedulerAssumption DEF SchedulerTypeOK, Id
  <2>3. ASSUME NEW due \in Dues, NEW step \in Steps, Create(due, step)
        PROVE  jobs'[i].status = "none"
    <3>1. i # lastJob + 1 /\ jobs' = [jobs EXCEPT ![lastJob + 1] = Draft(due, step)]
      BY <2>1, <2>3 DEF Create, StoreDraft
    <3> QED BY <2>1, <3>1 DEF SchedulerTypeOK
  <2>4. ASSUME NEW k \in Id, NEW due \in Dues, NEW step \in Steps, Update(k, due, step)
        PROVE  jobs'[i].status = "none"
    <3>1. i # k /\ jobs' = [jobs EXCEPT ![k] = Draft(due, step)]
      BY <2>4 DEF Update, StoreDraft
    <3> QED BY <2>1, <3>1 DEF SchedulerTypeOK
  <2>5. ASSUME NEW k \in Id, Delete(k)
        PROVE  jobs'[i].status = "none"
    BY <2>1, <2>5 DEF Delete, NoJob, SchedulerTypeOK
  <2>6. ASSUME NEW k \in Id, Wake(k)
        PROVE  jobs'[i].status = "none"
    BY <2>1, <2>6 DEF Wake, Attempt, SchedulerTypeOK
  <2>7. ASSUME NEW a \in sending, NEW outcome \in {"complete", "error"}, SendSettles(a, outcome)
        PROVE  jobs'[i].status = "none"
    BY <2>1, <2>7 DEF SendSettles, SchedulerTypeOK
  <2>8. CASE StartScheduler
    BY <2>1, <2>8, RestoredFields DEF StartScheduler
  <2>9. CASE (\E a \in sending : SendOverflows(a)) \/ Stop \/ ExitScheduler \/ CrashScheduler \/ Tick
    BY <2>9 DEF SendOverflows, ExitScheduler, CrashScheduler, Gone, Stop, Tick
  <2> QED BY <2>3, <2>4, <2>5, <2>6, <2>7, <2>8, <2>9 DEF SchedulerNext
<1> QED BY <1>1, SchedulerSafe, SchedulerTypeCorrect, PTL DEF SchedulerSpec, DeletedStaysDeleted
=============================================================================
