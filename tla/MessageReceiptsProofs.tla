------------------------ MODULE MessageReceiptsProofs ------------------------
(***************************************************************************)
(* What TLAPS proves of sent messages and their controls: types, and the    *)
(* invariant that ties the buffer, the loop of controls, the sends, the     *)
(* rows and the history to one another.                                     *)
(***************************************************************************)
EXTENDS MessageReceipts, FiniteSetTheorems, SequenceTheorems, TLAPS

-----------------------------------------------------------------------------
(* The buffer.                                                              *)

\* What is left of a queue are members of the queue.
LEMMA UnexpiredElements ==
  ASSUME NEW q \in Seq(Arrived), NEW t \in 0..MaxTime
  PROVE  /\ Unexpired(q, t) \in Seq(Arrived)
         /\ \A i \in DOMAIN Unexpired(q, t) :
              \E j \in DOMAIN q : Unexpired(q, t)[i] = q[j]
<1> DEFINE stale == {i \in DOMAIN q : q[i].at + Window < t}
           n == Cardinality(stale)
<1>1. Len(q) \in Nat /\ DOMAIN q = 1..Len(q) /\ \A i \in 1..Len(q) : q[i] \in Arrived
  BY ElementOfSeq, LenProperties
<1>2. IsFiniteSet(1..Len(q))
  BY <1>1, FS_Interval
<1>3. IsFiniteSet(stale)
  BY <1>1, <1>2, FS_Subset
<1>4. n \in Nat
  BY <1>3, FS_CardinalityType
<1>5. Unexpired(q, t) = SubSeq(q, n + 1, Len(q))
  BY DEF Unexpired
<1> HIDE DEF n
<1>6. Unexpired(q, t) = [i \in 1..(Len(q) - n) |-> q[i + n]]
  BY <1>1, <1>4, <1>5
<1>7. ASSUME NEW i \in 1..(Len(q) - n)
      PROVE  i + n \in 1..Len(q)
  BY <1>1, <1>4
<1>8. \A i \in 1..(Len(q) - n) : q[i + n] \in Arrived
  BY <1>1, <1>7
<1>9. Len(q) - n \in Int
  BY <1>1, <1>4
<1>10. Unexpired(q, t) \in Seq(Arrived)
  <2>1. CASE Len(q) - n \in Nat
    BY <1>6, <1>8, <2>1, IsASeq
  <2>2. CASE Len(q) - n \notin Nat
    <3>1. 1..(Len(q) - n) = 1..0
      BY <1>9, <2>2
    <3>2. Unexpired(q, t) = [i \in 1..0 |-> q[i + n]]
      BY <1>6, <3>1
    <3> QED
      BY <3>2, IsASeq
  <2> QED
    BY <2>1, <2>2
<1> QED
  BY <1>1, <1>6, <1>7, <1>10

\* Nothing is left of no controls.
LEMMA UnexpiredOfNone ==
  ASSUME NEW q \in Seq(Arrived), q = <<>>, NEW t \in 0..MaxTime
  PROVE  Unexpired(q, t) = <<>>
<1>1. DOMAIN q = {}
  BY LenProperties
<1>2. /\ Unexpired(q, t) \in Seq(Arrived)
      /\ \A i \in DOMAIN Unexpired(q, t) : \E j \in DOMAIN q : Unexpired(q, t)[i] = q[j]
  BY UnexpiredElements
<1>3. DOMAIN Unexpired(q, t) = {}
  BY <1>1, <1>2
<1>4. Len(Unexpired(q, t)) = 0
  BY <1>2, <1>3, LenProperties
<1> QED
  BY <1>2, <1>4, EmptySeq

\* The control that joins a queue is in it, after members of the queue.
LEMMA JoinedElements ==
  ASSUME NEW q \in Seq(Arrived), NEW a \in Arrived
  PROVE  /\ Joined(q, a) \in Seq(Arrived)
         /\ \E i \in DOMAIN Joined(q, a) : Joined(q, a)[i] = a
         /\ \A i \in DOMAIN Joined(q, a) :
              \/ Joined(q, a)[i] = a
              \/ \E j \in DOMAIN q : Joined(q, a)[i] = q[j]
<1>1. Len(q) \in Nat /\ DOMAIN q = 1..Len(q)
  BY LenProperties
<1>2. CASE Len(q) >= MaxControls
  <2>1. q # <<>> /\ Len(q) >= 1
    BY <1>1, <1>2, ReceiptAssumption
  <2>2. /\ Tail(q) \in Seq(Arrived)
        /\ Len(Tail(q)) = Len(q) - 1
        /\ \A i \in 1..Len(Tail(q)) : Tail(q)[i] = q[i + 1]
    BY <2>1, HeadTailProperties
  <2>3. Joined(q, a) = Append(Tail(q), a)
    BY <1>2 DEF Joined
  <2>4. /\ Append(Tail(q), a) \in Seq(Arrived)
        /\ Len(Append(Tail(q), a)) = Len(q)
        /\ \A i \in 1..Len(q) - 1 : Append(Tail(q), a)[i] = Tail(q)[i]
        /\ Append(Tail(q), a)[Len(q)] = a
    BY <1>1, <2>1, <2>2, AppendProperties
  <2>5. DOMAIN Append(Tail(q), a) = 1..Len(q)
    BY <2>4, LenProperties
  <2> QED
    BY <1>1, <2>1, <2>2, <2>3, <2>4, <2>5
<1>3. CASE ~(Len(q) >= MaxControls)
  <2>1. Joined(q, a) = Append(q, a)
    BY <1>3 DEF Joined
  <2>2. /\ Append(q, a) \in Seq(Arrived)
        /\ Len(Append(q, a)) = Len(q) + 1
        /\ \A i \in 1..Len(q) : Append(q, a)[i] = q[i]
        /\ Append(q, a)[Len(q) + 1] = a
    BY AppendProperties
  <2>3. DOMAIN Append(q, a) = 1..Len(q) + 1
    BY <2>2, LenProperties
  <2> QED
    BY <1>1, <2>1, <2>2, <2>3
<1> QED
  BY <1>2, <1>3

\* The controls of a queue are of its message.
PendingKeyed ==
  \A m \in Message : \A i \in DOMAIN pending[m] : pending[m][i].control.target = m

\* What holding a control does to the buffer and to what was heard.
LEMMA HoldFacts ==
  ASSUME TypeOK, PendingKeyed, NEW a \in Arrived, Hold(a)
  PROVE  /\ pending' \in [Message -> Seq(Arrived)]
         /\ older' \subseteq Message \X Message
         /\ heard' \subseteq Control
         /\ PendingKeyed'
         /\ \A m \in Message \ {a.control.target} : pending'[m] # <<>> => pending[m] # <<>>
         /\ a.control \in HeldIn(pending')
         /\ heard' \subseteq heard \cup Noted(a.control)
         /\ \A c \in heard' : c \in HeldIn(pending) => c \in HeldIn(pending')
<1> DEFINE m == a.control.target
           left == [k \in Message |-> Unexpired(pending[k], a.at)]
           kept == {k \in Message : left[k] # <<>>}
<1>1. a.control \in Control /\ m \in Message /\ a.at \in 0..MaxTime
  BY DEF Arrived, Control
<1>2. PICK evicted \in Evictions(m, kept) :
        /\ pending' = [k \in Message |->
                         IF k = m THEN Joined(left[m], a)
                         ELSE IF k \in evicted THEN <<>> ELSE left[k]]
        /\ older' = (older \cap ((kept \ evicted) \X (kept \ evicted)))
                      \cup (IF m \in kept THEN {} ELSE (kept \ evicted) \X {m})
        /\ heard' = (heard \cup Noted(a.control)) \ (HeldIn(pending) \ HeldIn(pending'))
  BY Zenon DEF Hold
<1>3. \A k \in Message : pending[k] \in Seq(Arrived)
  BY DEF TypeOK
<1>4. \A k \in Message :
        /\ left[k] \in Seq(Arrived)
        /\ \A i \in DOMAIN left[k] : \E j \in DOMAIN pending[k] : left[k][i] = pending[k][j]
  BY <1>1, <1>3, UnexpiredElements
<1>5. \A k \in Message : left[k] # <<>> => pending[k] # <<>>
  BY <1>1, <1>3, UnexpiredOfNone
<1>6. /\ Joined(left[m], a) \in Seq(Arrived)
      /\ \E i \in DOMAIN Joined(left[m], a) : Joined(left[m], a)[i] = a
      /\ \A i \in DOMAIN Joined(left[m], a) :
           \/ Joined(left[m], a)[i] = a
           \/ \E j \in DOMAIN left[m] : Joined(left[m], a)[i] = left[m][j]
  BY <1>1, <1>4, JoinedElements
<1> HIDE DEF left
<1>7. pending' \in [Message -> Seq(Arrived)]
  BY <1>2, <1>4, <1>6
<1>8. older' \subseteq Message \X Message
  BY <1>1, <1>2 DEF TypeOK
<1>9. Noted(a.control) \subseteq Control
  BY <1>1 DEF Noted
<1>10. PendingKeyed'
  <2>1. SUFFICES ASSUME NEW k \in Message, NEW i \in DOMAIN pending'[k]
                 PROVE  pending'[k][i].control.target = k
    BY DEF PendingKeyed
  <2>2. CASE k = m
    <3>1. pending'[k] = Joined(left[m], a)
      BY <1>2, <2>2
    <3>2. CASE pending'[k][i] = a
      BY <2>2, <3>2
    <3>3. CASE \E j \in DOMAIN left[m] : pending'[k][i] = left[m][j]
      BY <1>1, <1>4, <2>2, <3>3 DEF PendingKeyed
    <3> QED
      BY <1>6, <2>1, <3>1, <3>2, <3>3
  <2>3. CASE k # m /\ pending'[k] = left[k]
    BY <1>4, <2>1, <2>3 DEF PendingKeyed
  <2>4. CASE k # m /\ pending'[k] = <<>>
    BY <2>1, <2>4
  <2> QED
    BY <1>2, <2>2, <2>3, <2>4
<1>11. \A k \in Message \ {m} : pending'[k] # <<>> => pending[k] # <<>>
  BY <1>2, <1>5
<1>12. a.control \in HeldIn(pending')
  <2>1. pending'[m] = Joined(left[m], a)
    BY <1>1, <1>2
  <2>2. \E i \in DOMAIN pending'[m] : pending'[m][i].control = a.control
    BY <1>6, <2>1
  <2> QED
    BY <1>1, <2>2 DEF HeldIn
<1>13. heard' \subseteq heard \cup Noted(a.control)
  BY <1>2
<1>14. \A c \in heard' : c \in HeldIn(pending) => c \in HeldIn(pending')
  BY <1>2
<1> QED
  BY <1>7, <1>8, <1>9, <1>10, <1>11, <1>12, <1>13, <1>14 DEF TypeOK

\* The first control of the loop and those after it.
LEMMA WorkFacts ==
  ASSUME TypeOK, work # <<>>
  PROVE  /\ Head(work) \in Arrived /\ First \in Control
         /\ Tail(work) \in Seq(Arrived)
         /\ \A i \in DOMAIN Tail(work) : \E j \in DOMAIN work : Tail(work)[i] = work[j]
         /\ \A i \in DOMAIN work :
              \/ work[i] = Head(work)
              \/ \E j \in DOMAIN Tail(work) : Tail(work)[j] = work[i]
         /\ \E i \in DOMAIN work : work[i] = Head(work)
<1>1. work \in Seq(Arrived)
  BY DEF TypeOK
<1>2. Len(work) \in Nat \ {0} /\ DOMAIN work = 1..Len(work)
  BY <1>1, EmptySeq, LenProperties
<1>3. /\ Head(work) \in Arrived
      /\ Tail(work) \in Seq(Arrived)
      /\ Len(Tail(work)) = Len(work) - 1
      /\ \A i \in 1..Len(Tail(work)) : Tail(work)[i] = work[i + 1]
  BY <1>1, HeadTailProperties
<1>4. DOMAIN Tail(work) = 1..Len(work) - 1
  BY <1>3, LenProperties
<1>5. Head(work) = work[1]
  BY <1>1
<1>6. First \in Control
  BY <1>3 DEF First, Arrived
<1>7. \A i \in DOMAIN Tail(work) : i + 1 \in DOMAIN work /\ Tail(work)[i] = work[i + 1]
  BY <1>2, <1>3, <1>4
<1>8. \A i \in DOMAIN work : i = 1 \/ (i - 1 \in DOMAIN Tail(work) /\ Tail(work)[i - 1] = work[i])
  BY <1>2, <1>3, <1>4
<1>9. 1 \in DOMAIN work
  BY <1>2
<1> QED
  BY <1>3, <1>5, <1>6, <1>7, <1>8, <1>9
-----------------------------------------------------------------------------
(* Types.                                                                   *)

\* Status rows and control fields, as the solvers need them.
LEMMA StatusTypes ==
  ASSUME NEW s \in Status, NEW c \in Control
  PROVE  /\ Marked(s, c) \in Status
         /\ Fresh \in Status
         /\ c.target \in Message
         /\ c.kind # "error" =>
              [message |-> c.target, type |-> c.kind, by |-> c.by] \in Receipt
<1>1. CASE c \in [target : Message, kind : {"delivered", "read"}, by : Recipient]
  BY <1>1 DEF Marked, Fresh, Status, Receipt
<1>2. CASE c \in [target : Message, kind : {"error"}, by : Code]
  BY <1>2 DEF Marked, Fresh, Status
<1> QED
  BY <1>1, <1>2 DEF Control

LEMMA TypeStep == TypeOK /\ PendingKeyed /\ [Next]_vars => TypeOK' /\ PendingKeyed'
<1> SUFFICES ASSUME TypeOK, PendingKeyed, [Next]_vars
             PROVE  TypeOK' /\ PendingKeyed'
  OBVIOUS
<1> USE DEF TypeOK, PendingKeyed
<1>1. ASSUME NEW c \in Control, Arrive(c)
      PROVE  TypeOK' /\ PendingKeyed'
  <2> DEFINE a == [control |-> c, at |-> now]
  <2>1. a \in Arrived /\ Noted(c) \subseteq Control
    BY DEF Arrived, Noted
  <2>2. CASE c.target \in announcing \/ c.target \notin stored
    <3>1. Hold(a) /\ UNCHANGED work
      BY <1>1, <2>2 DEF Arrive
    <3>2. /\ pending' \in [Message -> Seq(Arrived)]
          /\ older' \subseteq Message \X Message
          /\ heard' \subseteq Control
          /\ PendingKeyed'
      BY <2>1, <3>1, HoldFacts
    <3> QED
      BY <1>1, <3>1, <3>2 DEF Arrive, durable, history
  <2>3. CASE ~(c.target \in announcing \/ c.target \notin stored)
    <3>1. work' = <<a>> /\ heard' = heard \cup Noted(c) /\ UNCHANGED <<pending, older>>
      BY <1>1, <2>3 DEF Arrive
    <3>2. <<a>> \in Seq(Arrived)
      BY <2>1
    <3> QED
      BY <1>1, <2>1, <3>1, <3>2 DEF Arrive, durable, history
  <2> QED
    BY <2>2, <2>3
<1>2. CASE HoldAgain
  <2>1. Head(work) \in Arrived /\ Tail(work) \in Seq(Arrived)
    BY <1>2, WorkFacts DEF HoldAgain
  <2>2. /\ pending' \in [Message -> Seq(Arrived)]
        /\ older' \subseteq Message \X Message
        /\ heard' \subseteq Control
        /\ PendingKeyed'
    BY <1>2, <2>1, HoldFacts DEF HoldAgain
  <2> QED
    BY <1>2, <2>1, <2>2 DEF HoldAgain, durable, history
<1>3. CASE Consume
  BY <1>3, WorkFacts DEF Consume, durable, history
<1>4. CASE Record
  <2>1. First \in Control
    BY <1>4, WorkFacts DEF Record
  <2>2. receipts' \subseteq Receipt
    <3>1. Fresh \in Status
      BY DEF Fresh, Status
    <3> QED
      BY <1>4, <2>1, <3>1, StatusTypes DEF Record
  <2> QED
    BY <1>4, <2>2 DEF Record, history
<1>5. CASE Mark
  <2>1. First \in Control /\ Tail(work) \in Seq(Arrived)
    BY <1>5, WorkFacts DEF Mark
  <2>2. status' \in [Message -> Status]
    <3>1. First.target \in Message /\ Marked(status[First.target], First) \in Status
      <4>1. Fresh \in Status
        BY DEF Fresh, Status
      <4>2. First.target \in Message
        BY <2>1, <4>1, StatusTypes
      <4> QED
        BY <2>1, <4>2, StatusTypes
    <3> QED
      BY <1>5, <3>1 DEF Mark
  <2> QED
    BY <1>5, <2>1, <2>2 DEF Mark, history
<1>6. CASE Tell
  <2>1. First.target \in Message /\ Tail(work) \in Seq(Arrived)
    BY <1>6, WorkFacts DEF Tell, Control
  <2> QED
    BY SMTT(30), <1>6, <2>1 DEF Tell, durable
<1>7. CASE Throw
  BY <1>7, EmptySeq DEF Throw, durable, history
<1>8. ASSUME NEW m \in Own, Request(m)
      PROVE  TypeOK' /\ PendingKeyed'
  BY <1>8 DEF Request, durable, history
<1>9. ASSUME NEW m \in Own, RequestFails(m)
      PROVE  TypeOK' /\ PendingKeyed'
  BY <1>9 DEF RequestFails, durable, history
<1>10. ASSUME NEW m \in Own, Answer(m)
       PROVE  TypeOK' /\ PendingKeyed'
  BY <1>10 DEF Answer, history, Message
<1>11. ASSUME NEW m \in Own, Finish(m)
       PROVE  /\ announcing' \subseteq Own
              /\ pending' \in [Message -> Seq(Arrived)]
              /\ older' \subseteq Message \X Message
              /\ work' \in Seq(Arrived)
              /\ PendingKeyed'
  BY <1>11 DEF Finish, Message
<1>12. ASSUME NEW m \in Own, InsertFails(m)
       PROVE  TypeOK' /\ PendingKeyed'
  BY <1>11, <1>12 DEF InsertFails, durable, history
<1>13. ASSUME NEW m \in Own, Publish(m)
       PROVE  TypeOK' /\ PendingKeyed'
  BY <1>11, <1>13 DEF Publish, durable, Message
<1>14. ASSUME NEW m \in Own, StoringFails(m)
       PROVE  TypeOK' /\ PendingKeyed'
  BY <1>11, <1>14 DEF StoringFails, durable, history
<1>15. ASSUME NEW m \in Own, Delete(m)
       PROVE  TypeOK' /\ PendingKeyed'
  BY <1>15 DEF Delete, Fresh, Status
<1>16. CASE End
  <2>1. <<>> \in Seq(Arrived) /\ DOMAIN <<>> = {}
    BY EmptySeq
  <2>2. PendingKeyed'
    BY <1>16, <2>1 DEF End
  <2>3. /\ sends' \in [Own -> {"idle", "requested", "storing", "done", "failed"}]
        /\ pending' \in [Message -> Seq(Arrived)]
        /\ work' \in Seq(Arrived)
    BY <1>16, <2>1 DEF End
  <2> QED
    BY <1>16, <2>2, <2>3 DEF End, durable, history
<1>17. CASE Start
  <2>1. Backfilled \subseteq Receipt
    BY DEF Backfilled, Receipt
  <2> QED
    BY <1>17, <2>1 DEF Start, history
<1>18. CASE Tick
  BY <1>18, ReceiptAssumption DEF Tick, durable, history
<1>19. CASE UNCHANGED vars
  BY <1>19 DEF vars
<1> QED
  BY <1>1, <1>2, <1>3, <1>4, <1>5, <1>6, <1>7, <1>8, <1>9, <1>10, <1>12, <1>13, <1>14,
     <1>15, <1>16, <1>17, <1>18, <1>19 DEF Next

\* Initially nothing is held or being applied.
LEMMA TypeInit == Init => TypeOK /\ PendingKeyed
  BY EmptySeq, ReceiptAssumption
     DEF Init, TypeOK, PendingKeyed, Fresh, Status, Message

\* TypeOK for every set of messages, recipients and limits: what is held and
\* applied are controls with the time of their arrival, an error is no receipt.
THEOREM TypeCorrect == Spec => []TypeOK
<1> QED
  BY TypeInit, TypeStep, PTL DEF Spec
-----------------------------------------------------------------------------
(* The inductive invariant.                                                 *)

\* A row of a sent message exists only once its send was answered, the message
\* is being announced while its files are stored, and it was announced when
\* its send is done.
SendInv ==
  \A m \in Own :
    /\ m \in stored => sends[m] \in {"storing", "done", "failed"}
    /\ m \in announcing <=> sends[m] = "storing"
    /\ m \in announced <=> sends[m] = "done"

\* No control of a message being announced is applied; the receipt of the first
\* control is recorded before its row is marked, and its row is marked before
\* the change is told.
LoopInv ==
  /\ work = <<>> => phase = "record"
  /\ \A i \in DOMAIN work : work[i].control.target \notin announcing
  /\ phase # "record" =>
       /\ First.target \in stored \ Foreign
       /\ First.kind # "error" =>
            [message |-> First.target, type |-> First.kind, by |-> First.by] \in receipts
  /\ phase = "tell" => Shown(First)

\* A change that is about to be told is counted with those that were.
AboutToTell(m) ==
  IF phase = "tell" /\ First.kind # "error" /\ First.target = m THEN 1 ELSE 0
Reached(m) ==
  (IF status[m].delivered THEN 1 ELSE 0) + (IF status[m].read THEN 1 ELSE 0)
CountInv == \A m \in Message : updates[m] + AboutToTell(m) <= Reached(m)

\* Before a message is sent there are no controls of it.
IdleInv ==
  \A m \in Own : sends[m] = "idle" =>
    /\ pending[m] = <<>>
    /\ \A i \in DOMAIN work : work[i].control.target # m

\* Where a control is that was heard.
Traced(c) ==
  \/ c \in HeldIn(pending)
  \/ \E i \in DOMAIN work : work[i].control = c
  \/ Shown(c)

\* A control is traced already while its message waits for the answer, so that
\* the answer, which stores the message, finds it.
HeardInv ==
  \A c \in heard :
    /\ c.target \in Own /\ sends[c.target] # "idle"
    /\ c.target \in stored \/ sends[c.target] = "requested" => Traced(c)

ReceiptsInv ==
  /\ TypeOK
  /\ PendingKeyed
  /\ SendInv
  /\ LoopInv
  /\ IdleInv
  /\ CountInv
  /\ HeardInv
  /\ StatusIsBacked
  /\ NothingHeldBack
  /\ ToldInOrder

LEMMA SendStep == ReceiptsInv /\ [Next]_vars => SendInv'
<1> SUFFICES ASSUME ReceiptsInv, [Next]_vars
             PROVE  SendInv'
  OBVIOUS
<1> USE DEF SendInv
<1>0. SendInv /\ TypeOK
  BY DEF ReceiptsInv
<1>1. CASE UNCHANGED <<stored, sends, announcing, announced>>
  BY <1>0, <1>1
<1>2. ASSUME NEW c \in Control, Arrive(c)
      PROVE  SendInv'
  BY <1>0, <1>2 DEF Arrive, durable, history
<1>3. CASE HoldAgain \/ Consume \/ Record \/ Mark \/ Tell \/ Throw \/ Start \/ Tick
  BY <1>1, <1>3
     DEF HoldAgain, Consume, Record, Mark, Tell, Throw, Start, Tick, durable, history
<1>4. ASSUME NEW m \in Own, Request(m) \/ RequestFails(m)
      PROVE  SendInv'
  BY <1>0, <1>4 DEF Request, RequestFails, durable, history, TypeOK
<1>5. ASSUME NEW m \in Own, Answer(m)
      PROVE  SendInv'
  BY <1>0, <1>5 DEF Answer, history, TypeOK
<1>6. ASSUME NEW m \in Own, InsertFails(m)
      PROVE  SendInv'
  BY <1>0, <1>6 DEF InsertFails, Finish, durable, history, TypeOK
<1>7. ASSUME NEW m \in Own, Publish(m)
      PROVE  SendInv'
  BY <1>0, <1>7 DEF Publish, Finish, durable, TypeOK
<1>8. ASSUME NEW m \in Own, StoringFails(m)
      PROVE  SendInv'
  BY <1>0, <1>8 DEF StoringFails, Finish, durable, history, TypeOK
<1>9. ASSUME NEW m \in Own, Delete(m)
      PROVE  SendInv'
  BY <1>0, <1>9 DEF Delete
<1>10. CASE End
  BY <1>0, <1>10 DEF End, durable, history, TypeOK
<1>11. CASE UNCHANGED vars
  BY <1>1, <1>11 DEF vars
<1> QED
  BY <1>2, <1>3, <1>4, <1>5, <1>6, <1>7, <1>8, <1>9, <1>10, <1>11 DEF Next

\* An action of the free event loop finds it at its start.
LEMMA FreeLoop ==
  ASSUME ReceiptsInv, Free
  PROVE  work = <<>> /\ DOMAIN work = {} /\ phase = "record"
  BY EmptySeq DEF ReceiptsInv, LoopInv, Free, TypeOK

\* The controls taken at the end of an announcement are of its message.
LEMMA FinishFacts ==
  ASSUME ReceiptsInv, NEW m \in Own, Finish(m)
  PROVE  /\ \A i \in DOMAIN work' : work'[i].control.target = m
         /\ pending'[m] = <<>>
         /\ \A k \in Message \ {m} : pending'[k] = pending[k]
         /\ announcing' = announcing \ {m}
         /\ work' = pending[m]
  BY DEF ReceiptsInv, TypeOK, PendingKeyed, Finish, Message

LEMMA LoopStep == ReceiptsInv /\ [Next]_vars => LoopInv'
<1> SUFFICES ASSUME ReceiptsInv, [Next]_vars
             PROVE  LoopInv'
  OBVIOUS
<1>0. LoopInv /\ TypeOK
  BY DEF ReceiptsInv
<1>1. ASSUME NEW c \in Control, Arrive(c)
      PROVE  LoopInv'
  <2> DEFINE a == [control |-> c, at |-> now]
  <2>1. work = <<>> /\ phase' = "record" /\ announcing' = announcing
    BY <1>1, FreeLoop DEF Arrive
  <2>2. CASE c.target \in announcing \/ c.target \notin stored
    BY <1>1, <2>1, <2>2, FreeLoop DEF Arrive, LoopInv
  <2>3. CASE ~(c.target \in announcing \/ c.target \notin stored)
    <3>1. work' = <<a>>
      BY <1>1, <2>3 DEF Arrive
    <3>2. \A i \in DOMAIN work' : work'[i].control.target \notin announcing'
      BY <2>1, <2>3, <3>1
    <3> QED
      BY <2>1, <3>2 DEF LoopInv
  <2> QED
    BY <2>2, <2>3
<1>2. CASE HoldAgain \/ Consume
  <2>1. work # <<>> /\ work' = Tail(work) /\ phase' = "record" /\ announcing' = announcing
    BY <1>2 DEF HoldAgain, Consume
  <2>2. \A i \in DOMAIN work' : \E j \in DOMAIN work : work'[i] = work[j]
    BY <1>0, <2>1, WorkFacts
  <2> QED
    BY <1>0, <2>1, <2>2 DEF LoopInv
<1>3. CASE Record
  <2>1. First' = First /\ First \in Control
    BY <1>0, <1>3, WorkFacts DEF Record, First
  <2>2. First.kind # "error" =>
          [message |-> First.target, type |-> First.kind, by |-> First.by] \in receipts'
    BY <1>3 DEF Record
  <2> QED
    BY <1>0, <1>3, <2>1, <2>2 DEF Record, LoopInv
<1>4. CASE Mark
  <2>1. /\ work # <<>> /\ announcing' = announcing /\ stored' = stored
        /\ receipts' = receipts /\ phase = "mark"
    BY <1>4 DEF Mark
  <2>2. CASE status' = status
    <3>1. work' = Tail(work) /\ phase' = "record"
      BY <1>4, <2>2 DEF Mark
    <3>2. \A i \in DOMAIN work' : \E j \in DOMAIN work : work'[i] = work[j]
      BY <1>0, <2>1, <3>1, WorkFacts
    <3> QED
      BY <1>0, <2>1, <3>1, <3>2 DEF LoopInv
  <2>3. CASE status' # status
    <3>1. work' = work /\ phase' = "tell" /\ First' = First
      BY <1>4, <2>3 DEF Mark, First
    <3>2. First \in Control /\ First.target \in Message
      BY <1>0, <2>1, WorkFacts DEF Control
    <3>3. status'[First.target] = Marked(status[First.target], First)
      BY <1>0, <1>4, <3>2 DEF Mark, TypeOK
    <3>4. Shown(First)'
      BY <1>0, <2>1, <3>1, <3>2, <3>3, ReceiptAssumption
         DEF Shown, LoopInv, Marked, TypeOK, Status, Control
    <3> QED
      BY <1>0, <2>1, <3>1, <3>4 DEF LoopInv
  <2> QED
    BY <2>2, <2>3
<1>5. CASE Tell
  <2>1. work # <<>> /\ work' = Tail(work) /\ phase' = "record" /\ announcing' = announcing
    BY <1>5 DEF Tell
  <2>2. \A i \in DOMAIN work' : \E j \in DOMAIN work : work'[i] = work[j]
    BY <1>0, <2>1, WorkFacts
  <2> QED
    BY <1>0, <2>1, <2>2 DEF LoopInv
<1>6. CASE Throw
  BY <1>6, EmptySeq DEF Throw, LoopInv
<1>7. ASSUME NEW m \in Own, Request(m) \/ RequestFails(m) \/ Answer(m) \/ Delete(m)
      PROVE  LoopInv'
  BY <1>7, FreeLoop DEF Request, RequestFails, Answer, Delete, LoopInv
<1>8. ASSUME NEW m \in Own, InsertFails(m) \/ Publish(m) \/ StoringFails(m)
      PROVE  LoopInv'
  <2>1. Finish(m) /\ phase' = "record"
    BY <1>8, FreeLoop DEF InsertFails, Publish, StoringFails
  <2> QED
    BY <2>1, FinishFacts DEF LoopInv
<1>9. CASE End
  BY <1>9, EmptySeq DEF End, LoopInv
<1>10. CASE Start
  BY <1>0, <1>10 DEF Start, LoopInv, First, Shown
<1>11. CASE Tick
  BY <1>11, FreeLoop DEF Tick, LoopInv
<1>12. CASE UNCHANGED vars
  BY <1>0, <1>12 DEF vars, LoopInv, First, Shown
<1> QED
  BY <1>1, <1>2, <1>3, <1>4, <1>5, <1>6, <1>7, <1>8, <1>9, <1>10, <1>11, <1>12 DEF Next

\* A receipt that changes a row makes it reach a state it had not reached.
LEMMA MarkedReaches ==
  ASSUME NEW s \in Status, NEW c \in Control, c.kind # "error", Marked(s, c) # s
  PROVE  (IF s.delivered THEN 1 ELSE 0) + (IF s.read THEN 1 ELSE 0) + 1
           <= (IF Marked(s, c).delivered THEN 1 ELSE 0)
                + (IF Marked(s, c).read THEN 1 ELSE 0)
<1>1. s = [delivered |-> s.delivered, read |-> s.read, error |-> s.error]
      /\ s.delivered \in BOOLEAN /\ s.read \in BOOLEAN
  BY DEF Status
<1>2. CASE c.kind = "delivered"
  <2>1. Marked(s, c) = [delivered |-> TRUE, read |-> s.read, error |-> s.error]
    BY <1>1, <1>2 DEF Marked
  <2>2. ~s.delivered
    BY <1>1, <2>1
  <2> QED
    BY <1>1, <2>1, <2>2
<1>3. CASE c.kind = "read"
  <2>1. Marked(s, c) = [delivered |-> TRUE, read |-> TRUE, error |-> s.error]
    BY <1>1, <1>3 DEF Marked
  <2>2. ~s.delivered \/ ~s.read
    BY <1>1, <2>1
  <2> QED
    BY <1>1, <2>1, <2>2
<1> QED
  BY <1>2, <1>3 DEF Control

\* Marking a row: the states it reached stay, and one is added by a receipt
\* that changes it.
LEMMA MarkFacts ==
  ASSUME ReceiptsInv, Mark
  PROVE  /\ First \in Control /\ First.target \in Message
         /\ \A m \in Message \ {First.target} : status'[m] = status[m]
         /\ status'[First.target] = Marked(status[First.target], First)
         /\ \A m \in Message :
              /\ status[m].delivered => status'[m].delivered
              /\ status[m].read => status'[m].read
              /\ status[m].error # None => status'[m].error # None
         /\ status' # status => status'[First.target] # status[First.target]
<1>0. TypeOK /\ work # <<>>
  BY DEF ReceiptsInv, Mark
<1>1. First \in Control /\ First.target \in Message
  BY <1>0, WorkFacts DEF Control
<1>2. /\ status' \in [Message -> Status] /\ status \in [Message -> Status]
      /\ status' = [status EXCEPT ![First.target] = Marked(@, First)]
  BY <1>0, TypeStep DEF ReceiptsInv, Mark, TypeOK, Next
<1>3. \A m \in Message \ {First.target} : status'[m] = status[m]
  BY <1>1, <1>2
<1>4. status'[First.target] = Marked(status[First.target], First)
  BY <1>1, <1>2
<1>5. /\ status[First.target].delivered => status'[First.target].delivered
      /\ status[First.target].read => status'[First.target].read
      /\ status[First.target].error # None => status'[First.target].error # None
  BY <1>1, <1>2, <1>4, ReceiptAssumption DEF Marked, Status, Control
<1>6. status' # status => status'[First.target] # status[First.target]
  BY <1>1, <1>2
<1> QED
  BY <1>1, <1>3, <1>4, <1>5, <1>6

LEMMA CountStep == ReceiptsInv /\ [Next]_vars => CountInv'
<1> SUFFICES ASSUME ReceiptsInv, [Next]_vars
             PROVE  CountInv'
  OBVIOUS
<1>0. CountInv /\ TypeOK
  BY DEF ReceiptsInv
<1>1. CASE UNCHANGED <<status, updates>> /\ phase' # "tell"
  <2> SUFFICES ASSUME NEW m \in Message
               PROVE  updates'[m] + AboutToTell(m)' <= Reached(m)'
    BY DEF CountInv
  <2>1. updates[m] \in Nat /\ AboutToTell(m) \in {0, 1} /\ Reached(m) \in 0..2
    BY <1>0 DEF TypeOK, AboutToTell, Reached
  <2>2. updates[m] <= Reached(m)
    BY <1>0, <2>1 DEF CountInv
  <2>3. updates'[m] = updates[m] /\ Reached(m)' = Reached(m) /\ AboutToTell(m)' = 0
    BY <1>1 DEF Reached, AboutToTell
  <2> QED
    BY <2>1, <2>2, <2>3
<1>2. ASSUME NEW c \in Control, Arrive(c)
      PROVE  CountInv'
  BY <1>1, <1>2, FreeLoop DEF Arrive, durable, history
<1>3. CASE HoldAgain \/ Consume \/ Record \/ Throw \/ End
  BY <1>1, <1>3 DEF HoldAgain, Consume, Record, Throw, End, durable, history
<1>4. CASE Mark
  <2>1. /\ First.target \in Message /\ First \in Control
        /\ \A m \in Message \ {First.target} : status'[m] = status[m]
        /\ status'[First.target] = Marked(status[First.target], First)
        /\ status' # status => status'[First.target] # status[First.target]
    BY <1>4, MarkFacts
  <2>2. updates' = updates /\ phase = "mark"
    BY <1>4 DEF Mark, history
  <2>3. CASE status' = status
    BY <1>1, <1>4, <2>2, <2>3 DEF Mark
  <2>4. CASE status' # status
    <3>1. work' = work /\ phase' = "tell" /\ First' = First
      BY <1>4, <2>4 DEF Mark, First
    <3>2. SUFFICES ASSUME NEW m \in Message
                   PROVE  updates'[m] + AboutToTell(m)' <= Reached(m)'
      BY DEF CountInv
    <3>3. updates[m] <= Reached(m) /\ updates[m] \in Nat
      BY <1>0, <2>2 DEF CountInv, AboutToTell, TypeOK
    <3>4. CASE m # First.target
      BY <2>1, <2>2, <3>1, <3>3, <3>4 DEF AboutToTell, Reached
    <3>5. CASE m = First.target
      <4>1. status[m] \in Status
        BY <1>0 DEF TypeOK
      <4>2. CASE First.kind = "error"
        BY <2>1, <2>2, <3>1, <3>3, <3>5, <4>1, <4>2
           DEF AboutToTell, Reached, Marked, Status
      <4>3. CASE First.kind # "error"
        <5>1. AboutToTell(m)' = 1 /\ updates'[m] = updates[m]
          BY <2>2, <3>1, <3>5, <4>3 DEF AboutToTell
        <5>2. Reached(m) + 1 <= Reached(m)'
          BY <2>1, <2>4, <3>5, <4>1, <4>3, MarkedReaches DEF Reached
        <5>3. Reached(m) \in Int /\ Reached(m)' \in Int
          BY DEF Reached
        <5> QED
          BY <3>3, <5>1, <5>2, <5>3
      <4> QED
        BY <4>2, <4>3
    <3> QED
      BY <3>4, <3>5
  <2> QED
    BY <2>3, <2>4
<1>5. CASE Tell
  <2>1. status' = status /\ phase' = "record" /\ phase = "tell"
    BY <1>5 DEF Tell, durable
  <2>2. SUFFICES ASSUME NEW m \in Message
                 PROVE  updates'[m] <= Reached(m)
    <3>1. updates' \in [Message -> Nat]
      BY TypeStep DEF ReceiptsInv, TypeOK
    <3>2. \A m \in Message : Reached(m)' = Reached(m) /\ AboutToTell(m)' = 0
      BY <2>1 DEF AboutToTell, Reached
    <3> QED
      BY <2>2, <3>1, <3>2 DEF CountInv
  <2>3. updates[m] + AboutToTell(m) <= Reached(m) /\ updates[m] \in Nat
    BY <1>0 DEF CountInv, TypeOK
  <2>4. updates'[m] = updates[m] + AboutToTell(m)
    BY <1>0, <1>5, <2>1 DEF Tell, AboutToTell, TypeOK
  <2> QED
    BY <2>3, <2>4
<1>6. ASSUME NEW m \in Own,
             Request(m) \/ RequestFails(m) \/ Answer(m) \/ InsertFails(m) \/ Publish(m)
               \/ StoringFails(m)
      PROVE  CountInv'
  <2>1. UNCHANGED <<status, updates, phase>> /\ Free
    BY <1>6 DEF Request, RequestFails, Answer, InsertFails, Publish, StoringFails,
                durable, history
  <2> QED
    BY <1>1, <2>1, FreeLoop
<1>7. ASSUME NEW m \in Own, Delete(m)
      PROVE  CountInv'
  <2>1. phase' = "record"
    BY <1>7, FreeLoop DEF Delete
  <2> QED
    BY <1>0, <1>7, <2>1 DEF Delete, CountInv, AboutToTell, Reached, TypeOK, Fresh
<1>8. CASE Start \/ UNCHANGED vars
  <2>1. UNCHANGED <<status, updates, phase, work>>
    BY <1>8 DEF Start, vars, history
  <2> QED
    BY <1>0, <2>1 DEF CountInv, AboutToTell, Reached, First
<1>9. CASE Tick
  BY <1>1, <1>9, FreeLoop DEF Tick, durable, history
<1> QED
  BY <1>2, <1>3, <1>4, <1>5, <1>6, <1>7, <1>8, <1>9 DEF Next

LEMMA BackedStep == ReceiptsInv /\ [Next]_vars => StatusIsBacked'
<1> SUFFICES ASSUME ReceiptsInv, [Next]_vars
             PROVE  StatusIsBacked'
  OBVIOUS
<1>0. StatusIsBacked /\ TypeOK
  BY DEF ReceiptsInv
<1>1. CASE UNCHANGED <<status, receipts>>
  BY <1>0, <1>1 DEF StatusIsBacked
<1>2. ASSUME NEW c \in Control, Arrive(c)
      PROVE  StatusIsBacked'
  BY <1>1, <1>2 DEF Arrive, durable
<1>3. CASE HoldAgain \/ Consume \/ Throw \/ End \/ Tell \/ Tick \/ UNCHANGED vars
  BY <1>1, <1>3 DEF HoldAgain, Consume, Throw, End, Tell, Tick, durable, vars
<1>4. CASE Record
  <2>1. status' = status
    BY <1>4 DEF Record
  <2>2. ASSUME NEW r \in receipts
        PROVE  \E q \in receipts' : q.message = r.message /\ q.type = r.type
    <3>1. CASE r \in receipts'
      BY <3>1
    <3>2. CASE r \notin receipts'
      <4> DEFINE q == [message |-> First.target, type |-> First.kind, by |-> First.by]
      <4>1. /\ q \in receipts'
            /\ r = [message |-> First.target, type |-> First.kind, by |-> None]
        BY <1>4, <2>2, <3>2 DEF Record
      <4>2. q.message = r.message /\ q.type = r.type
        BY <4>1
      <4> QED
        BY <4>1, <4>2
    <3> QED
      BY <3>1, <3>2
  <2> QED
    BY <1>0, <2>1, <2>2 DEF StatusIsBacked
<1>5. CASE Mark
  <2>1. /\ First.target \in Message /\ First \in Control
        /\ \A m \in Message \ {First.target} : status'[m] = status[m]
        /\ status'[First.target] = Marked(status[First.target], First)
    BY <1>5, MarkFacts
  <2>2. receipts' = receipts /\ phase = "mark"
    BY <1>5 DEF Mark
  <2>3. First.kind # "error" =>
          [message |-> First.target, type |-> First.kind, by |-> First.by] \in receipts
    BY <2>2 DEF ReceiptsInv, LoopInv
  <2>4. status[First.target] \in Status
    BY <1>0, <2>1 DEF TypeOK
  <2>5. ASSUME NEW m \in Message, m = First.target
        PROVE  /\ status'[m].read =>
                    /\ status'[m].delivered
                    /\ \E r \in receipts : r.message = m /\ r.type = "read"
               /\ status'[m].delivered => \E r \in receipts : r.message = m
    <3>1. CASE First.kind = "error"
      BY <1>0, <2>1, <2>4, <2>5, <3>1 DEF StatusIsBacked, Marked, Status
    <3>2. CASE First.kind = "delivered"
      BY <1>0, <2>1, <2>3, <2>4, <2>5, <3>2 DEF StatusIsBacked, Marked, Status
    <3>3. CASE First.kind = "read"
      BY <1>0, <2>1, <2>3, <2>4, <2>5, <3>3 DEF StatusIsBacked, Marked, Status
    <3> QED
      BY <2>1, <3>1, <3>2, <3>3 DEF Control
  <2> QED
    BY <1>0, <2>1, <2>2, <2>5 DEF StatusIsBacked
<1>6. ASSUME NEW m \in Own,
             Request(m) \/ RequestFails(m) \/ Answer(m) \/ InsertFails(m) \/ Publish(m)
               \/ StoringFails(m)
      PROVE  StatusIsBacked'
  BY <1>1, <1>6 DEF Request, RequestFails, Answer, InsertFails, Publish, StoringFails,
                    durable
<1>7. ASSUME NEW m \in Own, Delete(m)
      PROVE  StatusIsBacked'
  <2> SUFFICES ASSUME NEW k \in Message
               PROVE  /\ status'[k].read =>
                           /\ status'[k].delivered
                           /\ \E r \in receipts' : r.message = k /\ r.type = "read"
                      /\ status'[k].delivered => \E r \in receipts' : r.message = k
    BY DEF StatusIsBacked
  <2>1. status \in [Message -> Status]
    BY <1>0 DEF TypeOK
  <2>2. CASE k = m
    BY <1>7, <2>1, <2>2 DEF Delete, Fresh
  <2>3. CASE k # m
    <3>1. status'[k] = status[k]
      BY <1>7, <2>1, <2>3 DEF Delete
    <3>2. \A r \in receipts : r.message = k => r \in receipts'
      BY <1>7, <2>3 DEF Delete
    <3> QED
      BY <1>0, <3>1, <3>2 DEF StatusIsBacked
  <2> QED
    BY <2>2, <2>3
<1>8. CASE Start
  BY <1>0, <1>8 DEF Start, StatusIsBacked
<1> QED
  BY <1>2, <1>3, <1>4, <1>5, <1>6, <1>7, <1>8 DEF Next

LEMMA HeldStep == ReceiptsInv /\ [Next]_vars => NothingHeldBack'
<1> SUFFICES ASSUME ReceiptsInv, [Next]_vars
             PROVE  NothingHeldBack'
  OBVIOUS
<1>0. NothingHeldBack /\ TypeOK /\ PendingKeyed
  BY DEF ReceiptsInv
<1>1. CASE UNCHANGED <<pending, announcing, stored>>
  BY <1>0, <1>1 DEF NothingHeldBack, HeldFor
<1>2. ASSUME NEW a \in Arrived, Hold(a), UNCHANGED <<announcing, stored>>,
             a.control.target \in announcing \/ a.control.target \notin stored
      PROVE  NothingHeldBack'
  BY <1>0, <1>2, HoldFacts DEF NothingHeldBack, HeldFor
<1>3. ASSUME NEW c \in Control, Arrive(c)
      PROVE  NothingHeldBack'
  <2> DEFINE a == [control |-> c, at |-> now]
  <2>1. CASE c.target \in announcing \/ c.target \notin stored
    <3>1. a \in Arrived /\ Hold(a) /\ a.control.target = c.target
      BY <1>0, <1>3, <2>1 DEF Arrive, Arrived, TypeOK
    <3>2. UNCHANGED <<announcing, stored>>
      BY <1>3 DEF Arrive, durable
    <3> QED
      BY <1>2, <2>1, <3>1, <3>2
  <2>2. CASE ~(c.target \in announcing \/ c.target \notin stored)
    BY <1>1, <1>3, <2>2 DEF Arrive, durable
  <2> QED
    BY <2>1, <2>2
<1>4. CASE HoldAgain
  <2>1. Head(work) \in Arrived /\ Hold(Head(work)) /\ First.target \notin stored
    BY <1>0, <1>4, WorkFacts DEF HoldAgain
  <2> QED
    BY <1>2, <1>4, <2>1 DEF HoldAgain, First, durable
<1>5. CASE Consume \/ Record \/ Mark \/ Tell \/ Throw \/ Start \/ Tick \/ UNCHANGED vars
  BY <1>1, <1>5 DEF Consume, Record, Mark, Tell, Throw, Start, Tick, vars, durable
<1>6. ASSUME NEW m \in Own, Request(m) \/ RequestFails(m)
      PROVE  NothingHeldBack'
  BY <1>1, <1>6 DEF Request, RequestFails, durable
<1>7. ASSUME NEW m \in Own, Answer(m)
      PROVE  NothingHeldBack'
  BY <1>0, <1>7 DEF Answer, NothingHeldBack, HeldFor
<1>8. ASSUME NEW m \in Own, InsertFails(m) \/ Publish(m) \/ StoringFails(m)
      PROVE  NothingHeldBack'
  <2>1. Finish(m) /\ stored' = stored
    BY <1>8 DEF InsertFails, Publish, StoringFails, durable
  <2> QED
    BY <1>0, <2>1, FinishFacts DEF NothingHeldBack, HeldFor
<1>9. ASSUME NEW m \in Own, Delete(m)
      PROVE  NothingHeldBack'
  BY <1>0, <1>9 DEF Delete, NothingHeldBack, HeldFor
<1>10. CASE End
  BY <1>10 DEF End, NothingHeldBack, HeldFor
<1> QED
  BY <1>3, <1>4, <1>5, <1>6, <1>7, <1>8, <1>9, <1>10 DEF Next

LEMMA EarlyStep == ReceiptsInv /\ [Next]_vars => ToldInOrder'
<1> SUFFICES ASSUME ReceiptsInv, [Next]_vars
             PROVE  ToldInOrder'
  OBVIOUS
<1>0. ToldInOrder /\ TypeOK /\ SendInv /\ LoopInv
  BY DEF ReceiptsInv
<1>1. CASE UNCHANGED <<early, sends, announced>>
  BY <1>0, <1>1 DEF ToldInOrder
<1>2. ASSUME NEW c \in Control, Arrive(c)
      PROVE  ToldInOrder'
  BY <1>1, <1>2 DEF Arrive, history
<1>3. CASE HoldAgain \/ Consume \/ Record \/ Mark \/ Throw \/ Start \/ Tick \/ UNCHANGED vars
  BY <1>1, <1>3 DEF HoldAgain, Consume, Record, Mark, Throw, Start, Tick, vars, history
<1>4. CASE Tell
  <2>1. First.target \in stored /\ phase = "tell" /\ work # <<>>
    BY <1>0, <1>4 DEF Tell, LoopInv
  <2>2. First.target \notin announcing
    BY <1>0, <2>1, WorkFacts DEF LoopInv, First
  <2>3. First.target \in Own \ announced => sends[First.target] = "failed"
    BY <1>0, <2>1, <2>2 DEF SendInv
  <2> QED
    BY <1>0, <1>4, <2>3 DEF Tell, ToldInOrder, TypeOK
<1>5. ASSUME NEW m \in Own, Request(m) \/ RequestFails(m) \/ Answer(m)
      PROVE  ToldInOrder'
  BY <1>0, <1>5 DEF Request, RequestFails, Answer, ToldInOrder, history, TypeOK
<1>6. ASSUME NEW m \in Own, InsertFails(m) \/ StoringFails(m)
      PROVE  ToldInOrder'
  BY <1>0, <1>6 DEF InsertFails, StoringFails, ToldInOrder, history, TypeOK
<1>7. ASSUME NEW m \in Own, Publish(m)
      PROVE  ToldInOrder'
  BY <1>0, <1>7 DEF Publish, ToldInOrder, TypeOK
<1>8. ASSUME NEW m \in Own, Delete(m)
      PROVE  ToldInOrder'
  BY <1>1, <1>8 DEF Delete
<1>9. CASE End
  BY <1>0, <1>9 DEF End, ToldInOrder, history
<1> QED
  BY <1>2, <1>3, <1>4, <1>5, <1>6, <1>7, <1>8, <1>9 DEF Next

LEMMA IdleStep == ReceiptsInv /\ [Next]_vars => IdleInv'
<1> SUFFICES ASSUME ReceiptsInv, [Next]_vars
             PROVE  IdleInv'
  OBVIOUS
<1>0. IdleInv /\ TypeOK /\ PendingKeyed
  BY DEF ReceiptsInv
<1>1. CASE UNCHANGED <<pending, work, sends>>
  BY <1>0, <1>1 DEF IdleInv
<1>2. ASSUME work # <<>>, UNCHANGED <<pending, sends>>, work' = Tail(work)
      PROVE  IdleInv'
  <2>1. \A i \in DOMAIN work' : \E j \in DOMAIN work : work'[i] = work[j]
    BY <1>0, <1>2, WorkFacts
  <2> QED
    BY <1>0, <1>2, <2>1 DEF IdleInv
<1>3. ASSUME NEW c \in Control, Arrive(c)
      PROVE  IdleInv'
  <2> DEFINE a == [control |-> c, at |-> now]
  <2>1. /\ sends' = sends /\ DOMAIN work = {} /\ a \in Arrived
        /\ c.target \in Own => sends[c.target] # "idle"
    BY <1>0, <1>3, FreeLoop DEF Arrive, Known, Arrived, TypeOK
  <2>2. CASE c.target \in announcing \/ c.target \notin stored
    <3>1. Hold(a) /\ work' = work
      BY <1>3, <2>2 DEF Arrive
    <3>2. \A m \in Message \ {c.target} : pending'[m] # <<>> => pending[m] # <<>>
      BY <1>0, <2>1, <3>1, HoldFacts
    <3> QED
      BY <1>0, <2>1, <3>1, <3>2 DEF IdleInv, Message
  <2>3. CASE ~(c.target \in announcing \/ c.target \notin stored)
    <3>1. work' = <<a>> /\ pending' = pending
      BY <1>3, <2>3 DEF Arrive
    <3>2. \A i \in DOMAIN work' : work'[i].control.target = c.target
      BY <3>1
    <3> QED
      BY <1>0, <2>1, <3>1, <3>2 DEF IdleInv
  <2> QED
    BY <2>2, <2>3
<1>4. CASE HoldAgain
  <2>1. /\ Head(work) \in Arrived /\ Hold(Head(work)) /\ sends' = sends
        /\ work # <<>> /\ work' = Tail(work)
    BY <1>0, <1>4, WorkFacts DEF HoldAgain
  <2>2. /\ \A i \in DOMAIN work' : \E j \in DOMAIN work : work'[i] = work[j]
        /\ \E i \in DOMAIN work : work[i] = Head(work)
    BY <1>0, <2>1, WorkFacts
  <2>3. \A m \in Message \ {First.target} : pending'[m] # <<>> => pending[m] # <<>>
    BY <1>0, <2>1, HoldFacts DEF First
  <2>4. First.target \in Own => sends[First.target] # "idle"
    BY <1>0, <2>2 DEF IdleInv, First
  <2> QED
    BY <1>0, <2>1, <2>2, <2>3, <2>4 DEF IdleInv, Message
<1>5. CASE Consume \/ Tell
  BY <1>2, <1>5 DEF Consume, Tell
<1>6. CASE Mark
  BY <1>1, <1>2, <1>6 DEF Mark
<1>7. CASE Record \/ Start \/ Tick \/ UNCHANGED vars
  BY <1>1, <1>7 DEF Record, Start, Tick, vars
<1>8. CASE Throw
  BY <1>0, <1>8, EmptySeq DEF Throw, IdleInv
<1>9. ASSUME NEW m \in Own, Request(m) \/ RequestFails(m) \/ Answer(m) \/ Delete(m)
      PROVE  IdleInv'
  BY <1>0, <1>9 DEF Request, RequestFails, Answer, Delete, IdleInv, TypeOK
<1>10. ASSUME NEW m \in Own, InsertFails(m) \/ Publish(m) \/ StoringFails(m)
       PROVE  IdleInv'
  <2>1. /\ Finish(m) /\ sends'[m] # "idle"
        /\ \A k \in Own \ {m} : sends'[k] = sends[k]
    BY <1>0, <1>10 DEF InsertFails, Publish, StoringFails, TypeOK
  <2> QED
    BY <1>0, <2>1, FinishFacts DEF IdleInv, Message
<1>11. CASE End
  BY <1>0, <1>11, EmptySeq DEF End, IdleInv, Message
<1> QED
  BY <1>3, <1>4, <1>5, <1>6, <1>7, <1>8, <1>9, <1>10, <1>11 DEF Next

LEMMA HeardStep == ReceiptsInv /\ [Next]_vars => HeardInv'
<1> SUFFICES ASSUME ReceiptsInv, [Next]_vars
             PROVE  HeardInv'
  OBVIOUS
<1>0. HeardInv /\ TypeOK /\ PendingKeyed /\ SendInv /\ LoopInv /\ IdleInv
  BY DEF ReceiptsInv
<1>1. CASE UNCHANGED <<heard, sends, stored, pending, work, status, receipts>>
  BY <1>0, <1>1 DEF HeardInv, Traced, HeldIn, Shown
<1>2. ASSUME NEW c \in Control, Arrive(c)
      PROVE  HeardInv'
  <2> DEFINE a == [control |-> c, at |-> now]
  <2>1. /\ UNCHANGED <<sends, stored, status, receipts>> /\ DOMAIN work = {}
        /\ a \in Arrived
        /\ c \in Noted(c) => c.target \in Own /\ sends[c.target] # "idle"
    BY <1>0, <1>2, FreeLoop DEF Arrive, Known, Arrived, TypeOK, Noted, durable
  <2>2. CASE c.target \in announcing \/ c.target \notin stored
    <3>1. Hold(a)
      BY <1>2, <2>2 DEF Arrive
    <3>2. /\ c \in HeldIn(pending')
          /\ heard' \subseteq heard \cup Noted(c)
          /\ \A d \in heard' : d \in HeldIn(pending) => d \in HeldIn(pending')
      BY <1>0, <2>1, <3>1, HoldFacts
    <3>3. \A d \in Noted(c) : d = c
      BY DEF Noted
    <3>4. \A d \in Control : Shown(d)' = Shown(d)
      BY <2>1 DEF Shown
    <3> QED
      BY <1>0, <2>1, <3>2, <3>3, <3>4 DEF HeardInv, Traced, HeldIn, TypeOK
  <2>3. CASE ~(c.target \in announcing \/ c.target \notin stored)
    <3>1. work' = <<a>> /\ heard' = heard \cup Noted(c) /\ pending' = pending
      BY <1>2, <2>3 DEF Arrive
    <3>2. \E i \in DOMAIN work' : work'[i].control = c
      BY <3>1
    <3>3. \A d \in Noted(c) : d = c
      BY DEF Noted
    <3> QED
      BY <1>0, <2>1, <3>1, <3>2, <3>3 DEF HeardInv, Traced, HeldIn, Shown
  <2> QED
    BY <2>2, <2>3
<1>3. CASE HoldAgain
  <2>1. /\ Head(work) \in Arrived /\ Hold(Head(work))
        /\ UNCHANGED <<sends, stored, status, receipts>>
        /\ work # <<>> /\ work' = Tail(work)
    BY <1>0, <1>3, WorkFacts DEF HoldAgain, durable
  <2>2. /\ \A i \in DOMAIN work :
             \/ work[i] = Head(work)
             \/ \E j \in DOMAIN work' : work'[j] = work[i]
        /\ \E i \in DOMAIN work : work[i] = Head(work)
    BY <1>0, <2>1, WorkFacts
  <2>3. /\ First \in HeldIn(pending')
        /\ heard' \subseteq heard \cup Noted(First)
        /\ \A d \in heard' : d \in HeldIn(pending) => d \in HeldIn(pending')
    BY <1>0, <2>1, HoldFacts DEF First
  <2>4. First \in Noted(First) => First.target \in Own /\ sends[First.target] # "idle"
    BY <1>0, <2>2 DEF IdleInv, First, Noted
  <2>5. \A d \in Noted(First) : d = First
    BY DEF Noted
  <2>6. \A d \in Control : Shown(d)' = Shown(d)
    BY <2>1 DEF Shown
  <2>7. ASSUME NEW d \in heard'
        PROVE  /\ d.target \in Own /\ sends'[d.target] # "idle"
               /\ d.target \in stored' \/ sends'[d.target] = "requested" => Traced(d)'
    <3>1. CASE d = First
      <4>1. d.target \in Own /\ sends'[d.target] # "idle"
        BY <1>0, <2>1, <2>3, <2>4, <2>7, <3>1 DEF HeardInv
      <4>2. Traced(d)'
        BY <2>3, <3>1 DEF Traced, HeldIn
      <4> QED
        BY <4>1, <4>2
    <3>2. CASE d # First
      <4>1. d \in heard
        BY <2>3, <2>5, <2>7, <3>2
      <4>2. CASE d \in HeldIn(pending)
        BY <1>0, <2>1, <2>3, <2>7, <4>1, <4>2 DEF HeardInv, Traced, HeldIn
      <4>3. CASE \E i \in DOMAIN work : work[i].control = d
        BY <1>0, <2>1, <2>2, <3>2, <4>1, <4>3 DEF HeardInv, Traced, First
      <4>4. CASE ~(d \in HeldIn(pending)) /\ ~(\E i \in DOMAIN work : work[i].control = d)
        BY <1>0, <2>1, <2>6, <4>1, <4>4 DEF HeardInv, Traced, TypeOK
      <4> QED
        BY <4>2, <4>3, <4>4
    <3> QED
      BY <3>1, <3>2
  <2> QED
    BY <2>7 DEF HeardInv
<1>4. ASSUME work # <<>>, work' = Tail(work),
             UNCHANGED <<heard, sends, stored, pending>>,
             \A d \in heard : Shown(d) => Shown(d)',
             \A d \in heard : d = First => Shown(d)'
      PROVE  HeardInv'
  <2>1. \A i \in DOMAIN work :
          \/ work[i] = Head(work)
          \/ \E j \in DOMAIN work' : work'[j] = work[i]
    BY <1>0, <1>4, WorkFacts
  <2>2. ASSUME NEW d \in heard, Traced(d)
        PROVE  Traced(d)'
    <3>1. CASE d \in HeldIn(pending)
      BY <1>4, <3>1 DEF Traced, HeldIn
    <3>2. CASE \E i \in DOMAIN work : work[i].control = d
      BY <1>4, <2>1, <2>2, <3>2 DEF Traced, First
    <3>3. CASE Shown(d)
      BY <1>4, <2>2, <3>3 DEF Traced
    <3> QED
      BY <2>2, <3>1, <3>2, <3>3 DEF Traced
  <2> QED
    BY <1>0, <1>4, <2>2 DEF HeardInv
<1>5. CASE Consume
  <2>1. First.target \in Foreign /\ UNCHANGED <<status, receipts>>
    BY <1>5 DEF Consume, durable
  <2>2. First \notin heard
    BY <1>0, <2>1, ReceiptAssumption DEF HeardInv
  <2>3. \A d \in heard : Shown(d) => Shown(d)'
    BY <2>1 DEF Shown
  <2> QED
    BY <1>4, <1>5, <2>2, <2>3 DEF Consume, durable
<1>6. CASE Record
  <2>1. UNCHANGED <<heard, sends, stored, pending, work, status>>
    BY <1>6 DEF Record
  <2>2. ASSUME NEW d \in heard, Shown(d)
        PROVE  Shown(d)'
    <3>1. d \in Control
      BY <1>0, <2>2 DEF TypeOK
    <3>2. CASE d.kind = "error"
      BY <2>1, <2>2, <3>2 DEF Shown
    <3>3. CASE d.kind # "error"
      <4> DEFINE r == [message |-> d.target, type |-> d.kind, by |-> d.by]
      <4>1. d.by # None
        BY <3>1, <3>3, ReceiptAssumption DEF Control
      <4>2. r \in receipts
        BY <2>2, <3>3 DEF Shown
      <4>3. r # [message |-> First.target, type |-> First.kind, by |-> None]
        BY <4>1
      <4>4. r \in receipts'
        BY <1>6, <4>2, <4>3 DEF Record
      <4> QED
        BY <2>1, <2>2, <3>3, <4>4 DEF Shown
    <3> QED
      BY <3>2, <3>3
  <2> QED
    BY <1>0, <2>1, <2>2 DEF HeardInv, Traced, HeldIn
<1>7. CASE Mark
  <2>1. /\ First \in Control /\ First.target \in Message
        /\ status'[First.target] = Marked(status[First.target], First)
        /\ \A m \in Message :
             /\ status[m].delivered => status'[m].delivered
             /\ status[m].read => status'[m].read
             /\ status[m].error # None => status'[m].error # None
    BY <1>7, MarkFacts
  <2>2. /\ UNCHANGED <<heard, sends, stored, pending, receipts>>
        /\ work # <<>> /\ phase = "mark"
    BY <1>7 DEF Mark
  <2>3. \A d \in heard : d.target \in Message
    BY <1>0 DEF HeardInv, Message
  <2>4. \A d \in heard : Shown(d) => Shown(d)'
    BY <2>1, <2>2, <2>3 DEF Shown
  <2>5. ASSUME NEW d \in heard, d = First
        PROVE  Shown(d)'
    <3>1. d.kind # "error" =>
            [message |-> d.target, type |-> d.kind, by |-> d.by] \in receipts
      BY <1>0, <2>2, <2>5 DEF LoopInv
    <3>2. /\ d.kind = "error" => status'[d.target].error # None
          /\ d.kind = "read" => status'[d.target].read
          /\ d.kind = "delivered" => status'[d.target].delivered
      <4>1. status[d.target] \in Status /\ d \in Control
        BY <1>0, <2>1, <2>3, <2>5 DEF TypeOK
      <4> QED
        BY ZenonT(40), <2>1, <2>5, <4>1, ReceiptAssumption DEF Marked, Status, Control
    <3> QED
      BY <2>1, <2>2, <2>5, <3>1, <3>2 DEF Shown, Control
  <2>6. CASE status' = status
    BY <1>4, <1>7, <2>2, <2>4, <2>5, <2>6 DEF Mark
  <2>7. CASE status' # status
    <3>1. work' = work
      BY <1>7, <2>7 DEF Mark
    <3> QED
      BY <1>0, <2>2, <2>4, <3>1 DEF HeardInv, Traced, HeldIn
  <2> QED
    BY <2>6, <2>7
<1>8. CASE Tell
  <2>1. UNCHANGED <<status, receipts, stored, sends, heard, pending>> /\ phase = "tell"
    BY <1>8 DEF Tell, durable
  <2>2. Shown(First)
    BY <1>0, <2>1 DEF LoopInv
  <2>3. \A d \in heard : Shown(d) => Shown(d)'
    BY <2>1 DEF Shown
  <2> QED
    BY <1>4, <1>8, <2>1, <2>2, <2>3 DEF Tell
<1>9. CASE Throw
  <2>1. /\ UNCHANGED <<status, receipts, stored, sends, pending>>
        /\ heard' = heard \ {work[i].control : i \in DOMAIN work}
    BY <1>9 DEF Throw, durable
  <2>2. \A d \in heard' : d \in heard /\ ~ \E i \in DOMAIN work : work[i].control = d
    BY <2>1
  <2> QED
    BY <1>0, <2>1, <2>2 DEF HeardInv, Traced, HeldIn, Shown
<1>10. ASSUME NEW m \in Own, Request(m)
       PROVE  HeardInv'
  <2>1. /\ UNCHANGED <<status, receipts, stored, pending, work, heard>>
        /\ sends' = [sends EXCEPT ![m] = "requested"] /\ sends[m] = "idle"
    BY <1>10 DEF Request, durable
  <2>2. \A d \in heard : d.target # m
    BY <1>0, <2>1 DEF HeardInv
  <2> QED
    BY <1>0, <2>1, <2>2 DEF HeardInv, Traced, HeldIn, Shown, TypeOK
<1>11. ASSUME NEW m \in Own, RequestFails(m) \/ Answer(m)
       PROVE  HeardInv'
  <2>1. /\ UNCHANGED <<status, receipts, pending, work, heard>>
        /\ sends[m] = "requested" /\ sends'[m] \in {"failed", "storing"}
        /\ \A k \in Own \ {m} : sends'[k] = sends[k]
        /\ stored' \in {stored, stored \cup {m}}
    BY <1>0, <1>11 DEF RequestFails, Answer, durable, TypeOK
  <2> QED
    BY ZenonT(40), <1>0, <2>1 DEF HeardInv, Traced, HeldIn, Shown
<1>12. ASSUME NEW m \in Own, InsertFails(m) \/ Publish(m) \/ StoringFails(m)
       PROVE  HeardInv'
  <2>1. /\ UNCHANGED <<status, receipts, stored, heard>> /\ Finish(m)
        /\ DOMAIN work = {}
        /\ sends'[m] \in {"failed", "done"}
        /\ \A k \in Own \ {m} : sends'[k] = sends[k]
        /\ sends[m] \in {"requested", "storing"}
    BY <1>0, <1>12, FreeLoop DEF InsertFails, Publish, StoringFails, durable, TypeOK
  <2>2. /\ \A k \in Message \ {m} : pending'[k] = pending[k]
        /\ work' = pending[m]
    BY <2>1, FinishFacts
  <2>3. ASSUME NEW d \in heard, Traced(d)
        PROVE  Traced(d)'
    <3>1. CASE d \in HeldIn(pending) /\ d.target = m
      BY <2>2, <3>1 DEF Traced, HeldIn
    <3>2. CASE d \in HeldIn(pending) /\ d.target # m
      BY <1>0, <2>2, <2>3, <3>2 DEF Traced, HeldIn, HeardInv, Message
    <3>3. CASE Shown(d)
      BY <2>1, <3>3 DEF Traced, Shown
    <3> QED
      BY <2>1, <2>3, <3>1, <3>2, <3>3 DEF Traced
  <2> QED
    BY <1>0, <2>1, <2>3 DEF HeardInv
<1>13. ASSUME NEW m \in Own, Delete(m)
       PROVE  HeardInv'
  <2>1. /\ UNCHANGED <<sends, pending, work, heard>> /\ stored' = stored \ {m}
        /\ \A k \in Message \ {m} : status'[k] = status[k]
        /\ receipts' = {r \in receipts : r.message # m}
        /\ sends[m] # "requested"
    BY <1>0, <1>13 DEF Delete, SendInv, TypeOK
  <2>2. ASSUME NEW d \in heard, d.target # m, Traced(d)
        PROVE  Traced(d)'
    <3>1. d.target \in Message
      BY <1>0, <2>2 DEF HeardInv, Message
    <3>2. CASE Shown(d)
      BY <2>1, <2>2, <3>1, <3>2 DEF Traced, Shown
    <3>3. CASE ~Shown(d)
      BY <2>1, <2>2, <3>3 DEF Traced, HeldIn
    <3> QED
      BY <3>2, <3>3
  <2> QED
    BY <1>0, <2>1, <2>2 DEF HeardInv
<1>14. CASE End
  BY <1>14 DEF End, HeardInv
<1>15. CASE Start
  BY <1>0, <1>15 DEF Start, HeardInv, Traced, HeldIn, Shown
<1>16. CASE Tick \/ UNCHANGED vars
  BY <1>1, <1>16 DEF Tick, vars, durable
<1> QED
  BY <1>2, <1>3, <1>5, <1>6, <1>7, <1>8, <1>9, <1>10, <1>11, <1>12, <1>13, <1>14, <1>15,
     <1>16 DEF Next

LEMMA ReceiptsInit == Init => ReceiptsInv
<1> SUFFICES ASSUME Init
             PROVE  ReceiptsInv
  OBVIOUS
<1>1. TypeOK /\ PendingKeyed
  BY TypeInit
<1>2. SendInv /\ IdleInv
  BY EmptySeq, ReceiptAssumption DEF Init, SendInv, IdleInv, Message
<1>3. LoopInv /\ HeardInv /\ NothingHeldBack /\ ToldInOrder
  BY EmptySeq DEF Init, LoopInv, HeardInv, NothingHeldBack, HeldFor, ToldInOrder
<1>4. CountInv /\ StatusIsBacked
  BY DEF Init, CountInv, AboutToTell, Reached, StatusIsBacked, Fresh
<1> QED
  BY <1>1, <1>2, <1>3, <1>4 DEF ReceiptsInv

-----------------------------------------------------------------------------
(* Theorems.                                                                *)

\* The inductive invariant of the buffer, the loop of controls, the sends and
\* what was heard and told.
THEOREM ReceiptsSafe == Spec => []ReceiptsInv
<1>1. ReceiptsInv /\ [Next]_vars => ReceiptsInv'
  BY TypeStep, SendStep, LoopStep, IdleStep, CountStep, HeardStep, BackedStep, HeldStep,
     EarlyStep DEF ReceiptsInv
<1> QED
  BY ReceiptsInit, <1>1, PTL DEF Spec

\* A row never says more than its receipts, wherever the process died.
THEOREM StatusBacked == Spec => []StatusIsBacked
<1>1. ReceiptsInv => StatusIsBacked
  BY DEF ReceiptsInv
<1> QED
  BY <1>1, ReceiptsSafe, PTL

\* Controls of a sent message wait only for its row or its announcement.
THEOREM NoneHeldBack == Spec => []NothingHeldBack
<1>1. ReceiptsInv => NothingHeldBack
  BY DEF ReceiptsInv
<1> QED
  BY <1>1, ReceiptsSafe, PTL

\* Every control that arrived for a stored message of this profile is held,
\* being applied, or shown, unless the buffer dropped it or its loop threw.
THEOREM AllAccounted == Spec => []Accounted
<1>1. ReceiptsInv => Accounted
  BY DEF ReceiptsInv, HeardInv, Traced, Accounted
<1> QED
  BY <1>1, ReceiptsSafe, PTL

\* A change of a sent message is told before the message only if its storing
\* failed or was cut off.
THEOREM ToldAfterwards == Spec => []ToldInOrder
<1>1. ReceiptsInv => ToldInOrder
  BY DEF ReceiptsInv
<1> QED
  BY <1>1, ReceiptsSafe, PTL

\* Repeated receipts are told once, across restarts.
THEOREM RepeatsAreSilent == Spec => []RepeatsSilent
<1>1. ReceiptsInv => RepeatsSilent
  <2> SUFFICES ASSUME ReceiptsInv, NEW m \in Message
               PROVE  updates[m] <= Reached(m)
    BY DEF RepeatsSilent, Reached
  <2>1. updates[m] + AboutToTell(m) <= Reached(m) /\ updates[m] \in Nat
    BY DEF ReceiptsInv, CountInv, TypeOK
  <2>2. AboutToTell(m) \in {0, 1} /\ Reached(m) \in Int
    BY DEF AboutToTell, Reached
  <2> QED
    BY <2>1, <2>2
<1> QED
  BY <1>1, ReceiptsSafe, PTL
=============================================================================
