--------------------------- MODULE HistoryProofs ---------------------------
(***************************************************************************)
(* What comes to a room beside its new messages is right for every value   *)
(* of the constants.  For each of the five components: an inductive        *)
(* invariant, a lemma for each of its actions, and the property the runs   *)
(* check.                                                                  *)
(***************************************************************************)
EXTENDS AttachmentRecovery, CloudAttachments, SharedAlbums, ChatHistory, FaceTimeCalls,
        FiniteSetTheorems, SequenceTheorems, WellFoundedInduction, TLAPS

-----------------------------------------------------------------------------
(* AttachmentRecovery.  A part has one place, which the row, the pushed     *)
(* event, the edit and the room agree on; a notice has a row, an edit that  *)
(* is queued, or a reason.                                                  *)

Place(a) == PushedId(a, text[a[1]])
Rows == [id: Ids, count: 0 .. MaxAttempts - 1, due: BOOLEAN, old: BOOLEAN]
Events == {e \in [kind: {"message", "edit"}, att: Atts, id: Ids] : e.id = Place(e.att)}
Parts == {p \in [kind: {"notice", "media"}, att: Atts, id: Ids] : p.id = Place(p.att)}
Works == [att: Atts, row: Rows, stage: {"download", "failed", "deliver"}]

RecoveryShape ==
  /\ up \in BOOLEAN /\ synced \subseteq Guids
  /\ text \in [Guids -> BOOLEAN] /\ queue \in Seq(Events) /\ loop \in Parts \cup {Nobody}
  /\ room \in [Ids \X Indices -> {"none", "notice", "media"}]
  /\ rows \in [Atts -> Rows \cup {NoRow}] /\ work \in Works \cup {Nobody}
  /\ tries \in [Atts -> 0 .. MaxAttempts] /\ fate \in [Atts -> Fates]

(* A row has the place of its part and counts the attempts; the row being worked on is there. *)
RowsInv ==
  /\ \A a \in Atts : rows[a] # NoRow => rows[a].id = Place(a) /\ rows[a].count = tries[a]
  /\ work # Nobody => /\ rows[work.att] # NoRow
                      /\ work.row.id = Place(work.att) /\ work.row.count = rows[work.att].count

EditQueued(a) == \E n \in DOMAIN queue : queue[n].kind = "edit" /\ queue[n].att = a
Backed(a) == rows[a] # NoRow \/ EditQueued(a) \/ fate[a] # "none"

(* Every notice is on its way to be replaced, the one being sent, too. *)
NoticeInv ==
  /\ NoticeBacked
  /\ loop # Nobody /\ loop.kind = "notice" => Backed(loop.att)

RecoveryInv == RecoveryShape /\ RowsInv /\ NoticeInv

-----------------------------------------------------------------------------
LEMMA IndicesAreNaturals ==
  Indices \subseteq Nat /\ Cardinality(Indices) \in Nat /\ \A n \in 1 .. Cardinality(Indices) : n - 1 \in Indices
BY IndicesAssumption, FS_CardinalityType

(* A part has one place in the room, the row's and the pushed event's, and *)
(* shares it with no other part of its index.                              *)
LEMMA PlaceIsOne ==
  ASSUME text \in [Guids -> BOOLEAN], NEW a \in Atts
  PROVE  /\ a[1] \in Guids /\ a[2] \in Indices /\ Place(a) \in Ids /\ MakeAttId(a, text[a[1]]) = Place(a)
         /\ \A b \in Atts : Place(a) = Place(b) /\ a[2] = b[2] => a = b
<1>1. ASSUME NEW b \in Atts
      PROVE  b[1] \in Guids /\ b[2] \in Indices /\ b = <<b[1], b[2]>> /\ Place(b) \in {b, <<b[1]>>}
  BY <1>1 DEF Atts, Place, PushedId
<1>2. a[2] \in Nat
  BY <1>1, IndicesAreNaturals
<1>3. Place(a) \in Ids
  BY <1>1 DEF Ids
<1>4. MakeAttId(a, text[a[1]]) = Place(a)
  BY <1>1, <1>2 DEF MakeAttId, Place, PushedId
<1>5. ASSUME NEW b \in Atts, Place(a) = Place(b), a[2] = b[2] PROVE a = b
  <2>1. a = <<a[1], a[2]>> /\ b = <<b[1], b[2]>>
    BY <1>1
  <2>2. \A x, y, z : <<x, y>> # <<z>>
    OBVIOUS
  <2>3. Place(a) \in {a, <<a[1]>>} /\ Place(b) \in {b, <<b[1]>>}
    BY <1>1
  <2>4. a # <<b[1]>> /\ b # <<a[1]>>
    BY <2>1, <2>2
  <2>5. a = b \/ <<a[1]>> = <<b[1]>>
    BY <2>3, <2>4, <1>5
  <2>6. a[1] = b[1]
    BY <2>5
  <2> QED BY <2>1, <2>6, <1>5
<1> QED BY <1>1, <1>3, <1>4, <1>5

LEMMA RecoveryStart == ASSUME RecoveryInit PROVE RecoveryInv
<1>1. queue \in Seq(Events) /\ DOMAIN queue = {}
  BY DEF RecoveryInit
<1>2. MaxAttempts \in Nat \ {0}
  BY BoundsAssumption
<1>3. RecoveryShape
  BY <1>1, <1>2 DEF RecoveryInit, RecoveryShape, Fates
<1>4. \A a \in Atts : Shown(a) = "none"
  <2>1. ASSUME NEW a \in Atts PROVE Shown(a) = "none"
    <3>1. Place(a) \in Ids /\ a[2] \in Indices
      BY <1>3, PlaceIsOne DEF RecoveryShape
    <3> QED BY <3>1 DEF RecoveryInit, Shown, Place
  <2> QED BY <2>1
<1>5. RowsInv
  BY DEF RecoveryInit, RowsInv
<1>6. NoticeInv
  BY <1>4 DEF RecoveryInit, NoticeInv, NoticeBacked
<1> QED BY <1>3, <1>5, <1>6 DEF RecoveryInv

LEMMA RecoveryTyped ==
  ASSUME RecoveryInv
  PROVE  /\ MaxAttempts \in Nat \ {0} /\ Len(queue) \in Nat /\ DOMAIN queue = 1 .. Len(queue)
         /\ \A n \in 1 .. Len(queue) : queue[n] \in Events
         /\ loop # Nobody => loop \in Parts
         /\ work # Nobody => /\ work \in Works /\ work.row \in Rows /\ work.att \in Atts
                             /\ rows[work.att] \in Rows /\ rows[work.att].count = work.row.count
                             /\ tries[work.att] = work.row.count /\ work.row.id = Place(work.att)
         /\ \A a \in Atts : rows[a] # NoRow => rows[a] \in Rows /\ rows[a].id = Place(a) /\ rows[a].count = tries[a]
         /\ \A a \in Atts : Shown(a) = room[<<Place(a), a[2]>>]
<1>1. RecoveryShape /\ RowsInv
  BY DEF RecoveryInv
<1>2. queue \in Seq(Events)
  BY <1>1 DEF RecoveryShape
<1>3. Len(queue) \in Nat /\ DOMAIN queue = 1 .. Len(queue) /\ \A n \in 1 .. Len(queue) : queue[n] \in Events
  BY <1>2, LenProperties, ElementOfSeq
<1>4. \A a \in Atts : rows[a] # NoRow => rows[a] \in Rows /\ rows[a].id = Place(a) /\ rows[a].count = tries[a]
  BY <1>1 DEF RecoveryShape, RowsInv
<1>5. work # Nobody => work \in Works /\ work.row \in Rows /\ work.att \in Atts
  BY <1>1 DEF RecoveryShape, Works
<1>6. work # Nobody => rows[work.att] # NoRow /\ work.row.id = Place(work.att) /\ work.row.count = rows[work.att].count
  BY <1>1 DEF RowsInv
<1>7. loop # Nobody => loop \in Parts
  BY <1>1 DEF RecoveryShape
<1>8. \A a \in Atts : Shown(a) = room[<<Place(a), a[2]>>]
  BY DEF Shown, Place
<1> QED BY <1>3, <1>4, <1>5, <1>6, <1>7, <1>8, BoundsAssumption

(* The event the loop takes is gone; every queued edit of another part stays. *)
LEMMA TakingTheHead ==
  ASSUME RecoveryInv, queue # <<>>, queue' = Tail(queue)
  PROVE  /\ Head(queue) \in Events /\ queue' \in Seq(Events)
         /\ \A a \in Atts : EditQueued(a) => EditQueued(a)' \/ (Head(queue).kind = "edit" /\ Head(queue).att = a)
<1>1. queue \in Seq(Events)
  BY DEF RecoveryInv, RecoveryShape
<1>2. /\ Head(queue) \in Events /\ queue' \in Seq(Events) /\ Len(queue') = Len(queue) - 1
      /\ \A n \in 1 .. Len(queue') : queue'[n] = queue[n + 1]
  BY <1>1, HeadTailProperties
<1>3. Head(queue) = queue[1] /\ Len(queue) \in Nat /\ DOMAIN queue = 1 .. Len(queue) /\ DOMAIN queue' = 1 .. Len(queue')
  BY <1>1, <1>2, LenProperties
<1>4. ASSUME NEW a \in Atts, EditQueued(a), ~(Head(queue).kind = "edit" /\ Head(queue).att = a) PROVE EditQueued(a)'
  <2>1. PICK n \in DOMAIN queue : queue[n].kind = "edit" /\ queue[n].att = a
    BY <1>4 DEF EditQueued
  <2>2. n # 1 /\ n - 1 \in 1 .. Len(queue') /\ (n - 1) + 1 = n
    BY <1>2, <1>3, <1>4, <2>1
  <2>3. queue'[n - 1] = queue[n]
    BY <1>2, <2>2
  <2> QED BY <1>3, <2>1, <2>2, <2>3 DEF EditQueued
<1> QED BY <1>2, <1>4

(* What keeps every notice backed: the room and the loop gain no notice, *)
(* and no part of one loses its backing.                                 *)
LEMMA RecoveryKept ==
  ASSUME RecoveryInv, RecoveryShape', RowsInv', text' = text,
         \A a \in Atts : Shown(a)' = "notice" => Backed(a)',
         loop' # Nobody /\ loop'.kind = "notice" => Backed(loop.att)'
  PROVE  RecoveryInv'
BY DEF RecoveryInv, NoticeInv, NoticeBacked, Backed, EditQueued

LEMMA PushKeeps == ASSUME RecoveryInv, NEW g \in Guids, Push(g) PROVE RecoveryInv'
<1> DEFINE k == Cardinality(Indices)
           new == [n \in 1 .. k |-> Event("message", <<g, n - 1>>, PushedId(<<g, n - 1>>, text[g]))]
<1>1. queue' = queue \o new /\ UNCHANGED <<up, text, loop, room, rows, work, synced, tries, fate>>
  BY DEF Push
<1>2. RecoveryShape /\ RowsInv /\ NoticeInv /\ queue \in Seq(Events) /\ text \in [Guids -> BOOLEAN]
  BY DEF RecoveryInv, RecoveryShape
<1>3. k \in Nat /\ \A n \in 1 .. k : <<g, n - 1>> \in Atts
  BY IndicesAreNaturals DEF Atts
<1>4. ASSUME NEW n \in 1 .. k PROVE new[n] \in Events
  <2> DEFINE a == <<g, n - 1>>
  <2>1. a \in Atts /\ Place(a) \in Ids /\ Place(a) = PushedId(a, text[g])
    BY <1>2, <1>3, PlaceIsOne DEF Place
  <2>2. new[n] = [kind |-> "message", att |-> a, id |-> Place(a)]
    BY <2>1 DEF Event
  <2> HIDE DEF a, new
  <2> QED BY <2>1, <2>2 DEF Events
<1>5. new \in Seq(Events) /\ Len(new) = k
  <2> HIDE DEF k
  <2>1. new \in [1 .. k -> Events]
    BY <1>4
  <2> QED BY <2>1, <1>3
<1> HIDE DEF new
<1>6. /\ queue' \in Seq(Events) /\ Len(queue) \in Nat /\ Len(queue') \in Nat /\ Len(queue) <= Len(queue')
      /\ \A n \in 1 .. Len(queue) : queue'[n] = queue[n]
  BY <1>1, <1>2, <1>3, <1>5, ConcatProperties, LenProperties
<1>7. DOMAIN queue = 1 .. Len(queue) /\ DOMAIN queue' = 1 .. Len(queue')
  BY <1>2, <1>6, LenProperties
<1>8. \A a \in Atts : EditQueued(a) => EditQueued(a)'
  BY <1>6, <1>7 DEF EditQueued
<1>9. RecoveryShape'
  BY <1>1, <1>2, <1>6 DEF RecoveryShape, Events, Parts, Place
<1>10. RowsInv'
  BY <1>1, <1>2 DEF RowsInv, Place
<1>11. ASSUME NEW a \in Atts, Backed(a) PROVE Backed(a)'
  BY <1>1, <1>8, <1>11 DEF Backed
<1>12. NoticeInv'
  <2>1. \A a \in Atts : Shown(a)' = Shown(a)
    BY <1>1 DEF Shown
  <2>2. loop # Nobody => loop.att \in Atts
    BY <1>2 DEF RecoveryShape, Parts
  <2>3. \A a \in Atts : Shown(a) = "notice" => Backed(a)
    BY <1>2 DEF NoticeInv, NoticeBacked, Backed, EditQueued
  <2>4. \A a \in Atts : Shown(a)' = "notice" => Backed(a)'
    BY <1>11, <2>1, <2>3
  <2>5. loop' # Nobody /\ loop'.kind = "notice" => Backed(loop.att)'
    BY <1>1, <1>2, <1>11, <2>2 DEF NoticeInv, Backed, EditQueued
  <2> QED BY <1>2, <1>9, <1>10, <1>1, <2>4, <2>5, RecoveryKept DEF RecoveryInv
<1> QED BY <1>9, <1>10, <1>12 DEF RecoveryInv

(* What holds of every notice before the step. *)
LEMMA NoticesAreBacked ==
  ASSUME RecoveryInv
  PROVE  /\ \A a \in Atts : Shown(a) = "notice" => Backed(a)
         /\ loop # Nobody => loop.att \in Atts /\ loop.id = Place(loop.att)
         /\ loop # Nobody /\ loop.kind = "notice" => Backed(loop.att)
<1>1. \A a \in Atts : Shown(a) = "notice" => Backed(a)
  BY DEF RecoveryInv, NoticeInv, NoticeBacked, Backed, EditQueued
<1>2. loop # Nobody => loop.att \in Atts /\ loop.id = Place(loop.att)
  BY RecoveryTyped DEF Parts
<1>3. loop # Nobody /\ loop.kind = "notice" => Backed(loop.att)
  BY DEF RecoveryInv, NoticeInv
<1> QED BY <1>1, <1>2, <1>3

LEMMA TakeKnownKeeps == ASSUME RecoveryInv, TakeKnown PROVE RecoveryInv'
<1>1. queue # <<>> /\ queue' = Tail(queue) /\ Head(queue).kind = "message" /\ loop = Nobody
  BY DEF TakeKnown
<1>2. UNCHANGED <<up, text, loop, room, rows, work, synced, tries, fate>>
  BY DEF TakeKnown
<1>3. RecoveryShape /\ RowsInv
  BY DEF RecoveryInv
<1>4. queue' \in Seq(Events) /\ \A a \in Atts : EditQueued(a) => EditQueued(a)'
  BY <1>1, TakingTheHead
<1>5. RecoveryShape'
  BY <1>2, <1>3, <1>4 DEF RecoveryShape, Events, Parts, Place
<1>6. RowsInv'
  BY <1>2, <1>3 DEF RowsInv, Place
<1>7. \A a \in Atts : Backed(a) => Backed(a)'
  BY <1>2, <1>4 DEF Backed
<1>8. \A a \in Atts : Shown(a)' = "notice" => Backed(a)'
  BY <1>2, <1>7, NoticesAreBacked DEF Shown
<1>9. ~(loop' # Nobody)
  BY <1>1, <1>2
<1> QED BY <1>2, <1>5, <1>6, <1>8, <1>9, RecoveryKept

LEMMA TakeMessageKeeps == ASSUME RecoveryInv, TakeMessage PROVE RecoveryInv'
<1> DEFINE e == Head(queue)
           a == e.att
<1>1. /\ queue # <<>> /\ queue' = Tail(queue) /\ e.kind = "message" /\ loop = Nobody
      /\ UNCHANGED <<up, text, room, work, synced>>
  BY DEF TakeMessage
<1>2. RecoveryShape /\ RowsInv
  BY DEF RecoveryInv
<1>3. e \in Events /\ queue' \in Seq(Events) /\ \A b \in Atts : EditQueued(b) => EditQueued(b)'
  BY <1>1, TakingTheHead
<1>4. a \in Atts /\ e.id = Place(a) /\ Place(a) \in Ids
  BY <1>3 DEF Events
<1>5. \A b \in Atts : Shown(b)' = Shown(b)
  BY <1>1 DEF Shown
<1>6. CASE /\ \E uploaded \in BOOLEAN : loop' = IF ConvertedWithPayload(uploaded) = "error" THEN Nobody
                                                ELSE [e EXCEPT !.kind = ConvertedWithPayload(uploaded)]
           /\ UNCHANGED <<rows, tries, fate>>
  <2>1. loop' \in Parts \cup {Nobody} /\ (loop' # Nobody => loop'.kind = "media")
    BY <1>3, <1>6 DEF Events, Parts, ConvertedWithPayload
  <2>2. RecoveryShape'
    BY <1>1, <1>2, <1>3, <1>6, <2>1 DEF RecoveryShape, Events, Parts, Place
  <2>3. RowsInv'
    BY <1>1, <1>2, <1>6 DEF RowsInv, Place
  <2>4. \A b \in Atts : Shown(b)' = "notice" => Backed(b)'
    BY <1>3, <1>5, <1>6, NoticesAreBacked DEF Backed
  <2> QED BY <1>1, <2>1, <2>2, <2>3, <2>4, RecoveryKept
<1>7. ASSUME NEW stored \in BOOLEAN, Enqueue(a, stored), loop' = [e EXCEPT !.kind = ConvertedWithoutPayload]
      PROVE  RecoveryInv'
  <2>1. loop' \in Parts /\ loop'.att = a
    BY <1>3, <1>7 DEF Events, Parts, ConvertedWithoutPayload
  <2>2. NewRow(a) \in Rows /\ NewRow(a) # NoRow /\ NewRow(a).id = Place(a) /\ NewRow(a).count = 0
    <3>1. MakeAttId(a, text[a[1]]) = Place(a)
      BY <1>2, <1>4, PlaceIsOne DEF RecoveryShape
    <3>2. NewRow(a) = [id |-> Place(a), count |-> 0, due |-> FALSE, old |-> FALSE]
      BY <3>1 DEF NewRow
    <3>3. 0 \in 0 .. MaxAttempts - 1
      BY BoundsAssumption
    <3>4. [id |-> Place(a), count |-> 0, due |-> FALSE, old |-> FALSE] \in Rows
      BY <1>4, <3>3 DEF Rows
    <3>5. NewRow(a).id = Place(a) /\ NewRow(a).count = 0
      BY <3>2
    <3>6. NewRow(a) # NoRow
      BY <3>2 DEF NoRow
    <3> QED BY <3>2, <3>4, <3>5, <3>6
  <2>3. /\ rows[a] # NoRow => UNCHANGED <<rows, tries, fate>>
        /\ rows[a] = NoRow /\ stored => /\ rows' = [rows EXCEPT ![a] = NewRow(a)]
                                        /\ tries' = [tries EXCEPT ![a] = 0] /\ fate' = [fate EXCEPT ![a] = "none"]
        /\ rows[a] = NoRow /\ ~stored => /\ rows' = rows /\ tries' = tries
                                         /\ fate' = [fate EXCEPT ![a] = "not stored"]
    BY <1>7 DEF Enqueue
  <2>4. rows \in [Atts -> Rows \cup {NoRow}] /\ fate \in [Atts -> Fates] /\ tries \in [Atts -> 0 .. MaxAttempts]
    BY <1>2 DEF RecoveryShape
  <2>5. /\ rows' \in [Atts -> Rows \cup {NoRow}] /\ fate' \in [Atts -> Fates] /\ tries' \in [Atts -> 0 .. MaxAttempts]
        /\ \A b \in Atts : rows[b] # NoRow => rows'[b] = rows[b] /\ tries'[b] = tries[b]
        /\ \A b \in Atts : b # a => rows'[b] = rows[b] /\ tries'[b] = tries[b] /\ fate'[b] = fate[b]
        /\ rows'[a] # NoRow \/ fate'[a] # "none"
        /\ rows[a] = NoRow /\ rows'[a] # NoRow => rows'[a].id = Place(a) /\ rows'[a].count = tries'[a]
    <3> HIDE DEF a
    <3>1. 0 \in 0 .. MaxAttempts
      BY BoundsAssumption
    <3>2. "none" \in Fates /\ "not stored" \in Fates
      BY DEF Fates
    <3> QED BY <1>4, <2>2, <2>3, <2>4, <3>1, <3>2
  <2>6. RecoveryShape'
    BY <1>1, <1>2, <1>3, <2>1, <2>5 DEF RecoveryShape, Events, Parts, Place
  <2>7. RowsInv'
    <3>1. ASSUME NEW b \in Atts, rows'[b] # NoRow PROVE rows'[b].id = Place(b) /\ rows'[b].count = tries'[b]
      <4>1. CASE rows[b] # NoRow
        BY <1>2, <2>5, <4>1 DEF RowsInv
      <4>2. CASE rows[b] = NoRow
        BY <2>5, <3>1, <4>2
      <4> QED BY <4>1, <4>2
    <3>2. work # Nobody => /\ rows'[work.att] # NoRow
                           /\ work.row.id = Place(work.att) /\ work.row.count = rows'[work.att].count
      BY <1>2, <2>5, RecoveryTyped DEF RowsInv
    <3> QED BY <1>1, <3>1, <3>2 DEF RowsInv, Place
  <2>8. \A b \in Atts : Backed(b) => Backed(b)'
    <3>1. ASSUME NEW b \in Atts, Backed(b), b # a PROVE Backed(b)'
      BY <1>3, <2>5, <3>1 DEF Backed
    <3>2. ASSUME NEW b \in Atts, b = a PROVE Backed(b)'
      BY <2>5, <3>2 DEF Backed
    <3> QED BY <3>1, <3>2
  <2>9. ASSUME NEW b \in Atts, b = a PROVE Backed(b)'
    BY <2>5, <2>9 DEF Backed
  <2>10. \A b \in Atts : Shown(b)' = "notice" => Backed(b)'
    BY <1>5, <2>8, NoticesAreBacked
  <2>11. Backed(loop.att)'
    BY <1>4, <2>1, <2>9 DEF Backed, EditQueued
  <2> QED BY <1>1, <2>6, <2>7, <2>10, <2>11, RecoveryKept
<1> QED BY <1>6, <1>7 DEF TakeMessage

LEMMA SavePartKeeps == ASSUME RecoveryInv, SavePart PROVE RecoveryInv'
<1> DEFINE p == <<loop.id, loop.att[2]>>
<1>1. loop \in Parts /\ loop.att \in Atts /\ loop.id = Place(loop.att) /\ loop.kind \in {"notice", "media"}
  BY RecoveryTyped DEF SavePart, Parts
<1>2. room' = [room EXCEPT ![p] = loop.kind] /\ loop' = Nobody /\ UNCHANGED <<up, text, queue, rows, work, synced, tries, fate>>
  BY DEF SavePart
<1>3. RecoveryShape /\ RowsInv /\ text \in [Guids -> BOOLEAN] /\ room \in [Ids \X Indices -> {"none", "notice", "media"}]
  BY DEF RecoveryInv, RecoveryShape
<1>4. p \in Ids \X Indices /\ p = <<Place(loop.att), loop.att[2]>>
  BY <1>1, <1>3, PlaceIsOne
<1>5. ASSUME NEW a \in Atts, Shown(a)' = "notice" PROVE Backed(a)'
  <2>1. Shown(a)' = room'[<<Place(a), a[2]>>] /\ Shown(a) = room[<<Place(a), a[2]>>] /\ <<Place(a), a[2]>> \in Ids \X Indices
    BY <1>2, <1>3, PlaceIsOne DEF Shown, Place
  <2>2. CASE <<Place(a), a[2]>> = p
    <3>1. a = loop.att
      BY <1>1, <1>3, <1>4, <2>2, PlaceIsOne
    <3>2. loop.kind = "notice" /\ loop # Nobody
      BY <1>2, <1>3, <1>4, <1>5, <2>1, <2>2 DEF SavePart
    <3> QED BY <1>2, <3>1, <3>2, NoticesAreBacked DEF Backed, EditQueued
  <2>3. CASE <<Place(a), a[2]>> # p
    <3>1. Shown(a) = "notice"
      BY <1>2, <1>3, <1>5, <2>1, <2>3
    <3> QED BY <1>2, <3>1, NoticesAreBacked DEF Backed, EditQueued
  <2> QED BY <2>2, <2>3
<1>6. RecoveryShape'
  BY <1>1, <1>2, <1>3, <1>4 DEF RecoveryShape, Events, Parts, Place
<1>7. RowsInv'
  BY <1>2, <1>3 DEF RowsInv, Place
<1> QED BY <1>2, <1>5, <1>6, <1>7, RecoveryKept

LEMMA TakeEditKeeps == ASSUME RecoveryInv, TakeEdit PROVE RecoveryInv'
<1> DEFINE e == Head(queue)
           a == e.att
           target == <<e.id, a[2]>>
<1>1. queue # <<>> /\ queue' = Tail(queue) /\ loop = Nobody /\ UNCHANGED <<up, text, loop, rows, work, synced, tries>>
  BY DEF TakeEdit
<1>2. /\ RecoveryShape /\ RowsInv /\ text \in [Guids -> BOOLEAN] /\ fate \in [Atts -> Fates]
      /\ room \in [Ids \X Indices -> {"none", "notice", "media"}]
  BY DEF RecoveryInv, RecoveryShape
<1>3. e \in Events /\ queue' \in Seq(Events) /\ \A b \in Atts : EditQueued(b) => EditQueued(b)' \/ a = b
  BY <1>1, TakingTheHead
<1>4. a \in Atts /\ e.id = Place(a) /\ target \in Ids \X Indices
  <2>1. a \in Atts /\ e.id = Place(a)
    BY <1>3 DEF Events
  <2> QED BY <1>2, <2>1, PlaceIsOne
<1>5. \/ room' = (IF room[target] = "none" THEN room ELSE [room EXCEPT ![target] = "media"]) /\ fate' = fate
      \/ room' = room /\ fate' = [fate EXCEPT ![a] = "upload failed"]
  BY DEF TakeEdit
<1> HIDE DEF a, target
<1>6. /\ room' \in [Ids \X Indices -> {"none", "notice", "media"}] /\ fate' \in [Atts -> Fates]
      /\ \A p \in Ids \X Indices : room'[p] = "notice" => room[p] = "notice"
      /\ \A b \in Atts : fate[b] # "none" => fate'[b] # "none"
      /\ room'[target] # "notice" \/ fate'[a] # "none"
  <2>1. "upload failed" \in Fates
    BY DEF Fates
  <2> QED BY <1>2, <1>4, <1>5, <2>1
<1>7. RecoveryShape'
  BY <1>1, <1>2, <1>3, <1>6 DEF RecoveryShape, Events, Parts, Place
<1>8. RowsInv'
  BY <1>1, <1>2 DEF RowsInv, Place
<1>9. ASSUME NEW b \in Atts, Shown(b)' = "notice" PROVE Backed(b)'
  <2>1. Shown(b)' = room'[<<Place(b), b[2]>>] /\ Shown(b) = room[<<Place(b), b[2]>>] /\ <<Place(b), b[2]>> \in Ids \X Indices
    BY <1>1, <1>2, PlaceIsOne DEF Shown, Place
  <2>2. Backed(b)
    BY <1>6, <1>9, <2>1, NoticesAreBacked
  <2>3. CASE b = a
    <3>1. <<Place(b), b[2]>> = target
      BY <1>4, <2>3 DEF target, a
    <3> QED BY <1>6, <1>9, <2>1, <2>3, <3>1 DEF Backed
  <2>4. CASE b # a
    BY <1>1, <1>3, <1>6, <2>2, <2>4 DEF Backed
  <2> QED BY <2>3, <2>4
<1>10. ~(loop' # Nobody)
  BY <1>1
<1> QED BY <1>1, <1>7, <1>8, <1>9, <1>10, RecoveryKept

LEMMA RedactKeeps == ASSUME RecoveryInv, NEW a \in Atts, Redact(a) PROVE RecoveryInv'
<1> DEFINE p == <<PushedId(a, text[a[1]]), a[2]>>
<1>1. room' = [room EXCEPT ![p] = "none"] /\ UNCHANGED <<up, text, queue, loop, rows, work, synced, tries, fate>>
  BY DEF Redact
<1>2. /\ RecoveryShape /\ RowsInv /\ text \in [Guids -> BOOLEAN]
      /\ room \in [Ids \X Indices -> {"none", "notice", "media"}]
  BY DEF RecoveryInv, RecoveryShape
<1> HIDE DEF p
<1>3. room' \in [Ids \X Indices -> {"none", "notice", "media"}] /\ \A q \in Ids \X Indices : room'[q] = "notice" => room[q] = "notice"
  BY <1>1, <1>2
<1>4. RecoveryShape'
  BY <1>1, <1>2, <1>3 DEF RecoveryShape, Events, Parts, Place
<1>5. RowsInv'
  BY <1>1, <1>2 DEF RowsInv, Place
<1>6. ASSUME NEW b \in Atts PROVE Backed(b)' <=> Backed(b)
  BY <1>1 DEF Backed, EditQueued
<1>7. ASSUME NEW b \in Atts, Shown(b)' = "notice" PROVE Backed(b)'
  <2>1. Shown(b)' = room'[<<Place(b), b[2]>>] /\ Shown(b) = room[<<Place(b), b[2]>>] /\ <<Place(b), b[2]>> \in Ids \X Indices
    BY <1>1, <1>2, PlaceIsOne DEF Shown, Place
  <2> QED BY <1>3, <1>6, <1>7, <2>1, NoticesAreBacked
<1>8. loop' # Nobody /\ loop'.kind = "notice" => Backed(loop.att)'
  BY <1>1, NoticesAreBacked DEF Backed, EditQueued
<1> QED BY <1>1, <1>4, <1>5, <1>7, <1>8, RecoveryKept

(* A step that leaves the room, the loop and the queue alone, and every row *)
(* that it does not drop with a note of why.                                *)
LEMMA RowsMove ==
  ASSUME RecoveryInv, RecoveryShape', RowsInv', UNCHANGED <<text, room, loop, queue>>,
         \A a \in Atts : rows[a] # NoRow \/ fate[a] # "none" => rows'[a] # NoRow \/ fate'[a] # "none"
  PROVE  RecoveryInv'
<1>1. ASSUME NEW a \in Atts, Backed(a) PROVE Backed(a)'
  BY <1>1 DEF Backed, EditQueued
<1>2. \A a \in Atts : Shown(a)' = "notice" => Backed(a)'
  BY <1>1, NoticesAreBacked DEF Shown
<1>3. loop' # Nobody /\ loop'.kind = "notice" => Backed(loop.att)'
  BY <1>1, NoticesAreBacked DEF Backed, EditQueued
<1> QED BY <1>2, <1>3, RecoveryKept

LEMMA AttemptKeeps == ASSUME RecoveryInv, NEW a \in Atts, Attempt(a) PROVE RecoveryInv'
<1>1. /\ rows[a] # NoRow /\ work' = [att |-> a, row |-> rows[a], stage |-> "download"]
      /\ UNCHANGED <<up, text, queue, loop, room, rows, synced, tries, fate>>
  BY DEF Attempt
<1>2. RecoveryShape /\ RowsInv /\ rows[a] \in Rows /\ rows[a].id = Place(a)
  BY <1>1, RecoveryTyped DEF RecoveryInv
<1>3. work' \in Works
  BY <1>1, <1>2 DEF Works
<1>4. work'.att = a /\ work'.row = rows[a]
  BY <1>1
<1>5. RecoveryShape'
  BY <1>1, <1>2, <1>3 DEF RecoveryShape, Events, Parts, Place
<1>6. RowsInv'
  BY <1>1, <1>2, <1>4 DEF RowsInv, Place
<1> QED BY <1>1, <1>5, <1>6, RowsMove

LEMMA DownloadedKeeps == ASSUME RecoveryInv, Downloaded PROVE RecoveryInv'
<1>1. work # Nobody /\ UNCHANGED <<up, text, queue, loop, room, rows, synced, tries, fate>>
  BY DEF Downloaded
<1>2. PICK s \in {"deliver", "failed"} : work' = [work EXCEPT !.stage = s]
  BY DEF Downloaded
<1>3. RecoveryShape /\ RowsInv /\ work \in Works
  BY <1>1, RecoveryTyped DEF RecoveryInv
<1>4. work' \in Works /\ work'.att = work.att /\ work'.row = work.row
  BY <1>2, <1>3 DEF Works
<1>5. RecoveryShape'
  BY <1>1, <1>3, <1>4 DEF RecoveryShape, Events, Parts, Place
<1>6. RowsInv'
  BY <1>1, <1>3, <1>4 DEF RowsInv, Place
<1> QED BY <1>1, <1>5, <1>6, RowsMove

LEMMA RescheduleKeeps == ASSUME RecoveryInv, Reschedule PROVE RecoveryInv'
<1> DEFINE a == work.att
           soFar == work.row.count + 1
           new == [rows[a] EXCEPT !.count = soFar, !.due = FALSE]
<1>1. work # Nobody /\ work' = Nobody /\ UNCHANGED <<up, text, queue, loop, room, synced>>
  BY DEF Reschedule
<1>2. /\ RecoveryShape /\ RowsInv /\ MaxAttempts \in Nat \ {0} /\ a \in Atts /\ rows[a] \in Rows /\ rows[a].id = Place(a)
      /\ work.row.count \in 0 .. MaxAttempts - 1 /\ tries[a] = work.row.count /\ rows[a] # NoRow
      /\ rows \in [Atts -> Rows \cup {NoRow}] /\ fate \in [Atts -> Fates] /\ tries \in [Atts -> 0 .. MaxAttempts]
  <2>1. RecoveryShape /\ RowsInv
    BY DEF RecoveryInv
  <2>2. rows[a] # NoRow /\ rows[a] \in Rows /\ rows[a].id = Place(a) /\ work.row \in Rows /\ a \in Atts
    BY <1>1, <2>1, RecoveryTyped DEF RowsInv
  <2>3. work.row.count \in 0 .. MaxAttempts - 1
    BY <2>2 DEF Rows
  <2> QED BY <1>1, <2>1, <2>2, <2>3, RecoveryTyped, BoundsAssumption DEF RecoveryShape
<1>3. /\ tries' = [tries EXCEPT ![a] = @ + 1]
      /\ \/ rows' = [rows EXCEPT ![a] = NoRow] /\ fate' = [fate EXCEPT ![a] = "given up"]
         \/ soFar < MaxAttempts /\ rows' = [rows EXCEPT ![a] = new] /\ fate' = fate
  <2>1. /\ tries' = [tries EXCEPT ![a] = @ + 1]
        /\ \/ rows' = [rows EXCEPT ![a] = NoRow] /\ fate' = [fate EXCEPT ![a] = "given up"]
           \/ /\ ~(soFar >= MaxAttempts) /\ fate' = fate
              /\ rows' = [rows EXCEPT ![a] = IF @ = NoRow THEN NoRow ELSE [@ EXCEPT !.count = soFar, !.due = FALSE]]
    BY DEF Reschedule
  <2>2. ~(soFar >= MaxAttempts) => soFar < MaxAttempts
    BY <1>2
  <2>3. rows' = [rows EXCEPT ![a] = IF @ = NoRow THEN NoRow ELSE [@ EXCEPT !.count = soFar, !.due = FALSE]]
          => rows' = [rows EXCEPT ![a] = new]
    BY <1>2
  <2> QED BY <2>1, <2>2, <2>3
<1>4. soFar < MaxAttempts => new \in Rows /\ new.id = Place(a) /\ new.count = soFar /\ new # NoRow
  <2>1. ASSUME soFar < MaxAttempts PROVE new \in Rows /\ new.id = Place(a) /\ new.count = soFar /\ new # NoRow
    <3>1. soFar \in 0 .. MaxAttempts - 1
      BY <1>2, <2>1
    <3>2. new \in Rows
      BY <1>2, <3>1 DEF Rows
    <3>3. new.id = Place(a) /\ new.count = soFar
      BY <1>2 DEF Rows
    <3>4. NoRow \notin Rows
      BY DEF Rows, NoRow
    <3> QED BY <3>2, <3>3, <3>4
  <2> QED BY <2>1
<1> HIDE DEF new
<1>5. /\ rows' \in [Atts -> Rows \cup {NoRow}] /\ fate' \in [Atts -> Fates] /\ tries' \in [Atts -> 0 .. MaxAttempts]
      /\ \A b \in Atts : b # a => rows'[b] = rows[b] /\ tries'[b] = tries[b] /\ fate'[b] = fate[b]
      /\ rows'[a] = NoRow => fate'[a] # "none"
      /\ rows'[a] # NoRow => rows'[a].id = Place(a) /\ rows'[a].count = tries'[a]
  <2>1. "given up" \in Fates
    BY DEF Fates
  <2>2. tries' \in [Atts -> 0 .. MaxAttempts] /\ tries'[a] = soFar /\ \A b \in Atts : b # a => tries'[b] = tries[b]
    <3>1. soFar \in 0 .. MaxAttempts /\ tries[a] + 1 = soFar
      BY <1>2
    <3> HIDE DEF a, soFar
    <3> QED BY <1>2, <1>3, <3>1
  <2> HIDE DEF a, soFar
  <2>3. CASE rows' = [rows EXCEPT ![a] = NoRow] /\ fate' = [fate EXCEPT ![a] = "given up"]
    BY <1>2, <2>1, <2>2, <2>3
  <2>4. CASE soFar < MaxAttempts /\ rows' = [rows EXCEPT ![a] = new] /\ fate' = fate
    BY <1>2, <1>4, <2>2, <2>4
  <2> QED BY <1>3, <2>3, <2>4
<1>6. RecoveryShape'
  BY <1>1, <1>2, <1>5 DEF RecoveryShape, Events, Parts, Place
<1>7. RowsInv'
  <2>1. ASSUME NEW b \in Atts, rows'[b] # NoRow PROVE rows'[b].id = Place(b) /\ rows'[b].count = tries'[b]
    <3>1. CASE b = a
      BY <1>5, <2>1, <3>1
    <3>2. CASE b # a
      BY <1>2, <1>5, <2>1, <3>2 DEF RowsInv
    <3> QED BY <3>1, <3>2
  <2> QED BY <1>1, <2>1 DEF RowsInv, Place
<1>8. ASSUME NEW b \in Atts, rows[b] # NoRow \/ fate[b] # "none" PROVE rows'[b] # NoRow \/ fate'[b] # "none"
  BY <1>5, <1>8
<1> HIDE DEF a
<1> QED BY <1>1, <1>6, <1>7, <1>8, RowsMove

LEMMA DropOrphanKeeps == ASSUME RecoveryInv, DropOrphan PROVE RecoveryInv'
<1> DEFINE a == work.att
<1>1. /\ work # Nobody /\ room[<<work.row.id, a[2]>>] = "none" /\ rows' = [rows EXCEPT ![a] = NoRow] /\ work' = Nobody
      /\ fate' = IF loop # Nobody /\ loop.att = a THEN [fate EXCEPT ![a] = "unsaved notice"] ELSE fate
      /\ UNCHANGED <<up, text, queue, loop, room, synced, tries>>
  BY DEF DropOrphan
<1>2. /\ RecoveryShape /\ RowsInv /\ a \in Atts /\ work.row.id = Place(a)
      /\ rows \in [Atts -> Rows \cup {NoRow}] /\ fate \in [Atts -> Fates]
  BY <1>1, RecoveryTyped DEF RecoveryInv, RecoveryShape
<1>3. Shown(a) = "none"
  BY <1>1, <1>2, RecoveryTyped
<1> HIDE DEF a
<1>4. /\ rows' \in [Atts -> Rows \cup {NoRow}] /\ fate' \in [Atts -> Fates]
      /\ \A b \in Atts : b # a => rows'[b] = rows[b]
      /\ \A b \in Atts : fate[b] # "none" => fate'[b] # "none"
      /\ rows'[a] = NoRow
      /\ loop # Nobody /\ loop.att = a => fate'[a] # "none"
  <2>1. "unsaved notice" \in Fates
    BY DEF Fates
  <2> QED BY <1>1, <1>2, <2>1
<1>5. RecoveryShape'
  BY <1>1, <1>2, <1>4 DEF RecoveryShape, Events, Parts, Place
<1>6. RowsInv'
  BY <1>1, <1>2, <1>4 DEF RowsInv, Place
<1>7. ASSUME NEW b \in Atts, Backed(b), b # a PROVE Backed(b)'
  BY <1>1, <1>4, <1>7 DEF Backed, EditQueued
<1>8. \A b \in Atts : Shown(b)' = "notice" => Backed(b)'
  BY <1>1, <1>3, <1>7, NoticesAreBacked DEF Shown
<1>9. loop' # Nobody /\ loop'.kind = "notice" => Backed(loop.att)'
  <2>1. CASE loop # Nobody /\ loop.att = a
    BY <1>1, <1>4, <2>1 DEF Backed
  <2>2. CASE loop # Nobody /\ loop.att # a
    BY <1>1, <1>7, <2>2, NoticesAreBacked DEF Backed, EditQueued
  <2> QED BY <1>1, <2>1, <2>2
<1> QED BY <1>1, <1>5, <1>6, <1>8, <1>9, RecoveryKept

LEMMA DeliverAsEditKeeps == ASSUME RecoveryInv, DeliverAsEdit PROVE RecoveryInv'
<1> DEFINE a == work.att
           new == Event("edit", a, work.row.id)
<1>1. /\ work # Nobody /\ queue' = Append(queue, new) /\ work' = Nobody
      /\ rows' = [rows EXCEPT ![a] = NoRow] \/ rows' = rows
      /\ UNCHANGED <<up, text, loop, room, synced, tries, fate>>
  BY DEF DeliverAsEdit
<1>2. /\ RecoveryShape /\ RowsInv /\ a \in Atts /\ work.row.id = Place(a) /\ Place(a) \in Ids
      /\ rows \in [Atts -> Rows \cup {NoRow}] /\ queue \in Seq(Events)
  BY <1>1, RecoveryTyped, PlaceIsOne DEF RecoveryInv, RecoveryShape
<1>3. new \in Events /\ new.kind = "edit" /\ new.att = a
  <2> HIDE DEF a
  <2> QED BY <1>2 DEF Event, Events
<1> HIDE DEF a, new
<1>4. /\ queue' \in Seq(Events) /\ DOMAIN queue' = 1 .. Len(queue) + 1 /\ queue'[Len(queue) + 1] = new
      /\ Len(queue) \in Nat /\ DOMAIN queue = 1 .. Len(queue) /\ \A n \in 1 .. Len(queue) : queue'[n] = queue[n]
  BY <1>1, <1>2, <1>3, AppendProperties, LenProperties
<1>5. rows' \in [Atts -> Rows \cup {NoRow}] /\ \A b \in Atts : rows'[b] # NoRow => rows'[b] = rows[b]
  BY <1>1, <1>2
<1>6. RecoveryShape'
  BY <1>1, <1>2, <1>4, <1>5 DEF RecoveryShape, Events, Parts, Place
<1>7. RowsInv'
  BY <1>1, <1>2, <1>5 DEF RowsInv, Place
<1>8. ASSUME NEW b \in Atts, Backed(b) PROVE Backed(b)'
  <2>1. CASE b = a
    <3>1. Len(queue) + 1 \in DOMAIN queue'
      BY <1>4
    <3> QED BY <1>3, <1>4, <2>1, <3>1 DEF Backed, EditQueued
  <2>2. CASE b # a
    <3>1. rows'[b] = rows[b]
      BY <1>1, <1>2, <2>2
    <3>2. EditQueued(b) => EditQueued(b)'
      BY <1>4 DEF EditQueued
    <3> QED BY <1>1, <1>8, <3>1, <3>2 DEF Backed
  <2> QED BY <2>1, <2>2
<1>9. \A b \in Atts : Shown(b)' = "notice" => Backed(b)'
  BY <1>1, <1>8, NoticesAreBacked DEF Shown
<1>10. loop' # Nobody /\ loop'.kind = "notice" => Backed(loop.att)'
  BY <1>1, <1>8, NoticesAreBacked DEF Backed, EditQueued
<1> QED BY <1>1, <1>6, <1>7, <1>9, <1>10, RecoveryKept

(* Time passes over a row. *)
LEMMA RowAges ==
  ASSUME RecoveryInv, NEW a \in Atts, NEW new \in Rows, rows[a] # NoRow, rows' = [rows EXCEPT ![a] = new],
         new.id = rows[a].id, new.count = rows[a].count,
         UNCHANGED <<up, text, queue, loop, room, work, synced, tries, fate>>
  PROVE  RecoveryInv'
<1>1. RecoveryShape /\ RowsInv /\ rows \in [Atts -> Rows \cup {NoRow}]
  BY DEF RecoveryInv, RecoveryShape
<1>2. new # NoRow
  BY DEF Rows, NoRow
<1>3. RecoveryShape'
  BY <1>1 DEF RecoveryShape, Events, Parts, Place
<1>4. \A b \in Atts : /\ rows[b] # NoRow <=> rows'[b] # NoRow
                      /\ rows[b] # NoRow => rows'[b].id = rows[b].id /\ rows'[b].count = rows[b].count
  BY <1>1, <1>2
<1>5. work # Nobody => work.att \in Atts
  BY RecoveryTyped
<1>6. RowsInv'
  BY <1>1, <1>4, <1>5 DEF RowsInv, Place
<1> QED BY <1>3, <1>4, <1>6, RowsMove

LEMMA TimeKeepsRecovery == ASSUME RecoveryInv, NEW a \in Atts, BecomesDue(a) \/ GrowsOld(a) PROVE RecoveryInv'
<1>1. /\ rows[a] # NoRow /\ UNCHANGED <<up, text, queue, loop, room, work, synced, tries, fate>>
      /\ \/ rows' = [rows EXCEPT ![a] = [@ EXCEPT !.due = TRUE]]
         \/ rows' = [rows EXCEPT ![a] = [@ EXCEPT !.old = TRUE]]
  BY DEF BecomesDue, GrowsOld
<1>2. rows[a] \in Rows
  BY <1>1, RecoveryTyped
<1>3. ASSUME NEW new \in {[rows[a] EXCEPT !.due = TRUE], [rows[a] EXCEPT !.old = TRUE]}
      PROVE  new \in Rows /\ new.id = rows[a].id /\ new.count = rows[a].count
  BY <1>2, <1>3 DEF Rows
<1>4. PICK new \in {[rows[a] EXCEPT !.due = TRUE], [rows[a] EXCEPT !.old = TRUE]} : rows' = [rows EXCEPT ![a] = new]
  BY <1>1
<1> QED BY <1>1, <1>3, <1>4, RowAges

LEMMA StopKeepsRecovery == ASSUME RecoveryInv, Stop PROVE RecoveryInv'
<1>1. /\ up' = FALSE /\ queue' = <<>> /\ loop' = Nobody /\ work' = Nobody
      /\ fate' = [a \in Atts |-> IF rows[a] = NoRow /\ EditQueued(a) THEN "edit lost" ELSE fate[a]]
      /\ UNCHANGED <<text, room, rows, synced, tries>>
  BY DEF Stop, EditQueued
<1>2. RecoveryShape /\ RowsInv /\ fate \in [Atts -> Fates]
  BY DEF RecoveryInv, RecoveryShape
<1>3. fate' \in [Atts -> Fates] /\ \A a \in Atts : fate'[a] = IF rows[a] = NoRow /\ EditQueued(a) THEN "edit lost" ELSE fate[a]
  <2>1. "edit lost" \in Fates
    BY DEF Fates
  <2> QED BY <1>1, <1>2, <2>1
<1>4. queue' \in Seq(Events)
  BY <1>1, EmptySeq
<1>5. RecoveryShape'
  BY <1>1, <1>2, <1>3, <1>4 DEF RecoveryShape, Events, Parts, Place
<1>6. RowsInv'
  BY <1>1, <1>2 DEF RowsInv, Place
<1>7. \A a \in Atts : Backed(a) => Backed(a)'
  BY <1>1, <1>3 DEF Backed
<1>8. \A a \in Atts : Shown(a)' = "notice" => Backed(a)'
  BY <1>1, <1>7, NoticesAreBacked DEF Shown
<1> QED BY <1>1, <1>5, <1>6, <1>8, RecoveryKept

LEMMA OthersKeepRecovery ==
  ASSUME RecoveryInv, Start \/ (\E g \in Guids : RecordSynced(g)) \/ UNCHANGED recoveryVars
  PROVE  RecoveryInv'
<1>1. UNCHANGED <<text, queue, loop, room, rows, work, tries, fate>>
  BY DEF Start, RecordSynced, recoveryVars
<1>2. up' \in BOOLEAN /\ synced' \subseteq Guids
  BY DEF Start, RecordSynced, recoveryVars, RecoveryInv, RecoveryShape
<1>3. RecoveryShape' /\ RowsInv'
  BY <1>1, <1>2 DEF RecoveryInv, RecoveryShape, RowsInv, Events, Parts, Place
<1> QED BY <1>1, <1>3, RowsMove

LEMMA RecoveryStep == RecoveryInv /\ [RecoveryNext]_recoveryVars => RecoveryInv'
<1> SUFFICES ASSUME RecoveryInv, [RecoveryNext]_recoveryVars PROVE RecoveryInv'
  OBVIOUS
<1>1. CASE EventLoop
  BY <1>1, TakeKnownKeeps, TakeMessageKeeps, SavePartKeeps, TakeEditKeeps DEF EventLoop
<1>2. CASE Retrier
  BY <1>2, AttemptKeeps, DownloadedKeeps, RescheduleKeeps, DropOrphanKeeps, DeliverAsEditKeeps DEF Retrier
<1>3. CASE Environment
  BY <1>3, PushKeeps, RedactKeeps, TimeKeepsRecovery, StopKeepsRecovery, OthersKeepRecovery DEF Environment
<1>4. CASE UNCHANGED recoveryVars
  BY <1>4, OthersKeepRecovery
<1> QED BY <1>1, <1>2, <1>3, <1>4 DEF RecoveryNext

(* Every notice is on its way to be replaced or its row went for one of the *)
(* known reasons, and no attachment is asked for more than MaxAttempts      *)
(* times, whatever the push stream repeats and wherever the bridge stops.   *)
THEOREM RecoveryNotices == RecoverySpec => []NoticesRecovered
<1>1. RecoveryInv => NoticesRecovered
  BY BoundsAssumption DEF RecoveryInv, RecoveryShape, NoticeInv, NoticesRecovered, AttemptsBounded
<1> QED BY <1>1, RecoveryStart, RecoveryStep, PTL DEF RecoverySpec

-----------------------------------------------------------------------------
(* CloudAttachments.  A sweep has started an attachment once more often     *)
(* than it failed at most, until the attachment is in the cache.            *)

Sweeping(a) == \E j \in jobs : j.by = "sweep" /\ j.att = a
SweepDue(a) == sweep # Idle /\ a \in sweep

(* The sweep downloads an attachment once; what it starts ends in the cache *)
(* or as a counted failure, unless the file turns out too large.            *)
SweepsInv ==
  /\ \A a \in Attachments : RealSize[a] <= Limit =>
       /\ swept[a] <= MaxRetries
       /\ a \notin cache => swept[a] <= failed[a] + (IF Sweeping(a) THEN 1 ELSE 0)
       /\ SweepDue(a) => swept[a] < MaxRetries
  /\ \A a \in Attachments : SweepDue(a) => ~Sweeping(a)
  /\ sweep = Idle => \A a \in Attachments : ~Sweeping(a)
  /\ \A i, j \in jobs : i.by = "sweep" /\ j.by = "sweep" /\ i.att = j.att => i = j

UploadsInv == UploadsTypeOK /\ SweepsInv

-----------------------------------------------------------------------------
LEMMA UploadsStart == ASSUME UploadsInit PROVE UploadsInv
<1>1. UploadsTypeOK
  BY DEF UploadsInit, UploadsTypeOK
<1>2. SweepsInv
  BY LimitsAssumption DEF UploadsInit, SweepsInv, Sweeping, SweepDue
<1> QED BY <1>1, <1>2 DEF UploadsInv

(* A step in which the sweep does not take part keeps what is known of it: *)
(* counts of failures only grow or go with an upload.                      *)
LEMMA SweepsUndisturbed ==
  ASSUME SweepsInv, UploadsTypeOK, UploadsTypeOK', UNCHANGED <<sweep, swept>>, cache \subseteq cache',
         \A a \in Attachments : Sweeping(a)' <=> Sweeping(a),
         \A a \in Attachments : a \notin cache' => failed[a] <= failed'[a],
         \A i, j \in jobs' : i.by = "sweep" /\ j.by = "sweep" /\ i.att = j.att => i = j
  PROVE  SweepsInv'
<1>1. ASSUME NEW a \in Attachments, RealSize[a] <= Limit
      PROVE  /\ swept'[a] <= MaxRetries
             /\ a \notin cache' => swept'[a] <= failed'[a] + (IF Sweeping(a)' THEN 1 ELSE 0)
             /\ SweepDue(a)' => swept'[a] < MaxRetries
  <2>1. swept[a] \in Nat /\ failed[a] \in Nat /\ failed'[a] \in Nat
    BY DEF UploadsTypeOK
  <2>2. SweepDue(a)' <=> SweepDue(a)
    BY DEF SweepDue
  <2>3. swept'[a] <= MaxRetries /\ (SweepDue(a)' => swept'[a] < MaxRetries)
    BY <1>1, <2>2 DEF SweepsInv
  <2>4. a \notin cache => swept[a] <= failed[a] + (IF Sweeping(a) THEN 1 ELSE 0)
    BY <1>1 DEF SweepsInv
  <2>5. a \notin cache' => a \notin cache /\ failed[a] <= failed'[a]
    OBVIOUS
  <2>6. Sweeping(a)' <=> Sweeping(a)
    OBVIOUS
  <2>7. swept'[a] = swept[a]
    OBVIOUS
  <2>8. CASE Sweeping(a)
    BY <2>1, <2>3, <2>4, <2>5, <2>6, <2>7, <2>8
  <2>9. CASE ~Sweeping(a)
    BY <2>1, <2>3, <2>4, <2>5, <2>6, <2>7, <2>9
  <2> QED BY <2>8, <2>9
<1>2. \A a \in Attachments : SweepDue(a)' => ~Sweeping(a)'
  BY DEF SweepsInv, SweepDue
<1>3. sweep' = Idle => \A a \in Attachments : ~Sweeping(a)'
  BY DEF SweepsInv
<1> QED BY <1>1, <1>2, <1>3 DEF SweepsInv

LEMMA StartSweepKeeps == ASSUME UploadsInv, StartSweep PROVE UploadsInv'
<1>1. /\ sweep = Idle /\ cache' = cache \cup saved /\ sweep' = ToSweep(cache')
      /\ UNCHANGED <<saved, failed, tombstones, aged, warm, convert, jobs, shown,
                     filled, swept>>
      /\ loaded' = TRUE /\ dead' = IF loaded THEN dead ELSE dead \cup tombstones
  BY DEF StartSweep, LoadTombstones
<1>2. UploadsTypeOK /\ SweepsInv /\ failed \in [Attachments -> Nat] /\ swept \in [Attachments -> Nat]
  BY DEF UploadsInv, UploadsTypeOK
<1>3. sweep' \subseteq Attachments /\ \A a \in sweep' : a \notin cache' /\ failed[a] < MaxRetries
  BY <1>1, <1>2, LimitsAssumption DEF ToSweep, Exhausted
<1>4. UploadsTypeOK'
  BY <1>1, <1>2, <1>3 DEF UploadsTypeOK
<1>5. \A a \in Attachments : ~Sweeping(a) /\ ~Sweeping(a)'
  BY <1>1, <1>2 DEF SweepsInv, Sweeping
<1>6. ASSUME NEW a \in Attachments, RealSize[a] <= Limit
      PROVE  /\ swept'[a] <= MaxRetries
             /\ a \notin cache' => swept'[a] <= failed'[a] + (IF Sweeping(a)' THEN 1 ELSE 0)
             /\ SweepDue(a)' => swept'[a] < MaxRetries
  <2>1. swept[a] \in Nat /\ failed[a] \in Nat /\ MaxRetries \in Nat
    BY <1>2, LimitsAssumption
  <2>2. a \notin cache => swept[a] <= failed[a]
    BY <1>2, <1>5, <1>6, <2>1 DEF SweepsInv
  <2>3. SweepDue(a)' => a \notin cache' /\ failed[a] < MaxRetries
    BY <1>3 DEF SweepDue
  <2>4. swept[a] <= MaxRetries
    BY <1>2, <1>6 DEF SweepsInv
  <2> QED BY <1>1, <1>5, <2>1, <2>2, <2>3, <2>4
<1>7. \A i, j \in jobs' : i.by = "sweep" /\ j.by = "sweep" /\ i.att = j.att => i = j
  BY <1>1, <1>2 DEF SweepsInv
<1>8. SweepsInv'
  BY <1>5, <1>6, <1>7 DEF SweepsInv
<1> QED BY <1>4, <1>8 DEF UploadsInv

LEMMA EndSweepKeeps == ASSUME UploadsInv, EndSweep PROVE UploadsInv'
<1>1. /\ sweep = {} /\ JobsOf("sweep") = {} /\ sweep' = Idle
      /\ UNCHANGED <<cache, saved, failed, dead, tombstones, loaded, aged, warm,
                     convert, jobs, shown, filled, swept>>
  BY DEF EndSweep
<1>2. UploadsTypeOK /\ SweepsInv
  BY DEF UploadsInv
<1>3. UploadsTypeOK'
  BY <1>1, <1>2 DEF UploadsTypeOK
<1>4. \A a \in Attachments : ~Sweeping(a) /\ ~Sweeping(a)' /\ ~SweepDue(a)'
  BY <1>1 DEF Sweeping, SweepDue, JobsOf
<1>5. ASSUME NEW a \in Attachments, RealSize[a] <= Limit
      PROVE  swept'[a] <= MaxRetries /\ (a \notin cache' => swept'[a] <= failed'[a] + (IF Sweeping(a)' THEN 1 ELSE 0))
  BY <1>1, <1>2, <1>4, <1>5 DEF SweepsInv
<1>6. SweepsInv'
  BY <1>1, <1>2, <1>4, <1>5 DEF SweepsInv
<1> QED BY <1>3, <1>6 DEF UploadsInv

(* The steps of the chunk, the tombstones' loading and CloudKit's ageing. *)
LEMMA ChunkKeeps == ASSUME UploadsInv, StartFetch \/ EndWarm \/ EndFetch \/ (\E a \in Attachments : AgesOut(a)) PROVE UploadsInv'
<1>1. UNCHANGED <<cache, saved, failed, dead, tombstones, loaded, sweep, jobs, shown, swept>>
  BY DEF StartFetch, EndWarm, EndFetch, AgesOut
<1>2. UploadsTypeOK /\ SweepsInv
  BY DEF UploadsInv
<1>3. /\ aged' \subseteq Attachments /\ filled' \in BOOLEAN
      /\ warm' = Idle \/ warm' \subseteq Attachments
      /\ convert' = Idle \/ convert' \subseteq Attachments
  BY <1>2 DEF StartFetch, EndWarm, EndFetch, AgesOut, ToWarm, UploadsTypeOK
<1>4. UploadsTypeOK'
  BY <1>1, <1>2, <1>3 DEF UploadsTypeOK
<1>5. \A a \in Attachments : failed[a] <= failed'[a]
  BY <1>1, <1>2 DEF UploadsTypeOK
<1>6. \A a \in Attachments : Sweeping(a)' <=> Sweeping(a)
  BY <1>1 DEF Sweeping
<1>7. \A i, j \in jobs' : i.by = "sweep" /\ j.by = "sweep" /\ i.att = j.att => i = j
  BY <1>1, <1>2 DEF SweepsInv
<1>8. SweepsInv'
  BY <1>1, <1>2, <1>4, <1>5, <1>6, <1>7, SweepsUndisturbed
<1> QED BY <1>4, <1>8 DEF UploadsInv

(* A download begins: at most one job more. *)
LEMMA BeginDownloadGives ==
  ASSUME UploadsTypeOK, NEW phase \in {"sweep", "warm", "convert"}, NEW a \in Attachments, BeginDownload(phase, a)
  PROVE  /\ dead' \subseteq Attachments /\ loaded' \in BOOLEAN /\ jobs' \subseteq Job
         /\ jobs' = IF Skipped(a) THEN jobs ELSE jobs \cup {[att |-> a, by |-> phase, stage |-> "download"]}
<1>1. jobs' = IF Skipped(a) THEN jobs ELSE jobs \cup {[att |-> a, by |-> phase, stage |-> "download"]}
  BY DEF BeginDownload
<1>2. [att |-> a, by |-> phase, stage |-> "download"] \in Job
  BY DEF Job
<1>3. dead' \subseteq Attachments /\ loaded' \in BOOLEAN
  BY DEF BeginDownload, LoadTombstones, UploadsTypeOK
<1>4. jobs' \subseteq Job
  BY <1>1, <1>2 DEF UploadsTypeOK
<1> QED BY <1>1, <1>3, <1>4

LEMMA StartSweptKeeps == ASSUME UploadsInv, NEW a \in Attachments, StartSwept(a) PROVE UploadsInv'
<1> DEFINE new == [att |-> a, by |-> "sweep", stage |-> "download"]
<1>1. /\ sweep # Idle /\ a \in sweep /\ sweep' = sweep \ {a}
      /\ swept' = IF Skipped(a) THEN swept ELSE [swept EXCEPT ![a] = @ + 1]
      /\ UNCHANGED <<cache, saved, failed, tombstones, aged, warm, convert, shown,
                     filled>>
  BY DEF StartSwept
<1>2. UploadsTypeOK /\ SweepsInv /\ failed \in [Attachments -> Nat] /\ swept \in [Attachments -> Nat]
  BY DEF UploadsInv, UploadsTypeOK
<1>3. /\ dead' \subseteq Attachments /\ loaded' \in BOOLEAN /\ jobs' \subseteq Job
      /\ jobs' = IF Skipped(a) THEN jobs ELSE jobs \cup {new}
  BY <1>2, BeginDownloadGives DEF StartSwept
<1>4. swept' \in [Attachments -> Nat] /\ sweep \subseteq Attachments
  BY <1>1, <1>2 DEF UploadsTypeOK
<1>5. UploadsTypeOK'
  BY <1>1, <1>2, <1>3, <1>4 DEF UploadsTypeOK
<1>6. "idle" \notin sweep /\ sweep' # Idle /\ \A b \in Attachments : SweepDue(b)' => SweepDue(b) /\ b # a
  BY <1>1, <1>4, LimitsAssumption DEF SweepDue, Idle
<1>7. SweepDue(a) /\ ~Sweeping(a)
  BY <1>1, <1>2 DEF SweepsInv, SweepDue
<1>8. new.att = a /\ new.by = "sweep"
  OBVIOUS
<1> HIDE DEF new
<1>9. \A b \in Attachments : b # a => (Sweeping(b)' <=> Sweeping(b)) /\ swept'[b] = swept[b]
  BY <1>1, <1>2, <1>3, <1>8 DEF Sweeping
<1>10. Skipped(a) => ~Sweeping(a)' /\ swept'[a] = swept[a]
  BY <1>1, <1>3, <1>7 DEF Sweeping
<1>11. ~Skipped(a) => Sweeping(a)' /\ swept'[a] = swept[a] + 1
  BY <1>1, <1>2, <1>3, <1>8 DEF Sweeping
<1>12. ASSUME NEW b \in Attachments, RealSize[b] <= Limit
      PROVE  /\ swept'[b] <= MaxRetries
             /\ b \notin cache' => swept'[b] <= failed'[b] + (IF Sweeping(b)' THEN 1 ELSE 0)
             /\ SweepDue(b)' => swept'[b] < MaxRetries
  <2>1. swept[b] \in Nat /\ failed[b] \in Nat /\ MaxRetries \in Nat
    BY <1>2, LimitsAssumption
  <2>2. /\ swept[b] <= MaxRetries
        /\ b \notin cache => swept[b] <= failed[b] + (IF Sweeping(b) THEN 1 ELSE 0)
        /\ SweepDue(b) => swept[b] < MaxRetries
    BY <1>2, <1>12 DEF SweepsInv
  <2>3. CASE b # a
    BY <1>1, <1>6, <1>9, <2>2, <2>3
  <2>4. CASE b = a /\ Skipped(a)
    BY <1>1, <1>6, <1>7, <1>10, <2>1, <2>2, <2>4
  <2>5. CASE b = a /\ ~Skipped(a)
    BY <1>1, <1>6, <1>7, <1>11, <2>1, <2>2, <2>5
  <2> QED BY <2>3, <2>4, <2>5
<1>13. ASSUME NEW b \in Attachments, SweepDue(b)' PROVE ~Sweeping(b)'
  BY <1>2, <1>6, <1>9, <1>13 DEF SweepsInv
<1>14. ASSUME NEW i \in jobs', NEW j \in jobs', i.by = "sweep", j.by = "sweep", i.att = j.att PROVE i = j
  BY <1>2, <1>3, <1>7, <1>8, <1>14 DEF SweepsInv, Sweeping
<1>15. SweepsInv'
  BY <1>6, <1>12, <1>13, <1>14 DEF SweepsInv
<1> QED BY <1>5, <1>15 DEF UploadsInv

LEMMA StartOthersKeep ==
  ASSUME UploadsInv, NEW a \in Attachments, StartWarmed(a) \/ StartConverted(a)
  PROVE  UploadsInv'
<1>1. /\ UNCHANGED <<cache, saved, failed, tombstones, aged, sweep, filled, swept>>
      /\ BeginDownload("warm", a) \/ BeginDownload("convert", a)
  BY DEF StartWarmed, StartConverted
<1>2. UploadsTypeOK /\ SweepsInv
  BY DEF UploadsInv
<1>3. /\ dead' \subseteq Attachments /\ loaded' \in BOOLEAN /\ jobs' \subseteq Job
      /\ \/ jobs' = jobs
         \/ \E p \in {"warm", "convert"} : jobs' = jobs \cup {[att |-> a, by |-> p, stage |-> "download"]}
  BY <1>1, <1>2, BeginDownloadGives
<1>4. /\ warm' = Idle \/ warm' \subseteq Attachments
      /\ convert' = Idle \/ convert' \subseteq Attachments
      /\ shown' \in [Attachments -> {"none", "media", "notice"}]
  BY <1>2 DEF StartWarmed, StartConverted, Bridge, UploadsTypeOK
<1>5. UploadsTypeOK'
  BY <1>1, <1>2, <1>3, <1>4 DEF UploadsTypeOK
<1>6. \A j \in jobs' : j.by = "sweep" => j \in jobs
  BY <1>3
<1>7. jobs \subseteq jobs'
  BY <1>3
<1>8. \A b \in Attachments : Sweeping(b)' <=> Sweeping(b)
  BY <1>6, <1>7 DEF Sweeping
<1>9. \A i, j \in jobs' : i.by = "sweep" /\ j.by = "sweep" /\ i.att = j.att => i = j
  BY <1>2, <1>6 DEF SweepsInv
<1>10. \A b \in Attachments : failed[b] <= failed'[b]
  BY <1>1, <1>2 DEF UploadsTypeOK
<1>11. SweepsInv'
  BY <1>1, <1>2, <1>5, <1>8, <1>9, <1>10, SweepsUndisturbed
<1> QED BY <1>5, <1>11 DEF UploadsInv

LEMMA DownloadEndsKeeps == ASSUME UploadsInv, NEW j \in jobs, DownloadEnds(j) PROVE UploadsInv'
<1> DEFINE new == [j EXCEPT !.stage = "read"]
<1>1. /\ jobs' = (jobs \ {j}) \cup {new}
      /\ UNCHANGED <<cache, saved, failed, dead, tombstones, loaded, aged, sweep, warm,
                     convert, shown, filled, swept>>
  BY DEF DownloadEnds
<1>2. UploadsTypeOK /\ SweepsInv /\ jobs \subseteq Job
  BY DEF UploadsInv, UploadsTypeOK
<1>3. new \in Job /\ new.att = j.att /\ new.by = j.by
  BY <1>2 DEF Job
<1> HIDE DEF new
<1>4. UploadsTypeOK'
  BY <1>1, <1>2, <1>3 DEF UploadsTypeOK
<1>5. \A b \in Attachments : Sweeping(b)' <=> Sweeping(b)
  BY <1>1, <1>3 DEF Sweeping
<1>6. ASSUME NEW i \in jobs', NEW k \in jobs', i.by = "sweep", k.by = "sweep", i.att = k.att PROVE i = k
  BY <1>1, <1>2, <1>3, <1>6 DEF SweepsInv
<1>7. \A b \in Attachments : failed[b] <= failed'[b]
  BY <1>1, <1>2 DEF UploadsTypeOK
<1>8. SweepsInv'
  BY <1>1, <1>2, <1>4, <1>5, <1>6, <1>7, SweepsUndisturbed
<1> QED BY <1>4, <1>8 DEF UploadsInv

LEMMA FinishGives ==
  ASSUME UploadsTypeOK, NEW j \in jobs, NEW as \in {"media", "notice"}, Finish(j, as)
  PROVE  /\ jobs' = jobs \ {j} /\ (convert' = Idle \/ convert' \subseteq Attachments)
         /\ shown' \in [Attachments -> {"none", "media", "notice"}]
<1>1. j.att \in Attachments
  BY DEF UploadsTypeOK, Job
<1>2. convert = Idle => convert \ {j.att} = Idle
  BY <1>1, LimitsAssumption DEF Idle
<1>3. (convert' = Idle \/ convert' \subseteq Attachments)
  BY <1>2 DEF Finish, UploadsTypeOK
<1>4. shown' \in [Attachments -> {"none", "media", "notice"}]
  BY <1>1 DEF Finish, Bridge, UploadsTypeOK
<1> QED BY <1>3, <1>4 DEF Finish

(* A job is over: its attachment is in the cache, its failure is counted, *)
(* or the file was too large.                                             *)
LEMMA OverKeepsSweeps ==
  ASSUME SweepsInv, UploadsTypeOK, UploadsTypeOK', NEW j \in jobs, jobs' = jobs \ {j},
         UNCHANGED <<sweep, swept>>, cache \subseteq cache',
         \A a \in Attachments : a \notin cache' => failed[a] <= failed'[a],
         j.att \in cache' \/ failed'[j.att] = failed[j.att] + 1 \/ ~(RealSize[j.att] <= Limit)
  PROVE  SweepsInv'
<1>1. \A i, k \in jobs' : i.by = "sweep" /\ k.by = "sweep" /\ i.att = k.att => i = k
  BY DEF SweepsInv
<1>2. \A a \in Attachments : Sweeping(a)' => Sweeping(a)
  BY DEF Sweeping
<1>3. \A a \in Attachments : a # j.att => (Sweeping(a) => Sweeping(a)')
  BY DEF Sweeping
<1>4. ASSUME NEW a \in Attachments, RealSize[a] <= Limit
      PROVE  /\ swept'[a] <= MaxRetries
             /\ a \notin cache' => swept'[a] <= failed'[a] + (IF Sweeping(a)' THEN 1 ELSE 0)
             /\ SweepDue(a)' => swept'[a] < MaxRetries
  <2>1. swept[a] \in Nat /\ failed[a] \in Nat /\ failed'[a] \in Nat
    BY DEF UploadsTypeOK
  <2>2. /\ swept[a] <= MaxRetries
        /\ a \notin cache => swept[a] <= failed[a] + (IF Sweeping(a) THEN 1 ELSE 0)
        /\ SweepDue(a) => swept[a] < MaxRetries
    BY <1>4 DEF SweepsInv
  <2>3. SweepDue(a)' <=> SweepDue(a)
    BY DEF SweepDue
  <2>4. a \notin cache' => a \notin cache /\ failed[a] <= failed'[a]
    OBVIOUS
  <2>5. swept'[a] = swept[a]
    OBVIOUS
  <2>6. CASE a # j.att
    <3>1. Sweeping(a)' <=> Sweeping(a)
      BY <1>2, <1>3, <2>6
    <3>2. CASE Sweeping(a)
      BY <2>1, <2>2, <2>3, <2>4, <2>5, <3>1, <3>2
    <3>3. CASE ~Sweeping(a)
      BY <2>1, <2>2, <2>3, <2>4, <2>5, <3>1, <3>3
    <3> QED BY <3>2, <3>3
  <2>7. CASE a = j.att
    <3>1. a \notin cache' => failed'[a] = failed[a] + 1
      BY <1>4, <2>7
    <3>2. a \notin cache' => swept[a] <= failed'[a]
      <4>1. CASE Sweeping(a)
        BY <2>1, <2>2, <2>4, <3>1, <4>1
      <4>2. CASE ~Sweeping(a)
        BY <2>1, <2>2, <2>4, <3>1, <4>2
      <4> QED BY <4>1, <4>2
    <3>3. a \notin cache' => swept'[a] <= failed'[a] + (IF Sweeping(a)' THEN 1 ELSE 0)
      <4>1. CASE Sweeping(a)'
        BY <2>1, <2>5, <3>2, <4>1
      <4>2. CASE ~Sweeping(a)'
        BY <2>1, <2>5, <3>2, <4>2
      <4> QED BY <4>1, <4>2
    <3> QED BY <2>2, <2>3, <2>5, <3>3
  <2> QED BY <2>6, <2>7
<1>5. \A a \in Attachments : SweepDue(a)' => ~Sweeping(a)'
  BY <1>2 DEF SweepsInv, SweepDue
<1>6. sweep' = Idle => \A a \in Attachments : ~Sweeping(a)'
  BY <1>2 DEF SweepsInv
<1> QED BY <1>1, <1>4, <1>5, <1>6 DEF SweepsInv

LEMMA FailureKeeps == ASSUME UploadsInv, NEW j \in jobs, DownloadFails(j) \/ UploadFails(j) PROVE UploadsInv'
<1>1. /\ Finish(j, "notice") /\ UNCHANGED <<cache, saved, loaded, aged, sweep, warm, filled, swept>>
      /\ RecordFailure(j.att, TRUE) \/ RecordFailure(j.att, FALSE)
  BY DEF DownloadFails, UploadFails
<1>2. UploadsTypeOK /\ SweepsInv /\ failed \in [Attachments -> Nat] /\ j.att \in Attachments
  BY DEF UploadsInv, UploadsTypeOK, Job
<1>3. /\ jobs' = jobs \ {j} /\ (convert' = Idle \/ convert' \subseteq Attachments)
      /\ shown' \in [Attachments -> {"none", "media", "notice"}]
  BY <1>1, <1>2, FinishGives
<1>4. failed' = [failed EXCEPT ![j.att] = @ + 1] /\ dead' \subseteq Attachments /\ tombstones' \subseteq Attachments
  BY <1>1, <1>2 DEF RecordFailure, UploadsTypeOK
<1>5. /\ failed' \in [Attachments -> Nat] /\ failed'[j.att] = failed[j.att] + 1
      /\ \A a \in Attachments : failed[a] <= failed'[a]
  BY <1>2, <1>4
<1>6. UploadsTypeOK'
  BY <1>1, <1>2, <1>3, <1>4, <1>5 DEF UploadsTypeOK
<1>7. SweepsInv'
  BY <1>1, <1>2, <1>3, <1>5, <1>6, OverKeepsSweeps
<1> QED BY <1>6, <1>7 DEF UploadsInv

LEMMA DropOversizedKeeps == ASSUME UploadsInv, NEW j \in jobs, DropOversized(j) PROVE UploadsInv'
<1>1. /\ Finish(j, "notice") /\ RealSize[j.att] > Limit
      /\ UNCHANGED <<cache, saved, failed, dead, tombstones, loaded, aged, sweep, warm,
                     filled, swept>>
  BY DEF DropOversized
<1>2. UploadsTypeOK /\ SweepsInv /\ failed \in [Attachments -> Nat] /\ j.att \in Attachments
  BY DEF UploadsInv, UploadsTypeOK, Job
<1>3. /\ jobs' = jobs \ {j} /\ (convert' = Idle \/ convert' \subseteq Attachments)
      /\ shown' \in [Attachments -> {"none", "media", "notice"}]
  BY <1>1, <1>2, FinishGives
<1>4. UploadsTypeOK'
  BY <1>1, <1>2, <1>3 DEF UploadsTypeOK
<1>5. ~(RealSize[j.att] <= Limit) /\ \A a \in Attachments : failed[a] <= failed'[a]
  BY <1>1, <1>2, SizesAssumption, LimitsAssumption
<1>6. SweepsInv'
  BY <1>1, <1>2, <1>3, <1>4, <1>5, OverKeepsSweeps
<1> QED BY <1>4, <1>6 DEF UploadsInv

LEMMA UploadedKeeps == ASSUME UploadsInv, NEW j \in jobs, Uploaded(j) PROVE UploadsInv'
<1>1. /\ Finish(j, "media") /\ cache' = cache \cup {j.att} /\ saved' = saved \cup {j.att}
      /\ failed' = [failed EXCEPT ![j.att] = 0]
      /\ UNCHANGED <<dead, tombstones, loaded, aged, sweep, warm, filled, swept>>
  BY DEF Uploaded
<1>2. UploadsTypeOK /\ SweepsInv /\ failed \in [Attachments -> Nat] /\ j.att \in Attachments
  BY DEF UploadsInv, UploadsTypeOK, Job
<1>3. /\ jobs' = jobs \ {j} /\ (convert' = Idle \/ convert' \subseteq Attachments)
      /\ shown' \in [Attachments -> {"none", "media", "notice"}]
  BY <1>1, <1>2, FinishGives
<1>4. failed' \in [Attachments -> Nat] /\ \A a \in Attachments : a \notin cache' => failed[a] <= failed'[a]
  BY <1>1, <1>2
<1>5. UploadsTypeOK'
  BY <1>1, <1>2, <1>3, <1>4 DEF UploadsTypeOK
<1>6. SweepsInv'
  BY <1>1, <1>2, <1>3, <1>4, <1>5, OverKeepsSweeps
<1> QED BY <1>5, <1>6 DEF UploadsInv

LEMMA RestartKeepsUploads == ASSUME UploadsInv, RestartUploads PROVE UploadsInv'
<1>1. /\ cache' = {} /\ dead' = {} /\ loaded' = FALSE /\ jobs' = {}
      /\ failed' = [a \in Attachments |-> 0] /\ swept' = [a \in Attachments |-> 0]
      /\ sweep' = Idle /\ warm' = Idle /\ convert' = Idle
      /\ UNCHANGED <<saved, tombstones, aged, shown, filled>>
  BY DEF RestartUploads
<1>2. UploadsTypeOK'
  BY <1>1 DEF UploadsInv, UploadsTypeOK
<1>3. SweepsInv'
  BY <1>1, LimitsAssumption DEF SweepsInv, Sweeping, SweepDue
<1> QED BY <1>2, <1>3 DEF UploadsInv

LEMMA UploadsStep == UploadsInv /\ [UploadsNext]_uploadsVars => UploadsInv'
<1> SUFFICES ASSUME UploadsInv, [UploadsNext]_uploadsVars PROVE UploadsInv'
  OBVIOUS
<1>1. CASE UNCHANGED uploadsVars
  BY <1>1 DEF uploadsVars, UploadsInv, UploadsTypeOK, SweepsInv, Sweeping, SweepDue
<1> QED BY <1>1, StartSweepKeeps, EndSweepKeeps, ChunkKeeps, StartSweptKeeps, StartOthersKeep, DownloadEndsKeeps,
           FailureKeeps, DropOversizedKeeps, UploadedKeeps, RestartKeepsUploads DEF UploadsNext

(* However often the sweeps run beside the portal's own downloads, an       *)
(* attachment within the size limit is downloaded by them at most           *)
(* MaxRetries times in a session.  Nothing is said of the warm-ups and      *)
(* conversions, which do not look at the count of failures.                 *)
THEOREM SweepsStop == UploadsSpec => []SweepsGiveUp
<1>1. UploadsInv => SweepsGiveUp
  BY DEF UploadsInv, SweepsInv, SweepsGiveUp
<1> QED BY <1>1, UploadsStart, UploadsStep, PTL DEF UploadsSpec

-----------------------------------------------------------------------------
(* The byte budget.  A sum of sizes is the number of its units, so that     *)
(* what is said of cardinalities is said of the sum.                        *)

(* Sizes with a bound have a sum. *)
LEMMA UnitsFinite ==
  ASSUME NEW S, IsFiniteSet(S), NEW B \in Nat, NEW size \in [S -> 0..B]
  PROVE  IsFiniteSet(Units(size)) /\ Cardinality(Units(size)) \in Nat
<1>1. IsFiniteSet(1..B)  BY FS_Interval
<1>2. IsFiniteSet(S \X (1..B))  BY <1>1, FS_Product
<1>3. Units(size) \subseteq S \X (1..B)
  <2>1. ASSUME NEW j \in S PROVE {j} \X (1..size[j]) \subseteq S \X (1..B)
    <3>1. 1..size[j] \subseteq 1..B  OBVIOUS
    <3> QED  BY <3>1
  <2> QED  BY <2>1 DEF Units
<1> QED  BY <1>2, <1>3, FS_Subset, FS_CardinalityType

(* Smaller sizes of fewer jobs have a smaller sum. *)
LEMMA UnitsSmaller ==
  ASSUME NEW S, IsFiniteSet(S), NEW B \in Nat, NEW size \in [S -> 0..B],
         NEW T \in SUBSET S, NEW less \in [T -> Nat], \A j \in T : less[j] <= size[j]
  PROVE  Cardinality(Units(less)) <= Cardinality(Units(size))
<1>1. Units(less) \subseteq Units(size)
  <2>1. ASSUME NEW j \in T PROVE {j} \X (1..less[j]) \subseteq {j} \X (1..size[j])
    <3>1. less[j] \in Nat /\ size[j] \in Nat /\ less[j] <= size[j]  OBVIOUS
    <3>2. 1..less[j] \subseteq 1..size[j]  BY <3>1
    <3> QED  BY <3>2
  <2>2. \A j \in T : {j} \X (1..size[j]) \in {{i} \X (1..size[i]) : i \in S}  OBVIOUS
  <2> QED  BY <2>1, <2>2 DEF Units
<1> QED  BY <1>1, UnitsFinite, FS_Subset

-----------------------------------------------------------------------------
(* What the fan-outs have taken of the budget fits it. *)
BudgetInv == UploadsTypeOK /\ IsFiniteSet(jobs) /\ InFlight <= Budget

LEMMA BudgetType == Budget \in Nat  BY LimitsAssumption

LEMMA WeightsType ==
  ASSUME NEW S, \A j \in S : j.att \in Attachments
  PROVE  Weights(S) \in [S -> 0..Budget] /\ \A j \in S : Weight(j.att) \in 1..Budget
<1>1. ASSUME NEW a \in Attachments PROVE Weight(a) \in 1..Budget
  BY <1>1, SizesAssumption, LimitsAssumption DEF Weight
<1> QED  BY <1>1, LimitsAssumption DEF Weights

(* One job more adds its weight. *)
LEMMA WeightsOfOneMore ==
  ASSUME NEW S, IsFiniteSet(S), NEW j, j \notin S, NEW T, T = S \cup {j},
         \A i \in T : i.att \in Attachments
  PROVE  Cardinality(Units(Weights(T))) = Cardinality(Units(Weights(S))) + Weight(j.att)
<1> DEFINE w == Weight(j.att)
           own == {j} \X (1..w)
<1>1. w \in Nat  BY WeightsType, BudgetType
<1>2. Weights(S) \in [S -> 0..Budget]  BY WeightsType
<1>3. IsFiniteSet(Units(Weights(S))) /\ Cardinality(Units(Weights(S))) \in Nat
  BY <1>2, UnitsFinite, BudgetType
<1>4. IsFiniteSet(own) /\ Cardinality(own) = w
  <2>1. IsFiniteSet(1..w) /\ Cardinality(1..w) = w  BY <1>1, FS_Interval
  <2>2. IsFiniteSet({j}) /\ Cardinality({j}) = 1  BY ONLY FS_Singleton
  <2>3. IsFiniteSet(own) /\ Cardinality(own) = Cardinality({j}) * Cardinality(1..w)
    BY ONLY <2>1, <2>2, FS_Product
  <2> QED  BY <1>1, <2>1, <2>2, <2>3
<1>5. Units(Weights(T)) = Units(Weights(S)) \cup own
  <2>1. \A i \in S : Weights(T)[i] = Weights(S)[i]  BY DEF Weights
  <2>2. DOMAIN Weights(S) = S /\ DOMAIN Weights(T) = S \cup {j} /\ Weights(T)[j] = w
    BY DEF Weights
  <2>3. ASSUME NEW u \in Units(Weights(T)) PROVE u \in Units(Weights(S)) \cup own
    <3>1. PICK i \in S \cup {j} : u \in {i} \X (1..Weights(T)[i])  BY <2>2 DEF Units
    <3>2. CASE i \in S
      <4>1. u \in {i} \X (1..Weights(S)[i])  BY <2>1, <3>1, <3>2
      <4> QED  BY <2>2, <3>2, <4>1 DEF Units
    <3>3. CASE i = j  BY <2>2, <3>1, <3>3
    <3> QED  BY <3>1, <3>2, <3>3
  <2>4. own \subseteq Units(Weights(T))  BY <2>2 DEF Units
  <2>5. ASSUME NEW u \in Units(Weights(S)) PROVE u \in Units(Weights(T))
    <3>1. PICK i \in S : u \in {i} \X (1..Weights(S)[i])  BY <2>2 DEF Units
    <3>2. u \in {i} \X (1..Weights(T)[i]) /\ i \in DOMAIN Weights(T)  BY <2>1, <2>2, <3>1
    <3> QED  BY <3>2 DEF Units
  <2> QED  BY <2>3, <2>4, <2>5
<1>6. Units(Weights(S)) \cap own = {}  BY DEF Units, Weights
<1> HIDE DEF own, w
<1>7. Cardinality(Units(Weights(S)) \cap own) = 0  BY <1>6, FS_EmptySet
<1>8. Cardinality(Units(Weights(S)) \cup own) = Cardinality(Units(Weights(S))) + Cardinality(own) - 0
  BY <1>3, <1>4, <1>7, FS_Union
<1>9. \A m \in Nat : m + w - 0 = m + w  BY <1>1
<1>10. Cardinality(Units(Weights(T))) = Cardinality(Units(Weights(S))) + w
  BY <1>3, <1>4, <1>5, <1>8, <1>9
<1> QED  BY <1>10 DEF w

(* Fewer jobs take less of it. *)
LEMMA BudgetFreed ==
  ASSUME BudgetInv, UploadsTypeOK', jobs' \subseteq jobs
  PROVE  BudgetInv'
<1>1. IsFiniteSet(jobs) /\ jobs \subseteq Job /\ InFlight <= Budget  BY DEF BudgetInv, UploadsTypeOK
<1>2. IsFiniteSet(jobs')  BY <1>1, FS_Subset
<1>3. FanOut' \subseteq FanOut  BY DEF FanOut, JobsOf
<1>4. IsFiniteSet(FanOut) /\ \A j \in FanOut : j.att \in Attachments
  BY <1>1, FS_Subset DEF FanOut, Job
<1>5. /\ Weights(FanOut) \in [FanOut -> 0..Budget] /\ Weights(FanOut') \in [FanOut' -> 0..Budget]
      /\ \A j \in FanOut' : Weights(FanOut')[j] = Weights(FanOut)[j]
  BY <1>3, <1>4, WeightsType DEF Weights
<1>6. Weights(FanOut') \in [FanOut' -> Nat] /\ \A j \in FanOut' : Weights(FanOut')[j] <= Weights(FanOut)[j]
  BY <1>3, <1>5, LimitsAssumption
<1>7. Cardinality(Units(Weights(FanOut'))) <= Cardinality(Units(Weights(FanOut)))
  BY <1>3, <1>4, <1>5, <1>6, UnitsSmaller, LimitsAssumption
<1>8. InFlight' <= InFlight  BY <1>7 DEF InFlight
<1>9. InFlight \in Nat /\ InFlight' \in Nat
  <2>1. IsFiniteSet(FanOut')  BY <1>3, <1>4, FS_Subset
  <2> QED  BY <1>4, <1>5, <2>1, UnitsFinite, LimitsAssumption DEF InFlight
<1> QED  BY <1>1, <1>2, <1>8, <1>9, LimitsAssumption DEF BudgetInv

(* A job that starts takes what Admitted found free; a conversion, nothing. *)
LEMMA BudgetTaken ==
  ASSUME BudgetInv, UploadsTypeOK', NEW new \in Job, jobs' = jobs \cup {new},
         new.by = "convert" \/ InFlight + Weight(new.att) <= Budget
  PROVE  BudgetInv'
<1>1. IsFiniteSet(jobs) /\ jobs \subseteq Job /\ InFlight <= Budget  BY DEF BudgetInv, UploadsTypeOK
<1>2. IsFiniteSet(jobs')  BY <1>1, FS_AddElement
<1>3. CASE FanOut' = FanOut
  <2>1. InFlight' = InFlight  BY <1>3 DEF InFlight
  <2> QED  BY <1>1, <1>2, <2>1 DEF BudgetInv
<1>4. CASE FanOut' # FanOut
  <2>1. new \notin FanOut /\ FanOut' = FanOut \cup {new} /\ new.by # "convert"
    BY <1>4 DEF FanOut, JobsOf
  <2>2. IsFiniteSet(FanOut) /\ \A j \in FanOut' : j.att \in Attachments
    BY <1>1, <2>1, FS_Subset DEF FanOut, Job
  <2>3. Cardinality(Units(Weights(FanOut'))) = Cardinality(Units(Weights(FanOut))) + Weight(new.att)
    BY <2>1, <2>2, WeightsOfOneMore
  <2>4. InFlight' = InFlight + Weight(new.att)  BY <2>3 DEF InFlight
  <2> QED  BY <1>2, <2>1, <2>4 DEF BudgetInv
<1> QED  BY <1>3, <1>4

(* A download that ends keeps its share until the upload is over. *)
LEMMA BudgetKept ==
  ASSUME BudgetInv, UploadsTypeOK', NEW j \in jobs, NEW new \in Job, jobs' = (jobs \ {j}) \cup {new},
         new.att = j.att, new.by = j.by
  PROVE  BudgetInv'
<1> DEFINE rest == FanOut \ {j}
<1>1. IsFiniteSet(jobs) /\ jobs \subseteq Job /\ InFlight <= Budget  BY DEF BudgetInv, UploadsTypeOK
<1>2. IsFiniteSet(jobs \ {j})  BY <1>1, FS_Subset
<1>3. IsFiniteSet(jobs')  BY <1>2, FS_AddElement
<1>4. IsFiniteSet(FanOut) /\ IsFiniteSet(rest)  BY <1>1, FS_Subset DEF FanOut
<1>5. \A i \in FanOut \cup FanOut' : i.att \in Attachments  BY <1>1 DEF FanOut, Job
<1>6. /\ Weights(rest) \in [rest -> 0..Budget]
      /\ Weights(FanOut) \in [FanOut -> 0..Budget] /\ Weights(FanOut') \in [FanOut' -> 0..Budget]
  BY <1>5, WeightsType
<1>7. IsFiniteSet(FanOut')  BY <1>3, FS_Subset DEF FanOut
<1>8. InFlight \in Nat /\ InFlight' \in Nat /\ Cardinality(Units(Weights(rest))) \in Nat
  BY <1>4, <1>6, <1>7, UnitsFinite, LimitsAssumption DEF InFlight
<1>9. CASE j.by = "convert" \/ new \in FanOut
  <2>1. FanOut' \subseteq FanOut  BY <1>9 DEF FanOut, JobsOf
  <2>2. Weights(FanOut') \in [FanOut' -> Nat] /\ \A i \in FanOut' : Weights(FanOut')[i] <= Weights(FanOut)[i]
    BY <1>6, <2>1, LimitsAssumption DEF Weights
  <2>3. Cardinality(Units(Weights(FanOut'))) <= Cardinality(Units(Weights(FanOut)))
    BY <1>4, <1>6, <2>1, <2>2, UnitsSmaller, LimitsAssumption
  <2> QED  BY <1>1, <1>3, <1>8, <2>3, LimitsAssumption DEF BudgetInv, InFlight
<1>10. CASE j.by # "convert" /\ new \notin FanOut
  <2>1. /\ j \notin rest /\ FanOut = rest \cup {j}
        /\ new \notin rest /\ FanOut' = rest \cup {new}
    BY <1>10 DEF FanOut, JobsOf
  <2>2. Cardinality(Units(Weights(FanOut))) = Cardinality(Units(Weights(rest))) + Weight(j.att)
    BY <1>4, <1>5, <2>1, WeightsOfOneMore
  <2>3. Cardinality(Units(Weights(FanOut'))) = Cardinality(Units(Weights(rest))) + Weight(new.att)
    BY <1>4, <1>5, <2>1, WeightsOfOneMore
  <2>4. Weight(new.att) = Weight(j.att)  OBVIOUS
  <2> QED  BY <1>1, <1>3, <2>2, <2>3, <2>4 DEF BudgetInv, InFlight
<1> QED  BY <1>9, <1>10

LEMMA BudgetStart == ASSUME UploadsInit PROVE BudgetInv
<1>1. UploadsTypeOK  BY UploadsStart DEF UploadsInv
<1>2. jobs = {} /\ FanOut = {}  BY DEF UploadsInit, FanOut
<1>3. Units(Weights({})) = {}  BY DEF Units, Weights
<1> QED  BY <1>1, <1>2, <1>3, FS_EmptySet, LimitsAssumption DEF BudgetInv, InFlight

LEMMA BudgetStep == ASSUME UploadsInv, UploadsInv', BudgetInv, [UploadsNext]_uploadsVars PROVE BudgetInv'
<1>1. UploadsTypeOK /\ UploadsTypeOK'  BY DEF UploadsInv
<1>2. CASE UNCHANGED uploadsVars  BY <1>1, <1>2, BudgetFreed DEF uploadsVars
<1>3. CASE StartSweep \/ EndSweep \/ StartFetch \/ EndWarm \/ EndFetch \/ (\E a \in Attachments : AgesOut(a))
  BY <1>1, <1>3, BudgetFreed DEF StartSweep, EndSweep, StartFetch, EndWarm, EndFetch, AgesOut
<1>4. CASE RestartUploads
  BY <1>1, <1>4, BudgetFreed DEF RestartUploads
<1>5. ASSUME NEW a \in Attachments, StartSwept(a) \/ StartWarmed(a) \/ StartConverted(a) PROVE BudgetInv'
  <2>1. PICK phase \in {"sweep", "warm", "convert"} :
          BeginDownload(phase, a) /\ (phase = "convert" \/ InFlight + Weight(a) <= Budget)
    BY <1>5 DEF StartSwept, StartWarmed, StartConverted, Admitted
  <2> DEFINE new == [att |-> a, by |-> phase, stage |-> "download"]
  <2>2. new \in Job /\ new.att = a /\ new.by = phase  BY DEF Job
  <2>3. jobs' = jobs \/ jobs' = jobs \cup {new}  BY <1>1, <2>1, BeginDownloadGives
  <2> HIDE DEF new
  <2> QED  BY <1>1, <2>1, <2>2, <2>3, BudgetFreed, BudgetTaken
<1>6. ASSUME NEW j \in jobs, DownloadEnds(j) PROVE BudgetInv'
  <2> DEFINE new == [j EXCEPT !.stage = "read"]
  <2>1. j \in Job  BY <1>1 DEF UploadsTypeOK
  <2>2. new \in Job /\ new.att = j.att /\ new.by = j.by  BY <2>1 DEF Job
  <2>3. jobs' = (jobs \ {j}) \cup {new}  BY <1>6 DEF DownloadEnds
  <2> HIDE DEF new
  <2> QED  BY <1>1, <2>2, <2>3, BudgetKept
<1>7. ASSUME NEW j \in jobs, DownloadFails(j) \/ DropOversized(j) \/ Uploaded(j) \/ UploadFails(j)
      PROVE  BudgetInv'
  <2>1. jobs' = jobs \ {j}  BY <1>7 DEF DownloadFails, DropOversized, Uploaded, UploadFails, Finish
  <2> QED  BY <1>1, <2>1, BudgetFreed
<1> QED  BY <1>2, <1>3, <1>4, <1>5, <1>6, <1>7 DEF UploadsNext

(* A size that was told short by the wrap is a whole wrap over the limit. *)
LEMMA ReadFitsWeight ==
  ASSUME Limit <= Wrap, NEW j, j.att \in Attachments, Weight(j.att) < Budget
  PROVE  Resident(j) \in Nat /\ Resident(j) <= Weight(j.att)
<1> DEFINE a == j.att
           f == FileSize[a]
           r == RealSize[a]
<1>1. f \in Int /\ r \in Nat /\ f # 0 => (r - f) % Wrap = 0
  BY SizesAssumption
<1>2. Weight(a) = f /\ f \in 1..Budget /\ r \in Nat /\ (r - f) % Wrap = 0
  BY <1>1, LimitsAssumption, SizesAssumption DEF Weight
<1>3. Wrap \in Nat \ {0} /\ Limit \in Nat  BY LimitsAssumption, SizesAssumption
<1>4. CASE Resident(j) = 0  BY <1>2, <1>4, LimitsAssumption
<1>5. CASE Resident(j) = r /\ r <= Limit
  <2>1. SUFFICES ASSUME r > f PROVE FALSE  BY <1>2, <1>5, LimitsAssumption
  <2>2. r - f \in 1..(Wrap - 1)  BY <1>2, <1>3, <1>5, <2>1
  <2>3. (r - f) % Wrap = r - f  BY <1>3, <2>2
  <2> QED  BY <1>2, <2>2, <2>3
<1> QED  BY <1>4, <1>5 DEF Resident

(* The attachments the fan-outs have in memory fit the byte budget unless   *)
(* one is there alone, sizes that are unknown or wrapped included, if the   *)
(* limit on sizes is not above the wrap of 4 GiB (attachmentByteSem).       *)
THEOREM MemoryBounded ==
  ASSUME Limit <= Wrap
  PROVE  UploadsSpec => []BytesBounded
<1>1. UploadsInit => UploadsInv /\ BudgetInv  BY UploadsStart, BudgetStart
<1>2. UploadsInv /\ BudgetInv /\ [UploadsNext]_uploadsVars => UploadsInv' /\ BudgetInv'
  BY UploadsStep, BudgetStep
<1>3. BudgetInv => BytesBounded
  <2> SUFFICES ASSUME BudgetInv, ~(Cardinality(FanOut) <= 1)
               PROVE  Cardinality(Units([j \in FanOut |-> Resident(j)])) <= Budget
    BY DEF BytesBounded
  <2> DEFINE held == [j \in FanOut |-> Resident(j)]
  <2>1. IsFiniteSet(FanOut) /\ \A j \in FanOut : j.att \in Attachments
    BY FS_Subset DEF BudgetInv, UploadsTypeOK, FanOut, Job
  <2>2. Weights(FanOut) \in [FanOut -> 0..Budget] /\ \A j \in FanOut : Weight(j.att) \in 1..Budget
    BY <2>1, WeightsType
  <2>3. InFlight \in Nat /\ InFlight <= Budget
    BY <2>1, <2>2, UnitsFinite, LimitsAssumption DEF InFlight, BudgetInv
  <2>4. ASSUME NEW j \in FanOut PROVE Weight(j.att) < Budget
    <3> DEFINE rest == FanOut \ {j}
    <3>1. IsFiniteSet(rest) /\ Cardinality(rest) = Cardinality(FanOut) - 1
      BY <2>1, FS_RemoveElement
    <3>2. PICK i \in rest : TRUE
      <4>1. Cardinality(FanOut) \in Nat  BY <2>1, FS_CardinalityType
      <4>2. Cardinality(rest) # 0  BY <3>1, <4>1
      <4> QED  BY <3>1, <4>2, FS_EmptySet
    <3>3. Weights(rest) \in [rest -> 0..Budget] /\ Weights({i}) \in [{i} -> 0..Budget]
      BY <2>1, WeightsType
    <3>4. Weights({i})[i] = Weight(i.att) /\ Weights(rest)[i] = Weight(i.att)
      BY <3>2 DEF Weights
    <3>5. j \notin rest /\ rest \cup {j} = FanOut  OBVIOUS
    <3> HIDE DEF rest
    <3>6. Cardinality(Units(Weights(FanOut))) = Cardinality(Units(Weights(rest))) + Weight(j.att)
      BY <2>1, <3>1, <3>5, WeightsOfOneMore
    <3>7. Cardinality(Units(Weights({i}))) = 0 + Weight(i.att)
      <4>1. Units(Weights({})) = {}  BY DEF Units, Weights
      <4>2. IsFiniteSet({}) /\ Cardinality({}) = 0  BY FS_EmptySet
      <4>3. {i} = {} \cup {i} /\ i \notin {} /\ i.att \in Attachments  BY <2>1, <3>2, <3>5
      <4>4. Cardinality(Units(Weights({i}))) = Cardinality(Units(Weights({}))) + Weight(i.att)
        BY <4>2, <4>3, WeightsOfOneMore
      <4> QED  BY <4>1, <4>2, <4>4
    <3>8. Cardinality(Units(Weights({i}))) <= Cardinality(Units(Weights(rest)))
      <4>1. {i} \in SUBSET rest /\ \A k \in {i} : Weights({i})[k] <= Weights(rest)[k]
        BY <2>2, <3>2, <3>4, <3>5
      <4>2. Weights({i}) \in [{i} -> Nat]  BY <3>3, LimitsAssumption
      <4> QED  BY <3>1, <3>3, <4>1, <4>2, UnitsSmaller, LimitsAssumption
    <3>9. Weight(i.att) \in 1..Budget /\ Weight(j.att) \in 1..Budget  BY <2>2, <3>2, <3>5
    <3>10. Cardinality(Units(Weights(rest))) \in Nat
      BY <3>1, <3>3, UnitsFinite, LimitsAssumption
    <3> QED  BY <2>3, <3>6, <3>7, <3>8, <3>9, <3>10, LimitsAssumption DEF InFlight
  <2>5. \A j \in FanOut : Resident(j) \in Nat /\ Resident(j) <= Weight(j.att)
    BY <2>1, <2>4, ReadFitsWeight
  <2>6. held \in [FanOut -> Nat] /\ \A j \in FanOut : held[j] <= Weights(FanOut)[j]
    BY <2>5 DEF Weights
  <2> HIDE DEF held
  <2>7. Cardinality(Units(held)) <= InFlight
    BY <2>1, <2>2, <2>6, UnitsSmaller, LimitsAssumption DEF InFlight
  <2>8. Cardinality(Units(held)) \in Nat
    <3>1. \A j \in FanOut : held[j] \in 0..Budget
      BY <2>2, <2>5, <2>6, LimitsAssumption DEF held
    <3>2. held \in [FanOut -> 0..Budget]  BY <2>6, <3>1
    <3> QED  BY <2>1, <3>2, UnitsFinite, LimitsAssumption
  <2>9. Cardinality(Units(held)) <= Budget  BY <2>3, <2>7, <2>8, LimitsAssumption
  <2> QED  BY <2>9 DEF held
<1> QED  BY <1>1, <1>2, <1>3, PTL DEF UploadsSpec

-----------------------------------------------------------------------------
(* SharedAlbums.  The watcher's summaries and the notices it owes; rooms,   *)
(* which are of one album for good, and the downloads into them.            *)

Polls == {[at |-> "idle"]} \cup [at: {"scan"}, left: SUBSET Albums, notify: SUBSET Albums]
LiveRooms == [room: Rooms, album: Albums]
IsJob(j) == j.room \in Rooms /\ j.album \in Albums /\ j = [room |-> j.room, album |-> j.album, left |-> j.left]
Notified(a) == poll.at = "scan" /\ a \in poll.notify

AlbumsShape ==
  /\ album \in [Albums -> SUBSET Photos] /\ assets \in [Albums -> SUBSET Photos]
  /\ changed \subseteq Albums /\ based \subseteq Albums /\ poll \in Polls /\ started \in Nat
  /\ rooms \in [Albums -> Rooms \cup {NoRoom}] /\ live \subseteq LiveRooms
  /\ \A j \in downloads : IsJob(j)

(* A photo of a recorded summary that is still to be told is in the poll's notice. *)
NewsInv ==
  /\ \A a \in Albums : album[a] \subseteq used /\ assets[a] \subseteq used
  /\ \A a \in based : \A x \in assets[a] : <<a, x>> \in untold => Notified(a)

(* A room is of one album for good, and what goes to it was picked there. *)
RoomsInv ==
  /\ dialog.step = "photos" => dialog.album \in Albums /\ dialog.shown = screen
  /\ \A l \in live : l.room <= started
  /\ \A a \in Albums : rooms[a] <= started
  /\ \A a \in Albums, l \in live : l.room = rooms[a] => l.album = a
  /\ \A j \in downloads : /\ j.room <= started /\ Pairs(j.album, j.left) \subseteq picked
                          /\ \A l \in live : l.room = j.room => l.album = j.album
  /\ \A f \in files : /\ f[1] \in Rooms /\ f[1] <= started
                      /\ \A l \in live : l.room = f[1] => <<l.album, f[2]>> \in picked

AlbumsInv == AlbumsShape /\ NewsInv /\ RoomsInv

-----------------------------------------------------------------------------
LEMMA RoomNumbers == /\ Rooms \subseteq Nat /\ MaxDownloads \in Nat /\ NoRoom = 0
                     /\ \A n \in Nat : n < MaxDownloads => n + 1 \in Rooms
BY AlbumsAssumption DEF Rooms, NoRoom

LEMMA AlbumsStart == ASSUME AlbumsInit PROVE AlbumsInv
<1>1. AlbumsShape
  BY DEF AlbumsInit, AlbumsShape, Polls
<1>2. NewsInv
  BY DEF AlbumsInit, NewsInv
<1>3. RoomsInv
  BY DEF AlbumsInit, RoomsInv, None, NoRoom
<1> QED BY <1>1, <1>2, <1>3 DEF AlbumsInv

(* What the three parts of the invariant look at. *)
LEMMA NewsLooks == ASSUME NewsInv, UNCHANGED <<album, used, assets, based, poll, untold>> PROVE NewsInv'
BY DEF NewsInv, Notified

LEMMA RoomsLook == ASSUME RoomsInv, UNCHANGED <<dialog, screen, live, rooms, downloads, files, started, picked>> PROVE RoomsInv'
BY DEF RoomsInv

(* The dialog changes: what is shown is what it keeps. *)
LEMMA DialogMoves ==
  ASSUME RoomsInv, UNCHANGED <<live, rooms, downloads, files, started, picked>>,
         dialog'.step = "photos" => dialog'.album \in Albums /\ dialog'.shown = screen'
  PROVE  RoomsInv'
BY DEF RoomsInv

LEMMA SubscribersKeep == ASSUME AlbumsInv, NEW a \in Albums, NEW x \in Photos, Add(a, x) \/ TakeOff(a, x) PROVE AlbumsInv'
<1>1. AlbumsShape /\ NewsInv /\ RoomsInv
  BY DEF AlbumsInv
<1>2. UNCHANGED <<assets, based, poll, dialog, screen, rooms, live, downloads, files, started, picked>>
  BY DEF Add, TakeOff, Watcher, Downloads
<1>3. /\ changed' \subseteq Albums /\ album' \in [Albums -> SUBSET Photos] /\ used \subseteq used'
      /\ \A b \in Albums : album'[b] \subseteq used'
  <2>1. album \in [Albums -> SUBSET Photos] /\ changed \subseteq Albums /\ \A b \in Albums : album[b] \subseteq used
    BY <1>1 DEF AlbumsShape, NewsInv
  <2>2. CASE Add(a, x)
    BY <2>1, <2>2 DEF Add
  <2>3. CASE TakeOff(a, x)
    BY <2>1, <2>3 DEF TakeOff
  <2> QED BY <2>2, <2>3
<1>4. AlbumsShape'
  BY <1>1, <1>2, <1>3 DEF AlbumsShape
<1>5. ASSUME NEW b \in based, NEW y \in assets[b], <<b, y>> \in untold' PROVE <<b, y>> \in untold
  <2>1. b \in Albums /\ y \in used
    BY <1>1, <1>5 DEF AlbumsShape, NewsInv
  <2>2. CASE Add(a, x)
    <3>1. y # x
      BY <2>1, <2>2 DEF Add
    <3> QED BY <1>5, <2>2, <3>1 DEF Add
  <2>3. CASE TakeOff(a, x)
    BY <1>5, <2>3 DEF TakeOff
  <2> QED BY <2>2, <2>3
<1>6. NewsInv'
  <2>1. \A b \in Albums : assets'[b] \subseteq used'
    BY <1>1, <1>2, <1>3 DEF NewsInv
  <2>2. ASSUME NEW b \in based', NEW y \in assets'[b], <<b, y>> \in untold' PROVE Notified(b)'
    BY <1>1, <1>2, <1>5, <2>2 DEF NewsInv, Notified
  <2> QED BY <1>3, <2>1, <2>2 DEF NewsInv
<1>7. RoomsInv'
  BY <1>1, <1>2, RoomsLook
<1> QED BY <1>4, <1>6, <1>7 DEF AlbumsInv

LEMMA PollKeeps == ASSUME AlbumsInv, Poll PROVE AlbumsInv'
<1> DEFINE new == [at |-> "scan", left |-> changed, notify |-> {}]
<1>1. AlbumsShape /\ NewsInv /\ RoomsInv
  BY DEF AlbumsInv
<1>2. /\ poll.at = "idle" /\ poll' = new /\ changed' = {}
      /\ UNCHANGED <<album, used, assets, based, dialog, screen, rooms, live, downloads,
                     files, started, picked, untold>>
  BY DEF Poll, Downloads
<1>3. new \in Polls
  BY <1>1 DEF Polls, AlbumsShape
<1> HIDE DEF new
<1>4. AlbumsShape'
  BY <1>1, <1>2, <1>3 DEF AlbumsShape
<1>5. \A a \in Albums : ~Notified(a)
  BY <1>2 DEF Notified
<1>6. NewsInv'
  BY <1>1, <1>2, <1>5 DEF NewsInv, AlbumsShape
<1>7. RoomsInv'
  BY <1>1, <1>2, RoomsLook
<1> QED BY <1>4, <1>6, <1>7 DEF AlbumsInv

LEMMA SummarizeKeeps == ASSUME AlbumsInv, NEW a \in Albums, Summarize(a) PROVE AlbumsInv'
<1> DEFINE notify == IF News(a, album[a]) THEN poll.notify \cup {a} ELSE poll.notify
           new == [poll EXCEPT !.left = @ \ {a}, !.notify = notify]
<1>1. AlbumsShape /\ NewsInv /\ RoomsInv
  BY DEF AlbumsInv
<1>2. /\ poll.at = "scan" /\ assets' = [assets EXCEPT ![a] = album[a]] /\ based' = based \cup {a}
      /\ untold' = IF a \in based THEN untold ELSE untold \ Pairs(a, album[a])
      /\ poll' = new
      /\ UNCHANGED <<album, used, changed, dialog, screen, rooms, live, downloads,
                     files, started, picked>>
  BY DEF Summarize, Apple, Downloads
<1>3. poll \in [at: {"scan"}, left: SUBSET Albums, notify: SUBSET Albums]
  BY <1>1, <1>2 DEF AlbumsShape, Polls
<1>4. new \in Polls /\ new.at = "scan" /\ new.notify = notify
  BY <1>3 DEF Polls
<1> HIDE DEF new
<1>5. /\ assets' \in [Albums -> SUBSET Photos] /\ assets'[a] = album[a] /\ \A b \in Albums : b # a => assets'[b] = assets[b]
      /\ \A b \in Albums : assets'[b] \subseteq used'
  BY <1>1, <1>2 DEF AlbumsShape, NewsInv
<1>6. AlbumsShape'
  BY <1>1, <1>2, <1>4, <1>5 DEF AlbumsShape
<1>7. ASSUME NEW b \in based', NEW x \in assets'[b], <<b, x>> \in untold' PROVE Notified(b)'
  <2>1. b \in Albums /\ <<b, x>> \in untold
    BY <1>2, <1>6, <1>7 DEF AlbumsShape
  <2>2. poll'.at = "scan" /\ poll'.notify = notify /\ poll.notify \subseteq notify
    BY <1>2, <1>4
  <2>3. CASE b # a
    <3>1. b \in based /\ x \in assets[b]
      BY <1>2, <1>5, <1>7, <2>1, <2>3
    <3>2. Notified(b)
      BY <1>1, <2>1, <3>1 DEF NewsInv
    <3> QED BY <2>2, <3>2 DEF Notified
  <2>4. CASE b = a
    <3>1. a \in based /\ x \in album[a]
      BY <1>2, <1>5, <1>7, <2>4 DEF Pairs
    <3>2. CASE x \in assets[a]
      <4>1. Notified(a)
        BY <1>1, <2>1, <2>4, <3>1, <3>2 DEF NewsInv
      <4> QED BY <2>2, <2>4, <4>1 DEF Notified
    <3>3. CASE x \notin assets[a]
      BY <2>2, <2>4, <3>1, <3>3 DEF Notified, News
    <3> QED BY <3>2, <3>3
  <2> QED BY <2>3, <2>4
<1>8. NewsInv'
  BY <1>1, <1>2, <1>5, <1>7 DEF NewsInv
<1>9. RoomsInv'
  BY <1>1, <1>2, RoomsLook
<1> QED BY <1>6, <1>8, <1>9 DEF AlbumsInv

LEMMA PollEndsKeeps == ASSUME AlbumsInv, Tell \/ PollFails PROVE AlbumsInv'
<1>1. AlbumsShape /\ NewsInv /\ RoomsInv
  BY DEF AlbumsInv
<1>2. /\ poll.at = "scan" /\ untold' = untold \ UNION {Pairs(a, assets[a]) : a \in poll.notify} /\ poll' = [at |-> "idle"]
      /\ UNCHANGED <<album, used, changed, assets, based, dialog, screen, rooms, live,
                     downloads, files, started, picked>>
  BY DEF Tell, PollFails, Apple, Downloads
<1>3. AlbumsShape'
  BY <1>1, <1>2 DEF AlbumsShape, Polls
<1>4. ASSUME NEW b \in based, NEW x \in assets[b] PROVE <<b, x>> \notin untold'
  <2>1. CASE b \in poll.notify
    <3>1. <<b, x>> \in Pairs(b, assets[b])
      BY <1>4 DEF Pairs
    <3> QED BY <1>2, <2>1, <3>1
  <2>2. CASE b \notin poll.notify
    BY <1>1, <1>2, <2>2 DEF NewsInv, Notified
  <2> QED BY <2>1, <2>2
<1>5. NewsInv'
  BY <1>1, <1>2, <1>4 DEF NewsInv
<1>6. RoomsInv'
  BY <1>1, <1>2, RoomsLook
<1> QED BY <1>3, <1>5, <1>6 DEF AlbumsInv

LEMMA DialogKeeps ==
  ASSUME AlbumsInv, AskAlbum \/ WrongNumbers \/ \E a \in Albums : ChooseAlbum(a)
  PROVE  AlbumsInv'
<1>1. AlbumsShape /\ NewsInv /\ RoomsInv
  BY DEF AlbumsInv
<1>2. UNCHANGED <<album, used, changed, assets, based, poll, rooms, live, downloads, files, started, picked, untold>>
  BY DEF AskAlbum, WrongNumbers, ChooseAlbum, Apple, Watcher, Downloads
<1>3. dialog'.step = "photos" => dialog'.album \in Albums /\ dialog'.shown = screen'
  <2>1. CASE AskAlbum \/ WrongNumbers
    BY <2>1 DEF AskAlbum, WrongNumbers, None
  <2>2. ASSUME NEW a \in Albums, ChooseAlbum(a) PROVE dialog'.step = "photos" => dialog'.album \in Albums /\ dialog'.shown = screen'
    BY <2>2 DEF ChooseAlbum, None
  <2> QED BY <2>1, <2>2
<1>4. AlbumsShape'
  BY <1>1, <1>2 DEF AlbumsShape
<1>5. NewsInv' /\ RoomsInv'
  BY <1>1, <1>2, <1>3, NewsLooks, DialogMoves
<1> QED BY <1>4, <1>5 DEF AlbumsInv

(* A download starts, in the room of its album: the one it has, or a new one. *)
LEMMA DownloadStarts ==
  ASSUME AlbumsShape, RoomsInv, NEW a \in Albums, NEW r \in Rooms, NEW S, started' = started + 1, started < MaxDownloads,
         RoomOf(a, r), downloads' = downloads \cup {[room |-> r, album |-> a, left |-> S]},
         picked' = picked \cup Pairs(a, S), files' = files, dialog' = None
  PROVE  /\ rooms' \in [Albums -> Rooms \cup {NoRoom}] /\ live' \subseteq LiveRooms /\ \A j \in downloads' : IsJob(j)
         /\ RoomsInv'
<1> DEFINE new == [room |-> r, album |-> a, left |-> S]
           opened == [room |-> r, album |-> a]
<1>1. started \in Nat /\ Rooms \subseteq Nat /\ NoRoom = 0 /\ \A b \in Albums : rooms[b] \in Nat /\ rooms[b] <= started
  BY RoomNumbers DEF AlbumsShape, RoomsInv
<1>2. live \subseteq LiveRooms /\ \A l \in live : l.room \in Rooms /\ l.album \in Albums /\ l.room <= started
  BY DEF AlbumsShape, RoomsInv, LiveRooms
<1>3. new.room = r /\ new.album = a /\ new.left = S /\ IsJob(new)
  BY DEF IsJob
<1>4. opened \in LiveRooms /\ opened.room = r /\ opened.album = a
  BY DEF LiveRooms
<1>5. \/ rooms[a] # NoRoom /\ r = rooms[a] /\ UNCHANGED <<rooms, live>>
      \/ r = started + 1 /\ rooms' = [rooms EXCEPT ![a] = r] /\ live' = live \cup {opened}
  BY DEF RoomOf
<1> HIDE DEF new, opened
<1>6. rooms' \in [Albums -> Rooms \cup {NoRoom}] /\ live' \subseteq LiveRooms
  BY <1>2, <1>4, <1>5 DEF AlbumsShape
<1>7. r <= started'
  BY <1>1, <1>5
<1>8. /\ \A l \in live' : l.room <= started'
      /\ \A b \in Albums : rooms'[b] <= started' /\ (b # a => rooms'[b] = rooms[b])
      /\ \A l \in live' : l \in live \/ (l = opened /\ r = started + 1)
      /\ rooms'[a] = r
  <2>1. \A l \in live' : l \in live \/ (l = opened /\ r = started + 1)
    BY <1>5
  <2>2. \A l \in live' : l.room <= started'
    BY <1>1, <1>2, <1>4, <1>7, <2>1
  <2>3. rooms'[a] = r /\ \A b \in Albums : b # a => rooms'[b] = rooms[b]
    BY <1>5 DEF AlbumsShape
  <2>4. \A b \in Albums : rooms'[b] <= started'
    BY <1>1, <1>7, <2>3
  <2> QED BY <2>1, <2>2, <2>3, <2>4
<1>9. \A b \in Albums, l \in live' : l.room = rooms'[b] => l.album = b
  <2>1. ASSUME NEW b \in Albums, NEW l \in live', l.room = rooms'[b] PROVE l.album = b
    <3>1. CASE r = started + 1 /\ l = opened
      BY <1>1, <1>4, <1>8, <2>1, <3>1
    <3>2. CASE l \in live
      <4>1. CASE b = a /\ r = started + 1
        BY <1>1, <1>2, <1>8, <2>1, <3>2, <4>1
      <4>2. CASE ~(b = a /\ r = started + 1)
        <5>1. rooms'[b] = rooms[b]
          BY <1>5, <1>8, <4>2
        <5> QED BY <2>1, <3>2, <5>1 DEF RoomsInv
      <4> QED BY <4>1, <4>2
    <3> QED BY <1>8, <3>1, <3>2
  <2> QED BY <2>1
<1>10. ASSUME NEW j \in downloads' PROVE /\ IsJob(j) /\ j.room <= started' /\ Pairs(j.album, j.left) \subseteq picked'
                                          /\ \A l \in live' : l.room = j.room => l.album = j.album
  <2>1. CASE j = new
    <3>1. \A l \in live' : l.room = r => l.album = a
      BY <1>8, <1>9
    <3> QED BY <1>3, <1>7, <2>1, <3>1
  <2>2. CASE j \in downloads
    <3>1. /\ IsJob(j) /\ j.room \in Nat /\ j.room <= started /\ Pairs(j.album, j.left) \subseteq picked
          /\ \A l \in live : l.room = j.room => l.album = j.album
      BY <1>1, <2>2 DEF AlbumsShape, RoomsInv, IsJob
    <3>2. \A l \in live' : l.room = j.room => l \in live
      BY <1>1, <1>4, <1>8, <3>1
    <3> QED BY <1>1, <3>1, <3>2
  <2> QED BY <1>10, <2>1, <2>2 DEF new
<1>11. ASSUME NEW f \in files' PROVE /\ f[1] \in Rooms /\ f[1] <= started'
                                     /\ \A l \in live' : l.room = f[1] => <<l.album, f[2]>> \in picked'
  <2>1. /\ f[1] \in Rooms /\ f[1] \in Nat /\ f[1] <= started
        /\ \A l \in live : l.room = f[1] => <<l.album, f[2]>> \in picked
    BY <1>1, <1>11 DEF RoomsInv
  <2>2. \A l \in live' : l.room = f[1] => l \in live
    BY <1>1, <1>4, <1>8, <2>1
  <2> QED BY <1>1, <2>1, <2>2
<1>12. RoomsInv'
  BY <1>8, <1>9, <1>10, <1>11 DEF RoomsInv, None
<1> QED BY <1>6, <1>10, <1>12

LEMMA ChoosePhotosKeeps == ASSUME AlbumsInv, ChoosePhotos PROVE AlbumsInv'
<1>1. AlbumsShape /\ NewsInv /\ RoomsInv
  BY DEF AlbumsInv
<1>2. /\ dialog.step = "photos" /\ dialog' = None /\ started < MaxDownloads /\ started' = started + 1
      /\ UNCHANGED <<album, used, changed, assets, based, poll, files, untold>>
  BY DEF ChoosePhotos, Apple, Watcher
<1>3. dialog.album \in Albums /\ dialog.shown = screen /\ started' \in Nat
  BY <1>1, <1>2 DEF RoomsInv, AlbumsShape
<1>4. NewsInv'
  BY <1>1, <1>2, NewsLooks
<1>5. CASE UNCHANGED <<rooms, live, downloads, picked>>
  <2>1. AlbumsShape'
    BY <1>1, <1>2, <1>3, <1>5 DEF AlbumsShape
  <2>2. \A n \in Nat : n <= started => n <= started'
    BY <1>1, <1>2 DEF AlbumsShape
  <2>3. Rooms \subseteq Nat /\ NoRoom \in Nat
    BY RoomNumbers
  <2>4. RoomsInv'
    BY <1>1, <1>2, <1>5, <2>2, <2>3 DEF RoomsInv, AlbumsShape, IsJob, LiveRooms, None
  <2> QED BY <1>4, <2>1, <2>4 DEF AlbumsInv
<1>6. ASSUME NEW s \in Selection, NEW r \in Rooms, RoomOf(dialog.album, r),
             downloads' = downloads \cup {[room |-> r, album |-> dialog.album, left |-> Chosen(s)]},
             picked' = picked \cup Pairs(dialog.album, {screen[i] : i \in s})
      PROVE  AlbumsInv'
  <2>1. Chosen(s) = {screen[i] : i \in s}
    BY <1>3 DEF Chosen
  <2> HIDE DEF Chosen
  <2>2. /\ rooms' \in [Albums -> Rooms \cup {NoRoom}] /\ live' \subseteq LiveRooms /\ \A j \in downloads' : IsJob(j)
        /\ RoomsInv'
    BY <1>1, <1>2, <1>3, <1>6, <2>1, DownloadStarts
  <2>3. AlbumsShape'
    BY <1>1, <1>2, <1>3, <2>2 DEF AlbumsShape
  <2> QED BY <1>4, <2>2, <2>3 DEF AlbumsInv
<1> QED BY <1>5, <1>6 DEF ChoosePhotos

LEMMA DeliverKeeps == ASSUME AlbumsInv, NEW j \in downloads, NEW x \in Photos, Deliver(j, x) PROVE AlbumsInv'
<1> DEFINE rest == [j EXCEPT !.left = @ \ {x}]
<1>1. AlbumsShape /\ NewsInv /\ RoomsInv /\ IsJob(j)
  BY DEF AlbumsInv, AlbumsShape
<1>2. /\ x \in j.left /\ downloads' \subseteq (downloads \ {j}) \cup {rest}
      /\ files' = files \cup {<<j.room, x>>} \/ files' = files
      /\ UNCHANGED <<album, used, changed, assets, based, poll, dialog, screen, rooms,
                     live, started, picked, untold>>
  BY DEF Deliver, Apple, Watcher
<1>3. rest.room = j.room /\ rest.album = j.album /\ rest.left = j.left \ {x} /\ rest = [room |-> rest.room, album |-> rest.album, left |-> rest.left]
  BY <1>1 DEF IsJob
<1> HIDE DEF rest
<1>4. NewsInv'
  BY <1>1, <1>2, NewsLooks
<1>5. \A k \in downloads' : IsJob(k)
  BY <1>1, <1>2, <1>3 DEF AlbumsShape, IsJob
<1>6. AlbumsShape'
  BY <1>1, <1>2, <1>5 DEF AlbumsShape
<1>7. /\ j.room <= started /\ Pairs(j.album, j.left) \subseteq picked
      /\ \A l \in live : l.room = j.room => l.album = j.album
  BY <1>1 DEF RoomsInv
<1>8. <<j.album, x>> \in picked
  BY <1>2, <1>7 DEF Pairs
<1>9. ASSUME NEW k \in downloads' PROVE /\ k.room <= started /\ Pairs(k.album, k.left) \subseteq picked
                                         /\ \A l \in live : l.room = k.room => l.album = k.album
  <2>1. CASE k = rest
    BY <1>3, <1>7, <2>1 DEF Pairs
  <2>2. CASE k \in downloads
    BY <1>1, <2>2 DEF RoomsInv
  <2> QED BY <1>2, <1>9, <2>1, <2>2
<1>10. ASSUME NEW f \in files' PROVE /\ f[1] \in Rooms /\ f[1] <= started
                                     /\ \A l \in live : l.room = f[1] => <<l.album, f[2]>> \in picked
  <2>1. CASE f \in files
    BY <1>1, <2>1 DEF RoomsInv
  <2>2. CASE f = <<j.room, x>>
    BY <1>1, <1>7, <1>8, <2>2 DEF IsJob
  <2> QED BY <1>2, <1>10, <2>1, <2>2
<1>11. RoomsInv'
  BY <1>1, <1>2, <1>9, <1>10 DEF RoomsInv
<1> QED BY <1>4, <1>6, <1>11 DEF AlbumsInv

LEMMA DeleteRoomKeeps == ASSUME AlbumsInv, NEW a \in Albums, DeleteRoom(a) PROVE AlbumsInv'
<1>1. AlbumsShape /\ NewsInv /\ RoomsInv
  BY DEF AlbumsInv
<1>2. /\ rooms[a] # NoRoom /\ rooms' = [rooms EXCEPT ![a] = NoRoom] /\ live' \subseteq live
      /\ UNCHANGED <<album, used, changed, assets, based, poll, dialog, screen,
                     downloads, files, started, picked, untold>>
  BY DEF DeleteRoom, Apple, Watcher
<1>3. NewsInv'
  BY <1>1, <1>2, NewsLooks
<1>4. /\ rooms' \in [Albums -> Rooms \cup {NoRoom}] /\ rooms'[a] = NoRoom /\ \A b \in Albums : b # a => rooms'[b] = rooms[b]
  BY <1>1, <1>2 DEF AlbumsShape
<1>5. AlbumsShape'
  BY <1>1, <1>2, <1>4 DEF AlbumsShape
<1>6. \A l \in live : l.room \in Rooms /\ l.room # NoRoom
  BY <1>1, AlbumsAssumption DEF AlbumsShape, LiveRooms, Rooms, NoRoom
<1>7. NoRoom <= started
  BY <1>1 DEF AlbumsShape, NoRoom
<1>8. \A b \in Albums : rooms'[b] <= started
  BY <1>1, <1>4, <1>7 DEF RoomsInv
<1>9. \A b \in Albums, l \in live' : l.room = rooms'[b] => l.album = b
  BY <1>1, <1>2, <1>4, <1>6 DEF RoomsInv
<1>10. RoomsInv'
  BY <1>1, <1>2, <1>8, <1>9 DEF RoomsInv
<1> QED BY <1>3, <1>5, <1>10 DEF AlbumsInv

LEMMA RestartKeepsAlbums == ASSUME AlbumsInv, RestartAlbums PROVE AlbumsInv'
<1>1. AlbumsShape /\ NewsInv /\ RoomsInv
  BY DEF AlbumsInv
<1>2. /\ assets' = [a \in Albums |-> {}] /\ based' = {} /\ poll' = [at |-> "idle"] /\ dialog' = None
      /\ rooms' = [a \in Albums |-> NoRoom] /\ downloads' = {}
      /\ UNCHANGED <<album, used, changed, live, files, started, picked>>
  BY DEF RestartAlbums, Apple
<1>3. AlbumsShape'
  BY <1>1, <1>2 DEF AlbumsShape, Polls
<1>4. NewsInv'
  BY <1>1, <1>2 DEF NewsInv
<1>5. NoRoom <= started /\ \A l \in live : l.room # NoRoom
  BY <1>1, AlbumsAssumption DEF AlbumsShape, LiveRooms, Rooms, NoRoom
<1>6. RoomsInv'
  BY <1>1, <1>2, <1>5 DEF RoomsInv, None
<1> QED BY <1>3, <1>4, <1>6 DEF AlbumsInv

LEMMA AlbumsStep == AlbumsInv /\ [AlbumsNext]_albumsVars => AlbumsInv'
<1> SUFFICES ASSUME AlbumsInv, [AlbumsNext]_albumsVars PROVE AlbumsInv'
  OBVIOUS
<1>1. CASE UNCHANGED albumsVars
  <2>1. AlbumsShape' /\ NewsInv'
    BY <1>1, NewsLooks DEF albumsVars, AlbumsInv, AlbumsShape
  <2>2. RoomsInv'
    BY <1>1, RoomsLook DEF albumsVars, AlbumsInv
  <2> QED BY <2>1, <2>2 DEF AlbumsInv
<1> QED BY <1>1, SubscribersKeep, PollKeeps, SummarizeKeeps, PollEndsKeeps, DialogKeeps, ChoosePhotosKeeps, DeliverKeeps,
           DeleteRoomKeeps, RestartKeepsAlbums DEF AlbumsNext

(* The user is told of every photo a recorded summary has beyond the first, *)
(* unless the poll that recorded it failed or was cut short, and a room of  *)
(* an album gets what was picked there from the list shown.                 *)
THEOREM AlbumsToldAndPicked == AlbumsSpec => []AlbumsRight
<1>1. AlbumsInv => AlbumsRight
  BY DEF AlbumsInv, NewsInv, RoomsInv, Notified, AlbumsRight, NewsTold, FilesPicked
<1> QED BY <1>1, AlbumsStart, AlbumsStep, PTL DEF AlbumsSpec

-----------------------------------------------------------------------------
(* ChatHistory.  What a room still misses is older than all it has, while   *)
(* its pages are not done; numbers of one contact share a room.             *)

Syncs == {Off} \cup [at: {"run"}, left: SUBSET Chats] \cup [at: {"wait"}, c: Chats, left: SUBSET Chats]

ChatsShape ==
  /\ HistoryTypeOK
  /\ sync \in Syncs /\ split \subseteq Chats /\ (chatsSynced => sync = Off)
  /\ \A c \in Chats \ made : timeline[c] = {}

(* A room holds messages of its contact. *)
OwnMessages == \A c \in Chats : \A t \in timeline[c] : db[t] \in Chats /\ Contact[db[t]] = Contact[c]

(* Rooms made without the merge are known for it. *)
SplitInv ==
  /\ ~known => made \subseteq split /\ (sync # Off => Chats \subseteq split)
  /\ sync = Off /\ ~chatsSynced => made \subseteq split

(* While no number of a contact is split, one of them at most is a room or *)
(* about to become one.                                                    *)
Unsplit(c) == known /\ Twins(c) \cap split = {}
MergeInv ==
  \A c \in Chats : Unsplit(c) => \A d \in Twins(c) :
    /\ c \in made /\ d \in made => c = d
    /\ sync # Off => /\ c \in sync.left /\ d \in sync.left => c = d
                     /\ ~(c \in made /\ d \in sync.left)

(* What a room is owed and does not have is older than all it has, and its *)
(* pages are not done.                                                     *)
Owners(c) == IF Twins(c) \cap split # {} THEN {c} ELSE Twins(c)
Missing(c) == {t \in Times : db[t] \in Owners(c) /\ t \notin timeline[c] \cup unread \cup uneven}
PagesInv ==
  \A c \in made : \A t \in Missing(c) :
    /\ c \notin pages
    /\ \A u \in timeline[c] : t < u
    /\ c \in forward => timeline[c] # {}

ChatsInv == ChatsShape /\ OwnMessages /\ SplitInv /\ MergeInv /\ PagesInv

-----------------------------------------------------------------------------
(* Least and greatest elements. *)
LEMMA LeastOf == ASSUME NEW T, T \subseteq Nat, T # {} PROVE \E x \in T : \A y \in T : x <= y
<1> DEFINE R == {ss \in Nat \X Nat : ss[1] < ss[2]}
<1>1. IsWellFoundedOn(R, Nat)
  BY NatLessThanWellFounded DEF OpToRel
<1>2. \A x, y \in Nat : x < y => <<x, y>> \in R
  OBVIOUS
<1> HIDE DEF R
<1>3. PICK x \in T : \A y \in T : <<y, x>> \notin R
  BY <1>1, WFMin
<1>4. ASSUME NEW y \in T PROVE x <= y
  <2>1. x \in Nat /\ y \in Nat /\ ~(y < x)
    BY <1>2, <1>3
  <2> QED BY <2>1
<1> QED BY <1>4

LEMMA GreatestOf == ASSUME NEW T, T \subseteq Nat, T # {}, NEW n \in Nat, \A x \in T : x <= n
                    PROVE  \E x \in T : \A y \in T : y <= x
<1> DEFINE D == {n - x : x \in T}
<1>1. D \subseteq Nat /\ D # {}
  <2>1. ASSUME NEW x \in T PROVE n - x \in Nat
    BY <2>1
  <2> QED BY <2>1
<1>2. PICK d \in D : \A e \in D : d <= e
  BY <1>1, LeastOf
<1>3. PICK x \in T : d = n - x
  OBVIOUS
<1>4. ASSUME NEW y \in T PROVE y <= x
  <2>1. n - y \in D
    OBVIOUS
  <2>2. n - x <= n - y /\ x \in Nat /\ y \in Nat
    BY <1>2, <1>3, <2>1
  <2> QED BY <2>2
<1> QED BY <1>4

(* A finite set of naturals is bounded: else some bounded one stops being so *)
(* when an element is added.                                                 *)
LEMMA FiniteIsBounded == ASSUME NEW S, S \subseteq Nat, IsFiniteSet(S) PROVE \E n \in Nat : \A x \in S : x <= n
<1> DEFINE Bounded(T) == \E n \in Nat : \A x \in T : x <= n
           Sizes == {k \in Nat : \E T \in SUBSET S : Cardinality(T) = k /\ ~Bounded(T)}
<1>1. ASSUME Sizes # {} PROVE FALSE
  <2>1. Sizes \subseteq Nat
    OBVIOUS
  <2>2. PICK k \in Sizes : \A m \in Sizes : k <= m
    <3> HIDE DEF Sizes
    <3> QED BY <1>1, <2>1, LeastOf
  <2>3. PICK T \in SUBSET S : Cardinality(T) = k /\ ~Bounded(T)
    OBVIOUS
  <2>4. T # {} /\ IsFiniteSet(T)
    BY <2>3, FS_Subset
  <2>5. PICK x \in T : TRUE
    BY <2>4
  <2>6. /\ T \ {x} \in SUBSET S /\ Cardinality(T \ {x}) = k - 1
    BY <2>3, <2>4, <2>5, FS_RemoveElement
  <2>7. Cardinality(T) \in Nat /\ Cardinality(T \ {x}) \in Nat
    BY <2>4, FS_CardinalityType, FS_RemoveElement
  <2>8. Bounded(T \ {x})
    <3>1. CASE ~Bounded(T \ {x})
      <4>1. k - 1 \in Sizes
        BY <2>6, <2>7, <3>1
      <4> QED BY <2>2, <2>3, <2>7, <4>1
    <3> QED BY <3>1
  <2>9. PICK n \in Nat : \A y \in T \ {x} : y <= n
    BY <2>8
  <2>10. x \in Nat
    BY <2>3, <2>5
  <2>11. \A y \in T : y <= IF x <= n THEN n ELSE x
    BY <2>9, <2>10
  <2>12. (IF x <= n THEN n ELSE x) \in Nat
    BY <2>10
  <2>13. Bounded(T)
    BY <2>11, <2>12
  <2> QED BY <2>3, <2>13
<1>2. Sizes = {}
  BY <1>1
<1>3. Cardinality(S) \in Nat
  BY FS_CardinalityType
<1> QED BY <1>2, <1>3

LEMMA MaxOf == ASSUME NEW S, S \subseteq Nat, IsFiniteSet(S), S # {} PROVE Max(S) \in S /\ \A x \in S : x <= Max(S)
<1>1. PICK n \in Nat : \A x \in S : x <= n
  BY FiniteIsBounded
<1>2. PICK m \in S : \A x \in S : x <= m
  BY <1>1, GreatestOf
<1>3. \A x \in S : m >= x
  BY <1>2
<1>4. Max(S) \in S /\ \A x \in S : Max(S) >= x
  BY <1>3 DEF Max
<1> QED BY <1>4

LEMMA MinOf == ASSUME NEW S, S \subseteq Nat, S # {} PROVE Min(S) \in S /\ \A x \in S : Min(S) <= x
<1>1. PICK m \in S : \A x \in S : m <= x
  BY LeastOf
<1> QED BY <1>1 DEF Min

(* Of a page of n, what is left out has n newer ones in the page. *)
LEMMA PageIsFull ==
  ASSUME NEW X, X \subseteq Nat, IsFiniteSet(X), NEW n \in Nat,
         NEW page, page = {u \in X : Cardinality({v \in X : v > u}) < n}, page # X
  PROVE  IsFiniteSet(page) /\ Cardinality(page) >= n
<1> DEFINE Newer(u) == {v \in X : v > u}
<1>1. X \ page \subseteq Nat /\ X \ page # {}
  OBVIOUS
<1>2. PICK b \in Nat : \A x \in X : x <= b
  BY FiniteIsBounded
<1>3. PICK t \in X \ page : \A y \in X \ page : y <= t
  <2>1. \A x \in X \ page : x <= b
    BY <1>2
  <2> QED BY <1>1, <2>1, GreatestOf
<1>4. Newer(t) \subseteq page
  <2>1. ASSUME NEW v \in X, v > t, v \notin page PROVE FALSE
    <3>1. v \in Nat /\ t \in Nat /\ v <= t
      BY <1>3, <2>1
    <3> QED BY <2>1, <3>1
  <2> QED BY <2>1
<1>5. IsFiniteSet(page) /\ IsFiniteSet(Newer(t)) /\ Cardinality(page) \in Nat /\ Cardinality(Newer(t)) \in Nat
  BY FS_Subset, FS_CardinalityType
<1>6. Cardinality(Newer(t)) <= Cardinality(page)
  BY <1>4, <1>5, FS_Subset
<1>7. ~(Cardinality(Newer(t)) < n)
  BY <1>3
<1> QED BY <1>5, <1>6, <1>7

-----------------------------------------------------------------------------
LEMMA TwinFacts ==
  ASSUME split \subseteq Chats
  PROVE  \A c \in Chats : /\ Twins(c) \subseteq Chats /\ c \in Twins(c) /\ c \in Owners(c) /\ Owners(c) \subseteq Twins(c)
                          /\ \A d \in Twins(c) : Twins(d) = Twins(c) /\ Contact[d] = Contact[c]
BY DEF Twins, Owners

LEMMA TimeFacts ==
  ASSUME ChatsShape
  PROVE  /\ Times \subseteq Nat \ {0} /\ IsFiniteSet(Times)
         /\ \A c \in Chats : timeline[c] \subseteq Times
         /\ \A c : Stored(c) \subseteq Times
         /\ Newest \in Nat /\ \A t \in Times : db[t] # "none" => t <= Newest
<1>1. \A c \in Chats : timeline[c] \subseteq Times
  BY DEF ChatsShape, HistoryTypeOK
<1> DEFINE T == {0} \cup {t \in Times : db[t] # "none"}
<1>2. IsFiniteSet({0}) /\ IsFiniteSet({t \in Times : db[t] # "none"})
  BY TimesAssumption, FS_Singleton, FS_Subset
<1>3. T \subseteq Nat /\ IsFiniteSet(T) /\ T # {}
  <2>1. IsFiniteSet(T)
    BY <1>2, FS_Union
  <2>2. ASSUME NEW x \in T PROVE x \in Nat
    <3>1. x = 0 \/ x \in Times
      BY <2>2
    <3> QED BY <3>1, TimesAssumption
  <2> QED BY <2>1, <2>2
<1>4. Newest = Max(T)
  BY DEF Newest
<1>5. \A t \in Times : db[t] # "none" => t \in T
  OBVIOUS
<1> HIDE DEF T
<1>6. Newest \in T /\ \A t \in T : t <= Newest
  BY <1>3, <1>4, MaxOf
<1> QED BY <1>1, <1>3, <1>5, <1>6, TimesAssumption DEF Stored

LEMMA HistoryStart == ASSUME HistoryInit PROVE ChatsInv
<1>1. ChatsShape
  BY DEF HistoryInit, ChatsShape, HistoryTypeOK, Syncs
<1>2. OwnMessages /\ SplitInv
  BY DEF HistoryInit, OwnMessages, SplitInv
<1>3. MergeInv
  BY DEF HistoryInit, MergeInv
<1>4. PagesInv
  BY DEF HistoryInit, PagesInv
<1> QED BY <1>1, <1>2, <1>3, <1>4 DEF ChatsInv

(* Rooms and chats as they were; more of them may be known to be split. *)
LEMMA MergeKept ==
  ASSUME ChatsShape, MergeInv, made' = made, known' = known, split \subseteq split',
         sync' # Off => sync # Off /\ sync'.left \subseteq sync.left
  PROVE  MergeInv'
<1>1. \A c \in Chats : Twins(c)' = Twins(c) /\ (Unsplit(c)' => Unsplit(c))
  BY DEF Twins, Unsplit
<1>2. ASSUME NEW c \in Chats, Unsplit(c)', NEW d \in Twins(c)'
      PROVE  /\ c \in made' /\ d \in made' => c = d
             /\ sync' # Off => /\ c \in sync'.left /\ d \in sync'.left => c = d
                               /\ ~(c \in made' /\ d \in sync'.left)
  BY <1>1, <1>2 DEF MergeInv
<1> QED BY <1>2 DEF MergeInv

(* Messages as they were: what is owed may only become less. *)
LEMMA PagesKept ==
  ASSUME ChatsShape, PagesInv, UNCHANGED <<db, timeline, made, pages>>, unread \subseteq unread', uneven \subseteq uneven',
         forward' \subseteq forward, \A c \in made : Owners(c)' \subseteq Owners(c)
  PROVE  PagesInv'
<1>1. \A c \in made : Missing(c)' \subseteq Missing(c)
  BY DEF Missing
<1> QED BY <1>1 DEF PagesInv

LEMMA OwnersShrink ==
  ASSUME split \subseteq Chats, known' = known, split \subseteq split', split' \subseteq Chats
  PROVE  \A c \in Chats : Owners(c)' \subseteq Owners(c)
<1>1. \A c \in Chats : Twins(c)' = Twins(c) /\ c \in Twins(c)
  BY TwinFacts DEF Twins
<1> QED BY <1>1 DEF Owners

LEMMA WaitKeeps == ASSUME ChatsInv, Waited \/ FinishSync PROVE ChatsInv'
<1>1. ChatsShape /\ OwnMessages /\ SplitInv /\ MergeInv /\ PagesInv
  BY DEF ChatsInv
<1>2. /\ UNCHANGED <<db, timeline, made, forward, pages, known, unread, uneven, split>>
      /\ sync # Off /\ sync' \in Syncs
      /\ sync' # Off => sync'.left = sync.left /\ chatsSynced' = chatsSynced
      /\ sync' = Off => chatsSynced' = TRUE
      /\ chatsSynced' \in BOOLEAN
  <2>1. sync \in Syncs /\ chatsSynced \in BOOLEAN
    BY <1>1 DEF ChatsShape, HistoryTypeOK
  <2>2. CASE Waited
    <3>1. sync.at = "wait" /\ sync' = [at |-> "run", left |-> sync.left] /\ chatsSynced' = chatsSynced
      BY <2>2 DEF Waited
    <3>2. sync # Off /\ sync' # Off /\ sync'.left = sync.left
      BY <3>1 DEF Off
    <3>3. sync' \in Syncs
      BY <2>1, <3>1 DEF Syncs, Off
    <3> QED BY <2>1, <2>2, <3>1, <3>2, <3>3 DEF Waited, Histories
  <2>3. CASE FinishSync
    <3>1. sync # Off
      BY <2>3 DEF FinishSync, Off
    <3> QED BY <2>3, <3>1 DEF FinishSync, Histories, Syncs
  <2> QED BY <2>2, <2>3
<1>3. ChatsShape'
  BY <1>1, <1>2 DEF ChatsShape, HistoryTypeOK
<1>4. OwnMessages' /\ SplitInv'
  BY <1>1, <1>2 DEF OwnMessages, SplitInv
<1>5. MergeInv'
  BY <1>1, <1>2, MergeKept
<1>6. PagesInv'
  BY <1>1, <1>2, OwnersShrink, PagesKept DEF ChatsShape, HistoryTypeOK
<1> QED BY <1>3, <1>4, <1>5, <1>6 DEF ChatsInv

LEMMA StopSyncKeeps == ASSUME ChatsInv, StopSync PROVE ChatsInv'
<1>1. ChatsShape /\ OwnMessages /\ SplitInv /\ MergeInv /\ PagesInv
  BY DEF ChatsInv
<1>2. /\ UNCHANGED <<db, timeline, made, forward, pages, chatsSynced, unread, uneven>>
      /\ sync' = Off /\ known' \in BOOLEAN /\ split' = split \cup made
  BY DEF StopSync
<1>3. made \subseteq Chats /\ split \subseteq Chats /\ split' \subseteq Chats
  BY <1>1, <1>2 DEF ChatsShape, HistoryTypeOK
<1>4. ChatsShape'
  BY <1>1, <1>2, <1>3 DEF ChatsShape, HistoryTypeOK, Syncs
<1>5. OwnMessages' /\ SplitInv'
  BY <1>1, <1>2 DEF OwnMessages, SplitInv
<1>6. \A c \in made : ~Unsplit(c)'
  BY <1>2, <1>3 DEF Unsplit, Twins
<1>7. MergeInv'
  BY <1>2, <1>6 DEF MergeInv
<1>8. \A c \in made : c \in Owners(c) /\ Owners(c)' = {c}
  BY <1>2, <1>3 DEF Owners, Twins
<1>9. PagesInv'
  BY <1>1, <1>2, <1>8, PagesKept
<1> QED BY <1>4, <1>5, <1>7, <1>9 DEF ChatsInv

(* The first entry of a contact: the latest message is of one number. *)
LEMMA MergedOne ==
  ASSUME ChatsShape, NEW S \in SUBSET {c \in Chats : Stored(c) # {}}, NEW c \in Merged(S), NEW d \in Merged(S), d \in Twins(c)
  PROVE  c = d
<1>1. c \in Chats /\ d \in Chats /\ c \in S /\ d \in S /\ c \in Twins(d) /\ split \subseteq Chats
  BY TwinFacts DEF Merged, ChatsShape
<1>2. LastOf(c) <= LastOf(d) /\ LastOf(d) <= LastOf(c)
  BY <1>1 DEF Merged
<1>3. ASSUME NEW e \in S PROVE LastOf(e) \in Stored(e) /\ LastOf(e) \in Nat
  <2>1. Stored(e) \subseteq Times /\ Stored(e) # {} /\ Times \subseteq Nat \ {0} /\ IsFiniteSet(Times)
    BY <1>3, TimeFacts
  <2>2. IsFiniteSet(Stored(e)) /\ IsFiniteSet({0})
    BY <2>1, FS_Subset, FS_Singleton
  <2> DEFINE T == {0} \cup Stored(e)
  <2>3. T \subseteq Nat /\ IsFiniteSet(T) /\ T # {}
    <3>1. IsFiniteSet(T)
      BY <2>2, FS_Union
    <3>2. ASSUME NEW x \in T PROVE x \in Nat
      <4>1. x = 0 \/ x \in Stored(e)
        BY <3>2
      <4> QED BY <2>1, <4>1
    <3> QED BY <3>1, <3>2
  <2>4. LastOf(e) = Max(T)
    BY DEF LastOf
  <2>5. PICK t \in Stored(e) : TRUE
    BY <2>1
  <2>6. t \in T /\ t \in Nat \ {0}
    BY <2>1, <2>5
  <2>7. \A x \in T : x = 0 \/ x \in Stored(e)
    OBVIOUS
  <2> HIDE DEF T
  <2>8. Max(T) \in T /\ t <= Max(T) /\ Max(T) \in Nat
    BY <2>3, <2>6, MaxOf
  <2>9. Max(T) # 0
    BY <2>6, <2>8
  <2> QED BY <2>4, <2>7, <2>8, <2>9
<1>4. LastOf(c) = LastOf(d)
  BY <1>1, <1>2, <1>3
<1> QED BY <1>1, <1>3, <1>4 DEF Stored

LEMMA StartSyncKeeps == ASSUME ChatsInv, StartSync PROVE ChatsInv'
<1>1. ChatsShape /\ OwnMessages /\ SplitInv /\ MergeInv /\ PagesInv
  BY DEF ChatsInv
<1>2. /\ UNCHANGED <<db, timeline, made, forward, pages, known, chatsSynced, uneven>>
      /\ sync = Off /\ ~chatsSynced /\ split' = (IF known THEN split ELSE split \cup Chats) /\ unread \subseteq unread'
  BY DEF StartSync
<1>3. PICK bad \in SUBSET Chats : sync' = [at |-> "run", left |-> Merged({c \in Chats \ bad : Stored(c) # {}})]
  BY DEF StartSync
<1> DEFINE S == {c \in Chats \ bad : Stored(c) # {}}
<1>4. /\ S \in SUBSET {c \in Chats : Stored(c) # {}} /\ Merged(S) \subseteq Chats
      /\ sync' \in Syncs /\ sync' # Off /\ sync'.left = Merged(S)
  BY <1>3 DEF Syncs, Off, Merged
<1>5. split \subseteq Chats /\ split \subseteq split' /\ split' \subseteq Chats /\ made \subseteq Chats
  BY <1>1, <1>2 DEF ChatsShape, HistoryTypeOK
<1> HIDE DEF S
<1>6. ChatsShape'
  BY <1>1, <1>2, <1>4, <1>5 DEF ChatsShape, HistoryTypeOK
<1>7. OwnMessages' /\ SplitInv'
  BY <1>1, <1>2, <1>4, <1>5 DEF OwnMessages, SplitInv
<1>8. ASSUME NEW c \in Chats, Unsplit(c)', NEW d \in Twins(c)'
      PROVE  /\ c \in made' /\ d \in made' => c = d
             /\ sync' # Off => /\ c \in sync'.left /\ d \in sync'.left => c = d
                               /\ ~(c \in made' /\ d \in sync'.left)
  <2>1. known /\ Twins(c)' = Twins(c) /\ Unsplit(c) /\ d \in Twins(c) /\ split' = split
    BY <1>2, <1>8 DEF Unsplit, Twins
  <2>2. c \notin made
    <3>1. c \in Twins(c)
      BY <1>5, TwinFacts
    <3>2. made \subseteq split
      BY <1>1, <1>2 DEF SplitInv
    <3> QED BY <2>1, <3>1, <3>2 DEF Unsplit
  <2>3. c \in Merged(S) /\ d \in Merged(S) => c = d
    BY <1>1, <1>4, <2>1, MergedOne
  <2> QED BY <1>2, <1>4, <2>2, <2>3
<1>9. MergeInv'
  BY <1>8 DEF MergeInv
<1>10. PagesInv'
  BY <1>1, <1>2, <1>5, OwnersShrink, PagesKept DEF ChatsShape, HistoryTypeOK
<1> QED BY <1>6, <1>7, <1>9, <1>10 DEF ChatsInv

LEMMA HandKeeps == ASSUME ChatsInv, NEW c \in Chats, Hand(c) PROVE ChatsInv'
<1>1. ChatsShape /\ OwnMessages /\ SplitInv /\ MergeInv /\ PagesInv
  BY DEF ChatsInv
<1>2. /\ UNCHANGED <<db, timeline, pages, known, chatsSynced, unread, uneven, split>>
      /\ sync.at = "run" /\ c \in sync.left /\ made' = made \cup {c} /\ forward' = forward \ {c}
      /\ sync' = [at |-> "wait", c |-> c, left |-> sync.left \ {c}]
  BY DEF Hand, Histories
<1>3. sync # Off /\ sync' \in Syncs /\ sync' # Off /\ sync'.left = sync.left \ {c} /\ split \subseteq Chats /\ c \in made'
  BY <1>1, <1>2 DEF ChatsShape, Syncs, Off
<1>4. ChatsShape'
  BY <1>1, <1>2, <1>3 DEF ChatsShape, HistoryTypeOK
<1>5. OwnMessages' /\ SplitInv'
  BY <1>1, <1>2, <1>3 DEF OwnMessages, SplitInv
<1>6. MergeInv'
  <2>1. ASSUME NEW e \in Chats, Unsplit(e)', NEW d \in Twins(e)'
        PROVE  /\ e \in made' /\ d \in made' => e = d
               /\ sync' # Off => /\ e \in sync'.left /\ d \in sync'.left => e = d
                                 /\ ~(e \in made' /\ d \in sync'.left)
    <3>1. Twins(e)' = Twins(e) /\ Unsplit(e) /\ d \in Twins(e)
      BY <1>2, <2>1 DEF Twins, Unsplit
    <3>2. d \in Chats /\ e \in Twins(d) /\ Twins(d) = Twins(e)
      BY <1>3, <3>1, TwinFacts
    <3>3. Unsplit(d)
      BY <3>1, <3>2 DEF Unsplit
    <3>4. /\ e \in made /\ d \in made => e = d
          /\ e \in sync.left /\ d \in sync.left => e = d
          /\ ~(e \in made /\ d \in sync.left) /\ ~(d \in made /\ e \in sync.left)
      BY <1>1, <1>3, <3>1, <3>2, <3>3 DEF MergeInv
    <3> QED BY <1>2, <1>3, <3>4
  <2> QED BY <2>1 DEF MergeInv
<1>7. PagesInv'
  <2>1. \A e \in made : Missing(e)' = Missing(e)
    BY <1>2 DEF Missing, Owners, Twins
  <2>2. c \notin made => c \notin pages /\ timeline[c] = {} /\ c \notin forward'
    BY <1>1, <1>2 DEF ChatsShape, HistoryTypeOK
  <2>3. \A e \in made' : \A t \in Missing(e)' : e \in made => t \in Missing(e)
    BY <2>1
  <2>4. ASSUME NEW e \in made', NEW t \in Missing(e)'
        PROVE  e \notin pages' /\ (\A u \in timeline'[e] : t < u) /\ (e \in forward' => timeline'[e] # {})
    <3>1. CASE e \in made
      BY <1>1, <1>2, <2>3, <2>4, <3>1 DEF PagesInv
    <3>2. CASE e \notin made
      BY <1>2, <2>2, <2>4, <3>2
    <3> QED BY <3>1, <3>2
  <2> QED BY <2>4 DEF PagesInv
<1> QED BY <1>4, <1>5, <1>6, <1>7 DEF ChatsInv

LEMMA ArriveKeeps == ASSUME ChatsInv, NEW c \in Chats, NEW t \in Times, NEW pushed \in BOOLEAN, Arrive(c, t, pushed) PROVE ChatsInv'
<1>1. ChatsShape /\ OwnMessages /\ SplitInv /\ MergeInv /\ PagesInv
  BY DEF ChatsInv
<1>2. /\ t = Newest + 1 /\ db' = [db EXCEPT ![t] = c]
      /\ UNCHANGED <<forward, pages, known, sync, chatsSynced, unread, uneven>>
      /\ pushed \/ made \cap Twins(c) = {}
  BY DEF Arrive
<1>3. /\ db \in [Times -> Chats \cup {"none"}] /\ timeline \in [Chats -> SUBSET Times] /\ made \subseteq Chats /\ split \subseteq Chats
      /\ forward \subseteq made /\ pages \subseteq made /\ Times \subseteq Nat \ {0} /\ Newest \in Nat
      /\ \A s \in Times : db[s] # "none" => s < t
      /\ \A e \in Chats \ made : timeline[e] = {}
  <2>1. Newest \in Nat /\ Times \subseteq Nat \ {0} /\ \A s \in Times : db[s] # "none" => s <= Newest
    BY <1>1, TimeFacts
  <2>2. \A s \in Times : db[s] # "none" => s < t
    BY <1>2, <2>1
  <2> QED BY <1>1, <2>1, <2>2 DEF ChatsShape, HistoryTypeOK
<1>4. db' \in [Times -> Chats \cup {"none"}] /\ db'[t] = c /\ db[t] = "none" /\ \A s \in Times : s # t => db'[s] = db[s]
  <2>1. db[t] = "none"
    BY <1>3
  <2> QED BY <1>2, <1>3, <2>1
<1>5. \A e \in Chats : \A s \in timeline[e] : s # t /\ s < t
  BY <1>1, <1>3, <1>4, ChatsAssumption DEF OwnMessages
<1>6. \A e \in Chats : Twins(e)' = Twins(e)
  BY <1>2 DEF Twins
(* Where the message goes. *)
<1>7. CASE ~pushed
  <2>1. UNCHANGED <<timeline, made, split>> /\ made \cap Twins(c) = {}
    BY <1>2, <1>7 DEF Arrive
  <2>2. ChatsShape'
    BY <1>1, <1>2, <1>4, <2>1 DEF ChatsShape, HistoryTypeOK
  <2>3. OwnMessages'
    <3>1. ASSUME NEW e \in Chats, NEW s \in timeline[e] PROVE db'[s] = db[s]
      BY <1>3, <1>4, <1>5, <3>1
    <3> QED BY <1>1, <2>1, <3>1 DEF OwnMessages
  <2>4. SplitInv'
    BY <1>1, <1>2, <2>1 DEF SplitInv
  <2>5. MergeInv'
    BY <1>1, <1>2, <2>1, MergeKept
  <2>6. ASSUME NEW e \in made PROVE Missing(e)' \subseteq Missing(e)
    <3>1. c \notin Twins(e)
      BY <1>3, <2>1, <2>6, TwinFacts
    <3>2. Owners(e)' = Owners(e) /\ c \notin Owners(e)
      BY <1>3, <1>6, <2>1, <2>6, <3>1, TwinFacts DEF Owners
    <3> QED BY <1>2, <1>4, <2>1, <3>2 DEF Missing
  <2>7. PagesInv'
    BY <1>1, <1>2, <2>1, <2>6 DEF PagesInv
  <2> QED BY <2>2, <2>3, <2>4, <2>5, <2>7 DEF ChatsInv
<1>8. CASE pushed
  <2> DEFINE open == made \cap Twins(c)
  <2>1. PICK r \in (IF c \in made \/ open = {} THEN {c} ELSE open) :
          /\ timeline' = [timeline EXCEPT ![r] = @ \cup {t}] /\ made' = made \cup {r}
          /\ split' = IF r \notin made /\ (~known \/ ~chatsSynced) THEN split \cup {r} ELSE split
    BY <1>8 DEF Arrive
  <2>2. r \in Chats /\ r \in Twins(c) /\ Contact[r] = Contact[c] /\ Twins(r) = Twins(c)
        /\ (r \notin made => r = c /\ made \cap Twins(c) = {}) /\ (c \in made => r = c)
    BY <1>3, TwinFacts
  <2> HIDE DEF open
  <2>3. timeline' \in [Chats -> SUBSET Times] /\ timeline'[r] = timeline[r] \cup {t} /\ \A e \in Chats : e # r => timeline'[e] = timeline[e]
    BY <1>3, <2>1, <2>2
  <2>4. split \subseteq split' /\ split' \subseteq Chats /\ made' \subseteq Chats /\ \A e \in Chats : e \in split' => e \in split \/ e = r
    BY <1>3, <2>1, <2>2
  <2>5. ChatsShape'
    BY <1>1, <1>2, <1>3, <1>4, <2>1, <2>3, <2>4 DEF ChatsShape, HistoryTypeOK
  <2>6. OwnMessages'
    BY <1>1, <1>4, <1>5, <2>2, <2>3 DEF OwnMessages
  <2>7. SplitInv'
    BY <1>1, <1>2, <2>1, <2>4 DEF SplitInv
  <2>8. MergeInv'
    <3>1. ASSUME NEW e \in Chats, Unsplit(e)', NEW d \in Twins(e)'
          PROVE  /\ e \in made' /\ d \in made' => e = d
                 /\ sync' # Off => /\ e \in sync'.left /\ d \in sync'.left => e = d
                                   /\ ~(e \in made' /\ d \in sync'.left)
      <4>1. known /\ Unsplit(e) /\ d \in Twins(e) /\ d \in Chats /\ e \in Twins(e) /\ Twins(d) = Twins(e)
        BY <1>2, <1>3, <1>6, <2>4, <3>1, TwinFacts DEF Unsplit
      <4>2. /\ e \in made /\ d \in made => e = d
            /\ sync # Off => /\ e \in sync.left /\ d \in sync.left => e = d
                             /\ ~(e \in made /\ d \in sync.left)
        BY <1>1, <4>1 DEF MergeInv
      <4>3. CASE r \in made
        BY <1>2, <2>1, <4>2, <4>3
      <4>4. CASE r \notin made /\ r \notin Twins(e)
        BY <1>2, <2>1, <4>1, <4>2, <4>4
      <4>5. CASE r \notin made /\ r \in Twins(e)
        <5>1. chatsSynced
          BY <1>6, <2>1, <3>1, <4>1, <4>5 DEF Unsplit
        <5>2. sync' = Off
          BY <1>1, <1>2, <5>1 DEF ChatsShape
        <5>3. Twins(e) = Twins(c)
          BY <1>3, <2>2, <4>5, TwinFacts
        <5>4. e \notin made /\ d \notin made
          BY <2>2, <4>1, <4>5, <5>3
        <5> QED BY <2>1, <5>2, <5>4
      <4> QED BY <4>3, <4>4, <4>5
    <3> QED BY <3>1 DEF MergeInv
  <2>9. \A e \in made : Owners(e)' \subseteq Owners(e)
    BY <1>2, <1>3, <2>4, OwnersShrink
  <2>10. ASSUME NEW e \in made, c \in Owners(e)' PROVE e = r
    <3>1. c \in Owners(e) /\ e \in Chats
      BY <1>3, <2>9, <2>10
    <3>2. CASE c = e
      BY <2>2, <3>2
    <3>3. CASE c # e
      <4>1. Twins(e) \cap split = {} /\ c \in Twins(e)
        BY <3>1, <3>3 DEF Owners
      <4>2. Twins(e) = Twins(c) /\ e \in Twins(c)
        BY <1>3, <3>1, <4>1, TwinFacts
      <4>3. known
        BY <3>3, <4>1 DEF Twins
      <4>4. r \in made /\ r \in Twins(e)
        BY <2>2, <4>2
      <4> QED BY <1>1, <3>1, <4>1, <4>3, <4>4 DEF MergeInv, Unsplit
    <3> QED BY <3>2, <3>3
  <2>11. ASSUME NEW e \in made', NEW s \in Missing(e)'
         PROVE  s # t /\ s < t /\ db[s] # "none" /\ (e \in made => s \in Missing(e))
    <3>1. /\ s \in Times /\ db'[s] \in Owners(e)' /\ s \notin timeline'[e] /\ s \notin unread \cup uneven /\ e \in Chats
      BY <1>2, <2>4, <2>11 DEF Missing
    <3>2. s # t
      <4>1. CASE e \in made
        BY <1>4, <2>2, <2>3, <2>10, <3>1, <4>1
      <4>2. CASE e \notin made
        BY <2>1, <2>3, <3>1, <4>2
      <4> QED BY <4>1, <4>2
    <3>3. Owners(e)' \subseteq Chats
      BY <1>6, <2>4, <3>1 DEF Owners, Twins
    <3>4. db[s] # "none" /\ s < t
      BY <1>3, <1>4, <3>1, <3>2, <3>3, ChatsAssumption
    <3>5. e \in made => s \in Missing(e)
      BY <1>4, <2>3, <2>9, <3>1, <3>2 DEF Missing
    <3> QED BY <3>2, <3>4, <3>5
  <2>12. ASSUME NEW e \in made', NEW s \in Missing(e)'
         PROVE  e \notin pages' /\ (\A u \in timeline'[e] : s < u) /\ (e \in forward' => timeline'[e] # {})
    <3>1. CASE e \in made
      <4>1. e \notin pages /\ (\A u \in timeline[e] : s < u) /\ (e \in forward => timeline[e] # {}) /\ s < t /\ e \in Chats
        BY <1>1, <1>3, <2>11, <2>12, <3>1 DEF PagesInv
      <4> QED BY <1>2, <2>3, <4>1
    <3>2. CASE e \notin made
      <4>1. e = r /\ timeline'[e] = {t} /\ e \notin pages /\ e \notin forward
        BY <1>3, <2>1, <2>2, <2>3, <3>2
      <4> QED BY <1>2, <2>11, <2>12, <4>1
    <3> QED BY <3>1, <3>2
  <2>13. PagesInv'
    BY <2>12 DEF PagesInv
  <2> QED BY <2>5, <2>6, <2>7, <2>8, <2>13 DEF ChatsInv
<1> QED BY <1>7, <1>8

(* A page is of the database: what it holds is of the chats that were read. *)
LEMMA GotIsStored ==
  ASSUME NEW r \in Chats, NEW fwd \in BOOLEAN, NEW ok \in SUBSET Chats
  PROVE  \A u \in PagesOf(ok, r, fwd) : u \in Times /\ db[u] \in ok
<1>1. ASSUME NEW c \in ok PROVE \A u \in Wanted(c, r, fwd) : u \in Times /\ db[u] = c
  <2>1. Stored(c) = {u \in Times : db[u] = c}
    BY DEF Stored
  <2>2. Wanted(c, r, fwd) \subseteq Stored(c)
    BY DEF Wanted, Since, Before
  <2> QED BY <2>1, <2>2
<1> QED BY <1>1 DEF PagesOf

(* A backward page that does not hold a message older than the room's is full. *)
LEMMA BackwardPageIsFull ==
  ASSUME ChatsShape, NEW r \in Chats, NEW ok \in SUBSET Chats, timeline[r] # {}, NEW t \in Times, db[t] \in ok,
         \A u \in timeline[r] : t < u, t \notin PagesOf(ok, r, FALSE)
  PROVE  HasMore(PagesOf(ok, r, FALSE))
<1> DEFINE d == db[t]
           m == Min(timeline[r])
           X == {u \in Stored(d) : u < m}
           page == Wanted(d, r, FALSE)
           got == PagesOf(ok, r, FALSE)
<1>1. Times \subseteq Nat /\ IsFiniteSet(Times) /\ timeline[r] \subseteq Times /\ PageSize \in Nat
  BY TimeFacts, TimesAssumption
<1>2. m \in timeline[r]
  <2>1. timeline[r] \subseteq Nat
    BY <1>1
  <2> QED BY <2>1, MinOf
<1>3. X \subseteq Times /\ t \in X
  BY <1>2 DEF Stored
<1>4. X \subseteq Nat /\ IsFiniteSet(X)
  BY <1>1, <1>3, FS_Subset
<1>5. page = {u \in X : Cardinality({v \in X : v > u}) < PageSize}
  BY DEF Wanted, Before
<1>6. page \subseteq got /\ t \notin page
  BY DEF PagesOf
<1>7. got \subseteq Times
  BY GotIsStored
<1> HIDE DEF d, m, X, page, got
<1>8. page # X
  BY <1>3, <1>6
<1>9. IsFiniteSet(page) /\ Cardinality(page) >= PageSize
  BY <1>1, <1>4, <1>5, <1>8, PageIsFull
<1>10. IsFiniteSet(got) /\ Cardinality(page) <= Cardinality(got)
  BY <1>1, <1>6, <1>7, FS_Subset
<1>11. Cardinality(page) \in Nat /\ Cardinality(got) \in Nat
  BY <1>9, <1>10, FS_CardinalityType
<1>12. Cardinality(got) >= PageSize
  BY <1>1, <1>9, <1>10, <1>11
<1> QED BY <1>12 DEF HasMore, got

LEMMA FetchKeeps ==
  ASSUME ChatsInv, NEW r \in made, NEW fwd \in BOOLEAN, FetchMessages(r, fwd), UNCHANGED <<db, made, known, sync, chatsSynced>>,
         forward' = (IF fwd THEN forward \cup {r} ELSE forward), r \notin pages \/ fwd
  PROVE  ChatsInv'
<1>1. ChatsShape /\ OwnMessages /\ SplitInv /\ MergeInv /\ PagesInv
  BY DEF ChatsInv
<1>2. /\ timeline \in [Chats -> SUBSET Times] /\ made \subseteq Chats /\ split \subseteq Chats
      /\ forward \subseteq made /\ pages \subseteq made /\ r \in Chats /\ Times \subseteq Nat
  BY <1>1, TimesAssumption DEF ChatsShape, HistoryTypeOK
<1>3. PICK ok \in SUBSET ChatGUIDs(r), lost \in {{}} \cup {{t} : t \in Times} :
        /\ Read(r, fwd, ok, lost)
        /\ timeline' = [timeline EXCEPT ![r] = @ \cup (PagesOf(ok, r, fwd) \ lost)]
        /\ uneven' = uneven \cup JumpedOver(r, ok, PagesOf(ok, r, fwd))
        /\ pages' = IF fwd \/ HasMore(PagesOf(ok, r, fwd)) THEN pages ELSE pages \cup {r}
        /\ split' = IF known THEN split ELSE split \cup {r}
  BY DEF FetchMessages
<1> DEFINE got == PagesOf(ok, r, fwd)
<1>4. ok \subseteq Twins(r) /\ Twins(r) \subseteq Chats /\ \A d \in Twins(r) : Contact[d] = Contact[r]
  BY <1>2, TwinFacts DEF ChatGUIDs
<1>5. \A u \in got : u \in Times /\ db[u] \in ok
  BY <1>2, <1>4, GotIsStored
<1>6. /\ unread \subseteq unread' /\ lost \subseteq unread'
      /\ \A d \in Twins(r) \ ok : Stored(d) \subseteq unread'
  BY <1>3 DEF Read, ChatGUIDs
<1>7. /\ timeline' \in [Chats -> SUBSET Times] /\ timeline'[r] = timeline[r] \cup (got \ lost)
      /\ \A e \in Chats : e # r => timeline'[e] = timeline[e]
  <2> HIDE DEF got
  <2>1. timeline' = [timeline EXCEPT ![r] = @ \cup (got \ lost)]
    BY <1>3 DEF got
  <2> QED BY <1>2, <1>5, <2>1
<1>8. split \subseteq split' /\ split' \subseteq Chats /\ pages \subseteq pages' /\ pages' \subseteq pages \cup {r}
  BY <1>2, <1>3
<1>9. uneven \subseteq uneven' /\ \A t \in Times : db[t] \in ok /\ t \notin got \cup timeline[r] /\ (\E u \in got : u < t) => t \in uneven'
  BY <1>3 DEF JumpedOver
<1> HIDE DEF got
<1>10. ChatsShape'
  <2>1. forward' \subseteq made' /\ pages' \subseteq made'
    <3>1. forward' \subseteq forward \cup {r}
      BY <1>2
    <3>2. pages' \subseteq pages \cup {r}
      BY <1>8
    <3> QED BY <1>2, <3>1, <3>2
  <2> QED BY <1>1, <1>2, <1>7, <1>8, <2>1 DEF ChatsShape, HistoryTypeOK
<1>11. OwnMessages'
  <2>1. ASSUME NEW e \in Chats, NEW s \in timeline'[e] PROVE db[s] \in Chats /\ Contact[db[s]] = Contact[e]
    <3>1. CASE s \in timeline[e]
      BY <1>1, <3>1 DEF OwnMessages
    <3>2. CASE s \notin timeline[e]
      <4>1. e = r /\ s \in got
        BY <1>7, <2>1, <3>2
      <4> QED BY <1>4, <1>5, <4>1
    <3> QED BY <3>1, <3>2
  <2> QED BY <2>1 DEF OwnMessages
<1>12. SplitInv'
  BY <1>1, <1>8 DEF SplitInv
<1>13. MergeInv'
  BY <1>1, <1>8, MergeKept
<1>14. \A e \in Chats : Owners(e)' \subseteq Owners(e)
  BY <1>2, <1>8, OwnersShrink
<1>15. ASSUME NEW e \in made, NEW t \in Missing(e)' PROVE t \in Missing(e) /\ t \in Times /\ db[t] \in Owners(e) /\ t \notin timeline'[e] \cup unread' \cup uneven'
  <2>1. timeline[e] \subseteq timeline'[e]
    BY <1>2, <1>7
  <2> QED BY <1>2, <1>6, <1>9, <1>14, <1>15, <2>1 DEF Missing
<1>16. ASSUME NEW e \in made, NEW t \in Missing(e)'
       PROVE  e \notin pages' /\ (\A u \in timeline'[e] : t < u) /\ (e \in forward' => timeline'[e] # {})
  <2>1. e \notin pages /\ (\A u \in timeline[e] : t < u) /\ (e \in forward => timeline[e] # {})
    BY <1>1, <1>15, <1>16 DEF PagesInv
  <2>2. CASE e # r
    BY <1>2, <1>7, <1>8, <2>1, <2>2
  <2>3. CASE e = r
    <3>1. t \in Times /\ db[t] \in Twins(r) /\ t \notin timeline'[r] /\ t \notin unread' /\ t \notin uneven' /\ t \notin timeline[r]
      BY <1>2, <1>7, <1>15, <1>16, <2>3, TwinFacts
    <3>2. db[t] \in ok
      <4>1. db[t] \notin ok => t \in unread'
        BY <1>6, <3>1 DEF Stored
      <4> QED BY <3>1, <4>1
    <3>3. t \notin got
      BY <1>6, <1>7, <3>1
    <3>4. ASSUME NEW u \in got PROVE t < u
      <4>1. u \in Nat /\ t \in Nat /\ ~(u < t) /\ u # t
        BY <1>2, <1>5, <1>9, <3>1, <3>2, <3>3, <3>4
      <4> QED BY <4>1
    <3>5. timeline[r] # {}
      <4>1. timeline[r] = {} => t \in got
        <5>1. Stored(db[t]) = Wanted(db[t], r, fwd) \/ timeline[r] # {}
          BY DEF Wanted
        <5>2. t \in Stored(db[t])
          BY <3>1 DEF Stored
        <5>3. Wanted(db[t], r, fwd) \subseteq got
          BY <3>2 DEF PagesOf, got
        <5> QED BY <5>1, <5>2, <5>3
      <4> QED BY <3>3, <4>1
    <3>6. r \notin pages'
      <4>1. CASE fwd
        BY <1>3, <2>1, <2>3, <4>1
      <4>2. CASE ~fwd
        <5>1. fwd = FALSE /\ got = PagesOf(ok, r, FALSE)
          BY <4>2 DEF got
        <5>2. HasMore(got)
          BY <1>1, <1>2, <1>4, <2>1, <2>3, <3>1, <3>2, <3>3, <3>5, <5>1, BackwardPageIsFull
        <5> QED BY <1>3, <2>1, <2>3, <5>2 DEF got
      <4> QED BY <4>1, <4>2
    <3>7. \A u \in timeline'[r] : t < u
      BY <1>7, <2>1, <2>3, <3>4
    <3> QED BY <1>7, <2>3, <3>5, <3>6, <3>7
  <2> QED BY <2>2, <2>3
<1>17. PagesInv'
  BY <1>16 DEF PagesInv
<1> QED BY <1>10, <1>11, <1>12, <1>13, <1>17 DEF ChatsInv

LEMMA HistoryStep == ChatsInv /\ [HistoryNext]_historyVars => ChatsInv'
<1> SUFFICES ASSUME ChatsInv, [HistoryNext]_historyVars PROVE ChatsInv'
  OBVIOUS
<1>1. CASE UNCHANGED historyVars
  <2>1. UNCHANGED <<db, timeline, made, forward, pages, known, sync, chatsSynced, unread, uneven, split>>
    BY <1>1 DEF historyVars
  <2>2. ChatsShape /\ OwnMessages /\ SplitInv /\ MergeInv /\ PagesInv /\ split \subseteq Chats /\ made \subseteq Chats
    BY DEF ChatsInv, ChatsShape, HistoryTypeOK
  <2>3. ChatsShape' /\ OwnMessages' /\ SplitInv'
    BY <2>1, <2>2 DEF ChatsShape, HistoryTypeOK, OwnMessages, SplitInv
  <2>4. MergeInv' /\ PagesInv'
    BY <2>1, <2>2, MergeKept, PagesKept, OwnersShrink
  <2> QED BY <2>2, <2>3, <2>4 DEF ChatsInv
<1>2. ASSUME NEW c \in Chats, FetchForward(c) \/ FetchBackward(c) PROVE ChatsInv'
  <2>1. CASE FetchForward(c)
    BY <2>1, FetchKeeps DEF FetchForward
  <2>2. CASE FetchBackward(c)
    <3>1. c \in made /\ c \notin pages
      BY <2>2 DEF FetchBackward, ChatsInv, ChatsShape, HistoryTypeOK
    <3>2. FetchMessages(c, FALSE) /\ UNCHANGED <<db, made, known, sync, chatsSynced>> /\ forward' = forward
      BY <2>2 DEF FetchBackward
    <3> QED BY <3>1, <3>2, FetchKeeps
  <2> QED BY <1>2, <2>1, <2>2
<1>3. ASSUME NEW c \in Chats, NEW t \in Times, NEW pushed \in BOOLEAN, Arrive(c, t, pushed) PROVE ChatsInv'
  BY <1>3, ArriveKeeps
<1> QED BY <1>1, <1>2, <1>3, StartSyncKeeps, WaitKeeps, StopSyncKeeps, HandKeeps DEF HistoryNext

(* A room whose pages are done has every message of its numbers, but those a  *)
(* failed read passed over and an uneven page jumped over; and no message is  *)
(* in two rooms, unless contacts were missing, a live message made a room     *)
(* before the merge came to it, or the sync was stopped.                      *)
THEOREM MessagesOnce == HistorySpec => []EachMessageOnce
<1>1. ASSUME ChatsInv PROVE EachMessageOnce
  <2>1. ChatsShape /\ OwnMessages /\ SplitInv /\ MergeInv /\ PagesInv /\ made \subseteq Chats /\ pages \subseteq made
    BY <1>1 DEF ChatsInv, ChatsShape, HistoryTypeOK
  <2>2. ASSUME NEW c \in pages, NEW t \in Owed(c) PROVE t \in timeline[c] \cup unread \cup uneven
    <3>1. t \in Times /\ db[t] \in Owners(c)
      BY <2>2 DEF Owed, Owners, Stored
    <3> QED BY <2>1, <2>2, <3>1 DEF PagesInv, Missing
  <2>3. ASSUME split = {}, NEW c \in made, NEW d \in made, c # d, NEW t \in timeline[c] \cap timeline[d] PROVE FALSE
    <3>1. known
      BY <2>1, <2>3 DEF SplitInv
    <3>2. c \in Chats /\ d \in Chats /\ Contact[c] = Contact[d]
      BY <2>1, <2>3 DEF OwnMessages
    <3>3. d \in Twins(c) /\ Unsplit(c)
      BY <2>3, <3>1, <3>2 DEF Twins, Unsplit
    <3> QED BY <2>1, <2>3, <3>2, <3>3 DEF MergeInv
  <2> QED BY <2>2, <2>3 DEF EachMessageOnce, HistoryKept, OneRoomEach
<1> QED BY <1>1, HistoryStart, HistoryStep, PTL DEF HistorySpec

-----------------------------------------------------------------------------
(* FaceTimeCalls.  A slot has one link, and a link is tied to one call      *)
(* unless calls met at its slot.                                            *)

Ways == {"call", "ring", "share"}
Slots == {"next", "nextincomingcall"}
CallRecords == [way: Ways, at: {"link", "bind", "told", "over"}, link: 0 .. MaxLinks]

CallsShape ==
  /\ links \in [Links -> {Free, Used} \cup Slots] /\ minted \in 0 .. MaxLinks
  /\ routes \in [Links -> Nat]
  /\ calls \in Seq(CallRecords)
  /\ rotation \in Seq({"none", "move", "mint"}) /\ Len(rotation) = Len(calls)
  /\ premint \subseteq Slots /\ stuck \subseteq Numbers /\ past \subseteq Numbers

(* Links are minted in order, at most one is in a slot, and a link that was revoked never   *)
(* comes back.                                                                              *)
SlotsInv ==
  /\ \A l \in Links : l > minted => links[l] = Free /\ routes[l] = 0
  /\ \A l, k \in Links : links[l] = links[k] /\ links[l] \in Slots => l = k
  /\ \A n \in Numbers : calls[n].at \in {"bind", "told"} => calls[n].link \in 1 .. minted
  /\ \A n \in Numbers : calls[n].at = "bind" => rotation[n] = "none" /\ n \notin stuck
  /\ \A n \in Numbers : calls[n].at = "link" => rotation[n] = "none" /\ n \notin stuck

(* Calls that are at one slot at the same time are known to have met.                       *)
MetInv ==
  \A n, m \in Numbers :
    n # m /\ Holding(n) /\ Holding(m) /\ Slot(calls[n].way) = Slot(calls[m].way) => n \in crossed

(* The link a call that met no other took is at its slot or revoked until it is moved, and  *)
(* the table ties it to nobody else.                                                        *)
TiedInv ==
  /\ \A l \in Links : links[l] \in Slots /\ routes[l] # 0 =>
       /\ routes[l] \in Numbers /\ Slot(calls[routes[l]].way) = links[l]
       /\ rotation[routes[l]] = "move" \/ routes[l] \in stuck
  /\ \A n \in Numbers \ (crossed \cup past) : calls[n].at = "bind" =>
       links[calls[n].link] \in {Slot(calls[n].way), Free}
  /\ \A n \in Numbers \ (crossed \cup past) : calls[n].at = "told" =>
       \/ links[calls[n].link] = Free
       \/ /\ routes[calls[n].link] = IF calls[n].way = "share" THEN 0 ELSE n
          /\ links[calls[n].link] \in Slots =>
               /\ links[calls[n].link] = Slot(calls[n].way)
               /\ rotation[n] = "move" \/ n \in stuck

CallsInv == CallsShape /\ SlotsInv /\ MetInv /\ TiedInv /\ LinksLeadHome

-----------------------------------------------------------------------------
LEMMA CallsStart == ASSUME CallsInit PROVE CallsInv
<1>1. Numbers = {} /\ calls = <<>> /\ rotation = <<>>
  BY DEF CallsInit, Numbers
<1>2. CallsShape
  BY <1>1, CallsAssumption DEF CallsInit, CallsShape, Slots, Links, CallRecords
<1> QED BY <1>1, <1>2, CallsAssumption DEF CallsInit, CallsInv, SlotsInv, MetInv, TiedInv, LinksLeadHome, Slots, Free

LEMMA CallsTyped ==
  ASSUME CallsShape
  PROVE  /\ Len(calls) \in Nat /\ Numbers = 1 .. Len(calls) /\ MaxLinks \in Nat
         /\ \A n \in Numbers : calls[n] \in CallRecords /\ Slot(calls[n].way) \in Slots
<1>1. calls \in Seq(CallRecords) /\ Len(calls) \in Nat
  BY DEF CallsShape
<1>2. ASSUME NEW n \in Numbers PROVE calls[n] \in CallRecords
  BY <1>1, <1>2, ElementOfSeq DEF Numbers
<1> QED BY <1>1, <1>2, CallsAssumption DEF Numbers, Slot, Slots

(* One call goes on. *)
LEMMA CallGoesOn ==
  ASSUME CallsShape, NEW n \in Numbers, NEW new \in CallRecords, calls' = [calls EXCEPT ![n] = new]
  PROVE  /\ calls' \in Seq(CallRecords) /\ Len(calls') = Len(calls) /\ Numbers' = Numbers /\ calls'[n] = new
         /\ \A m \in Numbers : m # n => calls'[m] = calls[m]
<1>1. calls \in Seq(CallRecords) /\ n \in 1 .. Len(calls)
  BY CallsTyped DEF CallsShape
<1> QED BY <1>1, ExceptSeq DEF Numbers

(* GetLinkForUsage: a link of the slot afterwards, the only one. *)
LEMMA LinkForGives ==
  ASSUME CallsShape, SlotsInv, NEW slot \in Slots, NEW l \in Links, LinkFor(slot, l)
  PROVE  /\ links' \in [Links -> {Free, Used} \cup Slots] /\ minted' \in 0 .. MaxLinks /\ minted <= minted'
         /\ l \in 1 .. minted' /\ links'[l] = slot
         /\ \A k \in Links : k # l => links'[k] = links[k]
         /\ links[l] = slot \/ (links[l] = Free /\ minted < l)
         /\ \A k \in Links : k > minted' => links'[k] = Free
         /\ \A k, j \in Links : links'[k] = links'[j] /\ links'[k] \in Slots => k = j
<1>0. minted \in 0 .. MaxLinks /\ MaxLinks \in Nat /\ links \in [Links -> {Free, Used} \cup Slots] /\ Links = 1 .. MaxLinks
  BY CallsTyped DEF CallsShape, Links
<1>1. CASE l \in In(slot) /\ UNCHANGED <<links, minted>>
  <2>1. links[l] = slot /\ links' = links /\ minted' = minted /\ slot # Free
    BY <1>1 DEF In, Slots, Free
  <2>2. l <= minted
    BY <1>0, <2>1 DEF SlotsInv
  <2> QED BY <1>0, <2>1, <2>2 DEF SlotsInv
<1>2. CASE In(slot) = {} /\ minted < MaxLinks /\ l = minted + 1 /\ minted' = l /\ links' = [links EXCEPT ![l] = slot]
  <2>1. \A k \in Links : links[k] # slot
    BY <1>2 DEF In
  <2> QED BY <1>0, <1>2, <2>1 DEF SlotsInv
<1> QED BY <1>1, <1>2 DEF LinkFor

(* A call is added that holds nothing yet. *)
LEMMA BeginKeepsCalls == ASSUME CallsInv, NEW way \in Ways, Begin(way) PROVE CallsInv'
<1> DEFINE new == [way |-> way, at |-> "link", link |-> 0]
           k == Len(calls) + 1
<1>0. CallsShape /\ SlotsInv /\ MetInv /\ TiedInv /\ LinksLeadHome
  BY DEF CallsInv
<1>1. new \in CallRecords /\ k \in Nat \ {0} /\ Numbers = 1 .. Len(calls) /\ Len(calls) \in Nat
  BY <1>0, CallsTyped DEF CallRecords
<1>2. new.way = way /\ new.at = "link"
  OBVIOUS
<1>3. calls' = Append(calls, new) /\ rotation' = Append(rotation, "none")
  BY DEF Begin
<1>4. UNCHANGED <<links, minted, routes, premint, strays, stuck, crossed, past>>
  BY DEF Begin, History
<1> HIDE DEF new
<1>5. /\ calls' \in Seq(CallRecords) /\ Len(calls') = k /\ calls'[k] = new
      /\ \A n \in 1 .. Len(calls) : calls'[n] = calls[n]
  BY <1>0, <1>1, <1>3, AppendProperties DEF CallsShape
<1>6. /\ rotation' \in Seq({"none", "move", "mint"}) /\ Len(rotation') = k /\ rotation'[k] = "none"
      /\ \A n \in 1 .. Len(calls) : rotation'[n] = rotation[n]
  BY <1>0, <1>1, <1>3, AppendProperties DEF CallsShape
<1>7. Numbers' = Numbers \cup {k} /\ k \notin Numbers
  BY <1>1, <1>5 DEF Numbers
<1>8. CallsShape'
  BY <1>0, <1>4, <1>5, <1>6, <1>7 DEF CallsShape, Links
<1>9. \A n \in Numbers : calls'[n] = calls[n] /\ rotation'[n] = rotation[n]
  BY <1>1, <1>5, <1>6
<1>10. k \notin stuck /\ \A n \in Numbers' : n \notin Numbers => n = k
  BY <1>0, <1>7 DEF CallsShape
<1>11. SlotsInv'
  BY <1>0, <1>2, <1>4, <1>5, <1>6, <1>7, <1>9, <1>10 DEF SlotsInv, Links
<1>12. MetInv'
  BY <1>0, <1>2, <1>4, <1>5, <1>6, <1>7, <1>9, <1>10 DEF MetInv, Holding
<1>13. TiedInv'
  BY <1>0, <1>2, <1>4, <1>5, <1>7, <1>9, <1>10 DEF TiedInv, Links
<1> QED BY <1>0, <1>4, <1>8, <1>11, <1>12, <1>13 DEF CallsInv, LinksLeadHome

LEMMA TakeLinkKeeps == ASSUME CallsInv, NEW n \in Numbers, TakeLink(n) PROVE CallsInv'
<1> DEFINE slot == Slot(calls[n].way)
           others == {m \in Numbers \ {n} : Slot(calls[m].way) = slot /\ Holding(m)}
<1>0. CallsShape /\ SlotsInv /\ MetInv /\ TiedInv /\ LinksLeadHome
  BY DEF CallsInv
<1>1. slot \in Slots /\ calls[n] \in CallRecords /\ calls[n].at = "link" /\ MaxLinks \in Nat
  BY <1>0, CallsTyped DEF TakeLink
<1>2. /\ UNCHANGED <<routes, strays, rotation, premint, stuck, past>>
      /\ crossed' = IF others = {} THEN crossed ELSE crossed \cup others \cup {n}
  BY DEF TakeLink, Table
<1>3. PICK l \in Links :
        /\ calls' = [calls EXCEPT ![n].link = l, ![n].at = "bind"]
        /\ \/ LinkFor(slot, l)
           \/ /\ minted < MaxLinks /\ minted' = minted + 1 /\ l = minted'
              /\ links' = [k \in Links |-> IF k = minted' THEN slot ELSE Free]
  <2>1. \/ \E l \in Links : LinkFor(slot, l) /\ calls' = [calls EXCEPT ![n].link = l, ![n].at = "bind"]
        \/ /\ minted < MaxLinks /\ minted' = minted + 1
           /\ links' = [k \in Links |-> IF k = minted' THEN slot ELSE Free]
           /\ calls' = [calls EXCEPT ![n].link = minted', ![n].at = "bind"]
    BY DEF TakeLink
  <2>2. minted \in Nat /\ (minted < MaxLinks => minted + 1 \in Links)
    BY <1>0, <1>1 DEF CallsShape, Links
  <2> QED BY <2>1, <2>2
(* The link is in the slot, alone; no other link has come to a slot. *)
<1>4. /\ links' \in [Links -> {Free, Used} \cup Slots] /\ minted' \in 0 .. MaxLinks /\ minted <= minted'
      /\ l \in 1 .. minted' /\ links'[l] = slot
      /\ \A k \in Links : k # l => links'[k] \in {links[k], Free}
      /\ links[l] = slot \/ (links[l] = Free /\ minted < l)
      /\ \A k \in Links : k > minted' => links'[k] = Free
      /\ \A k, j \in Links : links'[k] = links'[j] /\ links'[k] \in Slots => k = j
  <2>1. CASE LinkFor(slot, l)
    BY <1>0, <1>1, <2>1, LinkForGives
  <2>2. CASE /\ minted < MaxLinks /\ minted' = minted + 1 /\ l = minted'
             /\ links' = [k \in Links |-> IF k = minted' THEN slot ELSE Free]
    BY <1>0, <1>1, <2>2 DEF CallsShape, SlotsInv, Links, Slots, Free
  <2> QED BY <1>3, <2>1, <2>2
<1> DEFINE new == [calls[n] EXCEPT !.link = l, !.at = "bind"]
<1>5. new \in CallRecords /\ new.way = calls[n].way /\ new.at = "bind" /\ new.link = l
  <2>1. calls[n] \in CallRecords /\ l \in 0 .. MaxLinks
    BY <1>1 DEF Links
  <2>2. new \in CallRecords
    BY <2>1 DEF CallRecords
  <2>3. new.way = calls[n].way /\ new.at = "bind" /\ new.link = l
    BY <2>1 DEF CallRecords
  <2> QED BY <2>2, <2>3
<1>6. calls' = [calls EXCEPT ![n] = new]
  BY <1>3
<1> HIDE DEF new
<1>7. /\ calls' \in Seq(CallRecords) /\ Numbers' = Numbers /\ calls'[n] = new /\ Len(calls') = Len(calls)
      /\ \A m \in Numbers : m # n => calls'[m] = calls[m]
  BY <1>0, <1>5, <1>6, CallGoesOn
<1>8. CallsShape'
  BY <1>0, <1>2, <1>4, <1>7 DEF CallsShape, Links
<1>9. rotation[n] = "none" /\ n \notin stuck
  BY <1>0, <1>1 DEF SlotsInv
<1>10. SlotsInv'
  <2>1. \A k \in Links : k > minted' => links'[k] = Free /\ routes'[k] = 0
    BY <1>0, <1>2, <1>4 DEF SlotsInv, CallsShape, Links
  <2>2. \A m \in Numbers : calls'[m].at \in {"bind", "told"} => calls'[m].link \in 1 .. minted'
    BY <1>0, <1>4, <1>5, <1>7 DEF SlotsInv, CallsShape
  <2>3. \A m \in Numbers : calls'[m].at \in {"bind", "link"} => rotation'[m] = "none" /\ m \notin stuck'
    BY <1>0, <1>2, <1>5, <1>7, <1>9 DEF SlotsInv
  <2> QED BY <1>4, <1>7, <2>1, <2>2, <2>3 DEF SlotsInv, Links
<1>11. \A m \in Numbers : m # n => (Holding(m)' <=> Holding(m)) /\ Slot(calls'[m].way) = Slot(calls[m].way)
  BY <1>2, <1>7 DEF Holding
<1>12. /\ crossed \subseteq crossed' /\ Slot(calls'[n].way) = slot
       /\ \A m \in Numbers : m # n /\ Holding(m) /\ Slot(calls[m].way) = slot => m \in crossed' /\ n \in crossed'
  BY <1>2, <1>5, <1>7
<1>13. MetInv'
  BY <1>0, <1>7, <1>11, <1>12 DEF MetInv
<1>14. TiedInv'
  <2>1. ASSUME NEW k \in Links, links'[k] \in Slots, routes'[k] # 0
        PROVE  /\ routes'[k] \in Numbers' /\ Slot(calls'[routes'[k]].way) = links'[k]
               /\ rotation'[routes'[k]] = "move" \/ routes'[k] \in stuck'
    <3>1. links[k] = links'[k]
      BY <1>0, <1>2, <1>4, <2>1 DEF SlotsInv, Slots, Free
    <3>2. routes[k] # n
      BY <1>0, <1>2, <1>9, <2>1, <3>1 DEF TiedInv
    <3> QED BY <1>0, <1>2, <1>7, <2>1, <3>1, <3>2 DEF TiedInv
  <2>2. ASSUME NEW m \in Numbers \ (crossed' \cup past'), calls'[m].at = "bind"
        PROVE  links'[calls'[m].link] \in {Slot(calls'[m].way), Free}
    <3>1. CASE m = n
      BY <1>4, <1>5, <1>7, <1>12, <3>1
    <3>2. CASE m # n
      <4>1. links[calls[m].link] \in {Slot(calls[m].way), Free} /\ calls[m].link \in 1 .. minted
        BY <1>0, <1>2, <1>7, <1>12, <2>2, <3>2 DEF TiedInv, SlotsInv
      <4>2. calls[m].link # l
        <5>1. Holding(m) /\ slot # Free
          BY <1>1, <1>7, <2>2, <3>2 DEF Holding, Slots, Free
        <5>2. Slot(calls[m].way) # slot
          BY <1>12, <2>2, <3>2, <5>1
        <5>3. minted \in Nat
          BY <1>0, <1>1 DEF CallsShape
        <5>4. ASSUME calls[m].link = l PROVE FALSE
          BY <1>4, <4>1, <5>1, <5>2, <5>3, <5>4
        <5> QED BY <5>4
      <4>3. calls[m].link \in Links
        BY <1>0, <1>1, <4>1 DEF CallsShape, Links
      <4>4. links'[calls[m].link] \in {links[calls[m].link], Free}
        BY <1>4, <4>2, <4>3
      <4> QED BY <1>7, <3>2, <4>1, <4>4
    <3> QED BY <3>1, <3>2
  <2>3. ASSUME NEW m \in Numbers \ (crossed' \cup past'), calls'[m].at = "told"
        PROVE  \/ links'[calls'[m].link] = Free
               \/ /\ routes'[calls'[m].link] = IF calls'[m].way = "share" THEN 0 ELSE m
                  /\ links'[calls'[m].link] \in Slots =>
                       /\ links'[calls'[m].link] = Slot(calls'[m].way)
                       /\ rotation'[m] = "move" \/ m \in stuck'
    <3>1. m # n /\ calls'[m] = calls[m]
      BY <1>5, <1>7, <2>3
    <3> DEFINE k == calls[m].link
    <3>2. /\ m \in Numbers \ (crossed \cup past) /\ calls[m].at = "told" /\ k \in 1 .. minted /\ k \in Links
      <4>1. m \in Numbers \ (crossed \cup past) /\ calls[m].at = "told"
        BY <1>2, <1>12, <2>3, <3>1
      <4>2. k \in 1 .. minted /\ minted \in 0 .. MaxLinks
        BY <1>0, <4>1 DEF SlotsInv, CallsShape
      <4> QED BY <1>1, <4>1, <4>2 DEF Links
    <3>3. \/ links[k] = Free
          \/ /\ routes[k] = IF calls[m].way = "share" THEN 0 ELSE m
             /\ links[k] \in Slots => links[k] = Slot(calls[m].way) /\ (rotation[m] = "move" \/ m \in stuck)
      BY <1>0, <3>2 DEF TiedInv
    <3>4. links'[k] \in {links[k], Free} 
      BY <1>0, <1>4, <3>2 DEF CallsShape
    <3> HIDE DEF k
    <3> QED BY <1>2, <3>1, <3>3, <3>4 DEF k
  <2> QED BY <1>7, <2>1, <2>2, <2>3 DEF TiedInv, Links
<1> QED BY <1>0, <1>2, <1>8, <1>10, <1>12, <1>13, <1>14 DEF CallsInv, LinksLeadHome

(* The link of a slot is minted, or links are revoked; no call goes on but past its move.   *)
LEMMA LinksChange ==
  ASSUME CallsInv, UNCHANGED <<routes, calls, stuck, crossed, past, strays>>, premint' \subseteq premint,
         rotation' \in Seq({"none", "move", "mint"}), Len(rotation') = Len(rotation),
         \A n \in Numbers : /\ rotation'[n] = "move" <=> rotation[n] = "move"
                            /\ rotation[n] = "none" => rotation'[n] = "none",
         links' \in [Links -> {Free, Used} \cup Slots], minted' \in 0 .. MaxLinks, minted <= minted',
         \A k \in Links : k <= minted => links'[k] \in {links[k], Free},
         \A k \in Links : k > minted' => links'[k] = Free,
         \A k, j \in Links : links'[k] = links'[j] /\ links'[k] \in Slots => k = j
  PROVE  CallsInv'
<1>0. CallsShape /\ SlotsInv /\ MetInv /\ TiedInv /\ LinksLeadHome
  BY DEF CallsInv
<1>1. Numbers' = Numbers /\ MaxLinks \in Nat /\ minted \in 0 .. MaxLinks /\ Links = 1 .. MaxLinks
  BY <1>0, CallsTyped DEF Numbers, CallsShape, Links
<1>2. CallsShape'
  BY <1>0, <1>1 DEF CallsShape, Links
<1>3. SlotsInv'
  <2>1. \A k \in Links : k > minted' => routes'[k] = 0
    BY <1>0, <1>1 DEF SlotsInv
  <2>2. \A n \in Numbers : calls[n].at \in {"bind", "told"} => calls[n].link \in 1 .. minted'
    BY <1>0, <1>1 DEF SlotsInv
  <2> QED BY <1>0, <1>1, <2>1, <2>2 DEF SlotsInv, Links
<1>4. MetInv'
  BY <1>0, <1>1 DEF MetInv, Holding
<1>5. \A k \in Links : links'[k] \in Slots /\ routes[k] # 0 => links'[k] = links[k]
  BY <1>0, <1>1 DEF SlotsInv, Slots, Free
<1>6. \A n \in Numbers : calls[n].at \in {"bind", "told"} =>
        calls[n].link \in Links /\ links'[calls[n].link] \in {links[calls[n].link], Free}
  BY <1>0, <1>1 DEF SlotsInv
<1>7. TiedInv'
  <2>1. \A l \in Links : links'[l] \in Slots /\ routes'[l] # 0 =>
          /\ routes'[l] \in Numbers' /\ Slot(calls'[routes'[l]].way) = links'[l]
          /\ rotation'[routes'[l]] = "move" \/ routes'[l] \in stuck'
    BY <1>0, <1>1, <1>5 DEF TiedInv
  <2>2. \A n \in Numbers \ (crossed \cup past) : calls[n].at = "bind" =>
          links'[calls[n].link] \in {Slot(calls[n].way), Free}
    BY <1>0, <1>6 DEF TiedInv
  <2>3. \A n \in Numbers \ (crossed \cup past) : calls[n].at = "told" =>
          \/ links'[calls[n].link] = Free
          \/ /\ routes[calls[n].link] = IF calls[n].way = "share" THEN 0 ELSE n
             /\ links'[calls[n].link] \in Slots =>
                  /\ links'[calls[n].link] = Slot(calls[n].way)
                  /\ rotation'[n] = "move" \/ n \in stuck
    BY <1>0, <1>6 DEF TiedInv
  <2> QED BY <1>1, <2>1, <2>2, <2>3 DEF TiedInv, Links
<1> QED BY <1>0, <1>2, <1>3, <1>4, <1>7 DEF CallsInv, LinksLeadHome

(* A call whose link could not be found, or not be tied, is over. *)
LEMMA OverKeeps ==
  ASSUME CallsInv, NEW n \in Numbers, calls[n].at \in {"link", "bind"}, calls' = [calls EXCEPT ![n].at = "over"],
         UNCHANGED <<links, minted, routes, rotation, premint, stuck, crossed, past, strays>>
  PROVE  CallsInv'
<1> DEFINE new == [calls[n] EXCEPT !.at = "over"]
<1>0. CallsShape /\ SlotsInv /\ MetInv /\ TiedInv /\ LinksLeadHome
  BY DEF CallsInv
<1>1. calls[n] \in CallRecords
  BY <1>0, CallsTyped
<1>2. new \in CallRecords
  BY <1>1 DEF CallRecords
<1>3. new.way = calls[n].way /\ new.at = "over"
  BY <1>1 DEF CallRecords
<1>4. calls' = [calls EXCEPT ![n] = new]
  OBVIOUS
<1> HIDE DEF new
<1>5. /\ calls' \in Seq(CallRecords) /\ Numbers' = Numbers /\ calls'[n] = new /\ Len(calls') = Len(calls)
      /\ \A m \in Numbers : m # n => calls'[m] = calls[m]
  BY <1>0, <1>2, <1>4, CallGoesOn
<1>6. rotation[n] = "none" /\ n \notin stuck
  BY <1>0 DEF SlotsInv
<1>7. CallsShape' /\ SlotsInv'
  BY <1>0, <1>3, <1>5, <1>6 DEF CallsShape, SlotsInv, Links
<1>8. MetInv'
  BY <1>0, <1>3, <1>5, <1>6 DEF MetInv, Holding
<1>9. TiedInv'
  BY <1>0, <1>3, <1>5, <1>6 DEF TiedInv, Links
<1> QED BY <1>0, <1>7, <1>8, <1>9 DEF CallsInv, LinksLeadHome

(* The user is told of a link. *)
LEMMA ToldKeeps ==
  ASSUME CallsInv, NEW n \in Numbers, calls[n].at = "bind",
         NEW s \in {"told", "over"}, calls' = [calls EXCEPT ![n].at = s],
         rotation' = [rotation EXCEPT ![n] = "move"],
         UNCHANGED <<links, minted, premint, stuck, crossed, past, strays>>,
         \/ calls[n].way = "share" /\ routes' = routes
         \/ calls[n].way # "share" /\ Bound(n)
         \/ calls[n].way # "share" /\ In(Slot(calls[n].way)) = {} /\ routes' = routes
  PROVE  CallsInv'
<1> DEFINE new == [calls[n] EXCEPT !.at = s]
           slot == Slot(calls[n].way)
<1>0. CallsShape /\ SlotsInv /\ MetInv /\ TiedInv /\ LinksLeadHome
  BY DEF CallsInv
<1>1. calls[n] \in CallRecords /\ slot \in Slots /\ n \in Nat \ {0}
  BY <1>0, CallsTyped
<1>2. new \in CallRecords
  BY <1>1 DEF CallRecords
<1>3. new.way = calls[n].way /\ new.at = s /\ new.link = calls[n].link
  BY <1>1 DEF CallRecords
<1>4. calls' = [calls EXCEPT ![n] = new]
  OBVIOUS
<1> HIDE DEF new
<1>5. /\ calls' \in Seq(CallRecords) /\ Numbers' = Numbers /\ calls'[n] = new /\ Len(calls') = Len(calls)
      /\ \A m \in Numbers : m # n => calls'[m] = calls[m]
  BY <1>0, <1>2, <1>4, CallGoesOn
<1>6. rotation[n] = "none" /\ n \notin stuck /\ calls[n].link \in 1 .. minted /\ calls[n].link \in Links
  BY <1>0, CallsTyped DEF SlotsInv, CallsShape, Links
<1>7. /\ rotation' \in Seq({"none", "move", "mint"}) /\ Len(rotation') = Len(rotation) /\ rotation'[n] = "move"
      /\ \A m \in Numbers : m # n => rotation'[m] = rotation[m]
  <2>1. Numbers = 1 .. Len(rotation)
    BY <1>0, CallsTyped DEF CallsShape
  <2> QED BY <1>0, <2>1, ExceptSeq DEF CallsShape
<1>8. Holding(n) /\ \A m \in Numbers : (Holding(m)' <=> Holding(m)) /\ Slot(calls'[m].way) = Slot(calls[m].way)
  BY <1>3, <1>5, <1>7 DEF Holding
<1>9. MetInv'
  BY <1>0, <1>5, <1>8 DEF MetInv
(* Only the table's entry for a link in the slot changes. *)
<1>10. routes' \in [Links -> Nat] /\ \A k \in Links : routes'[k] = routes[k] \/ (routes'[k] = n /\ links[k] = slot)
  <2>1. routes \in [Links -> Nat]
    BY <1>0 DEF CallsShape
  <2> QED BY <1>1, <2>1 DEF Bound, In
<1>11. calls[n].way # "share" /\ links[calls[n].link] = slot => routes'[calls[n].link] = n
  <2>1. \A k \in Links : links[k] = slot /\ links[calls[n].link] = slot => k = calls[n].link
    BY <1>0, <1>1, <1>6 DEF SlotsInv
  <2> QED BY <1>0, <1>6, <2>1 DEF Bound, In, CallsShape
<1>12. n \notin crossed /\ links[calls[n].link] = slot => routes[calls[n].link] = 0
  BY <1>0, <1>1, <1>6, <1>8 DEF TiedInv, MetInv, Holding
<1>13. CallsShape'
  BY <1>0, <1>5, <1>7, <1>10 DEF CallsShape, Links
<1>14. SlotsInv'
  <2>1. \A k \in Links : k > minted => routes'[k] = 0
    BY <1>0, <1>1, <1>10 DEF SlotsInv, Slots, Free
  <2> QED BY <1>0, <1>3, <1>5, <1>6, <1>7, <2>1 DEF SlotsInv, Links
<1>15. TiedInv'
  <2>1. \A l \in Links : links'[l] \in Slots /\ routes'[l] # 0 =>
          /\ routes'[l] \in Numbers' /\ Slot(calls'[routes'[l]].way) = links'[l]
          /\ rotation'[routes'[l]] = "move" \/ routes'[l] \in stuck'
    BY <1>0, <1>5, <1>7, <1>8, <1>10 DEF TiedInv
  <2>2. \A m \in Numbers \ (crossed \cup past) : calls'[m].at = "bind" =>
          links[calls'[m].link] \in {Slot(calls'[m].way), Free}
    BY <1>0, <1>3, <1>5 DEF TiedInv
  <2>3. ASSUME NEW m \in Numbers \ (crossed \cup past), calls'[m].at = "told", links[calls'[m].link] # Free
        PROVE  /\ routes'[calls'[m].link] = IF calls'[m].way = "share" THEN 0 ELSE m
               /\ links[calls'[m].link] \in Slots =>
                    /\ links[calls'[m].link] = Slot(calls'[m].way)
                    /\ rotation'[m] = "move" \/ m \in stuck
    <3>1. CASE m = n
      <4>1. links[calls[n].link] = slot
        BY <1>0, <1>3, <1>5, <2>3, <3>1 DEF TiedInv
      <4> QED BY <1>3, <1>5, <1>7, <1>11, <1>12, <2>3, <3>1, <4>1
    <3>2. CASE m # n
      <4>1. /\ calls'[m] = calls[m] /\ rotation'[m] = rotation[m] /\ calls[m].link \in Links
            /\ routes[calls[m].link] = IF calls[m].way = "share" THEN 0 ELSE m
            /\ links[calls[m].link] \in Slots =>
                 links[calls[m].link] = Slot(calls[m].way) /\ (rotation[m] = "move" \/ m \in stuck)
        BY <1>0, <1>5, <1>7, <2>3, <3>2, CallsTyped DEF TiedInv, SlotsInv, CallsShape, Links
      <4>2. links[calls[m].link] # slot
        BY <1>0, <1>1, <1>8, <2>3, <3>2, <4>1 DEF MetInv, Holding
      <4> QED BY <1>10, <4>1, <4>2
    <3> QED BY <3>1, <3>2
  <2> QED BY <1>5, <2>1, <2>2, <2>3 DEF TiedInv, Links
<1> QED BY <1>0, <1>9, <1>13, <1>14, <1>15 DEF CallsInv, LinksLeadHome

LEMMA MoveKeeps == ASSUME CallsInv, NEW n \in Numbers, Move(n) PROVE CallsInv'
<1> DEFINE slot == Slot(calls[n].way)
<1>0. CallsShape /\ SlotsInv /\ MetInv /\ TiedInv /\ LinksLeadHome
  BY DEF CallsInv
<1>1. slot \in Slots /\ links \in [Links -> {Free, Used} \cup Slots]
  BY <1>0, CallsTyped DEF CallsShape
<1>2. /\ rotation[n] = "move" /\ rotation' = [rotation EXCEPT ![n] = "mint"]
      /\ UNCHANGED <<minted, routes, calls, premint, strays, crossed, past>> /\ Numbers' = Numbers
  BY DEF Move, Table, Numbers
<1>3. /\ rotation' \in Seq({"none", "move", "mint"}) /\ Len(rotation') = Len(rotation) /\ rotation'[n] = "mint"
      /\ \A m \in Numbers : m # n => rotation'[m] = rotation[m]
  <2>1. Numbers = 1 .. Len(rotation)
    BY <1>0, CallsTyped DEF CallsShape
  <2> QED BY <1>0, <1>2, <2>1, ExceptSeq DEF CallsShape
<1>4. calls[n].at \notin {"bind", "link"} /\ Holding(n)
  BY <1>0, <1>2 DEF SlotsInv, Holding
<1>5. CASE stuck' = stuck \cup {n} /\ UNCHANGED links
  <2>1. \A m \in Numbers : Holding(m)' <=> Holding(m)
    BY <1>2, <1>3, <1>4, <1>5 DEF Holding
  <2>2. CallsShape' /\ SlotsInv'
    BY <1>0, <1>2, <1>3, <1>4, <1>5 DEF CallsShape, SlotsInv, Links
  <2>3. MetInv'
    BY <1>0, <1>2, <2>1 DEF MetInv
  <2>4. TiedInv'
    BY <1>0, <1>2, <1>3, <1>5 DEF TiedInv, Links
  <2> QED BY <1>0, <1>2, <2>2, <2>3, <2>4 DEF CallsInv, LinksLeadHome
<1>6. CASE UNCHANGED stuck /\ Moved(slot)
  <2>1. /\ links' \in [Links -> {Free, Used} \cup Slots]
        /\ \A k \in Links : links'[k] = IF links[k] = slot THEN Used ELSE links[k]
    <3>1. CASE In(slot) = {} /\ links' = links
      BY <1>1, <3>1 DEF In
    <3>2. CASE \E l \in In(slot) : links' = [links EXCEPT ![l] = Used]
      <4>1. PICK l \in Links : links[l] = slot /\ links' = [links EXCEPT ![l] = Used]
        BY <3>2 DEF In
      <4>2. \A k \in Links : links[k] = slot => k = l
        BY <1>0, <1>1, <4>1 DEF SlotsInv
      <4> QED BY <1>1, <4>1, <4>2
    <3> QED BY <1>6, <3>1, <3>2 DEF Moved
  <2>2. \A m \in Numbers : Holding(m)' => Holding(m)
    BY <1>2, <1>3, <1>4, <1>6 DEF Holding
  <2>3. CallsShape'
    BY <1>0, <1>2, <1>3, <1>6, <2>1 DEF CallsShape, Links
  <2>4. SlotsInv'
    <3>1. slot # Free /\ \A k \in Links : links'[k] \in Slots => links'[k] = links[k]
      BY <1>1, <2>1 DEF Slots, Used, Free
    <3>2. \A k \in Links : k > minted => links'[k] = Free /\ routes[k] = 0
      BY <1>0, <2>1, <3>1 DEF SlotsInv
    <3> QED BY <1>0, <1>2, <1>3, <1>4, <1>6, <3>1, <3>2 DEF SlotsInv, Links
  <2>5. MetInv'
    BY <1>0, <1>2, <2>2 DEF MetInv
  <2>6. TiedInv'
    <3>1. \A l \in Links : links'[l] \in Slots /\ routes[l] # 0 =>
            /\ routes[l] \in Numbers /\ Slot(calls[routes[l]].way) = links'[l]
            /\ rotation'[routes[l]] = "move" \/ routes[l] \in stuck
      <4>1. \A l \in Links : links'[l] \in Slots => links'[l] = links[l] /\ links[l] # slot
        BY <2>1 DEF Slots, Used
      <4> QED BY <1>0, <1>3, <4>1 DEF TiedInv
    <3>2. \A m \in Numbers \ (crossed \cup past) : calls[m].at = "bind" =>
            links'[calls[m].link] \in {Slot(calls[m].way), Free}
      <4>1. ASSUME NEW m \in Numbers \ (crossed \cup past), calls[m].at = "bind"
            PROVE  links'[calls[m].link] = links[calls[m].link]
        <5>1. m # n /\ Holding(m) /\ calls[m].link \in Links
          BY <1>0, <1>4, <4>1, CallsTyped DEF Holding, SlotsInv, CallsShape, Links
        <5>2. Slot(calls[m].way) # slot
          BY <1>0, <1>4, <4>1, <5>1 DEF MetInv
        <5>3. links[calls[m].link] # slot
          BY <1>0, <1>1, <4>1, <5>2 DEF TiedInv, Slots, Free
        <5> QED BY <2>1, <5>1, <5>3
      <4> QED BY <1>0, <4>1 DEF TiedInv
    <3>3. ASSUME NEW m \in Numbers \ (crossed \cup past), calls[m].at = "told", links'[calls[m].link] # Free
          PROVE  /\ routes[calls[m].link] = IF calls[m].way = "share" THEN 0 ELSE m
                 /\ links'[calls[m].link] \in Slots =>
                      /\ links'[calls[m].link] = Slot(calls[m].way)
                      /\ rotation'[m] = "move" \/ m \in stuck
      <4>1. calls[m].link \in Links
        BY <1>0, <3>3, CallsTyped DEF SlotsInv, CallsShape, Links
      <4>2. links[calls[m].link] # Free
        BY <1>1, <2>1, <3>3, <4>1 DEF Slots, Used, Free
      <4>3. /\ routes[calls[m].link] = IF calls[m].way = "share" THEN 0 ELSE m
            /\ links[calls[m].link] \in Slots =>
                 links[calls[m].link] = Slot(calls[m].way) /\ (rotation[m] = "move" \/ m \in stuck)
        BY <1>0, <3>3, <4>2 DEF TiedInv
      <4>4. links'[calls[m].link] \in Slots => links'[calls[m].link] = links[calls[m].link] /\ links[calls[m].link] # slot
        BY <2>1, <4>1 DEF Slots, Used
      <4> QED BY <1>3, <4>3, <4>4
    <3> QED BY <1>2, <1>6, <3>1, <3>2, <3>3 DEF TiedInv, Links
  <2> QED BY <1>0, <1>2, <2>3, <2>4, <2>5, <2>6 DEF CallsInv, LinksLeadHome
<1> QED BY <1>5, <1>6 DEF Move

LEMMA OpenKeeps == ASSUME CallsInv, NEW n \in Numbers, Open(n) PROVE CallsInv'
<1>0. CallsShape /\ SlotsInv /\ MetInv /\ TiedInv /\ LinksLeadHome
  BY DEF CallsInv
<1>1. PICK s \in Approved(calls[n].link) : strays' = IF Home(n, s) THEN strays ELSE strays \cup {n}
  BY DEF Open
<1>2. UNCHANGED <<links, minted, routes, calls, rotation, premint, stuck, crossed, past>>
  BY DEF Open, History
<1>3. n \notin crossed \cup past => Home(n, s)
  <2>1. SUFFICES ASSUME n \notin crossed \cup past PROVE Home(n, s)
    OBVIOUS
  <2>2. routes[calls[n].link] = IF calls[n].way = "share" THEN 0 ELSE n
    BY <1>0, <2>1 DEF Open, TiedInv
  <2>3. n # 0
    BY <1>0, CallsTyped
  <2> QED BY <1>1, <2>2, <2>3 DEF Home, Approved
<1>4. CallsShape' /\ SlotsInv' /\ MetInv' /\ TiedInv'
  BY <1>0, <1>2 DEF CallsShape, SlotsInv, MetInv, TiedInv, Holding, Numbers, Links
<1> QED BY <1>0, <1>1, <1>2, <1>3, <1>4 DEF CallsInv, LinksLeadHome

LEMMA RestartKeepsCalls == ASSUME CallsInv, RestartCalls PROVE CallsInv'
<1> DEFINE S == {"none", "move", "mint"}
           k == Len(calls)
<1>0. CallsShape /\ SlotsInv /\ MetInv /\ TiedInv /\ LinksLeadHome
  BY DEF CallsInv
<1>1. k \in Nat /\ Numbers = 1 .. k /\ \A n \in Numbers : calls[n] \in CallRecords
  BY <1>0, CallsTyped
<1>2. \A n \in Numbers : /\ calls'[n] \in CallRecords /\ calls'[n].way = calls[n].way
                         /\ calls'[n].at \in {"told", "over"} /\ (calls'[n].at = "told" => calls'[n] = calls[n])
  BY <1>1 DEF RestartCalls, CallRecords
<1>3. rotation' = [n \in 1 .. k |-> "none"] /\ calls' = [n \in 1 .. k |-> calls'[n]]
  BY <1>1 DEF RestartCalls
<1>4. rotation' \in Seq(S) /\ Len(rotation') = k
  <2>1. rotation' \in [1 .. k -> S]
    BY <1>3
  <2>2. rotation' \in Seq(S)
    BY <1>1, <2>1 
  <2> QED BY <1>1, <1>3, <2>2, LenProperties
<1>5. calls' \in Seq(CallRecords) /\ Len(calls') = k
  <2>1. calls' \in [1 .. k -> CallRecords]
    BY <1>1, <1>2, <1>3
  <2>2. calls' \in Seq(CallRecords)
    BY <1>1, <2>1 
  <2> QED BY <1>1, <1>3, <2>2, LenProperties
<1>6. Numbers' = Numbers /\ \A n \in Numbers : rotation'[n] = "none"
  BY <1>1, <1>3, <1>5 DEF Numbers
<1>7. /\ UNCHANGED <<links, minted, strays, stuck, crossed>> /\ past' = Numbers
      /\ routes' = [l \in Links |-> 0] /\ premint' \subseteq Slots
  BY DEF RestartCalls, Slots
<1>8. CallsShape'
  BY <1>0, <1>1, <1>4, <1>5, <1>6, <1>7 DEF CallsShape, Links
<1>9. SlotsInv'
  BY <1>0, <1>2, <1>6, <1>7 DEF SlotsInv, Links
<1>10. MetInv'
  BY <1>0, <1>2, <1>6, <1>7 DEF MetInv, Holding
<1>11. TiedInv'
  BY <1>6, <1>7 DEF TiedInv, Links
<1>12. LinksLeadHome'
  BY <1>0, <1>7 DEF CallsShape, LinksLeadHome
<1> QED BY <1>8, <1>9, <1>10, <1>11, <1>12 DEF CallsInv

LEMMA CallsStep == ASSUME CallsInv, [CallsNext]_callsVars PROVE CallsInv'
<1>0. CallsShape /\ SlotsInv /\ minted \in 0 .. MaxLinks /\ MaxLinks \in Nat /\ Links = 1 .. MaxLinks
  BY CallsTyped DEF CallsInv, CallsShape, Links
<1>1. CASE PlaceCall \/ ShareLink \/ Ring \/ Missed
  BY <1>1, BeginKeepsCalls DEF PlaceCall, ShareLink, Ring, Missed, Ways
<1>2. ASSUME NEW n \in Numbers, TakeLink(n) PROVE CallsInv'
  BY <1>2, TakeLinkKeeps
<1>3. ASSUME NEW n \in Numbers, TakeFails(n) PROVE CallsInv'
  BY <1>3, OverKeeps DEF TakeFails, Table, History
<1>4. ASSUME NEW n \in Numbers, BindCall(n) PROVE CallsInv'
  <2>1. /\ calls[n].at = "bind" /\ calls[n].way = "call"
        /\ UNCHANGED <<links, minted, premint, stuck, crossed, past, strays>>
    BY <1>4 DEF BindCall, History
  <2>2. CASE Bound(n) /\ Told(n)
    BY <2>1, <2>2, ToldKeeps DEF Told
  <2>3. CASE calls' = [calls EXCEPT ![n].at = "over"] /\ UNCHANGED <<routes, rotation>>
    BY <2>1, <2>3, OverKeeps
  <2> QED BY <1>4, <2>2, <2>3 DEF BindCall
<1>5. ASSUME NEW n \in Numbers, BindRing(n) PROVE CallsInv'
  <2>1. /\ calls[n].at = "bind" /\ calls[n].way = "ring" /\ Slot(calls[n].way) = "nextincomingcall"
        /\ UNCHANGED <<links, minted, premint, stuck, crossed, past, strays>>
    BY <1>5 DEF BindRing, History, Slot
  <2>2. Bound(n) \/ (In(Slot(calls[n].way)) = {} /\ routes' = routes)
    BY <1>5, <2>1 DEF BindRing
  <2>3. Told(n)
    BY <1>5 DEF BindRing
  <2> QED BY <2>1, <2>2, <2>3, ToldKeeps DEF Told
<1>6. ASSUME NEW n \in Numbers, Shared(n) PROVE CallsInv'
  <2>1. /\ calls[n].at = "bind" /\ calls[n].way = "share" /\ rotation' = [rotation EXCEPT ![n] = "move"]
        /\ UNCHANGED <<links, minted, premint, stuck, crossed, past, strays, routes>>
        /\ calls' = [calls EXCEPT ![n].at = "told"] \/ calls' = [calls EXCEPT ![n].at = "over"]
    BY <1>6 DEF Shared, History, Table
  <2> QED BY <2>1, ToldKeeps
<1>7. ASSUME NEW n \in Numbers, Move(n) PROVE CallsInv'
  BY <1>7, MoveKeeps
(* What a new link in a slot, or none, leaves alone. *)
<1>8. ASSUME NEW slot \in Slots, (\E l \in Links : LinkFor(slot, l)) \/ UNCHANGED <<links, minted>>
      PROVE  /\ links' \in [Links -> {Free, Used} \cup Slots] /\ minted' \in 0 .. MaxLinks /\ minted <= minted'
             /\ \A k \in Links : k <= minted => links'[k] \in {links[k], Free}
             /\ \A k \in Links : k > minted' => links'[k] = Free
             /\ \A k, j \in Links : links'[k] = links'[j] /\ links'[k] \in Slots => k = j
  <2>1. CASE UNCHANGED <<links, minted>>
    BY <1>0, <2>1 DEF CallsShape, SlotsInv
  <2>2. CASE \E l \in Links : LinkFor(slot, l)
    <3>1. PICK l \in Links : LinkFor(slot, l)
      BY <2>2
    <3> QED BY <1>0, <3>1, LinkForGives
  <2> QED BY <1>8, <2>1, <2>2
<1>9. ASSUME NEW n \in Numbers, Mint(n) PROVE CallsInv'
  <2>1. /\ rotation[n] = "mint" /\ rotation' = [rotation EXCEPT ![n] = "none"]
        /\ UNCHANGED <<routes, calls, stuck, crossed, past, strays, premint>>
        /\ (\E l \in Links : LinkFor(Slot(calls[n].way), l)) \/ UNCHANGED <<links, minted>>
        /\ Slot(calls[n].way) \in Slots
    BY <1>0, <1>9, CallsTyped DEF Mint, Table, History
  <2>2. /\ rotation' \in Seq({"none", "move", "mint"}) /\ Len(rotation') = Len(rotation) /\ rotation'[n] = "none"
        /\ \A m \in Numbers : m # n => rotation'[m] = rotation[m]
    <3>1. Numbers = 1 .. Len(rotation)
      BY <1>0, CallsTyped DEF CallsShape
    <3> QED BY <1>0, <2>1, <3>1, ExceptSeq DEF CallsShape
  <2> QED BY <1>8, <2>1, <2>2, LinksChange
<1>10. ASSUME NEW slot \in premint, Premint(slot) PROVE CallsInv'
  <2>1. /\ UNCHANGED <<routes, calls, stuck, crossed, past, strays, rotation>> /\ premint' \subseteq premint
        /\ (\E l \in Links : LinkFor(slot, l)) \/ UNCHANGED <<links, minted>>
        /\ slot \in Slots /\ rotation \in Seq({"none", "move", "mint"})
    BY <1>0, <1>10 DEF Premint, Table, History, CallsShape
  <2> QED BY <1>8, <2>1, LinksChange
<1>11. CASE ClearLinks \/ (\E l \in Links : DeleteLink(l))
  <2>1. /\ UNCHANGED <<routes, calls, stuck, crossed, past, strays, rotation, minted, premint>>
        /\ rotation \in Seq({"none", "move", "mint"})
    BY <1>0, <1>11 DEF ClearLinks, DeleteLink, Table, History, CallsShape
  <2>2. /\ links' \in [Links -> {Free, Used} \cup Slots]
        /\ \A k \in Links : links'[k] \in {links[k], Free}
    BY <1>0, <1>11 DEF ClearLinks, DeleteLink, CallsShape
  <2>3. /\ \A k \in Links : k > minted' => links'[k] = Free
        /\ \A k, j \in Links : links'[k] = links'[j] /\ links'[k] \in Slots => k = j
    BY <1>0, <2>1, <2>2 DEF SlotsInv, Slots, Free
  <2> QED BY <1>0, <2>1, <2>2, <2>3, LinksChange
<1>12. ASSUME NEW n \in Numbers, Open(n) PROVE CallsInv'
  BY <1>12, OpenKeeps
<1>13. ASSUME UNCHANGED <<links, minted, routes, calls, rotation, premint, stuck, crossed, past, strays>> PROVE CallsInv'
  BY <1>13 DEF CallsInv, CallsShape, SlotsInv, MetInv, TiedInv, LinksLeadHome, Holding, Numbers, Links
<1>14. ASSUME NEW n \in Numbers, Expire(n) \/ RingEnds(n) PROVE CallsInv'
  BY <1>13, <1>14 DEF Expire, RingEnds, History
<1>15. ASSUME NEW s \in guests, Joined(s) PROVE CallsInv'
  BY <1>13, <1>15 DEF Joined, History
<1>16. CASE RestartCalls
  BY <1>16, RestartKeepsCalls
<1>17. CASE UNCHANGED callsVars
  BY <1>13, <1>17 DEF callsVars
<1> QED BY <1>1, <1>2, <1>3, <1>4, <1>5, <1>6, <1>7, <1>9, <1>10, <1>11, <1>12, <1>14, <1>15, <1>16, <1>17 DEF CallsNext

(* LinksLeadHome: who opens the link of a notice is let into the call the notice is about,  *)
(* and a shared link is tied to no call, unless calls met at a slot or the process ended    *)
(* (armBridgeFaceTimeCall, auto_approve_bridge_letmein).                                    *)
THEOREM NoticesLeadHome == CallsSpec => []LinksLeadHome
<1>1. CallsInit => CallsInv
  BY CallsStart
<1>2. CallsInv /\ [CallsNext]_callsVars => CallsInv'
  BY CallsStep
<1>3. CallsInv => LinksLeadHome
  BY DEF CallsInv
<1> QED BY <1>1, <1>2, <1>3, PTL DEF CallsSpec
=============================================================================
