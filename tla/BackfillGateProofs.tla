------------------------- MODULE BackfillGateProofs -------------------------
(***************************************************************************)
(* Live messages and history in the rooms, for all conversations and       *)
(* whatever earlier sessions have shown: the history of a room stays in    *)
(* the order it was sent, and on a new bridge the counter of forward       *)
(* backfills reaches zero only when every history is in its room.          *)
(***************************************************************************)
EXTENDS BackfillGate, FiniteSetTheorems, SequenceTheorems, TLAPS

-----------------------------------------------------------------------------
(* Sorting by time. *)

Before(S, m) == {k \in S : Stamp[k] < Stamp[m]}
After(S, m) == {k \in S : Stamp[k] > Stamp[m]}

LEMMA Finite ==
  ASSUME NEW S \in SUBSET Guids
  PROVE  /\ IsFiniteSet(S) /\ Cardinality(S) \in Nat
         /\ \A m \in Guids : /\ IsFiniteSet(Before(S, m)) /\ Cardinality(Before(S, m)) \in Nat
                             /\ IsFiniteSet(After(S, m)) /\ Cardinality(After(S, m)) \in Nat
<1>1. \A T \in SUBSET Guids : IsFiniteSet(T) /\ Cardinality(T) \in Nat
  BY FS_Subset, FS_CardinalityType, GateAssumption
<1>2. \A m \in Guids : Before(S, m) \in SUBSET Guids /\ After(S, m) \in SUBSET Guids
  BY DEF Before, After
<1> QED BY <1>1, <1>2

(* A message sent before another has fewer before it. *)
LEMMA FewerBefore ==
  ASSUME NEW S \in SUBSET Guids, NEW m \in S, NEW n \in Guids
  PROVE  /\ Stamp[m] < Stamp[n] => Cardinality(Before(S, m)) < Cardinality(Before(S, n))
         /\ Stamp[n] <= Stamp[m] => Cardinality(Before(S, n)) <= Cardinality(Before(S, m))
<1>1. \A x \in Guids : Stamp[x] \in Nat
  BY StoreAssumption
<1>0. Cardinality(Before(S, m)) \in Nat /\ Cardinality(Before(S, n)) \in Nat
  BY Finite
<1>2. ASSUME Stamp[m] < Stamp[n] PROVE Cardinality(Before(S, m)) < Cardinality(Before(S, n))
  <2>1. Before(S, m) \in SUBSET Before(S, n) /\ m \in Before(S, n) /\ m \notin Before(S, m)
    BY <1>1, <1>2 DEF Before
  <2>2. /\ Cardinality(Before(S, m)) <= Cardinality(Before(S, n))
        /\ Cardinality(Before(S, n)) # Cardinality(Before(S, m))
    <3>1. IsFiniteSet(Before(S, n)) /\ Before(S, m) # Before(S, n)
      BY <2>1, Finite
    <3> QED BY <2>1, <3>1, FS_Subset
  <2> QED BY <2>2, <1>0
<1>3. ASSUME Stamp[n] <= Stamp[m] PROVE Cardinality(Before(S, n)) <= Cardinality(Before(S, m))
  <2>1. Before(S, n) \in SUBSET Before(S, m)
    BY <1>1, <1>3 DEF Before
  <2> QED BY <2>1, Finite, FS_Subset
<1> QED BY <1>2, <1>3

(* Every place has its message. *)
LEMMA Ranks ==
  ASSUME NEW S \in SUBSET Guids
  PROVE  /\ \A m \in S : Cardinality(Before(S, m)) \in 0 .. Cardinality(S) - 1
         /\ \A m, n \in S : Cardinality(Before(S, m)) = Cardinality(Before(S, n)) => m = n
         /\ \A i \in 1 .. Cardinality(S) : \E m \in S : Cardinality(Before(S, m)) = i - 1
<1> DEFINE N == Cardinality(S)
           rank == [m \in S |-> Cardinality(Before(S, m))]
<1>1. N \in Nat /\ IsFiniteSet(S)
  BY Finite
<1>2. ASSUME NEW m \in S PROVE Cardinality(Before(S, m)) \in 0 .. N - 1
  <2>1. Before(S, m) \in SUBSET S /\ m \notin Before(S, m)
    BY StoreAssumption DEF Before
  <2>2. Cardinality(Before(S, m)) <= N /\ Cardinality(Before(S, m)) # N
    BY <2>1, <1>1, FS_Subset
  <2>3. Cardinality(Before(S, m)) \in Nat
    BY Finite
  <2> QED BY <2>2, <2>3, <1>1
<1>3. ASSUME NEW m \in S, NEW n \in S, Cardinality(Before(S, m)) = Cardinality(Before(S, n))
      PROVE  m = n
  <2>1. Stamp[m] \in Nat /\ Stamp[n] \in Nat
    BY StoreAssumption
  <2>2. ~(Stamp[m] < Stamp[n]) /\ ~(Stamp[n] < Stamp[m])
    BY <1>3, FewerBefore, Finite
  <2>3. Stamp[m] = Stamp[n]
    BY <2>1, <2>2
  <2> QED BY <2>3, GateAssumption
<1>4. rank \in Injection(S, 0 .. N - 1)
  BY <1>2, <1>3 DEF Injection, IsInjective
<1>5. IsFiniteSet(0 .. N - 1) /\ Cardinality(0 .. N - 1) = N
  BY SMTT(30), <1>1, FS_Interval
<1>6. rank \in Surjection(S, 0 .. N - 1)
  BY <1>4, <1>5, FS_Injection
<1>7. \A i \in 1 .. N : \E m \in S : Cardinality(Before(S, m)) = i - 1
  <2> SUFFICES ASSUME NEW i \in 1 .. N PROVE \E m \in S : rank[m] = i - 1
    OBVIOUS
  <2>1. i - 1 \in 0 .. N - 1
    BY <1>1
  <2> QED BY <2>1, <1>6 DEF Surjection
<1> QED BY <1>2, <1>3, <1>7

LEMMA Sorted ==
  ASSUME NEW S \in SUBSET Guids
  PROVE  /\ OldestFirst(S) \in Seq(S) /\ Len(OldestFirst(S)) = Cardinality(S)
         /\ ToSet(OldestFirst(S)) = S
         /\ \A i, j \in 1 .. Len(OldestFirst(S)) :
              i < j => Stamp[OldestFirst(S)[i]] < Stamp[OldestFirst(S)[j]]
<1> DEFINE N == Cardinality(S)
           at(i) == CHOOSE m \in S : Cardinality(Before(S, m)) = i - 1
           s == OldestFirst(S)
<1>1. N \in Nat
  BY Finite
<1>2. s = [i \in 1 .. N |-> at(i)]
  BY DEF OldestFirst, Before
<1>3. ASSUME NEW i \in 1 .. N PROVE at(i) \in S /\ Cardinality(Before(S, at(i))) = i - 1
  BY Ranks
<1> HIDE DEF s, at
<1>4. s \in [1 .. N -> S]
  BY <1>2, <1>3
<1>5. s \in Seq(S) /\ Len(s) = N /\ DOMAIN s = 1 .. N
  BY <1>1, <1>4
<1>6. ASSUME NEW m \in S PROVE \E i \in 1 .. N : s[i] = m
  <2> DEFINE i == Cardinality(Before(S, m)) + 1
  <2>1. i \in 1 .. N
    BY <1>1, Ranks
  <2>2. at(i) \in S /\ Cardinality(Before(S, at(i))) = Cardinality(Before(S, m))
    BY <2>1, <1>3, Finite
  <2>3. at(i) = m
    BY <2>2, Ranks
  <2> QED BY <2>1, <2>3, <1>2
<1>7. ToSet(s) = S
  BY <1>4, <1>5, <1>6 DEF ToSet
<1>8. ASSUME NEW i \in 1 .. N, NEW j \in 1 .. N, i < j PROVE Stamp[s[i]] < Stamp[s[j]]
  <2>1. s[i] \in S /\ s[j] \in S /\ s[i] = at(i) /\ s[j] = at(j)
    BY <1>2, <1>3
  <2>2. Cardinality(Before(S, s[i])) = i - 1 /\ Cardinality(Before(S, s[j])) = j - 1
    BY <2>1, <1>3
  <2>3. ~(Stamp[s[j]] <= Stamp[s[i]])
    BY <2>1, <2>2, <1>8, <1>1, FewerBefore
  <2> QED BY <2>1, <2>3, StoreAssumption
<1> QED BY <1>5, <1>7, <1>8 DEF s

(* Several messages have a last one. *)
LEMMA LastThere ==
  ASSUME NEW S \in SUBSET Guids, S # {}
  PROVE  \E m \in S : \A k \in S : Stamp[k] <= Stamp[m]
<1> DEFINE N == Cardinality(S)
<1>1. N \in Nat /\ N # 0
  BY Finite, FS_EmptySet
<1>2. N \in 1 .. N
  BY <1>1
<1>3. PICK m \in S : Cardinality(Before(S, m)) = N - 1
  BY <1>2, Ranks
<1>4. ASSUME NEW k \in S PROVE ~(Stamp[k] > Stamp[m])
  <2>1. Cardinality(Before(S, k)) \in 0 .. N - 1
    BY Ranks
  <2> QED BY <1>3, <1>1, <2>1, FewerBefore, StoreAssumption
<1> QED BY <1>4, StoreAssumption

(* And a first one. *)
LEMMA FirstThere ==
  ASSUME NEW S \in SUBSET Guids, S # {}
  PROVE  \E m \in S : \A k \in S : Stamp[m] <= Stamp[k]
<1>1. Cardinality(S) \in Nat /\ Cardinality(S) # 0
  BY Finite, FS_EmptySet
<1>2. 1 \in 1 .. Cardinality(S)
  BY <1>1
<1>3. PICK m \in S : Cardinality(Before(S, m)) = 0
  BY <1>2, Ranks
<1>4. Before(S, m) = {}
  BY <1>3, Finite, FS_EmptySet
<1> QED BY <1>4, StoreAssumption DEF Before

(* The last is in every selection of the newest. *)
LEMMA NewestThere ==
  ASSUME NEW S \in SUBSET Guids, NEW n \in Nat \ {0}
  PROVE  /\ Newest(S, n) \in SUBSET S
         /\ Newest(S, n) = {} => S = {}
         /\ n >= Cardinality(Guids) => Newest(S, n) = S
<1>1. Newest(S, n) \in SUBSET S
  BY DEF Newest
<1>2. ASSUME S # {} PROVE Newest(S, n) # {}
  <2>1. PICK m \in S : \A k \in S : Stamp[k] <= Stamp[m]
    BY <1>2, LastThere
  <2>2. {k \in S : Stamp[k] > Stamp[m]} = {}
    BY <2>1, StoreAssumption
  <2>3. m \in Newest(S, n)
    BY <2>2, FS_EmptySet DEF Newest
  <2> QED BY <2>3
<1>3. ASSUME n >= Cardinality(Guids) PROVE Newest(S, n) = S
  <2>1. ASSUME NEW m \in S PROVE Cardinality(After(S, m)) < n
    <3>1. After(S, m) \in SUBSET Guids /\ m \notin After(S, m) /\ m \in Guids
      BY StoreAssumption DEF After
    <3>2. Cardinality(After(S, m)) <= Cardinality(Guids) /\ Cardinality(After(S, m)) # Cardinality(Guids)
      <4>1. IsFiniteSet(Guids) /\ After(S, m) # Guids
        BY <3>1, GateAssumption
      <4> QED BY <3>1, <4>1, FS_Subset
    <3>3. Cardinality(Guids) \in Nat /\ Cardinality(After(S, m)) \in Nat
      BY Finite
    <3> QED BY <3>2, <3>3, <1>3
  <2> QED BY <2>1 DEF Newest, After
<1> QED BY <1>1, <1>2, <1>3

-----------------------------------------------------------------------------
(* What a room shows. *)

InOrder(s) ==
  \A i, j \in 1 .. Len(s) :
    i < j /\ {s[i], s[j]} \cap Live = {} => Stamp[s[i]] < Stamp[s[j]]

LEMMA Joined ==
  ASSUME NEW s \in Seq(Guids), NEW t \in Seq(Guids)
  PROVE  /\ s \o t \in Seq(Guids) /\ ToSet(s \o t) = ToSet(s) \cup ToSet(t)
         /\ s \o t = <<>> => s = <<>> /\ t = <<>>
         /\ InOrder(s) /\ InOrder(t) /\ (\A k \in ToSet(s), m \in ToSet(t) : Stamp[k] < Stamp[m])
              => InOrder(s \o t)
<1> DEFINE u == s \o t
           L == Len(s)
           M == Len(t)
<1>1. /\ u \in Seq(Guids) /\ Len(u) = L + M /\ L \in Nat /\ M \in Nat
      /\ \A i \in 1 .. L : u[i] = s[i]
      /\ \A i \in L + 1 .. L + M : u[i] = t[i - L] /\ i - L \in 1 .. M
  OBVIOUS
<1>2. DOMAIN s = 1 .. L /\ DOMAIN t = 1 .. M /\ DOMAIN u = 1 .. L + M
  BY <1>1
<1> HIDE DEF u, L, M
<1>3. ToSet(u) = ToSet(s) \cup ToSet(t)
  <2>1. ToSet(u) \subseteq ToSet(s) \cup ToSet(t)
    <3> SUFFICES ASSUME NEW i \in 1 .. L + M PROVE u[i] \in ToSet(s) \cup ToSet(t)
      BY <1>2 DEF ToSet
    <3>1. CASE i \in 1 .. L
      BY <3>1, <1>1, <1>2 DEF ToSet
    <3>2. CASE i \in L + 1 .. L + M
      BY <3>2, <1>1, <1>2 DEF ToSet
    <3> QED BY <3>1, <3>2, <1>1
  <2>2. ToSet(s) \subseteq ToSet(u)
    BY <1>1, <1>2 DEF ToSet
  <2>3. ToSet(t) \subseteq ToSet(u)
    <3> SUFFICES ASSUME NEW j \in 1 .. M PROVE t[j] \in ToSet(u)
      BY <1>2 DEF ToSet
    <3>1. L + j \in L + 1 .. L + M /\ (L + j) - L = j /\ L + j \in 1 .. L + M
      BY <1>1
    <3> QED BY <3>1, <1>1, <1>2 DEF ToSet
  <2> QED BY <2>1, <2>2, <2>3
<1>4. u = <<>> => s = <<>> /\ t = <<>>
  BY <1>1, <1>2 DEF L, M
<1>5. ASSUME InOrder(s), InOrder(t), \A k \in ToSet(s), m \in ToSet(t) : Stamp[k] < Stamp[m]
      PROVE  InOrder(u)
  <2> SUFFICES ASSUME NEW i \in 1 .. L + M, NEW j \in 1 .. L + M, i < j,
                      {u[i], u[j]} \cap Live = {}
               PROVE  Stamp[u[i]] < Stamp[u[j]]
    BY <1>1 DEF InOrder
  <2>1. CASE j \in 1 .. L
    <3>1. i \in 1 .. L
      BY <2>1, <1>1
    <3> QED BY <2>1, <3>1, <1>1, <1>5 DEF InOrder, L
  <2>2. CASE i \in L + 1 .. L + M
    <3>1. j \in L + 1 .. L + M /\ i - L < j - L
      BY <2>2, <1>1
    <3>2. u[i] = t[i - L] /\ u[j] = t[j - L] /\ i - L \in 1 .. M /\ j - L \in 1 .. M
      BY <2>2, <3>1, <1>1
    <3>3. \A a, b \in 1 .. M : a < b /\ {t[a], t[b]} \cap Live = {} => Stamp[t[a]] < Stamp[t[b]]
      BY <1>5 DEF InOrder, M
    <3> QED BY <3>1, <3>2, <3>3
  <2>3. CASE i \in 1 .. L /\ j \in L + 1 .. L + M
    <3>1. u[i] \in ToSet(s) /\ u[j] \in ToSet(t)
      BY <2>3, <1>1, <1>2 DEF ToSet
    <3> QED BY <3>1, <1>5
  <2> QED BY <2>1, <2>2, <2>3, <1>1
<1> QED BY <1>1, <1>3, <1>4, <1>5 DEF u

LastOf(s) == s[Len(s)]

LEMMA LastShown ==
  ASSUME NEW s \in Seq(Guids), s # <<>>
  PROVE  LastOf(s) \in Guids /\ LastOf(s) \in ToSet(s)
<1>1. Len(s) \in 1 .. Len(s) /\ DOMAIN s = 1 .. Len(s) /\ s[Len(s)] \in Guids
  OBVIOUS
<1> QED BY <1>1 DEF LastOf, ToSet

(* The messages of a set, oldest first, are a piece of history. *)
LEMMA Ordered ==
  ASSUME NEW S \in SUBSET Guids
  PROVE  /\ OldestFirst(S) \in Seq(Guids) /\ InOrder(OldestFirst(S))
         /\ ToSet(OldestFirst(S)) = S /\ (OldestFirst(S) = <<>> <=> S = {})
<1>1. /\ OldestFirst(S) \in Seq(S) /\ Len(OldestFirst(S)) = Cardinality(S)
      /\ ToSet(OldestFirst(S)) = S /\ InOrder(OldestFirst(S))
  BY Sorted DEF InOrder
<1>2. OldestFirst(S) \in Seq(Guids)
  BY <1>1, SeqMonotonic
<1>3. OldestFirst(S) = <<>> <=> S = {}
  BY <1>1, Finite, FS_EmptySet
<1> QED BY <1>1, <1>2, <1>3

(* A live message is added at the end. *)
LEMMA Added ==
  ASSUME NEW s \in Seq(Guids), NEW m \in Live
  PROVE  /\ Append(s, m) \in Seq(Guids) /\ Append(s, m) # <<>>
         /\ ToSet(Append(s, m)) = ToSet(s) \cup {m}
         /\ InOrder(s) => InOrder(Append(s, m))
<1> DEFINE t == <<m>>
<1>1. t \in Seq(Guids) /\ t # <<>> /\ Append(s, m) = s \o t
  BY GateAssumption
<1>2. /\ Len(Append(s, m)) = Len(s) + 1 /\ Len(s) \in Nat
      /\ \A i \in 1 .. Len(s) : Append(s, m)[i] = s[i]
      /\ Append(s, m)[Len(s) + 1] = m
  OBVIOUS
<1>3. InOrder(s) => InOrder(Append(s, m))
  BY <1>2 DEF InOrder
<1>4. ToSet(t) = {m}
  BY DEF ToSet
<1> QED BY <1>1, <1>3, <1>4, Joined

-----------------------------------------------------------------------------
(* The invariant. *)

Flushing == [at: {"idle", "flush", "held"}, rest: SUBSET Live, cur: Live \cup {NoMsg},
             verdict: {"drop", "hold", "show"}, create: BOOLEAN]
Batches == {NoBatch} \cup [at: {"fetched"}, rows: SUBSET Guids]
PortalEvents == [type: {"resync", "msg"}, msg: Guids \cup {NoMsg}, create: BOOLEAN]

PortalShape ==
  /\ room \subseteq Portals /\ callback \subseteq Portals /\ ordered \subseteq Portals
  /\ shown \in [Portals -> Seq(Guids)] /\ batch \in [Portals -> Batches]
  /\ events \in [Portals -> Seq(PortalEvents)]
  /\ \A p \in Portals : \A i \in 1 .. Len(events[p]) :
       events[p][i].type = "msg" => events[p][i].msg \in Live

FlushShape ==
  /\ buffer \subseteq Live /\ held \subseteq Live
  /\ flusher \in [Flushers -> Flushing]

GateShape ==
  /\ chat \in [ChatIds -> ChatRow] /\ msg \in [Guids -> MsgRow]
  /\ back \in [Portals -> {"off", "todo", "done"}] /\ pending \in Int /\ gate \in BOOLEAN
  /\ passes \in 0 .. Passes /\ PortalShape /\ FlushShape

(* The history is in the store and stays there; every row is in its portal. *)
StoreInv ==
  /\ \A m \in History : msg[m].state = "live" /\ msg[m].cloud /\ msg[m].portal = Home[m]
  /\ \A m \in Guids : msg[m].state # "none" => msg[m].portal = Home[m]

(* What a room shows is in order; what was fetched for it is newer than all it    *)
(* shows, or a backward page has shown it by now.                                 *)
RoomInv(p) ==
  /\ InOrder(shown[p])
  /\ batch[p] # NoBatch =>
       /\ batch[p].rows \subseteq Backfillable(msg, p)
       /\ \/ \A m \in batch[p].rows, k \in Shown(p) : Stamp[k] < Stamp[m]
          \/ batch[p].rows \subseteq Shown(p)

RoomsInv == \A p \in Portals : RoomInv(p)

GateInv == GateShape /\ StoreInv /\ RoomsInv

-----------------------------------------------------------------------------
(* The store. *)

LEMMA Remembered ==
  ASSUME msg \in [Guids -> MsgRow], NEW m \in Live, NEW p \in Portals
  PROVE  /\ PersistUUID(msg, m, p) \in [Guids -> MsgRow]
         /\ \A q \in Portals : Backfillable(PersistUUID(msg, m, p), q) = Backfillable(msg, q)
         /\ \A k \in Guids : \/ PersistUUID(msg, m, p)[k] = msg[k]
                              \/ /\ msg[k].state = "none" /\ k = m
                                 /\ PersistUUID(msg, m, p)[k].portal = p
<1>1. m \in Guids
  BY GateAssumption
<1> DEFINE row == [state |-> "live", portal |-> p, cloud |-> FALSE, body |-> "none"]
<1>2. row \in MsgRow
  BY DEF MsgRow, RowStates
<1>3. CASE Known(msg, m)
  <2>1. PersistUUID(msg, m, p) = msg
    BY <1>3 DEF PersistUUID
  <2> QED BY <2>1
<1>4. CASE ~Known(msg, m)
  <2> DEFINE new == PersistUUID(msg, m, p)
  <2>1. new = [msg EXCEPT ![m] = row] /\ msg[m].state = "none"
    BY <1>4 DEF PersistUUID, Known
  <2>2. new \in [Guids -> MsgRow] /\ new[m] = row /\ \A k \in Guids \ {m} : new[k] = msg[k]
    BY <2>1, <1>1, <1>2
  <2> HIDE DEF new
  <2>3. row.cloud = FALSE
    OBVIOUS
  <2>4. ASSUME NEW q \in Portals PROVE Backfillable(new, q) = Backfillable(msg, q)
    <3>1. m \notin Backfillable(new, q) /\ m \notin Backfillable(msg, q)
      BY <2>1, <2>2, <2>3 DEF Backfillable, MsgsOf
    <3>2. \A k \in Guids \ {m} : k \in Backfillable(new, q) <=> k \in Backfillable(msg, q)
      BY <2>2 DEF Backfillable, MsgsOf
    <3> QED BY <3>1, <3>2 DEF Backfillable, MsgsOf
  <2>5. \A k \in Guids : new[k] = msg[k] \/ (msg[k].state = "none" /\ k = m /\ new[k].portal = p)
    BY <2>1, <2>2
  <2> QED BY <2>2, <2>4, <2>5 DEF new
<1> QED BY <1>3, <1>4

LEMMA MarkedDone ==
  ASSUME chat \in [ChatIds -> ChatRow], NEW p \in Portals, NEW own
  PROVE  MarkForwardDone(chat, p, own) \in [ChatIds -> ChatRow]
<1> DEFINE new == MarkForwardDone(chat, p, own)
<1>1. \A c \in ChatIds : chat[c] \in ChatRow
  OBVIOUS
<1>2. \A c \in ChatIds : [chat[c] EXCEPT !.fwd = TRUE] \in ChatRow
  BY <1>1 DEF ChatRow
<1>3. [state |-> "live", portal |-> p, ts |-> 0, fwd |-> TRUE] \in ChatRow
  BY DEF ChatRow, RowStates
<1>4. CASE ChatsOf(chat, p, {"live", "deleted"}) # {}
  <2>1. new = [c \in ChatIds |-> IF chat[c].portal = p /\ chat[c].state # "none"
                          THEN [chat[c] EXCEPT !.fwd = TRUE] ELSE chat[c]]
    BY <1>4 DEF MarkForwardDone
  <2> HIDE DEF new
  <2>2. new \in [ChatIds -> ChatRow]
    BY <2>1, <1>1, <1>2
  <2> QED BY <2>2 DEF new
<1>5. CASE ChatsOf(chat, p, {"live", "deleted"}) = {}
  <2>1. new = [c \in ChatIds |-> IF c = own /\ chat[c].state = "none"
                          THEN [state |-> "live", portal |-> p, ts |-> 0, fwd |-> TRUE]
                          ELSE chat[c]]
    BY <1>5 DEF MarkForwardDone
  <2> HIDE DEF new
  <2>2. new \in [ChatIds -> ChatRow]
    BY <2>1, <1>1, <1>3
  <2> QED BY <2>2 DEF new
<1> QED BY <1>4, <1>5

(* What FetchForward returns. *)
LEMMA Fetched ==
  ASSUME GateShape, NEW p \in Portals
  PROVE  /\ FetchForward(p) \in Batches /\ FetchForward(p) # NoBatch
         /\ FetchForward(p).rows \subseteq Backfillable(msg, p)
         /\ \A m \in FetchForward(p).rows, k \in Shown(p) : Stamp[k] < Stamp[m]
         /\ shown[p] = <<>> => FetchForward(p).rows = Newest(Backfillable(msg, p), Limit)
<1> DEFINE B == Backfillable(msg, p)
<1>1. B \in SUBSET Guids
  BY DEF Backfillable, MsgsOf
<1>2. /\ shown[p] = <<>> => FetchForward(p) = [at |-> "fetched", rows |-> Newest(B, Limit)]
      /\ shown[p] # <<>> => FetchForward(p) =
           [at |-> "fetched",
            rows |-> {m \in Newer(msg, p, Anchor(p)) :
                       Cardinality({k \in Newer(msg, p, Anchor(p)) : Stamp[k] < Stamp[m]}) < Limit}]
  BY DEF FetchForward
<1>3. CASE shown[p] = <<>>
  <2>1. Newest(B, Limit) \in SUBSET B /\ (Newest(B, Limit) = {} => B = {})
    BY <1>1, NewestThere, GateAssumption
  <2>2. Shown(p) = {}
    BY <1>3 DEF Shown, ToSet
  <2>3. FetchForward(p) \in Batches
    BY <2>1, <1>1, <1>2, <1>3 DEF Batches
  <2> QED BY <2>1, <2>2, <2>3, <1>2, <1>3 DEF NoBatch
<1>4. CASE shown[p] # <<>>
  <2>1. FetchForward(p).rows \subseteq Newer(msg, p, Anchor(p)) /\ FetchForward(p).at = "fetched"
    <3> DEFINE N == Newer(msg, p, Anchor(p))
               R == {m \in N : Cardinality({k \in N : Stamp[k] < Stamp[m]}) < Limit}
    <3>1. FetchForward(p) = [at |-> "fetched", rows |-> R] /\ R \subseteq N
      BY <1>2, <1>4
    <3> HIDE DEF R, N
    <3>2. FetchForward(p).rows \subseteq N /\ FetchForward(p).at = "fetched"
      BY <3>1
    <3> QED BY <3>2 DEF N
  <2>2. \A m \in Newer(msg, p, Anchor(p)) : m \in B /\ Stamp[m] > Anchor(p)
    BY DEF Newer
  <2>3. FetchForward(p) \in Batches
    BY <2>1, <2>2, <1>1, <1>2, <1>4 DEF Batches
  <2>4. Shown(p) \in SUBSET Guids /\ Shown(p) # {}
    <3>1. shown[p] \in Seq(Guids) /\ shown[p] # <<>>
      BY <1>4 DEF GateShape, PortalShape
    <3> DEFINE s == shown[p]
    <3>2. Len(s) \in Nat /\ Len(s) # 0 /\ DOMAIN s = 1 .. Len(s) /\ \A i \in 1 .. Len(s) : s[i] \in Guids
      BY <3>1
    <3>3. 1 \in 1 .. Len(s)
      BY <3>2
    <3> HIDE DEF s
    <3>4. {s[i] : i \in DOMAIN s} \in SUBSET Guids /\ {s[i] : i \in DOMAIN s} # {}
      BY <3>2, <3>3
    <3> QED BY <3>4 DEF Shown, ToSet, s
  <2>5. /\ Anchor(p) \in {Stamp[m] : m \in Shown(p)}
        /\ \A m \in Shown(p) : Stamp[m] <= Anchor(p)
    <3>1. PICK m \in Shown(p) : \A k \in Shown(p) : Stamp[k] <= Stamp[m]
      BY <2>4, LastThere
    <3> DEFINE T == {Stamp[k] : k \in Shown(p)}
    <3>2. Stamp[m] \in T /\ \A k \in Shown(p) : Stamp[k] <= Stamp[m]
      BY <3>1
    <3>3. \E t \in T : \A k \in Shown(p) : Stamp[k] <= t
      BY <3>2
    <3>4. Anchor(p) = CHOOSE t \in T : \A k \in Shown(p) : Stamp[k] <= t
      BY DEF Anchor
    <3> HIDE DEF T
    <3>5. Anchor(p) \in T /\ \A k \in Shown(p) : Stamp[k] <= Anchor(p)
      BY <3>3, <3>4
    <3> QED BY <3>5 DEF T
  <2>6. Anchor(p) \in Nat
    BY <2>4, <2>5, StoreAssumption
  <2>7. ASSUME NEW m \in FetchForward(p).rows, NEW k \in Shown(p) PROVE Stamp[k] < Stamp[m]
    <3>1. Stamp[k] <= Anchor(p) /\ Stamp[m] > Anchor(p)
      BY <2>1, <2>2, <2>5
    <3>2. m \in Guids /\ k \in Guids
      BY <1>1, <2>1, <2>2, <2>4
    <3> QED BY <3>1, <3>2, <2>6, StoreAssumption
  <2> QED BY <2>1, <2>2, <2>3, <2>7, <1>4 DEF NoBatch
<1> QED BY <1>3, <1>4

-----------------------------------------------------------------------------
(* Every step keeps the shape. *)

LEMMA Judged ==
  ASSUME NEW m, NEW p, NEW g \in BOOLEAN, NEW missing \in BOOLEAN
  PROVE  LET v == Verdict(chat, msg, NoEntry, m, p, g, missing)
         IN  /\ v.do \in {"drop", "hold", "show"} /\ v.create \in BOOLEAN
             /\ v.do = "show" => g \/ ~missing
<1> DEFINE v == Verdict(chat, msg, NoEntry, m, p, g, missing)
           out(what, revived) == [do |-> what, create |-> g, revive |-> revived]
<1>1. NoEntry.by = "no"
  BY DEF NoEntry
<1>2. \/ \E r : v = out("drop", r)
      \/ v = out("hold", FALSE)
      \/ (g \/ ~missing) /\ \E r : v = out("show", r)
  BY <1>1 DEF Verdict
<1> QED BY <1>2

LEMMA FlushStarts ==
  ASSUME FlushShape, NEW f \in Flushers, Start(f)
  PROVE  /\ buffer' \subseteq Live /\ flusher' \in [Flushers -> Flushing]
         /\ \A g \in Flushers \ {f} : flusher'[g] = flusher[g]
         /\ flusher'[f].cur = NoMsg
<1> DEFINE new == [Idle EXCEPT !.at = "flush", !.rest = buffer]
<1>1. Idle \in Flushing /\ Idle.cur = NoMsg
  BY DEF Idle, Flushing
<1>2. new \in Flushing /\ new.cur = NoMsg
  BY <1>1 DEF Flushing, FlushShape
<1>3. flusher' = [flusher EXCEPT ![f] = new] /\ buffer' = {}
  BY DEF Start
<1> HIDE DEF new
<1> QED BY <1>2, <1>3 DEF FlushShape

(* A goroutine that flushes changes no other, and does not start by itself. *)
LEMMA Flushed ==
  ASSUME FlushShape, NEW f \in Flushers, Flush(f), NEW g \in Flushers, flusher'[g].at # flusher[g].at
  PROVE  g = f /\ flusher[f].at # "idle"
<1>0. flusher \in [Flushers -> Flushing]
  BY DEF FlushShape
<1>1. CASE Pick(f)
  <2> DEFINE m == CHOOSE k \in flusher[f].rest : \A n \in flusher[f].rest : Stamp[k] <= Stamp[n]
             v == Verdict(chat, msg, NoEntry, m, Home[m], gate, Home[m] \notin room)
             verdict == IF m \in Shown(Home[m]) THEN "drop" ELSE v.do
  <2>1. /\ flusher' = [flusher EXCEPT ![f].rest = flusher[f].rest \ {m}, ![f].cur = m,
                                      ![f].create = v.create, ![f].verdict = verdict]
        /\ flusher[f].at # "idle"
    BY <1>1 DEF Pick
  <2> HIDE DEF m, v, verdict
  <2>2. flusher'[g].at = flusher[g].at
    BY <1>0, <2>1 DEF Flushing
  <2> QED BY <2>2
<1>2. CASE Act(f)
  <2>1. flusher' = [flusher EXCEPT ![f].cur = NoMsg]
    BY <1>2 DEF Act
  <2>2. flusher'[g].at = flusher[g].at
    BY <1>0, <2>1 DEF Flushing
  <2> QED BY <2>2
<1>3. CASE Held(f) \/ Finish(f)
  <2>1. /\ flusher[f].at # "idle"
        /\ \/ flusher' = [flusher EXCEPT ![f] = Idle]
           \/ flusher' = [flusher EXCEPT ![f].at = "held", ![f].rest = held]
    BY <1>3 DEF Held, Finish
  <2>2. g # f => flusher'[g] = flusher[g]
    BY <1>0, <2>1
  <2> QED BY <2>1, <2>2
<1> QED BY <1>1, <1>2, <1>3 DEF Flush

LEMMA FlushStep ==
  ASSUME GateShape, [Next]_vars
  PROVE  FlushShape'
<1> USE DEF FlushShape
<1>0. FlushShape
  BY DEF GateShape
<1> DEFINE Same == UNCHANGED <<buffer, held, flusher>>
<1>1. ASSUME NEW f \in Flushers, Start(f), UNCHANGED held PROVE FlushShape'
  BY <1>0, <1>1, FlushStarts
<1>2. ASSUME Same PROVE FlushShape'
  BY <1>0, <1>2
<1>3. {"open", "count", "force", "timer"} = Flushers
  BY DEF Flushers
<1>4. CASE List \/ Queue \/ OpenGate \/ SyncAgain \/ PassEnds
  BY <1>2, <1>4 DEF List, Queue, OpenGate, SyncAgain, PassEnds
<1>5. CASE Load \/ Watchdog
  BY <1>1, <1>2, <1>3, <1>5 DEF Load, Watchdog
<1>6. ASSUME NEW p \in Portals, MakeRoom(p) \/ CatchUp(p) \/ ShowLive(p) \/ Backward(p) \/ MakeRoomFails(p)
      PROVE  FlushShape'
  BY <1>2, <1>6 DEF MakeRoom, CatchUp, ShowLive, Backward, MakeRoomFails
<1>7. ASSUME NEW p \in Portals, Deliver(p) \/ Callback(p) PROVE FlushShape'
  BY <1>1, <1>2, <1>3, <1>7 DEF Deliver, Callback, BackfillDone
<1>8. ASSUME NEW m \in Guids, Receive(m) PROVE FlushShape'
  BY <1>0, <1>8 DEF Receive
<1>9. CASE TimerFires
  BY <1>1, <1>3, <1>9 DEF TimerFires
<1>10. ASSUME NEW f \in Flushers, Pick(f) PROVE FlushShape'
  <2> DEFINE m == CHOOSE k \in flusher[f].rest : \A n \in flusher[f].rest : Stamp[k] <= Stamp[n]
             v == Verdict(chat, msg, NoEntry, m, Home[m], gate, Home[m] \notin room)
             verdict == IF m \in Shown(Home[m]) THEN "drop" ELSE v.do
  <2>1. /\ flusher' = [flusher EXCEPT ![f].rest = flusher[f].rest \ {m}, ![f].cur = m,
                                      ![f].create = v.create, ![f].verdict = verdict]
        /\ UNCHANGED <<buffer, held>>
    BY <1>10 DEF Pick
  <2>2. m \in flusher[f].rest
    <3> DEFINE S == flusher[f].rest
    <3>1. S # {} /\ S \in SUBSET Guids
      BY <1>0, <1>10, GateAssumption DEF Pick, Flushing
    <3>2. m = CHOOSE k \in S : \A n \in S : Stamp[k] <= Stamp[n]
      OBVIOUS
    <3>3. \E k \in S : \A n \in S : Stamp[k] <= Stamp[n]
      BY <3>1, FirstThere
    <3> HIDE DEF S, m
    <3>4. m \in S
      BY <3>2, <3>3
    <3> QED BY <3>4 DEF S
  <2>3. v.do \in {"drop", "hold", "show"} /\ v.create \in BOOLEAN
    BY Judged DEF GateShape
  <2>4. verdict \in {"drop", "hold", "show"}
    BY <2>3
  <2> HIDE DEF m, v, verdict
  <2> DEFINE new == [flusher[f] EXCEPT !.rest = flusher[f].rest \ {m}, !.cur = m,
                                       !.create = v.create, !.verdict = verdict]
  <2>5. flusher[f] \in Flushing /\ flusher \in [Flushers -> Flushing]
    BY <1>0
  <2>6. new \in Flushing
    BY <2>2, <2>3, <2>4, <2>5 DEF Flushing
  <2>7. flusher' = [flusher EXCEPT ![f] = new]
    BY <2>1, <2>5 DEF Flushing
  <2> HIDE DEF new
  <2>8. flusher' \in [Flushers -> Flushing]
    BY <2>5, <2>6, <2>7
  <2> QED BY <1>0, <2>1, <2>8
<1>11. ASSUME NEW f \in Flushers, Act(f) PROVE FlushShape'
  <2> DEFINE new == [flusher[f] EXCEPT !.cur = NoMsg]
  <2>1. /\ flusher' = [flusher EXCEPT ![f] = new] /\ buffer' = buffer
        /\ held' = held \/ held' = held \cup {flusher[f].cur}
        /\ flusher[f].cur # NoMsg
    BY <1>11 DEF Act
  <2>2. new \in Flushing /\ flusher[f].cur \in Live
    BY <1>0, <2>1 DEF Flushing
  <2> HIDE DEF new
  <2> QED BY <1>0, <2>1, <2>2
<1>12. ASSUME NEW f \in Flushers, Held(f) \/ Finish(f) PROVE FlushShape'
  <2>1. Idle \in Flushing
    BY DEF Idle, Flushing
  <2> DEFINE new == [flusher[f] EXCEPT !.at = "held", !.rest = held]
  <2>2. new \in Flushing
    BY <1>0 DEF Flushing
  <2>3. /\ buffer' = buffer /\ (held' = held \/ held' = {})
        /\ \/ flusher' = [flusher EXCEPT ![f] = Idle]
           \/ flusher' = [flusher EXCEPT ![f].at = "held", ![f].rest = held]
    BY <1>12 DEF Held, Finish
  <2>4. [flusher EXCEPT ![f].at = "held", ![f].rest = held] = [flusher EXCEPT ![f] = new]
    BY <1>0 DEF Flushing
  <2> HIDE DEF new
  <2> QED BY <1>0, <2>1, <2>2, <2>3, <2>4
<1>13. CASE UNCHANGED vars
  BY <1>2, <1>13 DEF vars
<1> QED BY <1>4, <1>5, <1>6, <1>7, <1>8, <1>9, <1>10, <1>11, <1>12, <1>13 DEF Next, Loop, Flush

(* A delayed pass adds rows to what can be backfilled and takes none away. *)
LEMMA Imported ==
  ASSUME GateShape, StoreInv, SyncAgain
  PROVE  /\ msg' \in [Guids -> MsgRow] /\ StoreInv'
         /\ \A p \in Portals : Backfillable(msg, p) \subseteq Backfillable(msg', p)
         /\ passes' # passes
<1>1. PICK S \in SUBSET Late :
        msg' = [m \in Guids |-> IF m \in S THEN UpsertMsg(msg, m, Home[m], FALSE)[m] ELSE msg[m]]
  BY DEF SyncAgain
<1> DEFINE row(m) == [state |-> IF msg[m].state = "deleted" \/ FALSE THEN "deleted" ELSE "live",
                      portal |-> Home[m], cloud |-> TRUE,
                      body |-> IF msg[m].body = "scrubbed" THEN "scrubbed" ELSE "text"]
<1>2. msg \in [Guids -> MsgRow] /\ S \subseteq Guids \ History /\ Home \in [Guids -> Portals]
  BY GateAssumption DEF GateShape
<1>3. \A m \in Guids : UpsertMsg(msg, m, Home[m], FALSE)[m] = row(m) /\ row(m) \in MsgRow
  BY <1>2 DEF UpsertMsg, MsgRow, RowStates
<1>4. \A m \in Guids : msg'[m] = IF m \in S THEN row(m) ELSE msg[m]
  BY <1>1, <1>3
<1>5. msg' \in [Guids -> MsgRow]
  BY <1>1, <1>2, <1>3
<1>6. StoreInv'
  <2>1. ASSUME NEW m \in History PROVE msg'[m].state = "live" /\ msg'[m].cloud /\ msg'[m].portal = Home[m]
    BY <1>2, <1>4, GateAssumption DEF StoreInv
  <2>2. ASSUME NEW m \in Guids, msg'[m].state # "none" PROVE msg'[m].portal = Home[m]
    <3>1. CASE m \in S
      <4>1. msg'[m] = row(m)
        BY <1>4, <3>1
      <4> QED BY <4>1
    <3>2. CASE m \notin S
      BY <1>4, <2>2, <3>2 DEF StoreInv
    <3> QED BY <3>1, <3>2
  <2> QED BY <2>1, <2>2 DEF StoreInv
<1>7. ASSUME NEW p \in Portals, NEW m \in Backfillable(msg, p) PROVE m \in Backfillable(msg', p)
  <2>1. m \in Guids /\ msg[m].portal = p /\ msg[m].state = "live" /\ msg[m].cloud /\ p = Home[m]
    BY DEF Backfillable, MsgsOf, StoreInv
  <2>2. CASE m \notin S
    BY <1>4, <2>1, <2>2 DEF Backfillable, MsgsOf
  <2>3. CASE m \in S
    <3>1. msg'[m] = row(m) /\ msg[m].state # "deleted"
      BY <1>4, <2>1, <2>3
    <3>2. msg'[m].state = "live" /\ msg'[m].portal = p /\ msg'[m].cloud
      BY <2>1, <3>1
    <3> QED BY <2>1, <3>2 DEF Backfillable, MsgsOf
  <2> QED BY <2>2, <2>3
<1>8. passes' # passes
  BY DEF SyncAgain, GateShape
<1> QED BY <1>5, <1>6, <1>7, <1>8

LEMMA StoreStep ==
  ASSUME GateShape, StoreInv, [Next]_vars
  PROVE  /\ msg' \in [Guids -> MsgRow] /\ StoreInv'
         /\ \A p \in Portals : Backfillable(msg, p) \subseteq Backfillable(msg', p)
         /\ passes' = passes => \A p \in Portals : Backfillable(msg', p) = Backfillable(msg, p)
<1> DEFINE G == /\ msg' \in [Guids -> MsgRow] /\ StoreInv'
                /\ \A p \in Portals : Backfillable(msg, p) \subseteq Backfillable(msg', p)
                /\ passes' = passes => \A p \in Portals : Backfillable(msg', p) = Backfillable(msg, p)
<1>0. /\ msg \in [Guids -> MsgRow] /\ \A m \in Live : Home[m] \in Portals
      /\ flusher \in [Flushers -> Flushing] /\ History \subseteq Guids
  BY GateAssumption DEF GateShape, FlushShape
<1>1. ASSUME msg' = msg PROVE G
  BY <1>0, <1>1 DEF StoreInv
<1>2. CASE List \/ Queue \/ OpenGate \/ PassEnds \/ Load \/ Watchdog \/ TimerFires
  BY <1>1, <1>2 DEF List, Queue, OpenGate, PassEnds, Load, Watchdog, TimerFires, store
<1>3. ASSUME NEW p \in Portals, MakeRoom(p) \/ CatchUp(p) \/ ShowLive(p) \/ Backward(p) \/ MakeRoomFails(p)
                                \/ Deliver(p) \/ Callback(p)
      PROVE  G
  BY <1>1, <1>3 DEF MakeRoom, CatchUp, ShowLive, Backward, MakeRoomFails, Deliver, Callback, store
<1>4. ASSUME NEW m \in Guids, Receive(m) PROVE G
  BY <1>1, <1>4 DEF Receive, store
<1>5. ASSUME NEW f \in Flushers, Act(f) PROVE G
  <2> DEFINE m == flusher[f].cur
  <2>1. m \in Live
    BY <1>0, <1>5 DEF Act, Flushing
  <2>2. msg' = msg \/ msg' = PersistUUID(msg, m, Home[m])
    BY <1>5 DEF Act
  <2>3. CASE msg' = msg
    BY <1>1, <2>3
  <2>4. CASE msg' = PersistUUID(msg, m, Home[m])
    <3> HIDE DEF m
    <3>1. /\ msg' \in [Guids -> MsgRow]
          /\ \A q \in Portals : Backfillable(msg', q) = Backfillable(msg, q)
          /\ \A k \in Guids : msg'[k] = msg[k] \/ (msg[k].state = "none" /\ k = m /\ msg'[k].portal = Home[m])
      BY <1>0, <2>1, <2>4, Remembered
    <3> QED BY <1>0, <3>1 DEF StoreInv
  <2> QED BY <2>2, <2>3, <2>4
<1>6. ASSUME NEW f \in Flushers, Pick(f) \/ Held(f) \/ Finish(f) PROVE G
  BY <1>1, <1>6 DEF Pick, Held, Finish, store
<1>7. CASE UNCHANGED vars
  BY <1>1, <1>7 DEF vars, store
<1>8. CASE SyncAgain
  BY <1>0, <1>8, Imported DEF SyncAgain, GateShape, StoreInv
<1> QED BY <1>2, <1>3, <1>4, <1>5, <1>6, <1>7, <1>8 DEF Next, Loop, Flush

LEMMA TableStep ==
  ASSUME GateShape, [Next]_vars
  PROVE  /\ chat' \in [ChatIds -> ChatRow] /\ back' \in [Portals -> {"off", "todo", "done"}]
         /\ pending' \in Int /\ gate' \in BOOLEAN /\ passes' \in 0 .. Passes
<1> DEFINE G == /\ chat' \in [ChatIds -> ChatRow] /\ back' \in [Portals -> {"off", "todo", "done"}]
                /\ pending' \in Int /\ gate' \in BOOLEAN /\ passes' \in 0 .. Passes
<1>0. /\ chat \in [ChatIds -> ChatRow] /\ back \in [Portals -> {"off", "todo", "done"}]
      /\ pending \in Int /\ gate \in BOOLEAN /\ passes \in 0 .. Passes
  BY DEF GateShape
<1>1. ASSUME UNCHANGED <<chat, back, pending, gate, passes>> PROVE G
  BY <1>0, <1>1
<1>2. CASE List
  <2> DEFINE P == {p \in Candidates : p \notin room /\ Backfillable(msg, p) # {}}
  <2>1. P \in SUBSET Portals
    BY DEF Candidates, Listed
  <2>2. Cardinality(P) \in Nat
    BY <2>1, FS_Subset, FS_CardinalityType, GateAssumption
  <2> QED BY <1>0, <1>2, <2>2 DEF List, store, portal
<1>3. CASE Queue
  BY <1>0, <1>3 DEF Queue, store
<1>4. CASE OpenGate \/ PassEnds \/ Load \/ Watchdog \/ TimerFires
  BY <1>0, <1>4 DEF OpenGate, PassEnds, Load, Watchdog, TimerFires, store, portal, controller
<1>5. ASSUME NEW p \in Portals, MakeRoom(p) PROVE G
  BY <1>0, <1>5 DEF MakeRoom, store, controller
<1>6. ASSUME NEW p \in Portals, CatchUp(p) \/ ShowLive(p) \/ MakeRoomFails(p) PROVE G
  BY <1>1, <1>6 DEF CatchUp, ShowLive, MakeRoomFails, store, controller
<1>7. ASSUME NEW p \in Portals, Backward(p) PROVE G
  BY <1>0, <1>7 DEF Backward, BackwardPage, store, controller
<1>8. ASSUME NEW p \in Portals, Deliver(p) \/ Callback(p) PROVE G
  <2>1. chat' = chat \/ \E own : chat' = MarkForwardDone(chat, p, own)
    BY <1>8 DEF Deliver, Callback
  <2>2. chat' \in [ChatIds -> ChatRow]
    BY <1>0, <2>1, MarkedDone
  <2>3. (pending' = pending \/ pending' = pending - 1) /\ UNCHANGED <<back, gate, passes>>
    BY <1>8 DEF Deliver, Callback, BackfillDone, controller
  <2> QED BY <1>0, <2>2, <2>3
<1>9. ASSUME NEW m \in Guids, Receive(m) PROVE G
  BY <1>1, <1>9 DEF Receive, store, controller, portal
<1>10. ASSUME NEW f \in Flushers, Flush(f) PROVE G
  BY <1>1, <1>10 DEF Flush, Pick, Act, Held, Finish, store, controller, portal
<1>11. CASE UNCHANGED vars
  BY <1>1, <1>11 DEF vars, store, controller, portal
<1>12. CASE SyncAgain
  <2>1. passes' = passes - 1 /\ passes > 0 /\ UNCHANGED <<chat, back, pending, gate>>
    BY <1>12 DEF SyncAgain, portal
  <2> QED BY <1>0, <2>1, GateAssumption
<1> QED BY <1>12, <1>2, <1>3, <1>4, <1>5, <1>6, <1>7, <1>8, <1>9, <1>10, <1>11 DEF Next, Loop

(* A queue of events, one taken or one added. *)
LEMMA EventTaken ==
  ASSUME NEW e \in Seq(PortalEvents), e # <<>>
  PROVE  /\ Tail(e) \in Seq(PortalEvents) /\ Head(e) = e[1] /\ 1 \in 1 .. Len(e)
         /\ \A i \in 1 .. Len(Tail(e)) : i + 1 \in 1 .. Len(e) /\ i + 1 # 1 /\ Tail(e)[i] = e[i + 1]
OBVIOUS

LEMMA EventAdded ==
  ASSUME NEW e \in Seq(PortalEvents), NEW x \in PortalEvents
  PROVE  /\ Append(e, x) \in Seq(PortalEvents) /\ Len(Append(e, x)) = Len(e) + 1 /\ Len(e) \in Nat
         /\ \A i \in 1 .. Len(e) + 1 : \/ i \in 1 .. Len(e) /\ Append(e, x)[i] = e[i]
                                       \/ i = Len(e) + 1 /\ Append(e, x)[i] = x
<1>1. Len(e) \in Nat /\ Len(Append(e, x)) = Len(e) + 1 /\ Append(e, x) \in Seq(PortalEvents)
  OBVIOUS
<1>2. \A i \in 1 .. Len(e) : Append(e, x)[i] = e[i]
  OBVIOUS
<1>3. Append(e, x)[Len(e) + 1] = x
  OBVIOUS
<1> QED BY <1>1, <1>2, <1>3

LEMMA BatchShown ==
  ASSUME GateShape, NEW p \in Portals, batch[p] # NoBatch
  PROVE  /\ batch[p].rows \in SUBSET Guids
         /\ OldestFirst(batch[p].rows \ Shown(p)) \in Seq(Guids)
         /\ shown[p] \o OldestFirst(batch[p].rows \ Shown(p)) \in Seq(Guids)
<1>1. batch[p].rows \in SUBSET Guids /\ shown[p] \in Seq(Guids)
  BY DEF GateShape, PortalShape, Batches
<1>2. batch[p].rows \ Shown(p) \in SUBSET Guids
  BY <1>1
<1>3. OldestFirst(batch[p].rows \ Shown(p)) \in Seq(Guids)
  BY <1>2, Ordered
<1> QED BY <1>1, <1>3, Joined

(* A backward page: older than all the room shows, and all there is in a room that shows nothing. *)
LEMMA PageShown ==
  ASSUME GateShape, NEW p \in Portals, BackwardPage(p)
  PROVE  \E rows \in SUBSET Guids :
           /\ shown' = [shown EXCEPT ![p] = OldestFirst(rows) \o @]
           /\ OldestFirst(rows) \o shown[p] \in Seq(Guids)
           /\ \A m \in rows, k \in Shown(p) : Stamp[m] < Stamp[k]
           /\ shown[p] = <<>> /\ Unlimited => rows = Backfillable(msg, p)
<1> DEFINE empty == shown[p] = <<>>
           before == IF empty THEN Backfillable(msg, p) ELSE Older(msg, p, Shown(p))
           rows == Newest(before, IF empty THEN Limit ELSE Page)
<1>1. /\ before \in SUBSET Guids
      /\ ~empty => \A m \in before, k \in Shown(p) : Stamp[m] < Stamp[k]
  BY DEF Older, Backfillable, MsgsOf
<1>2. rows \subseteq before
  BY DEF Newest
<1>3. shown[p] \in Seq(Guids)
  BY DEF GateShape, PortalShape
<1>4. empty => Shown(p) = {}
  BY DEF Shown, ToSet
<1>5. shown' = [shown EXCEPT ![p] = OldestFirst(rows) \o @]
  BY DEF BackwardPage
<1>8. empty /\ Unlimited => rows = Backfillable(msg, p)
  BY <1>1, NewestThere, GateAssumption DEF Unlimited
<1> HIDE DEF rows, before
<1>6. rows \in SUBSET Guids
  BY <1>1, <1>2
<1>7. OldestFirst(rows) \o shown[p] \in Seq(Guids)
  BY <1>3, <1>6, Ordered, Joined
<1> QED BY <1>1, <1>2, <1>4, <1>5, <1>6, <1>7, <1>8

LEMMA PortalStep ==
  ASSUME GateShape, [Next]_vars
  PROVE  PortalShape'
<1> DEFINE Batched == batch' \in [Portals -> Batches]
           Seen == shown' \in [Portals -> Seq(Guids)]
           Sets == room' \subseteq Portals /\ callback' \subseteq Portals /\ ordered' \subseteq Portals
           Queued == /\ events' \in [Portals -> Seq(PortalEvents)]
                     /\ \A p \in Portals : \A i \in 1 .. Len(events'[p]) :
                          events'[p][i].type = "msg" => events'[p][i].msg \in Live
           Heard(e) == \A i \in 1 .. Len(e) : e[i].type = "msg" => e[i].msg \in Live
<1>0. /\ room \subseteq Portals /\ callback \subseteq Portals /\ ordered \subseteq Portals
      /\ shown \in [Portals -> Seq(Guids)] /\ batch \in [Portals -> Batches]
      /\ events \in [Portals -> Seq(PortalEvents)] /\ \A p \in Portals : Heard(events[p])
  BY DEF GateShape, PortalShape
<1>1. ASSUME UNCHANGED events PROVE Queued
  BY <1>0, <1>1
<1>2. ASSUME NEW p \in Portals, NEW e \in Seq(PortalEvents), Heard(e), events' = [events EXCEPT ![p] = e]
      PROVE  Queued
  BY <1>0, <1>2
<1>3. ASSUME NEW p \in Portals, events[p] # <<>>, events' = [events EXCEPT ![p] = Tail(@)] PROVE Queued
  <2>1. Tail(events[p]) \in Seq(PortalEvents) /\ Heard(Tail(events[p]))
    BY <1>0, <1>3, EventTaken
  <2> QED BY <1>2, <1>3, <2>1
<1>4. ASSUME NEW p \in Portals, NEW x \in PortalEvents, x.type = "msg" => x.msg \in Live,
             events' = [events EXCEPT ![p] = Append(@, x)]
      PROVE  Queued
  <2>1. Append(events[p], x) \in Seq(PortalEvents) /\ Heard(Append(events[p], x))
    BY <1>0, <1>4, EventAdded
  <2> QED BY <1>2, <1>4, <2>1
<1> HIDE DEF Heard
<1>5. ASSUME Batched, Seen, Sets, Queued PROVE PortalShape'
  BY <1>5 DEF PortalShape
<1>6. ASSUME UNCHANGED <<portal, ordered>> PROVE PortalShape'
  BY <1>0, <1>1, <1>5, <1>6 DEF portal
<1>7. CASE List
  BY <1>0, <1>1, <1>5, <1>7 DEF List, portal, Candidates, Listed
<1>8. CASE Queue
  <2>1. Resync \in PortalEvents /\ Resync.type # "msg"
    BY DEF Resync, PortalEvents
  <2>2. PICK p \in ordered : /\ ordered' = ordered \ {p}
                             /\ events' = [events EXCEPT ![p] = Append(@, Resync)]
                             /\ UNCHANGED <<room, shown, batch, callback>>
    BY <1>8 DEF Queue
  <2>3. Queued
    BY <1>0, <1>4, <2>1, <2>2
  <2> QED BY <1>0, <1>5, <2>2, <2>3
<1>9. CASE OpenGate \/ SyncAgain \/ PassEnds \/ Load \/ Watchdog \/ TimerFires
  BY <1>6, <1>9 DEF OpenGate, SyncAgain, PassEnds, Load, Watchdog, TimerFires, controller
<1>10. ASSUME NEW p \in Portals, MakeRoom(p) PROVE PortalShape'
  <2>1. /\ room' = room \cup {p} /\ UNCHANGED <<shown, callback, ordered>> /\ events[p] # <<>>
        /\ batch' = batch \/ batch' = [batch EXCEPT ![p] = FetchForward(p)]
        /\ events' = [events EXCEPT ![p] = IF Head(@).type = "resync" THEN Tail(@) ELSE @]
    BY <1>10 DEF MakeRoom, controller
  <2>2. Queued
    <3>1. CASE Head(events[p]).type = "resync"
      BY <1>3, <2>1, <3>1
    <3>2. CASE Head(events[p]).type # "resync"
      BY <1>0, <1>1, <2>1, <3>2
    <3> QED BY <3>1, <3>2
  <2>3. Batched
    BY <1>0, <2>1, Fetched
  <2> QED BY <1>0, <1>5, <2>1, <2>2, <2>3
<1>11. ASSUME NEW p \in Portals, CatchUp(p) PROVE PortalShape'
  <2>1. /\ events' = [events EXCEPT ![p] = Tail(@)] /\ events[p] # <<>>
        /\ UNCHANGED <<room, shown, callback, ordered>>
        /\ batch' = batch \/ batch' = [batch EXCEPT ![p] = FetchForward(p)]
    BY <1>0, <1>11 DEF CatchUp, controller
  <2>2. Queued
    BY <1>3, <2>1
  <2>3. Batched
    BY <1>0, <2>1, Fetched
  <2> QED BY <1>0, <1>5, <2>1, <2>2, <2>3
<1>12. ASSUME NEW p \in Portals, ShowLive(p) PROVE PortalShape'
  <2>1. /\ events' = [events EXCEPT ![p] = Tail(@)] /\ events[p] # <<>>
        /\ UNCHANGED <<room, batch, callback, ordered>> /\ Head(events[p]).type = "msg"
        /\ shown' = shown \/ shown' = [shown EXCEPT ![p] = Append(@, Head(events[p]).msg)]
    BY <1>0, <1>12 DEF ShowLive, controller
  <2>2. Queued
    BY <1>3, <2>1
  <2>3. Head(events[p]).msg \in Live
    BY <1>0, <2>1, EventTaken DEF Heard
  <2>4. Append(shown[p], Head(events[p]).msg) \in Seq(Guids)
    BY <1>0, <2>3, Added
  <2> QED BY <1>0, <1>5, <2>1, <2>2, <2>4
<1>13. ASSUME NEW p \in Portals, Deliver(p) PROVE PortalShape'
  <2>1. batch[p] # NoBatch
    BY <1>13 DEF Deliver, NoBatch
  <2>2. /\ batch' = [batch EXCEPT ![p] = NoBatch] /\ UNCHANGED <<events, room, ordered>>
        /\ (callback' = callback \/ callback' = callback \cup {p})
        /\ \/ shown' = shown
           \/ shown' = [shown EXCEPT ![p] = shown[p] \o OldestFirst(batch[p].rows \ Shown(p))]
    BY <1>13 DEF Deliver, controller
  <2>3. shown[p] \o OldestFirst(batch[p].rows \ Shown(p)) \in Seq(Guids)
    BY <2>1, BatchShown
  <2>4. Seen
    BY <1>0, <2>2, <2>3
  <2>5. Batched
    BY <1>0, <2>2 DEF Batches
  <2> QED BY <1>0, <1>1, <1>5, <2>2, <2>4, <2>5
<1>14. ASSUME NEW p \in Portals, Callback(p) PROVE PortalShape'
  BY <1>0, <1>1, <1>5, <1>14 DEF Callback, controller
<1>15. ASSUME NEW p \in Portals, Backward(p) PROVE PortalShape'
  <2>1. UNCHANGED <<events, room, batch, callback, ordered>> /\ (BackwardPage(p) \/ shown' = shown)
    BY <1>15 DEF Backward, controller
  <2>2. CASE BackwardPage(p)
    <3>1. PICK rows \in SUBSET Guids :
            /\ shown' = [shown EXCEPT ![p] = OldestFirst(rows) \o @]
            /\ OldestFirst(rows) \o shown[p] \in Seq(Guids)
      BY <2>2, PageShown
    <3> QED BY <1>0, <1>1, <1>5, <2>1, <3>1
  <2> QED BY <1>0, <1>1, <1>5, <2>1, <2>2
<1>16. ASSUME NEW p \in Portals, MakeRoomFails(p) PROVE PortalShape'
  <2>1. /\ events' = [events EXCEPT ![p] = Tail(@)] /\ events[p] # <<>>
        /\ UNCHANGED <<room, shown, batch, callback, ordered>>
    BY <1>16 DEF MakeRoomFails, controller
  <2> QED BY <1>0, <1>3, <1>5, <2>1
<1>17. ASSUME NEW m \in Guids, Receive(m) PROVE PortalShape'
  BY <1>6, <1>17 DEF Receive, controller
<1>18. ASSUME NEW f \in Flushers, Act(f) PROVE PortalShape'
  <2> DEFINE m == flusher[f].cur
             x == [type |-> "msg", msg |-> m, create |-> flusher[f].create]
  <2>1. m \in Live /\ m \in Guids /\ Home[m] \in Portals /\ flusher[f].create \in BOOLEAN
    BY <1>18, GateAssumption DEF Act, GateShape, FlushShape, Flushing
  <2>2. x \in PortalEvents /\ x.msg \in Live
    BY <2>1 DEF PortalEvents
  <2>3. /\ events' = events \/ events' = [events EXCEPT ![Home[m]] = Append(@, x)]
        /\ UNCHANGED <<room, shown, batch, callback, ordered>>
    BY <1>18 DEF Act, controller
  <2> HIDE DEF m, x
  <2> QED BY <1>0, <1>1, <1>4, <1>5, <2>1, <2>2, <2>3
<1>19. ASSUME NEW f \in Flushers, Pick(f) \/ Held(f) \/ Finish(f) PROVE PortalShape'
  BY <1>6, <1>19 DEF Pick, Held, Finish, controller
<1>20. CASE UNCHANGED vars
  BY <1>6, <1>20 DEF vars, controller
<1> QED BY <1>7, <1>8, <1>9, <1>10, <1>11, <1>12, <1>13, <1>14, <1>15, <1>16, <1>17, <1>18, <1>19, <1>20
        DEF Next, Loop, Flush

-----------------------------------------------------------------------------
(* Every step keeps the rooms. *)

LEMMA RoomKept ==
  ASSUME NEW p \in Portals, RoomInv(p), Backfillable(msg, p) \subseteq Backfillable(msg', p),
         shown'[p] = shown[p], batch'[p] = batch[p] \/ batch'[p] = NoBatch
  PROVE  RoomInv(p)'
BY DEF RoomInv, Shown

LEMMA MakeRoomKeeps ==
  ASSUME GateInv, NEW p \in Portals, MakeRoom(p) \/ CatchUp(p)
  PROVE  RoomsInv'
<1>1. /\ UNCHANGED <<msg, shown>> /\ batch \in [Portals -> Batches]
      /\ batch' = batch \/ batch' = [batch EXCEPT ![p] = FetchForward(p)]
  BY DEF MakeRoom, CatchUp, store, GateInv, GateShape, PortalShape
<1>2. ASSUME NEW q \in Portals, batch'[q] = batch[q] PROVE RoomInv(q)'
  BY <1>1, <1>2, RoomKept DEF GateInv, RoomsInv
<1>3. ASSUME batch' = [batch EXCEPT ![p] = FetchForward(p)] PROVE RoomInv(p)'
  <2>1. /\ FetchForward(p).rows \subseteq Backfillable(msg, p)
        /\ \A m \in FetchForward(p).rows, k \in Shown(p) : Stamp[k] < Stamp[m]
    BY Fetched DEF GateInv
  <2>2. batch'[p] = FetchForward(p) /\ RoomInv(p)
    BY <1>1, <1>3 DEF GateInv, RoomsInv
  <2> QED BY <1>1, <2>1, <2>2 DEF RoomInv, Shown
<1>4. \A q \in Portals : q = p \/ batch'[q] = batch[q]
  BY <1>1
<1> QED BY <1>1, <1>2, <1>3, <1>4 DEF RoomsInv

LEMMA ShowLiveKeeps ==
  ASSUME GateInv, NEW p \in Portals, ShowLive(p)
  PROVE  RoomsInv'
<1> DEFINE m == Head(events[p]).msg
<1>1. /\ UNCHANGED <<msg, batch>> /\ batch[p] = NoBatch
      /\ shown \in [Portals -> Seq(Guids)]
      /\ events[p] # <<>> /\ Head(events[p]).type = "msg" /\ events[p] \in Seq(PortalEvents)
      /\ shown' = shown \/ shown' = [shown EXCEPT ![p] = Append(@, m)]
  BY DEF ShowLive, store, GateInv, GateShape, PortalShape
<1>2. m \in Live
  <2>1. Head(events[p]) = events[p][1] /\ 1 \in 1 .. Len(events[p])
    BY <1>1, EventTaken
  <2> QED BY <1>1, <2>1 DEF GateInv, GateShape, PortalShape
<1>3. ASSUME NEW q \in Portals, shown'[q] = shown[q] PROVE RoomInv(q)'
  BY <1>1, <1>3, RoomKept DEF GateInv, RoomsInv
<1>4. ASSUME shown' = [shown EXCEPT ![p] = Append(@, m)] PROVE RoomInv(p)'
  <2>1. shown'[p] = Append(shown[p], m) /\ shown[p] \in Seq(Guids) /\ RoomInv(p)
    BY <1>1, <1>4 DEF GateInv, RoomsInv
  <2> HIDE DEF m
  <2>2. Append(shown[p], m) # <<>> /\ (InOrder(shown[p]) => InOrder(Append(shown[p], m)))
    BY <1>2, <2>1, Added
  <2> QED BY <1>1, <2>1, <2>2 DEF RoomInv
<1>5. \A q \in Portals : q = p \/ shown'[q] = shown[q]
  BY <1>1
<1> QED BY <1>1, <1>3, <1>4, <1>5 DEF RoomsInv

LEMMA Delivered ==
  ASSUME NEW p \in Portals, Deliver(p)
  PROVE  /\ UNCHANGED <<msg, room, events, ordered, pc>>
         /\ batch' = [batch EXCEPT ![p] = NoBatch] /\ batch[p] # NoBatch
         /\ batch[p].rows = {} => /\ UNCHANGED <<shown, callback>>
                                  /\ \E own : chat' = MarkForwardDone(chat, p, own)
         /\ batch[p].rows # {} =>
              /\ UNCHANGED <<chat, pending>> /\ callback' = callback \cup {p}
              /\ shown' = [shown EXCEPT ![p] = shown[p] \o OldestFirst(batch[p].rows \ Shown(p))]
<1>1. batch[p] # NoBatch
  BY DEF Deliver, NoBatch
<1>2. UNCHANGED <<msg, room, events, ordered, pc>> /\ batch' = [batch EXCEPT ![p] = NoBatch]
  BY DEF Deliver, controller
<1>3. batch[p].rows = {} => /\ UNCHANGED <<shown, callback>>
                            /\ \E own : chat' = MarkForwardDone(chat, p, own)
  BY DEF Deliver
<1>4. batch[p].rows # {} =>
        /\ UNCHANGED <<chat, pending>> /\ callback' = callback \cup {p}
        /\ shown' = [shown EXCEPT ![p] = shown[p] \o OldestFirst(batch[p].rows \ Shown(p))]
  BY DEF Deliver
<1> QED BY <1>1, <1>2, <1>3, <1>4

LEMMA DeliverKeeps ==
  ASSUME GateInv, NEW p \in Portals, Deliver(p)
  PROVE  RoomsInv'
<1>1. /\ msg' = msg /\ batch' = [batch EXCEPT ![p] = NoBatch] /\ batch[p] # NoBatch
      /\ batch[p].rows = {} => shown' = shown
      /\ batch[p].rows # {} =>
           shown' = [shown EXCEPT ![p] = shown[p] \o OldestFirst(batch[p].rows \ Shown(p))]
  BY Delivered
<1>2. /\ batch \in [Portals -> Batches] /\ shown \in [Portals -> Seq(Guids)]
      /\ GateShape /\ \A q \in Portals : RoomInv(q)
  BY DEF GateInv, RoomsInv, GateShape, PortalShape
<1>3. ASSUME NEW q \in Portals \ {p} PROVE RoomInv(q)'
  <2>1. batch'[q] = batch[q] /\ shown'[q] = shown[q]
    BY <1>1, <1>2
  <2> QED BY <1>1, <1>2, <2>1, RoomKept
<1>4. batch'[p] = NoBatch
  BY <1>1, <1>2
<1>5. CASE batch[p].rows = {}
  <2>1. RoomInv(p)'
    BY <1>1, <1>2, <1>4, <1>5, RoomKept
  <2> QED BY <1>3, <2>1 DEF RoomsInv
<1>6. CASE batch[p].rows # {}
  <2> DEFINE S == batch[p].rows \ Shown(p)
  <2>1. batch[p].rows \in SUBSET Guids /\ \A m \in S, k \in Shown(p) : Stamp[k] < Stamp[m]
    BY <1>1, <1>2, BatchShown DEF RoomInv
  <2>2. S \in SUBSET Guids
    BY <2>1
  <2>3. OldestFirst(S) \in Seq(Guids) /\ InOrder(OldestFirst(S)) /\ ToSet(OldestFirst(S)) = S
    BY <2>2, Ordered
  <2>4. shown[p] \in Seq(Guids) /\ InOrder(shown[p]) /\ ToSet(shown[p]) = Shown(p)
    BY <1>2 DEF RoomInv, Shown
  <2>5. \A k \in ToSet(shown[p]), m \in ToSet(OldestFirst(S)) : Stamp[k] < Stamp[m]
    BY <2>1, <2>3, <2>4
  <2> HIDE DEF S
  <2>6. InOrder(shown[p] \o OldestFirst(S))
    BY <2>3, <2>4, <2>5, Joined
  <2>7. shown'[p] = shown[p] \o OldestFirst(S)
    BY <1>1, <1>2, <1>6 DEF S
  <2>8. RoomInv(p)'
    BY <1>4, <2>6, <2>7 DEF RoomInv
  <2> QED BY <1>3, <2>8 DEF RoomsInv
<1> QED BY <1>5, <1>6

LEMMA BackwardKeeps ==
  ASSUME GateInv, NEW p \in Portals, Backward(p)
  PROVE  RoomsInv'
<1>1. UNCHANGED <<msg, batch>> /\ ((Unlimited /\ BackwardPage(p)) \/ shown' = shown)
  BY DEF Backward, store
<1>2. /\ shown \in [Portals -> Seq(Guids)] /\ RoomInv(p) /\ GateShape
  BY DEF GateInv, RoomsInv, GateShape, PortalShape
<1>3. ASSUME NEW q \in Portals, shown'[q] = shown[q] PROVE RoomInv(q)'
  BY <1>1, <1>3, RoomKept DEF GateInv, RoomsInv
<1>4. CASE shown' = shown
  BY <1>3, <1>4 DEF RoomsInv
<1>5. CASE Unlimited /\ BackwardPage(p)
  <2>1. PICK rows \in SUBSET Guids :
           /\ shown' = [shown EXCEPT ![p] = OldestFirst(rows) \o @]
           /\ \A m \in rows, k \in Shown(p) : Stamp[m] < Stamp[k]
           /\ shown[p] = <<>> => rows = Backfillable(msg, p)
    BY <1>2, <1>5, PageShown
  <2>2. OldestFirst(rows) \in Seq(Guids) /\ InOrder(OldestFirst(rows)) /\ ToSet(OldestFirst(rows)) = rows
    BY <2>1, Ordered
  <2>3. shown[p] \in Seq(Guids) /\ InOrder(shown[p]) /\ ToSet(shown[p]) = Shown(p)
    BY <1>2 DEF RoomInv, Shown
  <2>4. \A k \in ToSet(OldestFirst(rows)), m \in ToSet(shown[p]) : Stamp[k] < Stamp[m]
    BY <2>1, <2>2, <2>3
  <2>5. /\ InOrder(OldestFirst(rows) \o shown[p])
        /\ ToSet(OldestFirst(rows) \o shown[p]) = rows \cup Shown(p)
    BY <2>2, <2>3, <2>4, Joined
  <2>6. shown'[p] = OldestFirst(rows) \o shown[p] /\ \A q \in Portals \ {p} : shown'[q] = shown[q]
    BY <1>2, <2>1
  <2>7. Shown(p)' = rows \cup Shown(p)
    BY <2>5, <2>6 DEF Shown
  <2>8. ASSUME batch[p] # NoBatch
        PROVE  \/ \A m \in batch[p].rows, k \in Shown(p)' : Stamp[k] < Stamp[m]
               \/ batch[p].rows \subseteq Shown(p)'
    <3>1. CASE batch[p].rows \subseteq Shown(p)
      BY <2>7, <3>1
    <3>2. CASE shown[p] = <<>>
      BY <1>2, <2>1, <2>7, <2>8, <3>2 DEF RoomInv
    <3>3. CASE shown[p] # <<>> /\ \A m \in batch[p].rows, k \in Shown(p) : Stamp[k] < Stamp[m]
      <4>1. PICK n \in Shown(p) : n \in Guids
        <5>1. LastOf(shown[p]) \in Shown(p) /\ LastOf(shown[p]) \in Guids
          BY <2>3, <3>3, LastShown
        <5> QED BY <5>1
      <4>2. ASSUME NEW m \in batch[p].rows, NEW k \in rows PROVE Stamp[k] < Stamp[m]
        <5>1. Stamp[k] < Stamp[n] /\ Stamp[n] < Stamp[m]
          BY <2>1, <3>3, <4>1
        <5>2. m \in Guids /\ k \in Guids
          BY <1>2, <2>1, <2>8, BatchShown
        <5> QED BY <4>1, <5>1, <5>2, StoreAssumption
      <4> QED BY <2>7, <3>3, <4>2
    <3> QED BY <1>2, <2>8, <3>1, <3>2, <3>3 DEF RoomInv
  <2>9. RoomInv(p)'
    BY <1>1, <1>2, <2>5, <2>6, <2>8 DEF RoomInv
  <2> QED BY <2>6, <2>9, <1>3 DEF RoomsInv
<1> QED BY <1>1, <1>4, <1>5

LEMMA RoomsStep ==
  ASSUME GateInv, [Next]_vars
  PROVE  RoomsInv'
<1>0. \A p \in Portals : Backfillable(msg, p) \subseteq Backfillable(msg', p)
  BY StoreStep DEF GateInv
<1>1. ASSUME UNCHANGED <<shown, batch>> PROVE RoomsInv'
  BY <1>0, <1>1, RoomKept DEF GateInv, RoomsInv
<1>2. CASE List \/ Queue \/ OpenGate \/ SyncAgain \/ PassEnds \/ Load \/ Watchdog \/ TimerFires
  BY <1>1, <1>2 DEF List, Queue, OpenGate, SyncAgain, PassEnds, Load, Watchdog, TimerFires, portal
<1>3. ASSUME NEW p \in Portals, MakeRoom(p) \/ CatchUp(p) \/ ShowLive(p) \/ Deliver(p) \/ Backward(p)
      PROVE  RoomsInv'
  BY <1>3, MakeRoomKeeps, ShowLiveKeeps, DeliverKeeps, BackwardKeeps
<1>4. ASSUME NEW p \in Portals, Callback(p) \/ MakeRoomFails(p) PROVE RoomsInv'
  BY <1>1, <1>4 DEF Callback, MakeRoomFails
<1>5. ASSUME NEW m \in Guids, Receive(m) PROVE RoomsInv'
  BY <1>1, <1>5 DEF Receive, portal
<1>6. ASSUME NEW f \in Flushers, Flush(f) PROVE RoomsInv'
  BY <1>1, <1>6 DEF Flush, Pick, Act, Held, Finish, portal
<1>7. CASE UNCHANGED vars
  BY <1>1, <1>7 DEF vars, portal
<1> QED BY <1>2, <1>3, <1>4, <1>5, <1>6, <1>7 DEF Next, Loop

LEMMA GateStarts == Init => GateInv
<1> SUFFICES ASSUME Init PROVE GateInv
  OBVIOUS
<1>1. PICK bridged \in Earlier :
       /\ msg = [m \in Guids |->
                   IF m \in History \cup bridged
                   THEN [state |-> "live", portal |-> Home[m], cloud |-> TRUE, body |-> "text"]
                   ELSE NoMsgs[m]]
       /\ chat = [c \in ChatIds |->
                    IF \E m \in History : Home[m] = ChatPortal[c]
                    THEN [state |-> "live", portal |-> ChatPortal[c], ts |-> 0,
                          fwd |-> \E m \in bridged : Home[m] = ChatPortal[c]]
                    ELSE NoChats[c]]
       /\ room = {Home[m] : m \in bridged}
       /\ shown = [p \in Portals |-> OldestFirst(InPortal(bridged, p))]
  BY DEF Init
<1>2. bridged \in SUBSET Guids /\ \A m \in Guids : Home[m] \in Portals
  BY GateAssumption
<1>3. msg \in [Guids -> MsgRow]
  BY <1>1, <1>2 DEF MsgRow, RowStates, NoMsgs
<1>4. chat \in [ChatIds -> ChatRow]
  BY <1>1, StoreAssumption DEF ChatRow, RowStates, NoChats
<1>5. ASSUME NEW p \in Portals
      PROVE  shown[p] \in Seq(Guids) /\ InOrder(shown[p])
  <2>1. InPortal(bridged, p) \in SUBSET Guids
    BY <1>2 DEF InPortal
  <2> QED BY <1>1, <2>1, Ordered
<1>6. PortalShape
  <2>1. shown \in [Portals -> Seq(Guids)]
    BY <1>1, <1>5
  <2>2. NoBatch \in Batches /\ <<>> \in Seq(PortalEvents) /\ Len(<<>>) = 0
    BY DEF Batches
  <2>3. /\ events = [p \in Portals |-> <<>>] /\ batch = [p \in Portals |-> NoBatch]
        /\ callback = {} /\ ordered = {}
    BY DEF Init
  <2>4. \A p \in Portals : \A i \in 1 .. Len(events[p]) : FALSE
    BY <2>2, <2>3
  <2>5. events \in [Portals -> Seq(PortalEvents)] /\ batch \in [Portals -> Batches]
    BY <2>2, <2>3
  <2> QED BY <1>1, <1>2, <2>1, <2>3, <2>4, <2>5 DEF PortalShape
<1>7. FlushShape
  <2>1. Idle \in Flushing
    BY DEF Idle, Flushing
  <2> QED BY <2>1 DEF Init, FlushShape
<1>8. GateShape
  <2>1. back \in [Portals -> {"off", "todo", "done"}] /\ pending \in Int
    BY DEF Init
  <2>2. gate = FALSE
    BY DEF Init
  <2>3. gate \in BOOLEAN
    BY <2>2
  <2>4. passes \in 0 .. Passes
    BY GateAssumption DEF Init
  <2> QED BY <1>3, <1>4, <1>6, <1>7, <2>1, <2>3, <2>4 DEF GateShape
<1>9. StoreInv
  <2>1. \A m \in Guids : m \notin History \cup bridged => msg[m].state = "none"
    BY <1>1 DEF NoMsgs
  <2>2. \A m \in History \cup bridged : msg[m].state = "live" /\ msg[m].cloud /\ msg[m].portal = Home[m]
    BY <1>1, <1>2, GateAssumption
  <2> QED BY <2>1, <2>2 DEF StoreInv
<1>10. ASSUME NEW p \in Portals PROVE RoomInv(p)
  <2>1. batch[p] = NoBatch
    BY DEF Init
  <2> QED BY <1>5, <2>1 DEF RoomInv
<1> QED BY <1>8, <1>9, <1>10 DEF GateInv, RoomsInv

LEMMA GateSteps == GateInv /\ [Next]_vars => GateInv'
<1> SUFFICES ASSUME GateInv, [Next]_vars PROVE GateInv'
  OBVIOUS
<1>1. GateShape'
  BY TableStep, StoreStep, PortalStep, FlushStep DEF GateInv, GateShape
<1> QED BY <1>1, StoreStep, RoomsStep DEF GateInv

(* HistorySorted: forward and backward pages and the catch-up of delayed passes, *)
(* whatever they race with, leave what APNs does not deliver in the order it was *)
(* sent (FetchMessages).                                                         *)
THEOREM HistoryInOrder == Spec => []HistorySorted
<1>1. GateInv => HistorySorted
  BY DEF GateInv, RoomsInv, RoomInv, InOrder, HistorySorted
<1> QED BY <1>1, GateStarts, GateSteps, PTL DEF Spec

-----------------------------------------------------------------------------
(* The counter of forward backfills, on a bridge that starts without rooms and    *)
(* until the first delayed pass.                                                  *)

\* Portals with history, and those whose history is not in the room or not counted down.
Fetching == {p \in Portals : Backfillable(msg, p) # {}}
Waiting == {p \in Fetching : p \notin room \/ batch[p] # NoBatch \/ p \in callback}

(* Rooms are made only by the bootstrap's ChatResync until the gate opens; that   *)
(* event comes before every message of its portal.                                *)
EventInv(p) ==
  /\ p \notin room => shown[p] = <<>> /\ batch[p] = NoBatch /\ p \notin callback
  /\ p \in room => pc # "list" /\ p \notin ordered
  /\ \A i \in 1 .. Len(events[p]) :
       /\ pc # "list" /\ p \notin ordered
       /\ events[p][i].type = "resync" => i = 1 /\ p \notin room

FreshInv ==
  /\ gate => pc \in {"load", "done"}
  /\ pc = "list" => \A p \in Portals : asked[p] = -1
  /\ pc # "queue" => ordered = {}
  /\ \A f \in Flushers : flusher[f].cur # NoMsg /\ flusher[f].verdict = "show" =>
       gate \/ Home[flusher[f].cur] \in room
  /\ \A p \in Portals : EventInv(p)

(* A batch is the whole history of its portal, and the counter is the number of   *)
(* portals that wait for theirs.                                                  *)
BatchInv(p) ==
  /\ batch[p] # NoBatch => p \in Fetching /\ batch[p].rows = Backfillable(msg, p)
  /\ p \in callback => p \in Fetching /\ batch[p] = NoBatch
  /\ p \in Fetching \cap room /\ batch[p] = NoBatch => Backfillable(msg, p) \subseteq Shown(p)

CountInv ==
  /\ \A p \in Portals : BatchInv(p)
  /\ pc # "list" => pending = Cardinality(Waiting)

CounterInv == GateInv /\ (old = {} /\ passes = Passes => FreshInv /\ CountInv)

(* As long as no delayed pass begins, the controller does not come back.          *)
LEMMA OnePass ==
  ASSUME GateShape, [Next]_vars
  PROVE  /\ passes' = Passes => passes = Passes
         /\ passes' = passes => ~SyncAgain
         /\ FreshInv => ~PassEnds
<1>1. passes \in Nat /\ Passes \in Nat /\ passes <= Passes
  BY GateAssumption DEF GateShape
<1>2. CASE SyncAgain
  <2>1. passes' = passes - 1 /\ pc = "done"
    BY <1>2 DEF SyncAgain
  <2>2. ~(passes' = Passes) /\ ~(passes' = passes)
    BY <1>1, <2>1
  <2> QED BY <2>1, <2>2 DEF PassEnds
<1>3. CASE ~SyncAgain
  <2>1. passes' = passes
    <3>1. CASE List \/ Queue \/ OpenGate \/ PassEnds \/ Load \/ Watchdog \/ TimerFires
      BY <3>1 DEF List, Queue, OpenGate, PassEnds, Load, Watchdog, TimerFires, controller
    <3>2. ASSUME NEW p \in Portals, Loop(p) \/ MakeRoomFails(p) PROVE passes' = passes
      BY <3>2 DEF Loop, MakeRoom, CatchUp, ShowLive, Deliver, Callback, Backward, MakeRoomFails, controller
    <3>3. ASSUME NEW m \in Guids, Receive(m) PROVE passes' = passes
      BY <3>3 DEF Receive, controller
    <3>4. ASSUME NEW f \in Flushers, Flush(f) PROVE passes' = passes
      BY <3>4 DEF Flush, Pick, Act, Held, Finish, controller
    <3>5. CASE UNCHANGED vars
      BY <3>5 DEF vars, controller
    <3> QED BY <1>3, <3>1, <3>2, <3>3, <3>4, <3>5 DEF Next
  <2> QED BY <1>1, <1>3, <2>1 DEF PassEnds, FreshInv
<1> QED BY <1>2, <1>3

LEMMA EventsKept ==
  ASSUME NEW p \in Portals, EventInv(p),
         shown'[p] = shown[p], batch'[p] = batch[p], p \in room' <=> p \in room,
         p \in callback' => p \in callback, pc' # "list" \/ pc' = pc, p \in ordered' => p \in ordered,
         \/ events'[p] = events[p]
         \/ events[p] \in Seq(PortalEvents) /\ events[p] # <<>> /\ events'[p] = Tail(events[p])
  PROVE  EventInv(p)'
<1>1. CASE events'[p] = events[p]
  BY <1>1 DEF EventInv
<1>2. CASE /\ events[p] \in Seq(PortalEvents) /\ events[p] # <<>> /\ events'[p] = Tail(events[p])
  <2>1. \A i \in 1 .. Len(events'[p]) : i + 1 \in 1 .. Len(events[p]) /\ i + 1 # 1 /\ events'[p][i] = events[p][i + 1]
    BY <1>2, EventTaken
  <2> QED BY <2>1 DEF EventInv
<1> QED BY <1>1, <1>2

LEMMA SwitchesStep ==
  ASSUME GateShape, FreshInv, passes' = passes, [Next]_vars
  PROVE  /\ (gate' => pc' \in {"load", "done"}) /\ (pc' # "queue" => ordered' = {})
         /\ pc' = "list" => \A p \in Portals : asked'[p] = -1
<1> DEFINE G == /\ (gate' => pc' \in {"load", "done"}) /\ (pc' # "queue" => ordered' = {})
                /\ pc' = "list" => \A p \in Portals : asked'[p] = -1
<1>0. /\ (gate => pc \in {"load", "done"}) /\ (pc # "queue" => ordered = {})
      /\ pc = "list" => \A p \in Portals : asked[p] = -1
  BY DEF FreshInv
<1>1. ASSUME UNCHANGED <<gate, pc, ordered, asked>> PROVE G
  BY <1>0, <1>1
<1>2. CASE List \/ Queue \/ OpenGate \/ Load
  BY <1>0, <1>2 DEF List, Queue, OpenGate, Load
<1>3. CASE Watchdog \/ TimerFires
  BY <1>1, <1>3 DEF Watchdog, TimerFires, controller
<1>4. ASSUME NEW p \in Portals, Loop(p) \/ MakeRoomFails(p) PROVE G
  BY <1>1, <1>4 DEF Loop, MakeRoom, CatchUp, ShowLive, Deliver, Callback, Backward, MakeRoomFails, controller
<1>5. ASSUME NEW m \in Guids, Receive(m) PROVE G
  BY <1>1, <1>5 DEF Receive, controller
<1>6. ASSUME NEW f \in Flushers, Flush(f) PROVE G
  BY <1>1, <1>6 DEF Flush, Pick, Act, Held, Finish, controller
<1>7. CASE UNCHANGED vars
  BY <1>1, <1>7 DEF vars, controller
<1> QED BY <1>2, <1>3, <1>4, <1>5, <1>6, <1>7, OnePass DEF Next

(* Rooms and the open gate are for good. *)
LEMMA Lasting ==
  ASSUME GateShape, [Next]_vars
  PROVE  /\ room \subseteq room' /\ (gate => gate') /\ old' = old
         /\ passes' = passes /\ pc' = "list" => pc = "list"
<1> DEFINE G == /\ room \subseteq room' /\ (gate => gate') /\ old' = old
                /\ (passes' = passes /\ pc' = "list" => pc = "list")
<1>1. ASSUME UNCHANGED <<room, gate, old, pc>> PROVE G
  BY <1>1
<1>2. CASE List \/ Queue \/ OpenGate \/ PassEnds \/ Load
  BY <1>2 DEF List, Queue, OpenGate, PassEnds, Load, portal
<1>8. CASE SyncAgain
  BY <1>8, OnePass DEF SyncAgain, portal
<1>3. CASE Watchdog \/ TimerFires
  BY <1>1, <1>3 DEF Watchdog, TimerFires, controller, portal
<1>4. ASSUME NEW p \in Portals, Loop(p) \/ MakeRoomFails(p) PROVE G
  BY <1>4 DEF Loop, MakeRoom, CatchUp, ShowLive, Deliver, Callback, Backward, MakeRoomFails, controller
<1>5. ASSUME NEW m \in Guids, Receive(m) PROVE G
  BY <1>1, <1>5 DEF Receive, controller, portal
<1>6. ASSUME NEW f \in Flushers, Flush(f) PROVE G
  BY <1>1, <1>6 DEF Flush, Pick, Act, Held, Finish, controller, portal
<1>7. CASE UNCHANGED vars
  BY <1>1, <1>7 DEF vars, controller, portal
<1> QED BY <1>2, <1>3, <1>4, <1>5, <1>6, <1>7, <1>8 DEF Next

ShowsKnown(f) ==
  flusher[f].cur # NoMsg /\ flusher[f].verdict = "show" => gate \/ Home[flusher[f].cur] \in room

LEMMA VerdictsStep ==
  ASSUME GateShape, \A f \in Flushers : ShowsKnown(f), [Next]_vars
  PROVE  \A f \in Flushers : ShowsKnown(f)'
<1>0. FlushShape /\ gate \in BOOLEAN
  BY DEF GateShape
<1>1. room \subseteq room' /\ (gate => gate')
  BY Lasting
<1>2. ASSUME NEW g \in Flushers, flusher'[g] = flusher[g] \/ flusher'[g].cur = NoMsg PROVE ShowsKnown(g)'
  BY <1>1, <1>2 DEF ShowsKnown
<1>3. ASSUME flusher' = flusher PROVE \A g \in Flushers : ShowsKnown(g)'
  BY <1>2, <1>3
<1>4. ASSUME NEW f \in Flushers, Start(f) PROVE \A g \in Flushers : ShowsKnown(g)'
  BY <1>0, <1>2, <1>4, FlushStarts
<1>5. {"open", "count", "force", "timer"} = Flushers
  BY DEF Flushers
<1>6. CASE List \/ Queue \/ OpenGate \/ SyncAgain \/ PassEnds
  BY <1>3, <1>6 DEF List, Queue, OpenGate, SyncAgain, PassEnds
<1>7. CASE Load \/ Watchdog \/ TimerFires
  BY <1>3, <1>4, <1>5, <1>7 DEF Load, Watchdog, TimerFires
<1>8. ASSUME NEW p \in Portals, MakeRoom(p) \/ CatchUp(p) \/ ShowLive(p) \/ Backward(p) \/ MakeRoomFails(p)
      PROVE  \A g \in Flushers : ShowsKnown(g)'
  BY <1>3, <1>8 DEF MakeRoom, CatchUp, ShowLive, Backward, MakeRoomFails
<1>9. ASSUME NEW p \in Portals, Deliver(p) \/ Callback(p) PROVE \A g \in Flushers : ShowsKnown(g)'
  BY <1>3, <1>4, <1>5, <1>9 DEF Deliver, Callback, BackfillDone
<1>10. ASSUME NEW m \in Guids, Receive(m) PROVE \A g \in Flushers : ShowsKnown(g)'
  BY <1>3, <1>10 DEF Receive
<1>11. ASSUME NEW f \in Flushers, Pick(f) PROVE \A g \in Flushers : ShowsKnown(g)'
  <2> DEFINE m == CHOOSE k \in flusher[f].rest : \A n \in flusher[f].rest : Stamp[k] <= Stamp[n]
             v == Verdict(chat, msg, NoEntry, m, Home[m], gate, Home[m] \notin room)
             verdict == IF m \in Shown(Home[m]) THEN "drop" ELSE v.do
  <2>1. /\ flusher' = [flusher EXCEPT ![f].rest = flusher[f].rest \ {m}, ![f].cur = m,
                                      ![f].create = v.create, ![f].verdict = verdict]
    BY <1>11 DEF Pick
  <2>2. v.do = "show" => gate \/ Home[m] \in room
    BY <1>0, Judged
  <2>3. UNCHANGED <<gate, room>>
    BY <1>11 DEF Pick, controller, portal
  <2>4. verdict = "show" => gate \/ Home[m] \in room
    BY <2>2
  <2> HIDE DEF m, v, verdict
  <2>5. flusher \in [Flushers -> Flushing]
    BY <1>0 DEF FlushShape
  <2>6. flusher'[f].cur = m /\ flusher'[f].verdict = verdict
    BY <2>1, <2>5 DEF Flushing
  <2>7. \A g \in Flushers \ {f} : flusher'[g] = flusher[g]
    BY <2>1, <2>5
  <2> QED BY <1>2, <2>3, <2>4, <2>6, <2>7 DEF ShowsKnown
<1>12. ASSUME NEW f \in Flushers, Act(f) PROVE \A g \in Flushers : ShowsKnown(g)'
  <2>1. flusher' = [flusher EXCEPT ![f].cur = NoMsg] /\ flusher \in [Flushers -> Flushing]
    BY <1>0, <1>12 DEF Act, FlushShape
  <2>2. \A g \in Flushers : flusher'[g] = flusher[g] \/ flusher'[g].cur = NoMsg
    BY <2>1 DEF Flushing
  <2> QED BY <1>2, <2>2
<1>13. ASSUME NEW f \in Flushers, Held(f) \/ Finish(f) PROVE \A g \in Flushers : ShowsKnown(g)'
  <2>1. /\ flusher \in [Flushers -> Flushing] /\ flusher[f].cur = NoMsg
        /\ \/ flusher' = [flusher EXCEPT ![f] = Idle]
           \/ flusher' = [flusher EXCEPT ![f].at = "held", ![f].rest = held]
    BY <1>0, <1>13 DEF Held, Finish, FlushShape
  <2>2. \A g \in Flushers : flusher'[g] = flusher[g] \/ flusher'[g].cur = NoMsg
    BY <2>1 DEF Flushing, Idle
  <2> QED BY <1>2, <2>2
<1>14. CASE UNCHANGED vars
  BY <1>3, <1>14 DEF vars
<1> QED BY <1>6, <1>7, <1>8, <1>9, <1>10, <1>11, <1>12, <1>13, <1>14 DEF Next, Loop, Flush

LEMMA EventsStep ==
  ASSUME GateInv, FreshInv, passes' = passes, [Next]_vars
  PROVE  \A p \in Portals : EventInv(p)'
<1> DEFINE G == \A p \in Portals : EventInv(p)'
<1>0. /\ \A p \in Portals : EventInv(p) /\ events[p] \in Seq(PortalEvents)
      /\ room \subseteq Portals /\ callback \subseteq Portals /\ batch \in [Portals -> Batches]
      /\ shown \in [Portals -> Seq(Guids)] /\ events \in [Portals -> Seq(PortalEvents)]
      /\ (gate => pc \in {"load", "done"}) /\ (pc # "queue" => ordered = {})
  BY DEF FreshInv, GateInv, GateShape, PortalShape
<1>1. ASSUME UNCHANGED <<shown, batch, room, events>>, callback' \subseteq callback, ordered' \subseteq ordered,
             pc' # "list" \/ pc' = pc
      PROVE  G
  BY <1>0, <1>1, EventsKept
<1>2. ASSUME NEW p \in Portals, events[p] # <<>>, events' = [events EXCEPT ![p] = Tail(@)],
             UNCHANGED <<shown, batch, room, callback, ordered, pc>>
      PROVE  G
  <2>1. ASSUME NEW q \in Portals PROVE events'[q] = events[q] \/ (q = p /\ events'[q] = Tail(events[q]))
    <3>1. CASE q = p
      BY <1>0, <1>2, <3>1
    <3>2. CASE q # p
      BY <1>0, <1>2, <3>2
    <3> QED BY <3>1, <3>2
  <2>2. ASSUME NEW q \in Portals PROVE EventInv(q)'
    <3>1. CASE events'[q] = events[q]
      BY <1>0, <1>2, <3>1, EventsKept
    <3>2. CASE q = p /\ events'[q] = Tail(events[q])
      BY <1>0, <1>2, <3>2, EventsKept
    <3> QED BY <2>1, <3>1, <3>2
  <2> QED BY <2>2
<1>3. CASE List
  <2>1. \A p \in Portals : p \notin room /\ Len(events[p]) = 0
    <3>1. ASSUME NEW p \in Portals, Len(events[p]) # 0 PROVE FALSE
      <4>1. 1 \in 1 .. Len(events[p])
        BY <1>0, <3>1
      <4> QED BY <1>0, <1>3, <4>1 DEF EventInv, List
    <3> QED BY <1>0, <1>3, <3>1 DEF EventInv, List
  <2>2. UNCHANGED <<shown, batch, room, events, callback>>
    BY <1>3 DEF List, portal
  <2>3. \A p \in Portals : \A i \in 1 .. Len(events[p]) : FALSE
    BY <2>1
  <2> QED BY <1>0, <2>1, <2>2, <2>3 DEF EventInv
<1>4. CASE Queue
  <2>1. PICK p \in ordered : /\ ordered' = ordered \ {p}
                             /\ events' = events \/ events' = [events EXCEPT ![p] = Append(@, Resync)]
                             /\ UNCHANGED <<room, shown, batch, callback, pc>>
    BY <1>4 DEF Queue
  <2>2. CASE events' = events
    BY <1>1, <2>1, <2>2
  <2>3. CASE events' = [events EXCEPT ![p] = Append(@, Resync)]
    <3>1. p \in Portals
      BY DEF GateInv, GateShape, PortalShape
    <3>2. Len(events[p]) = 0
      <4>1. Len(events[p]) # 0 => 1 \in 1 .. Len(events[p])
        BY <1>0, <3>1
      <4> QED BY <1>0, <3>1, <4>1 DEF EventInv
    <3>3. Resync \in PortalEvents
      BY DEF Resync, PortalEvents
    <3>4. events'[p] = Append(events[p], Resync)
      BY <1>0, <2>3, <3>1
    <3>5. \A i \in 1 .. Len(events'[p]) : i = 1
      BY <1>0, <3>1, <3>2, <3>3, <3>4, EventAdded
    <3>6. p \notin room /\ p \notin ordered' /\ pc' # "list"
      BY <1>0, <1>4, <2>1, <3>1 DEF EventInv, Queue
    <3>7. EventInv(p)'
      BY <1>0, <2>1, <3>1, <3>5, <3>6 DEF EventInv
    <3>8. ASSUME NEW q \in Portals \ {p} PROVE EventInv(q)'
      <4>1. events'[q] = events[q]
        BY <1>0, <2>3
      <4> QED BY <1>0, <2>1, <4>1, EventsKept
    <3> QED BY <3>7, <3>8
  <2> QED BY <2>1, <2>2, <2>3
<1>5. CASE OpenGate \/ Load
  BY <1>1, <1>5 DEF OpenGate, Load, portal
<1>6. CASE Watchdog \/ TimerFires
  BY <1>1, <1>6 DEF Watchdog, TimerFires, controller, portal
<1>7. ASSUME NEW p \in Portals, MakeRoom(p) PROVE G
  <2> DEFINE e == events[p]
  <2>1. /\ e # <<>> /\ p \notin room /\ room' = room \cup {p}
        /\ batch' = batch \/ batch' = [batch EXCEPT ![p] = FetchForward(p)]
        /\ events' = [events EXCEPT ![p] = IF Head(@).type = "resync" THEN Tail(@) ELSE @]
        /\ UNCHANGED <<shown, callback, ordered, pc>>
    BY <1>7 DEF MakeRoom, controller
  <2>2. ASSUME NEW q \in Portals \ {p} PROVE EventInv(q)'
    <3>1. events'[q] = events[q] /\ batch'[q] = batch[q] /\ (q \in room' <=> q \in room) /\ shown'[q] = shown[q]
      BY <1>0, <2>1
    <3> QED BY <1>0, <2>1, <3>1 DEF EventInv
  <2>3. e \in Seq(PortalEvents) /\ Head(e) = e[1] /\ 1 \in 1 .. Len(e)
    BY <1>0, <2>1, EventTaken
  <2>4. pc # "list" /\ p \notin ordered /\ \A i \in 1 .. Len(e) : e[i].type = "resync" => i = 1
    BY <1>0, <2>3 DEF EventInv
  <2>5. \A i \in 1 .. Len(events'[p]) : events'[p][i].type # "resync"
    <3>1. CASE Head(e).type = "resync"
      <4>1. events'[p] = Tail(e)
        BY <1>0, <2>1, <3>1
      <4>2. \A i \in 1 .. Len(Tail(e)) : i + 1 \in 1 .. Len(e) /\ i + 1 # 1 /\ Tail(e)[i] = e[i + 1]
        BY <2>1, <2>3, EventTaken
      <4> QED BY <2>4, <4>1, <4>2
    <3>2. CASE Head(e).type # "resync"
      <4>1. events'[p] = e
        BY <1>0, <2>1, <3>2
      <4> QED BY <2>3, <2>4, <3>2, <4>1
    <3> QED BY <3>1, <3>2
  <2>6. EventInv(p)'
    BY <2>1, <2>4, <2>5 DEF EventInv
  <2> QED BY <2>2, <2>6
<1>8. ASSUME NEW p \in Portals, CatchUp(p) PROVE FALSE
  <2>1. events[p] # <<>> /\ p \in room /\ Head(events[p]).type = "resync"
    BY <1>8 DEF CatchUp
  <2>2. Head(events[p]) = events[p][1] /\ 1 \in 1 .. Len(events[p])
    BY <1>0, <2>1, EventTaken
  <2> QED BY <1>0, <2>1, <2>2 DEF EventInv
<1>9. ASSUME NEW p \in Portals, ShowLive(p) PROVE G
  <2>1. /\ events[p] # <<>> /\ events' = [events EXCEPT ![p] = Tail(@)]
        /\ shown' = shown \/ (p \in room /\ \E s : shown' = [shown EXCEPT ![p] = s])
        /\ UNCHANGED <<batch, room, callback, ordered, pc>>
    BY <1>0, <1>9 DEF ShowLive, controller
  <2>2. ASSUME NEW q \in Portals PROVE EventInv(q)'
    <3>1. q \notin room => shown'[q] = shown[q]
      BY <1>0, <2>1
    <3>2. CASE events'[q] = events[q]
      BY <1>0, <2>1, <3>1, <3>2 DEF EventInv
    <3>3. CASE q = p /\ events'[q] = Tail(events[q])
      <4>1. \A i \in 1 .. Len(events'[q]) : i + 1 \in 1 .. Len(events[q]) /\ i + 1 # 1 /\ events'[q][i] = events[q][i + 1]
        BY <1>0, <2>1, <3>3, EventTaken
      <4> QED BY <1>0, <2>1, <3>1, <4>1 DEF EventInv
    <3> QED BY <1>0, <2>1, <3>2, <3>3
  <2> QED BY <2>2
<1>10. ASSUME NEW p \in Portals, Deliver(p) \/ Callback(p) \/ Backward(p) PROVE G
  <2>1. /\ UNCHANGED <<events, room, ordered, pc>> /\ p \in room
        /\ \A q \in Portals \ {p} : shown'[q] = shown[q] /\ batch'[q] = batch[q]
        /\ callback' \subseteq callback \cup {p}
    <3>1. CASE Deliver(p)
      <4>1. batch[p] # NoBatch
        BY <3>1 DEF Deliver, NoBatch
      <4> QED BY <1>0, <3>1, <4>1 DEF Deliver, controller, EventInv
    <3>2. CASE Callback(p)
      BY <1>0, <3>2 DEF Callback, controller, EventInv
    <3>3. CASE Backward(p)
      BY <1>0, <3>3 DEF Backward, BackwardPage, controller
    <3> QED BY <1>10, <3>1, <3>2, <3>3
  <2>2. ASSUME NEW q \in Portals PROVE EventInv(q)'
    <3>1. q \notin room => shown'[q] = shown[q] /\ batch'[q] = batch[q] /\ (q \in callback' => q \in callback)
      BY <2>1
    <3> QED BY <1>0, <2>1, <3>1 DEF EventInv
  <2> QED BY <2>2
<1>11. ASSUME NEW p \in Portals, MakeRoomFails(p) PROVE G
  BY <1>2, <1>11 DEF MakeRoomFails, controller
<1>12. ASSUME NEW m \in Guids, Receive(m) PROVE G
  BY <1>1, <1>12 DEF Receive, controller, portal
<1>13. ASSUME NEW f \in Flushers, Act(f) PROVE G
  <2>1. PICK p \in Portals, x \in PortalEvents :
           /\ p = Home[flusher[f].cur] /\ x.type = "msg"
           /\ UNCHANGED <<room, shown, batch, callback, ordered, pc>>
           /\ \/ events' = events
              \/ events' = [events EXCEPT ![p] = Append(@, x)] /\ flusher[f].verdict = "show"
    <3> DEFINE m == flusher[f].cur
               y == [type |-> "msg", msg |-> m, create |-> flusher[f].create]
    <3>1. /\ m \in Live /\ m \in Guids /\ Home[m] \in Portals /\ flusher[f].create \in BOOLEAN
          /\ flusher[f].verdict \in {"drop", "hold", "show"}
      BY <1>13, GateAssumption DEF Act, GateInv, GateShape, FlushShape, Flushing
    <3>2. y \in PortalEvents /\ y.type = "msg"
      BY <3>1 DEF PortalEvents
    <3>3. /\ UNCHANGED <<room, shown, batch, callback, ordered, pc>>
          /\ \/ events' = events
             \/ events' = [events EXCEPT ![Home[m]] = Append(@, y)] /\ flusher[f].verdict = "show"
      BY <1>13, <3>1 DEF Act, controller
    <3> QED BY <3>1, <3>2, <3>3
  <2>2. CASE events' = events
    BY <1>1, <2>1, <2>2
  <2>3. CASE events' = [events EXCEPT ![p] = Append(@, x)] /\ flusher[f].verdict = "show"
    <3>1. gate \/ p \in room
      BY <1>13, <2>1, <2>3 DEF Act, FreshInv
    <3>2. pc # "list" /\ p \notin ordered
      BY <1>0, <3>1 DEF EventInv
    <3>3. events'[p] = Append(events[p], x) /\ events[p] \in Seq(PortalEvents)
      BY <1>0, <2>3
    <3>4. \A i \in 1 .. Len(events'[p]) : \/ i \in 1 .. Len(events[p]) /\ events'[p][i] = events[p][i]
                                          \/ events'[p][i] = x
      BY <3>3, EventAdded
    <3>5. EventInv(p)'
      <4>1. EventInv(p) /\ UNCHANGED <<room, shown, batch, callback, ordered, pc>>
        BY <1>0, <2>1
      <4>2. ASSUME NEW i \in 1 .. Len(events'[p]), events'[p][i].type = "resync"
            PROVE  i = 1 /\ p \notin room
        <5>1. i \in 1 .. Len(events[p]) /\ events[p][i].type = "resync"
          BY <2>1, <3>4, <4>2
        <5> QED BY <4>1, <5>1 DEF EventInv
      <4> QED BY <3>2, <4>1, <4>2 DEF EventInv
    <3>6. ASSUME NEW q \in Portals \ {p} PROVE EventInv(q)'
      <4>1. events'[q] = events[q]
        BY <1>0, <2>3
      <4> QED BY <1>0, <2>1, <4>1, EventsKept
    <3> QED BY <3>5, <3>6
  <2> QED BY <2>1, <2>2, <2>3
<1>14. ASSUME NEW f \in Flushers, Pick(f) \/ Held(f) \/ Finish(f) PROVE G
  BY <1>1, <1>14 DEF Pick, Held, Finish, controller, portal
<1>15. CASE UNCHANGED vars
  BY <1>1, <1>15 DEF vars, controller, portal
<1> QED BY <1>3, <1>4, <1>5, <1>6, <1>7, <1>8, <1>9, <1>10, <1>11, <1>12, <1>13, <1>14, <1>15, OnePass
        DEF GateInv, Next, Loop, Flush

LEMMA FreshStep == GateInv /\ FreshInv /\ passes' = passes /\ [Next]_vars => FreshInv'
<1> SUFFICES ASSUME GateInv, FreshInv, passes' = passes, [Next]_vars PROVE FreshInv'
  OBVIOUS
<1>1. \A f \in Flushers : ShowsKnown(f)'
  BY VerdictsStep DEF FreshInv, ShowsKnown, GateInv
<1> QED BY <1>1, SwitchesStep, EventsStep DEF FreshInv, ShowsKnown, GateInv

LEMMA FetchingSame ==
  ASSUME GateInv, passes' = passes, [Next]_vars
  PROVE  Fetching' = Fetching /\ Fetching \subseteq Portals
BY StoreStep DEF GateInv, Fetching

LEMMA ShownGrows ==
  ASSUME GateInv, [Next]_vars
  PROVE  \A p \in Portals : Shown(p) \subseteq Shown(p)'
<1> DEFINE G == \A p \in Portals : Shown(p) \subseteq Shown(p)'
<1>0. shown \in [Portals -> Seq(Guids)] /\ GateShape
  BY DEF GateInv, GateShape, PortalShape
<1>1. ASSUME shown' = shown PROVE G
  BY <1>1 DEF Shown
<1>2. ASSUME NEW p \in Portals, NEW s, shown' = [shown EXCEPT ![p] = s], Shown(p) \subseteq ToSet(s) PROVE G
  BY <1>0, <1>2 DEF Shown
<1>3. CASE List \/ Queue \/ OpenGate \/ SyncAgain \/ PassEnds \/ Load \/ Watchdog \/ TimerFires
  BY <1>1, <1>3 DEF List, Queue, OpenGate, SyncAgain, PassEnds, Load, Watchdog, TimerFires, portal
<1>4. ASSUME NEW p \in Portals, MakeRoom(p) \/ CatchUp(p) \/ Callback(p) \/ MakeRoomFails(p) PROVE G
  BY <1>1, <1>4 DEF MakeRoom, CatchUp, Callback, MakeRoomFails
<1>5. ASSUME NEW p \in Portals, ShowLive(p) PROVE G
  <2> DEFINE m == Head(events[p]).msg
  <2>1. /\ events[p] # <<>> /\ Head(events[p]).type = "msg" /\ events[p] \in Seq(PortalEvents)
        /\ shown' = shown \/ shown' = [shown EXCEPT ![p] = Append(shown[p], m)]
    BY <1>0, <1>5 DEF ShowLive, GateShape, PortalShape
  <2>2. m \in Live
    <3>1. Head(events[p]) = events[p][1] /\ 1 \in 1 .. Len(events[p])
      BY <2>1, EventTaken
    <3> QED BY <1>0, <2>1, <3>1 DEF GateShape, PortalShape
  <2>3. Shown(p) \subseteq ToSet(Append(shown[p], m))
    BY <1>0, <2>2, Added DEF Shown
  <2> QED BY <1>1, <1>2, <2>1, <2>3
<1>6. ASSUME NEW p \in Portals, Deliver(p) PROVE G
  <2> DEFINE new == shown[p] \o OldestFirst(batch[p].rows \ Shown(p))
  <2>1. batch[p] # NoBatch /\ (shown' = shown \/ shown' = [shown EXCEPT ![p] = new])
    BY <1>6, Delivered
  <2>2. shown[p] \in Seq(Guids) /\ OldestFirst(batch[p].rows \ Shown(p)) \in Seq(Guids)
    BY <1>0, <2>1, BatchShown
  <2>3. Shown(p) \subseteq ToSet(new)
    BY <2>2, Joined DEF Shown
  <2> HIDE DEF new
  <2> QED BY <1>1, <1>2, <2>1, <2>3
<1>7. ASSUME NEW p \in Portals, Backward(p) PROVE G
  <2>1. BackwardPage(p) \/ shown' = shown
    BY <1>7 DEF Backward
  <2>2. CASE BackwardPage(p)
    <3>1. PICK rows \in SUBSET Guids : shown' = [shown EXCEPT ![p] = OldestFirst(rows) \o shown[p]]
      BY <1>0, <2>2, PageShown
    <3>2. Shown(p) \subseteq ToSet(OldestFirst(rows) \o shown[p])
      BY <1>0, <3>1, Ordered, Joined DEF Shown
    <3> QED BY <1>2, <3>1, <3>2
  <2> QED BY <1>1, <2>1, <2>2
<1>8. ASSUME NEW m \in Guids, Receive(m) PROVE G
  BY <1>1, <1>8 DEF Receive, portal
<1>9. ASSUME NEW f \in Flushers, Flush(f) PROVE G
  BY <1>1, <1>9 DEF Flush, Pick, Act, Held, Finish, portal
<1>10. CASE UNCHANGED vars
  BY <1>1, <1>10 DEF vars, portal
<1> QED BY <1>3, <1>4, <1>5, <1>6, <1>7, <1>8, <1>9, <1>10 DEF Next, Loop

(* What a step does to rooms, batches and the counter. *)
LEMMA RoomWork ==
  ASSUME GateInv, FreshInv, passes' = passes, [Next]_vars
  PROVE  \/ List
         \/ \E p \in Portals : MakeRoom(p) \/ Deliver(p) \/ Callback(p)
         \/ UNCHANGED <<room, batch, callback, pending, pc>>
         \/ UNCHANGED <<room, batch, callback, pending>> /\ pc # "list"
<1>1. CASE Queue \/ OpenGate \/ Load
  BY <1>1 DEF Queue, OpenGate, Load, portal
<1>2. CASE Watchdog \/ TimerFires
  BY <1>2 DEF Watchdog, TimerFires, controller, portal
<1>3. ASSUME NEW p \in Portals, CatchUp(p) PROVE FALSE
  <2>1. events[p] # <<>> /\ p \in room /\ Head(events[p]).type = "resync" /\ events[p] \in Seq(PortalEvents)
    BY <1>3 DEF CatchUp, GateInv, GateShape, PortalShape
  <2>2. Head(events[p]) = events[p][1] /\ 1 \in 1 .. Len(events[p])
    BY <2>1, EventTaken
  <2> QED BY <2>1, <2>2 DEF FreshInv, EventInv
<1>4. ASSUME NEW p \in Portals, ShowLive(p) \/ Backward(p) \/ MakeRoomFails(p)
      PROVE  UNCHANGED <<room, batch, callback, pending, pc>>
  BY <1>4 DEF ShowLive, Backward, MakeRoomFails, controller
<1>5. ASSUME NEW m \in Guids, Receive(m) PROVE UNCHANGED <<room, batch, callback, pending, pc>>
  BY <1>5 DEF Receive, controller, portal
<1>6. ASSUME NEW f \in Flushers, Flush(f) PROVE UNCHANGED <<room, batch, callback, pending, pc>>
  BY <1>6 DEF Flush, Pick, Act, Held, Finish, controller, portal
<1>7. CASE UNCHANGED vars
  BY <1>7 DEF vars, controller, portal
<1> QED BY <1>1, <1>2, <1>3, <1>4, <1>5, <1>6, <1>7, OnePass DEF GateInv, Next, Loop

LEMMA BatchesStep ==
  ASSUME Unlimited, GateInv, FreshInv, \A p \in Portals : BatchInv(p), passes' = passes, [Next]_vars
  PROVE  \A p \in Portals : BatchInv(p)'
<1>0. /\ batch \in [Portals -> Batches] /\ GateShape
      /\ \A p \in Portals : EventInv(p) /\ Backfillable(msg, p) \in SUBSET Guids
  BY DEF GateInv, GateShape, PortalShape, FreshInv, Backfillable, MsgsOf
<1>1. \A p \in Portals : Backfillable(msg', p) = Backfillable(msg, p) /\ Shown(p) \subseteq Shown(p)'
  BY StoreStep, ShownGrows DEF GateInv
<1>2. Fetching' = Fetching
  BY FetchingSame
<1>3. ASSUME NEW p \in Portals, batch'[p] = batch[p], p \in callback' => p \in callback,
             p \in room' <=> p \in room
      PROVE  BatchInv(p)'
  BY <1>1, <1>2, <1>3 DEF BatchInv
<1>4. ASSUME UNCHANGED <<room, batch, callback>> PROVE \A p \in Portals : BatchInv(p)'
  BY <1>3, <1>4
<1>5. CASE List
  BY <1>4, <1>5 DEF List, portal
<1>6. ASSUME NEW p \in Portals, MakeRoom(p) PROVE \A q \in Portals : BatchInv(q)'
  <2>1. /\ p \notin room /\ room' = room \cup {p} /\ callback' = callback
        /\ Backfillable(msg, p) = {} => batch' = batch
        /\ Backfillable(msg, p) # {} => batch' = [batch EXCEPT ![p] = FetchForward(p)]
    BY <1>6 DEF MakeRoom
  <2>2. ASSUME NEW q \in Portals \ {p} PROVE BatchInv(q)'
    BY <1>0, <1>3, <2>1
  <2>3. shown[p] = <<>> /\ batch[p] = NoBatch /\ p \notin callback
    BY <1>0, <2>1 DEF EventInv
  <2>4. CASE Backfillable(msg, p) = {}
    BY <1>1, <1>2, <2>1, <2>3, <2>4 DEF BatchInv, Fetching
  <2>5. CASE Backfillable(msg, p) # {}
    <3>1. FetchForward(p) # NoBatch /\ FetchForward(p).rows = Newest(Backfillable(msg, p), Limit)
      BY <1>0, <2>3, Fetched
    <3>2. Newest(Backfillable(msg, p), Limit) = Backfillable(msg, p)
      BY <1>0, NewestThere, GateAssumption DEF Unlimited
    <3>3. batch'[p] = FetchForward(p) /\ p \in Fetching
      BY <1>0, <2>1, <2>5 DEF Fetching
    <3> QED BY <1>1, <1>2, <2>1, <2>2, <2>3, <3>1, <3>2, <3>3 DEF BatchInv
  <2> QED BY <2>2, <2>4, <2>5
<1>7. ASSUME NEW p \in Portals, Deliver(p) PROVE \A q \in Portals : BatchInv(q)'
  <2>1. /\ batch[p] # NoBatch /\ batch' = [batch EXCEPT ![p] = NoBatch] /\ room' = room
        /\ callback' \subseteq callback \cup {p}
        /\ batch[p].rows # {} =>
             shown' = [shown EXCEPT ![p] = shown[p] \o OldestFirst(batch[p].rows \ Shown(p))]
    BY <1>7, Delivered
  <2>2. ASSUME NEW q \in Portals \ {p} PROVE BatchInv(q)'
    BY <1>0, <1>3, <2>1
  <2>3. p \in Fetching /\ batch[p].rows = Backfillable(msg, p) /\ batch[p].rows # {}
    BY <2>1 DEF BatchInv, Fetching
  <2>4. Backfillable(msg, p) \subseteq Shown(p)'
    <3> DEFINE S == batch[p].rows \ Shown(p)
    <3>1. S \in SUBSET Guids /\ shown \in [Portals -> Seq(Guids)]
      BY <1>0, <2>3 DEF GateShape, PortalShape
    <3>2. OldestFirst(S) \in Seq(Guids) /\ ToSet(OldestFirst(S)) = S
      BY <3>1, Ordered
    <3>3. shown'[p] = shown[p] \o OldestFirst(S)
      BY <2>1, <2>3, <3>1
    <3>4. ToSet(shown[p] \o OldestFirst(S)) = Shown(p) \cup S
      <4>1. shown[p] \in Seq(Guids)
        BY <3>1
      <4> HIDE DEF S
      <4> QED BY <3>2, <4>1, Joined DEF Shown
    <3> QED BY <2>3, <3>3, <3>4 DEF Shown
  <2>5. batch'[p] = NoBatch
    BY <1>0, <2>1
  <2>6. BatchInv(p)'
    BY <1>1, <1>2, <2>3, <2>4, <2>5 DEF BatchInv
  <2> QED BY <2>2, <2>6
<1>8. ASSUME NEW p \in Portals, Callback(p) PROVE \A q \in Portals : BatchInv(q)'
  BY <1>3, <1>8 DEF Callback
<1> QED BY <1>4, <1>5, <1>6, <1>7, <1>8, RoomWork

(* The time of the newest message is one of a message, or 0. *)
LEMMA NewestKnown ==
  ASSUME NEW p \in Portals
  PROVE  NewestOf(p) \in Nat
<1> DEFINE B == Backfillable(msg, p)
           times == {0} \cup {Stamp[m] : m \in B}
<1>1. B \in SUBSET Guids /\ \A m \in Guids : Stamp[m] \in Nat
  BY StoreAssumption DEF Backfillable, MsgsOf
<1>2. \E t \in times : \A u \in times : u <= t
  <2>1. CASE B = {}
    BY <2>1
  <2>2. CASE B # {}
    <3>1. PICK m \in B : \A k \in B : Stamp[k] <= Stamp[m]
      BY <1>1, <2>2, LastThere
    <3>2. Stamp[m] \in times /\ \A u \in times : u <= Stamp[m]
      BY <1>1, <3>1
    <3> QED BY <3>2
  <2> QED BY <2>1, <2>2
<1>3. times \in SUBSET Nat
  BY <1>1
<1>4. NewestOf(p) = CHOOSE t \in times : \A u \in times : u <= t
  BY DEF NewestOf
<1> HIDE DEF times
<1>5. NewestOf(p) \in times
  BY <1>2, <1>4
<1> QED BY <1>3, <1>5

LEMMA CounterStep ==
  ASSUME Unlimited, GateInv, FreshInv, CountInv, passes' = passes, [Next]_vars
  PROVE  pc' # "list" => pending' = Cardinality(Waiting')
<1>0. /\ batch \in [Portals -> Batches] /\ \A p \in Portals : EventInv(p) /\ BatchInv(p)
      /\ pc # "list" => pending = Cardinality(Waiting)
      /\ Waiting' = {p \in Fetching : p \notin room' \/ batch'[p] # NoBatch \/ p \in callback'}
      /\ Waiting = {p \in Fetching : p \notin room \/ batch[p] # NoBatch \/ p \in callback}
      /\ Fetching \subseteq Portals /\ Fetching' = Fetching
  <2>1. Fetching' = Fetching /\ Fetching \subseteq Portals
    BY FetchingSame
  <2> QED BY <2>1 DEF GateInv, GateShape, PortalShape, FreshInv, CountInv, Waiting
<1>1. pc' = "list" => pc = "list"
  BY Lasting DEF GateInv
<1>2. ASSUME UNCHANGED <<room, batch, callback, pending>>, pc' = pc \/ pc # "list"
      PROVE  pc' # "list" => pending' = Cardinality(Waiting')
  <2>1. Waiting' = Waiting
    BY <1>0, <1>2
  <2> QED BY <1>0, <1>2, <2>1
<1>3. CASE List
  <2>1. \A p \in Portals : p \notin room
    BY <1>0, <1>3 DEF List, EventInv
  <2>2. UNCHANGED <<room, batch, callback>>
    BY <1>3 DEF List, portal
  <2>3. Waiting' = Fetching
    BY <1>0, <2>1, <2>2
  <2>4. {p \in Candidates : p \notin room /\ Backfillable(msg, p) # {}} = Fetching
    <3>1. pc = "list" /\ \A p \in Portals : asked[p] = -1
      BY <1>3 DEF List, FreshInv
    <3>2. \A p \in Portals : asked[p] < NewestOf(p)
      BY <3>1, NewestKnown
    <3> QED BY <2>1, <3>2 DEF Candidates, Listed, Fetching
  <2>5. ~gate
    BY <1>3 DEF List, FreshInv
  <2>6. pending' = Cardinality({p \in Candidates : p \notin room /\ Backfillable(msg, p) # {}})
    BY <1>3, <2>5 DEF List
  <2> QED BY <2>3, <2>4, <2>6
<1>4. ASSUME NEW p \in Portals, MakeRoom(p) PROVE pc' # "list" => pending' = Cardinality(Waiting')
  <2>1. /\ p \notin room /\ room' = room \cup {p} /\ UNCHANGED <<callback, pending, pc>>
        /\ Backfillable(msg, p) = {} => batch' = batch
        /\ Backfillable(msg, p) # {} => batch' = [batch EXCEPT ![p] = FetchForward(p)]
    BY <1>4 DEF MakeRoom, controller
  <2>2. FetchForward(p) # NoBatch
    BY Fetched DEF GateInv
  <2>3. Waiting' = Waiting
    <3>1. ASSUME NEW q \in Fetching \ {p} PROVE q \in Waiting' <=> q \in Waiting
      BY <1>0, <2>1
    <3>2. p \in Fetching => p \in Waiting' /\ p \in Waiting
      BY <1>0, <2>1, <2>2 DEF Fetching
    <3> QED BY <1>0, <3>1, <3>2
  <2> QED BY <1>0, <2>1, <2>3
<1>5. ASSUME NEW p \in Portals, Deliver(p) PROVE pc' # "list" => pending' = Cardinality(Waiting')
  <2>1. batch[p] # NoBatch /\ batch' = [batch EXCEPT ![p] = NoBatch] /\ room' = room /\ pc' = pc
    BY <1>5 DEF Deliver, NoBatch, controller
  <2>2. p \in Fetching /\ batch[p].rows # {}
    BY <1>0, <2>1 DEF BatchInv, Fetching
  <2>3. callback' = callback \cup {p} /\ pending' = pending
    BY <1>5, <2>2 DEF Deliver
  <2>4. Waiting' = Waiting
    <3>1. ASSUME NEW q \in Fetching \ {p} PROVE q \in Waiting' <=> q \in Waiting
      BY <1>0, <2>1, <2>3
    <3>2. p \in Waiting' /\ p \in Waiting
      BY <1>0, <2>1, <2>2, <2>3
    <3> QED BY <1>0, <3>1, <3>2
  <2> QED BY <1>0, <2>1, <2>3, <2>4
<1>6. ASSUME NEW p \in Portals, Callback(p) PROVE pc' # "list" => pending' = Cardinality(Waiting')
  <2>1. /\ p \in callback /\ callback' = callback \ {p} /\ pending' = pending - 1
        /\ UNCHANGED <<room, batch, pc>>
    BY <1>6 DEF Callback, BackfillDone, controller
  <2>2. p \in room /\ p \in Fetching /\ batch[p] = NoBatch /\ pc # "list"
    BY <1>0, <1>6, <2>1 DEF EventInv, BatchInv, Callback
  <2>3. Waiting' = Waiting \ {p} /\ p \in Waiting
    BY <1>0, <2>1, <2>2
  <2>4. IsFiniteSet(Waiting) /\ Cardinality(Waiting) \in Nat
    BY <1>0, FS_Subset, FS_CardinalityType, GateAssumption
  <2>5. Cardinality(Waiting \ {p}) = Cardinality(Waiting) - 1
    BY <2>3, <2>4, FS_RemoveElement
  <2>6. pending = Cardinality(Waiting)
    BY <1>0, <2>2 DEF CountInv
  <2>7. Cardinality(Waiting') = Cardinality(Waiting \ {p})
    BY <2>3
  <2> QED BY <2>1, <2>5, <2>6, <2>7
<1> QED BY <1>2, <1>3, <1>4, <1>5, <1>6, RoomWork

LEMMA CountersStart == Init => CounterInv
<1> SUFFICES ASSUME Init, old = {} PROVE FreshInv /\ CountInv
  BY GateStarts DEF CounterInv
<1>1. /\ pc = "list" /\ ordered = {} /\ gate = FALSE /\ callback = {}
      /\ events = [p \in Portals |-> <<>>] /\ batch = [p \in Portals |-> NoBatch]
      /\ flusher = [f \in Flushers |-> Idle] /\ asked = [p \in Portals |-> -1]
  BY DEF Init
<1>2. PICK bridged \in Earlier :
        /\ room = {Home[m] : m \in bridged} /\ old = room
        /\ shown = [p \in Portals |-> OldestFirst(InPortal(bridged, p))]
  BY DEF Init
<1>3. bridged = {} /\ room = {}
  BY <1>2
<1>4. ASSUME NEW p \in Portals PROVE shown[p] = <<>>
  <2>1. InPortal(bridged, p) = {}
    BY <1>3 DEF InPortal
  <2> QED BY <1>2, <2>1, Ordered
<1>5. \A f \in Flushers : flusher[f].cur = NoMsg
  BY <1>1 DEF Idle
<1>6. \A p \in Portals : events[p] = <<>> /\ \A i \in 1 .. Len(events[p]) : FALSE
  BY <1>1
<1>7. \A p \in Portals : EventInv(p)
  BY <1>1, <1>3, <1>4, <1>6 DEF EventInv
<1>8. FreshInv
  BY <1>1, <1>5, <1>7 DEF FreshInv
<1>9. CountInv
  BY <1>1, <1>3 DEF CountInv, BatchInv
<1> QED BY <1>8, <1>9

LEMMA CountersStep == Unlimited /\ CounterInv /\ [Next]_vars => CounterInv'
<1> SUFFICES ASSUME Unlimited, CounterInv, [Next]_vars PROVE CounterInv'
  OBVIOUS
<1>1. GateInv' /\ old' = old
  BY GateSteps, Lasting DEF CounterInv, GateInv
<1>2. ASSUME old = {}, passes' = Passes PROVE FreshInv' /\ CountInv'
  <2>1. GateInv /\ FreshInv /\ CountInv /\ passes' = passes
    BY <1>2, OnePass DEF CounterInv, GateInv
  <2>2. FreshInv'
    BY <2>1, FreshStep
  <2>3. \A p \in Portals : BatchInv(p)'
    BY <2>1, BatchesStep DEF CountInv
  <2>4. (pc # "list" => pending = Cardinality(Waiting))'
    BY <2>1, CounterStep
  <2> QED BY <2>2, <2>3, <2>4 DEF CountInv
<1> QED BY <1>1, <1>2 DEF CounterInv

(* Only a counter that reaches 0 starts the flush that bears its name. *)
LEMMA CountFlush ==
  ASSUME GateInv, [Next]_vars, Working("count")', ~Working("count")
  PROVE  \E p \in Portals : (Deliver(p) \/ Callback(p)) /\ BackfillDone /\ pending' = 0
<1>0. FlushShape /\ flusher \in [Flushers -> Flushing] /\ "count" \in Flushers
  BY DEF GateInv, GateShape, FlushShape, Flushers
<1>1. ASSUME flusher'["count"].at = flusher["count"].at PROVE FALSE
  BY <1>1 DEF Working
<1>2. ASSUME NEW f \in Flushers \ {"count"}, Start(f) PROVE FALSE
  BY <1>0, <1>1, <1>2, FlushStarts
<1>3. {"open", "force", "timer"} \subseteq Flushers \ {"count"}
  BY DEF Flushers
<1>4. CASE List \/ Queue \/ OpenGate \/ SyncAgain \/ PassEnds
  BY <1>1, <1>4 DEF List, Queue, OpenGate, SyncAgain, PassEnds
<1>5. CASE Load \/ Watchdog \/ TimerFires
  BY <1>1, <1>2, <1>3, <1>5 DEF Load, Watchdog, TimerFires
<1>6. ASSUME NEW p \in Portals, MakeRoom(p) \/ CatchUp(p) \/ ShowLive(p) \/ Backward(p) \/ MakeRoomFails(p)
      PROVE  FALSE
  BY <1>1, <1>6 DEF MakeRoom, CatchUp, ShowLive, Backward, MakeRoomFails
<1>7. ASSUME NEW p \in Portals, Deliver(p) \/ Callback(p) PROVE BackfillDone /\ pending' = 0
  <2>1. BackfillDone \/ flusher' = flusher
    BY <1>7 DEF Deliver, Callback
  <2> QED BY <1>1, <2>1 DEF BackfillDone
<1>8. ASSUME NEW m \in Guids, Receive(m) PROVE FALSE
  BY <1>1, <1>8 DEF Receive
<1>9. ASSUME NEW f \in Flushers, Flush(f) PROVE FALSE
  <2>1. flusher["count"].at = "idle"
    BY DEF Working
  <2> QED BY <1>0, <1>1, <1>9, <2>1, Flushed
<1>10. CASE UNCHANGED vars
  BY <1>1, <1>10 DEF vars
<1> QED BY <1>4, <1>5, <1>6, <1>7, <1>8, <1>9, <1>10 DEF Next, Loop

(* FlushAfterHistory: on a bridge without rooms and without a cap on the history, *)
(* until the first delayed pass the counter flushes the buffer only when the      *)
(* history of every portal is in its room (setCloudSyncDone,                      *)
(* onForwardBackfillDone).                                                        *)
THEOREM FlushWaitsForHistory == ASSUME Unlimited PROVE Spec => FlushAfterHistory
<1> DEFINE A == old = {} /\ passes = Passes /\ Working("count")' /\ ~Working("count")
                  => \A p \in Portals : InPortal(History, p) \subseteq Shown(p) \/ p \in failed
<1>1. CounterInv /\ CounterInv' /\ [Next]_vars => A
  <2> SUFFICES ASSUME CounterInv, CounterInv', [Next]_vars, old = {}, passes = Passes,
                      Working("count")', ~Working("count"), NEW q \in Portals
               PROVE  InPortal(History, q) \subseteq Shown(q)
    OBVIOUS
  <2>0. GateInv /\ FreshInv /\ CountInv /\ old' = old
    BY Lasting DEF CounterInv, GateInv
  <2>2. PICK p \in Portals : (Deliver(p) \/ Callback(p)) /\ BackfillDone /\ pending' = 0
    BY <2>0, CountFlush
  <2>9. passes' = passes
    BY <2>2 DEF Deliver, Callback, controller
  <2>1. GateInv /\ FreshInv /\ CountInv /\ FreshInv' /\ CountInv' /\ GateInv'
    BY <2>0, <2>9 DEF CounterInv
  <2>3. ~Deliver(p)
    <3>1. ASSUME Deliver(p) PROVE FALSE
      <4>1. batch[p] # NoBatch /\ (batch[p].rows # {} => pending' = pending)
        BY <3>1, Delivered
      <4>2. batch[p].rows # {}
        BY <2>1, <4>1 DEF CountInv, BatchInv, Fetching
      <4> QED BY <2>1, <2>2, <4>1, <4>2 DEF BackfillDone, GateInv, GateShape
    <3> QED BY <3>1
  <2>4. Callback(p) /\ UNCHANGED <<shown, room, batch, pc>>
    BY <2>2, <2>3 DEF Callback, controller
  <2>5. p \in room /\ pc # "list"
    BY <2>1, <2>4 DEF FreshInv, EventInv, Callback
  <2>6. Waiting' = {}
    <3>1. Waiting' \in SUBSET Portals
      BY <2>1, <2>9, FetchingSame DEF Waiting
    <3>2. IsFiniteSet(Waiting')
      BY <3>1, FS_Subset, GateAssumption
    <3>3. Cardinality(Waiting') = 0
      BY <2>1, <2>2, <2>4, <2>5 DEF CountInv
    <3> QED BY <3>2, <3>3, FS_EmptySet
  <2>7. InPortal(History, q) \subseteq Backfillable(msg, q)
    BY <2>1, GateAssumption DEF GateInv, StoreInv, Backfillable, MsgsOf, InPortal
  <2>8. CASE Backfillable(msg, q) # {}
    <3>1. q \in Fetching /\ Fetching' = Fetching
      BY <2>1, <2>8, <2>9, FetchingSame DEF Fetching
    <3>2. q \in room /\ batch[q] = NoBatch
      BY <2>4, <2>6, <3>1 DEF Waiting
    <3>3. Backfillable(msg, q) \subseteq Shown(q)
      BY <2>1, <3>1, <3>2 DEF CountInv, BatchInv
    <3> QED BY <2>7, <3>3
  <2> QED BY <2>7, <2>8
<1> QED BY <1>1, CountersStart, CountersStep, PTL DEF Spec, FlushAfterHistory

=============================================================================
