----------------------------- MODULE EventProofs -----------------------------
(***************************************************************************)
(* Proofs about EventDispatcher, for any number of subscribers and events, *)
(* any size of the queues and any overflow.                                *)
(***************************************************************************)
EXTENDS EventDispatcher, SequenceTheorems, FiniteSetTheorems, TLAPS

\* The events are numbered as they were emitted, and everything a consumer
\* has or had is one of them.
Numbered ==
    /\ \A n \in 1 .. Len(sent) : sent[n].id = n
    /\ \A s \in subs :
          /\ since[s] <= Len(sent)
          /\ \A i \in DOMAIN queue[s] : queue[s][i].id <= Len(sent)
          /\ \A e \in taken[s] : e.id <= Len(sent)

EventInv ==
    TypeOK /\ Numbered /\ InOrder /\ MemoryBounded /\ PriorityIsKept /\ OldestGoFirst

-----------------------------------------------------------------------------
(***************************************************************************)
(* What emit does to one queue.                                            *)
(***************************************************************************)

\* A queue without its position i, and with an event at the end.
Swapped(q, e, i, r) ==
    /\ i \in DOMAIN q /\ Len(r) = Len(q) /\ r[Len(q)] = e
    /\ \A j \in 1 .. Len(q) - 1 : r[j] = IF j < i THEN q[j] ELSE q[j + 1]

LEMMA EventsOfQueue ==
  ASSUME NEW q \in Seq(Event)
  PROVE  \A j \in DOMAIN q : j \in Nat /\ q[j] \in Event /\ q[j].id \in Nat \ {0}
<1>1. \A j \in DOMAIN q : j \in Nat /\ q[j] \in Event
  OBVIOUS
<1> QED BY <1>1 DEF Event

LEMMA SwapIsSwapped ==
  ASSUME NEW q \in Seq(Event), NEW e \in Event, NEW i \in DOMAIN q
  PROVE  /\ Append(RemoveAt(q, i), e) \in Seq(Event)
         /\ Swapped(q, e, i, Append(RemoveAt(q, i), e))
<1> DEFINE a == SubSeq(q, 1, i - 1)
           b == SubSeq(q, i + 1, Len(q))
           r == Append(a \o b, e)
<1>1. i \in 1 .. Len(q)
  OBVIOUS
<1>2. a \in Seq(Event) /\ Len(a) = i - 1 /\ \A j \in 1 .. i - 1 : a[j] = q[j]
  BY <1>1
<1>3. b \in Seq(Event) /\ Len(b) = Len(q) - i /\ \A j \in 1 .. Len(q) - i : b[j] = q[j + i]
  BY <1>1
<1>4. /\ a \o b \in Seq(Event) /\ Len(a \o b) = Len(a) + Len(b)
      /\ \A j \in 1 .. Len(a) + Len(b) :
            (a \o b)[j] = IF j <= Len(a) THEN a[j] ELSE b[j - Len(a)]
  BY <1>2, <1>3, ConcatProperties, Zenon
<1>5. \A j \in 1 .. Len(q) - 1 : (a \o b)[j] = IF j < i THEN q[j] ELSE q[j + 1]
  <2> HIDE DEF a, b, r
  <2>0. Len(a) = i - 1 /\ Len(b) = Len(q) - i /\ i \in 1 .. Len(q) /\ Len(q) \in Nat
    BY <1>1, <1>2, <1>3
  <2> SUFFICES ASSUME NEW j \in 1 .. Len(q) - 1
               PROVE  (a \o b)[j] = IF j < i THEN q[j] ELSE q[j + 1]
    OBVIOUS
  <2>1. CASE j < i
    <3>1. j \in 1 .. Len(a) + Len(b) /\ j <= Len(a) /\ j \in 1 .. i - 1
      BY <2>0, <2>1
    <3>2. (a \o b)[j] = a[j]
      BY <1>4, <3>1, Zenon
    <3>3. a[j] = q[j]
      BY <1>2, <3>1, Zenon
    <3> QED BY <2>1, <3>2, <3>3
  <2>2. CASE ~(j < i)
    <3>1. j \in 1 .. Len(a) + Len(b) /\ ~(j <= Len(a)) /\ j - Len(a) \in 1 .. Len(q) - i
      BY <2>0, <2>2
    <3>2. (a \o b)[j] = b[j - Len(a)]
      BY <1>4, <3>1, Zenon
    <3>3. b[j - Len(a)] = q[j - Len(a) + i]
      BY <1>3, <3>1, Zenon
    <3>4. j - Len(a) + i = j + 1
      BY <2>0
    <3>5. (a \o b)[j] = q[j + 1]
      BY <3>2, <3>3, <3>4
    <3> QED BY <2>2, <3>5
  <2> QED BY <2>1, <2>2
<1>6. r \in Seq(Event) /\ Len(r) = Len(q) /\ r[Len(q)] = e
      /\ \A j \in 1 .. Len(q) - 1 : r[j] = (a \o b)[j]
  <2> HIDE DEF a, b
  <2> DEFINE c == a \o b
  <2>1. c \in Seq(Event) /\ Len(c) = Len(q) - 1 /\ Len(q) \in Nat
    <3>1. a \o b \in Seq(Event) /\ Len(a \o b) = Len(a) + Len(b)
      BY <1>4
    <3>2. Len(a) + Len(b) = Len(q) - 1 /\ Len(q) \in Nat
      BY <1>1, <1>2, <1>3
    <3> QED BY <3>1, <3>2
  <2> HIDE DEF c
  <2>2. Append(c, e) \in Seq(Event) /\ Len(Append(c, e)) = Len(q)
        /\ Append(c, e)[Len(q)] = e /\ \A j \in 1 .. Len(q) - 1 : Append(c, e)[j] = c[j]
    BY <2>1
  <2> QED BY <2>2 DEF c
<1> QED BY <1>5, <1>6 DEF RemoveAt, Swapped

\* The three things emit can do.
LEMMA PutCases ==
  ASSUME NEW q \in Seq(Event), NEW e \in Event, NEW i, Discards(q, i)
  PROVE  /\ Put(q, e, i) \in Seq(Event)
         /\ \/ /\ Len(q) >= Capacity /\ IsOldest(q, i)
               /\ Swapped(q, e, i, Put(q, e, i))
            \/ i = 0 /\ HasRoom(q, e) /\ Put(q, e, i) = Append(q, e)
               /\ (Len(q) >= Capacity => \A j \in DOMAIN q : q[j].priority)
            \/ i = 0 /\ ~HasRoom(q, e) /\ Put(q, e, i) = q
               /\ \A j \in DOMAIN q : q[j].priority
<1>1. CASE Len(q) >= Capacity /\ \E j \in DOMAIN q : ~q[j].priority
  <2>1. IsOldest(q, i) /\ i \in DOMAIN q
    BY <1>1 DEF Discards, IsOldest
  <2>2. Put(q, e, i) = Append(RemoveAt(q, i), e)
    BY <2>1 DEF Put
  <2> QED BY <1>1, <2>1, <2>2, SwapIsSwapped
<1>2. CASE ~(Len(q) >= Capacity /\ \E j \in DOMAIN q : ~q[j].priority)
  <2>1. i = 0
    BY <1>2 DEF Discards
  <2>2. Put(q, e, i) = IF HasRoom(q, e) THEN Append(q, e) ELSE q
    BY <2>1 DEF Put
  <2>3. ~HasRoom(q, e) => Len(q) >= Capacity
    BY QueueAssumption DEF HasRoom
  <2> QED BY <1>2, <2>1, <2>2, <2>3
<1> QED BY <1>1, <1>2

Ordered(q) == \A j, k \in DOMAIN q : j < k => q[j].id < q[k].id
Before(q, e) == \A j \in DOMAIN q : q[j].id < e.id
ComesFrom(r, q, e) == \A j \in DOMAIN r : r[j] = e \/ \E k \in DOMAIN q : r[j] = q[k]

\* Order, and where the events of the new queue come from.
LEMMA PutInOrder ==
  ASSUME NEW q \in Seq(Event), NEW e \in Event, NEW i, NEW r, r = Put(q, e, i), Discards(q, i),
         Ordered(q), Before(q, e)
  PROVE  Ordered(r) /\ ComesFrom(r, q, e)
<1> USE DEF Ordered, Before, ComesFrom
<1>1. CASE Swapped(q, e, i, r) /\ r \in Seq(Event)
  <2>1. \A j \in 1 .. Len(q) - 1 : \E k \in DOMAIN q :
           r[j] = q[k] /\ (j < i => k = j) /\ (~(j < i) => k = j + 1)
    <3>1. \A j \in 1 .. Len(q) - 1 : j \in DOMAIN q /\ j + 1 \in DOMAIN q
      OBVIOUS
    <3>2. \A j \in 1 .. Len(q) - 1 : r[j] = IF j < i THEN q[j] ELSE q[j + 1]
      BY <1>1 DEF Swapped
    <3> SUFFICES ASSUME NEW j \in 1 .. Len(q) - 1
                 PROVE  \E k \in DOMAIN q :
                           r[j] = q[k] /\ (j < i => k = j) /\ (~(j < i) => k = j + 1)
      OBVIOUS
    <3>3. CASE j < i
      BY <3>1, <3>2, <3>3, Zenon
    <3>4. CASE ~(j < i)
      BY <3>1, <3>2, <3>4, Zenon
    <3> QED BY <3>3, <3>4
  <2>2. DOMAIN r = 1 .. Len(q) /\ r[Len(q)] = e
    BY <1>1 DEF Swapped
  <2>3. ASSUME NEW j \in DOMAIN r, NEW k \in DOMAIN r, j < k PROVE r[j].id < r[k].id
    <3>1. PICK a \in DOMAIN q : r[j] = q[a] /\ (j < i => a = j) /\ (~(j < i) => a = j + 1)
      BY <2>1, <2>2, <2>3
    <3>2. CASE k = Len(q)
      BY <3>1, <3>2, <2>2
    <3>3. CASE k # Len(q)
      <4>1. PICK b \in DOMAIN q : r[k] = q[b] /\ (k < i => b = k) /\ (~(k < i) => b = k + 1)
        BY <2>1, <2>2, <3>3
      <4>2. a < b
        BY <1>1, <2>2, <2>3, <3>1, <4>1 DEF Swapped
      <4> QED BY <3>1, <4>1, <4>2
    <3> QED BY <3>2, <3>3
  <2>4. \A j \in DOMAIN r : r[j] = e \/ \E k \in DOMAIN q : r[j] = q[k]
    BY <2>1, <2>2
  <2> QED BY <2>3, <2>4
<1>2. CASE r = Append(q, e)
  <2>1. /\ DOMAIN r = 1 .. Len(q) + 1 /\ r[Len(q) + 1] = e /\ DOMAIN q = 1 .. Len(q)
        /\ \A j \in DOMAIN q : r[j] = q[j]
    BY <1>2
  <2> QED BY <2>1
<1>3. CASE r = q
  BY <1>3
<1> QED BY <1>1, <1>2, <1>3, PutCases

Holds(r, x) == \E j \in DOMAIN r : r[j] = x

\* What stays: every priority event of the queue; every event later than a
\* non-priority one; and the new event, if it is one or has one to displace.
Keeps(r, q, e) ==
    /\ \A k \in DOMAIN q : q[k].priority => Holds(r, q[k])
    /\ \A m, k \in DOMAIN q : m < k /\ ~q[m].priority => Holds(r, q[k])
    /\ e.priority /\ Len(q) < Capacity + Overflow => Holds(r, e)
    /\ \A m \in DOMAIN q : ~q[m].priority => Holds(r, e)

LEMMA PutKeeps ==
  ASSUME NEW q \in Seq(Event), NEW e \in Event, NEW i, NEW r, r = Put(q, e, i), Discards(q, i)
  PROVE  Keeps(r, q, e)
<1> USE DEF Keeps, Holds
<1>1. CASE IsOldest(q, i) /\ Swapped(q, e, i, r) /\ r \in Seq(Event)
  <2>1. DOMAIN r = 1 .. Len(q) /\ DOMAIN q = 1 .. Len(q) /\ r[Len(q)] = e /\ i \in DOMAIN q
    BY <1>1 DEF Swapped
  <2>2. ASSUME NEW k \in DOMAIN q, k # i PROVE \E j \in DOMAIN r : r[j] = q[k]
    <3>1. CASE k < i
      BY <1>1, <2>1, <3>1 DEF Swapped
    <3>2. CASE k > i
      <4>1. k - 1 \in 1 .. Len(q) - 1 /\ ~(k - 1 < i) /\ k - 1 + 1 = k
        BY <2>1, <3>2
      <4>2. r[k - 1] = q[k]
        BY <1>1, <4>1 DEF Swapped
      <4> QED BY <2>1, <4>1, <4>2
    <3> QED BY <2>1, <2>2, <3>1, <3>2
  <2>3. \E j \in DOMAIN r : r[j] = e
    BY <2>1
  <2> QED BY <1>1, <2>1, <2>2, <2>3 DEF IsOldest
<1>2. CASE r = Append(q, e)
  <2>1. /\ DOMAIN r = 1 .. Len(q) + 1 /\ r[Len(q) + 1] = e /\ DOMAIN q = 1 .. Len(q)
        /\ \A j \in DOMAIN q : r[j] = q[j]
    BY <1>2
  <2> QED BY <2>1
<1>3. CASE ~HasRoom(q, e) /\ r = q /\ \A j \in DOMAIN q : q[j].priority
  BY <1>3 DEF HasRoom
<1> QED BY <1>1, <1>2, <1>3, PutCases

\* The bound of one queue.
Bounded(q) ==
    /\ Len(q) <= Capacity + Overflow
    /\ Len(q) > Capacity => \A i \in DOMAIN q : q[i].priority

LEMMA PutIsBounded ==
  ASSUME NEW q \in Seq(Event), NEW e \in Event, NEW i, NEW r, r = Put(q, e, i), Discards(q, i), Bounded(q)
  PROVE  Bounded(r)
<1>1. CASE IsOldest(q, i) /\ Swapped(q, e, i, r) /\ r \in Seq(Event)
  <2>1. ~(Len(q) > Capacity)
    BY <1>1 DEF Bounded, IsOldest
  <2> QED BY <1>1, <2>1 DEF Swapped, Bounded
<1>2. CASE HasRoom(q, e) /\ r = Append(q, e)
           /\ (Len(q) >= Capacity => \A j \in DOMAIN q : q[j].priority)
  <2>1. /\ Len(r) = Len(q) + 1 /\ DOMAIN r = 1 .. Len(q) + 1 /\ r[Len(q) + 1] = e
        /\ DOMAIN q = 1 .. Len(q) /\ Len(q) \in Nat
        /\ \A j \in DOMAIN q : r[j] = q[j]
    BY <1>2
  <2> QED BY <1>2, <2>1, QueueAssumption DEF HasRoom, Bounded
<1>3. CASE r = q
  BY <1>3
<1> QED BY <1>1, <1>2, <1>3, PutCases

-----------------------------------------------------------------------------
(***************************************************************************)
(* The steps.                                                              *)
(***************************************************************************)

\* An event is numbered one past the others.
LEMMA EmitStep ==
  ASSUME EventInv, NEW p \in BOOLEAN, NEW gone,
         Emit([id |-> Len(sent) + 1, priority |-> p], gone)
  PROVE  EventInv'
<1> DEFINE e == [id |-> Len(sent) + 1, priority |-> p]
<1>1. /\ e \in Event /\ e.id = Len(sent) + 1 /\ Len(sent) \in Nat
      /\ sent' = Append(sent, e) /\ sent' \in Seq(Event) /\ Len(sent') = Len(sent) + 1
      /\ sent'[Len(sent) + 1] = e /\ \A n \in 1 .. Len(sent) : sent'[n] = sent[n]
  BY DEF EventInv, TypeOK, Emit, Event
<1> HIDE DEF e
<1>2. /\ UNCHANGED <<subs, since, taken>>
      /\ \A s \in subs : Discards(queue[s], gone[s])
      /\ queue' = [s \in Subscribers |-> IF s \in subs THEN Put(queue[s], e, gone[s]) ELSE queue[s]]
      /\ unfinished' = [s \in Subscribers |->
            IF s \in subs THEN unfinished[s] + Counted(queue[s], e, gone[s]) ELSE unfinished[s]]
      /\ overfull' = [s \in Subscribers |->
            IF s \in subs /\ Len(queue[s]) >= Capacity + Overflow
            THEN overfull[s] \union {e} ELSE overfull[s]]
  BY DEF Emit, e
<1>3. subs' = subs /\ since' = since /\ taken' = taken
  BY <1>2
<1>4. ASSUME NEW s \in subs
      PROVE  /\ s \in Subscribers /\ queue[s] \in Seq(Event) /\ Discards(queue[s], gone[s])
             /\ queue'[s] = Put(queue[s], e, gone[s]) /\ queue'[s] \in Seq(Event)
             /\ Ordered(queue[s]) /\ Before(queue[s], e)
  <2>1. s \in Subscribers /\ queue[s] \in Seq(Event)
    BY DEF EventInv, TypeOK
  <2>2. Discards(queue[s], gone[s]) /\ queue'[s] = Put(queue[s], e, gone[s])
    BY <1>2, <2>1
  <2>3. queue'[s] \in Seq(Event)
    BY <1>1, <2>1, <2>2, PutCases
  <2>4. \A j \in DOMAIN queue[s] : queue[s][j].id \in Nat /\ queue[s][j].id <= Len(sent)
    BY <2>1, EventsOfQueue DEF EventInv, Numbered
  <2>5. Ordered(queue[s]) /\ Before(queue[s], e)
    BY <1>1, <2>4 DEF EventInv, InOrder, Ordered, Before
  <2> QED BY <2>1, <2>2, <2>3, <2>5
<1>5. ASSUME NEW s \in subs
      PROVE  /\ Ordered(queue'[s]) /\ ComesFrom(queue'[s], queue[s], e)
             /\ Keeps(queue'[s], queue[s], e)
  BY <1>1, <1>4, PutInOrder, PutKeeps
<1>6. TypeOK'
  <2>1. queue' \in [Subscribers -> Seq(Event)]
    BY <1>2, <1>4 DEF EventInv, TypeOK
  <2>2. unfinished' \in [Subscribers -> Nat]
    BY <1>2 DEF EventInv, TypeOK, Counted
  <2>3. overfull' \in [Subscribers -> SUBSET Event]
    BY <1>1, <1>2 DEF EventInv, TypeOK
  <2> QED BY <1>1, <1>2, <2>1, <2>2, <2>3 DEF EventInv, TypeOK
<1>7. Numbered'
  <2>1. \A n \in 1 .. Len(sent') : sent'[n].id = n
    BY <1>1 DEF EventInv, Numbered
  <2>2. ASSUME NEW s \in subs
        PROVE  /\ since[s] <= Len(sent')
               /\ \A j \in DOMAIN queue'[s] : queue'[s][j].id <= Len(sent')
               /\ \A x \in taken[s] : x.id <= Len(sent')
    <3>1. since[s] \in Nat /\ since[s] <= Len(sent)
      BY <1>4 DEF EventInv, TypeOK, Numbered
    <3>2. \A x \in taken[s] : x.id \in Nat /\ x.id <= Len(sent)
      BY <1>4 DEF EventInv, TypeOK, Numbered, Event
    <3>3. \A k \in DOMAIN queue[s] : queue[s][k].id \in Nat /\ queue[s][k].id <= Len(sent)
      BY <1>4, EventsOfQueue DEF EventInv, Numbered
    <3> QED BY <1>1, <1>5, <3>1, <3>2, <3>3 DEF ComesFrom
  <2> QED BY <1>3, <2>1, <2>2 DEF Numbered
<1>8. InOrder'
  <2> SUFFICES ASSUME NEW s \in subs
               PROVE  /\ Ordered(queue'[s])
                      /\ \A i \in DOMAIN queue'[s] :
                            /\ queue'[s][i] = sent'[queue'[s][i].id] /\ queue'[s][i].id > since[s]
                            /\ \A x \in taken[s] : x.id < queue'[s][i].id
    BY <1>3 DEF InOrder, Ordered
  <2>1. since[s] \in Nat /\ since[s] <= Len(sent)
    BY <1>4 DEF EventInv, TypeOK, Numbered
  <2>2. \A x \in taken[s] : x.id \in Nat /\ x.id < e.id
    BY <1>1, <1>4 DEF EventInv, TypeOK, Numbered, Event
  <2>3. \A k \in DOMAIN queue[s] : queue[s][k].id \in Nat \ {0} /\ queue[s][k].id <= Len(sent)
    BY <1>4, EventsOfQueue DEF EventInv, Numbered
  <2>4. \A k \in DOMAIN queue[s] :
           /\ queue[s][k].id \in 1 .. Len(sent) /\ queue[s][k].id > since[s]
           /\ queue[s][k] = sent[queue[s][k].id]
           /\ \A x \in taken[s] : x.id < queue[s][k].id
    BY <1>1, <2>3 DEF EventInv, InOrder
  <2> QED BY <1>1, <1>5, <2>1, <2>2, <2>4 DEF ComesFrom
<1>9. MemoryBounded'
  <2>1. \A s \in Subscribers : Bounded(queue[s])
    BY DEF EventInv, MemoryBounded, Bounded
  <2>2. \A s \in subs : Bounded(queue'[s])
    BY <1>1, <1>4, <2>1, PutIsBounded
  <2>3. \A s \in Subscribers \ subs : Bounded(queue'[s])
    BY <1>2, <2>1
  <2> QED BY <2>2, <2>3 DEF MemoryBounded, Bounded
<1>10. PriorityIsKept'
  <2> SUFFICES ASSUME NEW s \in subs, NEW n \in since[s] + 1 .. Len(sent'), sent'[n].priority
               PROVE  \/ sent'[n] \in taken[s] \union overfull'[s]
                      \/ Holds(queue'[s], sent'[n])
    BY <1>3 DEF PriorityIsKept, Holds
  <2>1. since[s] \in Nat /\ overfull[s] \subseteq overfull'[s]
    BY <1>2, <1>4 DEF EventInv, TypeOK
  <2>2. CASE n = Len(sent) + 1
    <3>1. CASE Len(queue[s]) >= Capacity + Overflow
      BY <1>1, <1>2, <1>4, <2>2, <3>1
    <3>2. CASE ~(Len(queue[s]) >= Capacity + Overflow)
      BY <1>1, <1>4, <1>5, <2>2, <3>2, QueueAssumption DEF Keeps
    <3> QED BY <3>1, <3>2
  <2>3. CASE n # Len(sent) + 1
    <3>1. n \in since[s] + 1 .. Len(sent) /\ sent'[n] = sent[n]
      BY <1>1, <2>1, <2>3
    <3>2. \/ sent[n] \in taken[s] \union overfull[s]
          \/ \E i \in DOMAIN queue[s] : queue[s][i] = sent[n]
      BY <3>1 DEF EventInv, PriorityIsKept
    <3>3. ASSUME NEW i \in DOMAIN queue[s], queue[s][i] = sent[n]
          PROVE  Holds(queue'[s], sent[n])
      BY <1>5, <3>1, <3>3 DEF Keeps
    <3> QED BY <2>1, <3>1, <3>2, <3>3
  <2> QED BY <2>2, <2>3
<1>11. OldestGoFirst'
  <2> SUFFICES ASSUME NEW s \in subs, NEW n \in 1 .. Len(sent'), NEW i \in DOMAIN queue'[s],
                      ~queue'[s][i].priority, queue'[s][i].id < n
               PROVE  Holds(queue'[s], sent'[n])
    BY <1>3 DEF OldestGoFirst, Holds
  <2>1. PICK k \in DOMAIN queue[s] : queue'[s][i] = queue[s][k]
    BY <1>1, <1>5 DEF ComesFrom
  <2>2. CASE n = Len(sent) + 1
    BY <1>1, <1>5, <2>1, <2>2 DEF Keeps
  <2>3. CASE n # Len(sent) + 1
    <3>1. n \in 1 .. Len(sent) /\ sent'[n] = sent[n]
      BY <1>1, <2>3
    <3>2. PICK j \in DOMAIN queue[s] : queue[s][j] = sent[n]
      BY <2>1, <3>1 DEF EventInv, OldestGoFirst
    <3>3. queue[s][j].id = n /\ queue[s][k].id < queue[s][j].id /\ ~queue[s][k].priority
      BY <2>1, <3>1, <3>2 DEF EventInv, Numbered
    <3>4. k < j
      <4>1. /\ j \in Nat /\ queue[s][j].id \in Nat
            /\ k \in Nat /\ queue[s][k].id \in Nat
        BY <1>4, EventsOfQueue
      <4>2. j < k => queue[s][j].id < queue[s][k].id
        BY <1>4 DEF Ordered
      <4> QED BY <3>3, <4>1, <4>2
    <3> QED BY <1>5, <3>1, <3>2, <3>3, <3>4 DEF Keeps
  <2> QED BY <2>2, <2>3
<1> QED BY <1>6, <1>7, <1>8, <1>9, <1>10, <1>11 DEF EventInv

\* A new queue is empty, and so is one that is dropped.
LEMMA SubscriptionStep ==
  ASSUME EventInv, NEW s \in Subscribers, Subscribe(s) \/ Unsubscribe(s)
  PROVE  EventInv'
<1>1. /\ sent' = sent /\ subs' \in {subs \union {s}, subs \ {s}}
      /\ \A t \in Subscribers : queue'[t] = IF t = s THEN <<>> ELSE queue[t]
      /\ \A t \in Subscribers \ {s} :
            since'[t] = since[t] /\ taken'[t] = taken[t] /\ overfull'[t] = overfull[t]
      /\ s \in subs' => since'[s] = Len(sent) /\ taken'[s] = {}
  BY DEF EventInv, TypeOK, Subscribe, Unsubscribe, ghosts
<1>2. TypeOK'
  <2>1. CASE Subscribe(s)
    BY <2>1 DEF EventInv, TypeOK, Subscribe
  <2>2. CASE Unsubscribe(s)
    BY <2>2 DEF EventInv, TypeOK, Unsubscribe, ghosts
  <2> QED BY <2>1, <2>2
<1>3. Len(sent) \in Nat /\ subs \subseteq Subscribers
  BY DEF EventInv, TypeOK
<1>4. \A t \in subs' : t = s \/ (t \in subs /\ t \in Subscribers \ {s})
  <2>1. \A t \in subs' : t = s \/ t \in subs
    BY <1>1
  <2> QED BY <1>3, <2>1
<1>5. Numbered'
  BY <1>1, <1>3, <1>4 DEF EventInv, Numbered
<1>6. InOrder'
  BY <1>1, <1>3, <1>4 DEF EventInv, InOrder
<1>7. MemoryBounded'
  BY <1>1, QueueAssumption DEF EventInv, MemoryBounded
<1>8. PriorityIsKept'
  BY <1>1, <1>3, <1>4 DEF EventInv, PriorityIsKept
<1>9. OldestGoFirst'
  BY <1>1, <1>3, <1>4 DEF EventInv, OldestGoFirst
<1> QED BY <1>2, <1>5, <1>6, <1>7, <1>8, <1>9 DEF EventInv

\* A consumer takes the first event, and the others follow.
LEMMA TakeStep ==
  ASSUME EventInv, NEW s \in Subscribers, Take(s)
  PROVE  EventInv'
<1>1. s \in subs /\ queue[s] \in Seq(Event) /\ queue[s] # <<>>
  BY DEF EventInv, TypeOK, Take
<1>2. /\ queue'[s] = Tail(queue[s]) /\ queue'[s] \in Seq(Event)
      /\ Len(queue'[s]) = Len(queue[s]) - 1 /\ Len(queue[s]) \in Nat \ {0}
      /\ DOMAIN queue[s] = 1 .. Len(queue[s]) /\ DOMAIN queue'[s] = 1 .. Len(queue[s]) - 1
      /\ \A i \in DOMAIN queue'[s] : i + 1 \in DOMAIN queue[s] /\ queue'[s][i] = queue[s][i + 1]
      /\ Head(queue[s]) = queue[s][1] /\ queue[s][1] \in Event /\ 1 \in DOMAIN queue[s]
  BY <1>1 DEF EventInv, TypeOK, Take
<1>3. /\ UNCHANGED <<subs, unfinished, sent, since, overfull>>
      /\ taken'[s] = taken[s] \union {queue[s][1]}
      /\ \A t \in Subscribers \ {s} : queue'[t] = queue[t] /\ taken'[t] = taken[t]
  BY <1>2 DEF EventInv, TypeOK, Take
<1>4. TypeOK'
  BY <1>1, <1>2, <1>3 DEF EventInv, TypeOK, Take
<1>5. subs \subseteq Subscribers /\ \A t \in subs : t = s \/ t \in Subscribers \ {s}
  BY DEF EventInv, TypeOK
\* What was in the queue is still there, or was first.
<1>6. \A k \in DOMAIN queue[s] : k = 1 \/ \E j \in DOMAIN queue'[s] : j + 1 = k /\ queue'[s][j] = queue[s][k]
  <2> SUFFICES ASSUME NEW k \in DOMAIN queue[s], k # 1
               PROVE  k - 1 \in DOMAIN queue'[s] /\ k - 1 + 1 = k
    BY <1>2
  <2> QED BY <1>2
<1>7. Numbered'
  <2>1. \A i \in DOMAIN queue'[s] : queue'[s][i].id <= Len(sent)
    BY <1>1, <1>2 DEF EventInv, Numbered
  <2>2. \A e \in taken'[s] : e.id <= Len(sent)
    BY <1>1, <1>2, <1>3 DEF EventInv, Numbered
  <2> QED BY <1>3, <1>5, <2>1, <2>2 DEF EventInv, Numbered
<1>8. InOrder'
  <2>1. \A i \in DOMAIN queue'[s] :
           /\ queue'[s][i] = sent[queue'[s][i].id] /\ queue'[s][i].id > since[s]
           /\ \A e \in taken[s] : e.id < queue'[s][i].id
           /\ queue[s][1].id < queue'[s][i].id
    BY <1>1, <1>2 DEF EventInv, InOrder
  <2>2. \A i, j \in DOMAIN queue'[s] : i < j => queue'[s][i].id < queue'[s][j].id
    BY <1>1, <1>2 DEF EventInv, InOrder
  <2> QED BY <1>3, <1>5, <2>1, <2>2 DEF EventInv, InOrder
<1>9. MemoryBounded'
  <2>1. Bounded(queue[s])
    BY DEF EventInv, MemoryBounded, Bounded
  <2>2. Bounded(queue'[s])
    BY <1>2, <2>1, QueueAssumption DEF Bounded
  <2> QED BY <1>3, <2>2 DEF EventInv, MemoryBounded, Bounded
<1>10. PriorityIsKept'
  BY <1>1, <1>3, <1>5, <1>6 DEF EventInv, PriorityIsKept
<1>11. OldestGoFirst'
  <2>1. ASSUME NEW n \in 1 .. Len(sent), NEW i \in DOMAIN queue'[s],
               ~queue'[s][i].priority, queue'[s][i].id < n
        PROVE  \E j \in DOMAIN queue'[s] : queue'[s][j] = sent[n]
    <3>1. PICK j \in DOMAIN queue[s] : queue[s][j] = sent[n]
      BY <1>1, <1>2, <2>1 DEF EventInv, OldestGoFirst
    <3>2. queue[s][j].id = n /\ queue[s][1].id < queue'[s][i].id
      BY <1>1, <1>2, <2>1, <3>1 DEF EventInv, Numbered, InOrder
    <3>3. queue[s][1].id \in Nat /\ queue'[s][i].id \in Nat
      BY <1>1, <1>2, EventsOfQueue
    <3>4. j # 1
      BY <2>1, <3>2, <3>3
    <3> QED BY <1>6, <3>1, <3>4
  <2> QED BY <1>3, <1>5, <2>1 DEF EventInv, OldestGoFirst
<1> QED BY <1>4, <1>7, <1>8, <1>9, <1>10, <1>11 DEF EventInv

-----------------------------------------------------------------------------
(***************************************************************************)
(* The count of a queue: a consumer never takes an event it already has,   *)
(* so every Take moves one from the queue to the taken ones.               *)
(***************************************************************************)

CountInv == CountIsKept /\ \A s \in subs : IsFiniteSet(taken[s])

\* A queue grows by what is counted: not at all when one event displaces another.
LEMMA PutIsCounted ==
  ASSUME NEW q \in Seq(Event), NEW e \in Event, NEW i, Discards(q, i)
  PROVE  Len(Put(q, e, i)) = Len(q) + Counted(q, e, i)
<1>1. CASE IsOldest(q, i) /\ Swapped(q, e, i, Put(q, e, i))
  <2>1. i # 0 /\ Len(Put(q, e, i)) = Len(q)
    BY <1>1 DEF IsOldest, Swapped
  <2> QED BY <2>1 DEF Counted
<1>2. CASE i = 0 /\ HasRoom(q, e) /\ Put(q, e, i) = Append(q, e)
  BY <1>2 DEF Counted
<1>3. CASE i = 0 /\ ~HasRoom(q, e) /\ Put(q, e, i) = q
  BY <1>3 DEF Counted
<1> QED BY <1>1, <1>2, <1>3, PutCases

LEMMA CountStep ==
  ASSUME EventInv, CountInv, [Next]_vars
  PROVE  CountInv'
<1> DEFINE Exact(s) == IsFiniteSet(taken[s]) /\ unfinished[s] = Len(queue[s]) + Cardinality(taken[s])
<1>1. \A s \in subs : s \in Subscribers /\ Exact(s)
  BY DEF EventInv, TypeOK, CountInv, CountIsKept
<1>2. ASSUME NEW s \in subs, NEW t \in Subscribers, Subscribe(t) \/ Unsubscribe(t) \/ Take(t), s # t
      PROVE  taken'[s] = taken[s] /\ unfinished'[s] = unfinished[s] /\ queue'[s] = queue[s]
  BY <1>1, <1>2 DEF EventInv, TypeOK, Subscribe, Unsubscribe, Take, ghosts
<1> SUFFICES ASSUME NEW s \in subs' PROVE Exact(s)'
  BY DEF CountInv, CountIsKept
<1>3. ASSUME NEW t \in Subscribers, Subscribe(t) PROVE Exact(s)'
  <2>1. CASE s = t
    BY <1>3, <2>1, FS_EmptySet DEF EventInv, TypeOK, Subscribe
  <2>2. CASE s # t
    <3>1. s \in subs
      BY <1>3, <2>2 DEF Subscribe
    <3> QED BY <1>1, <1>2, <1>3, <2>2, <3>1
  <2> QED BY <2>1, <2>2
<1>4. ASSUME NEW t \in Subscribers, Unsubscribe(t) PROVE Exact(s)'
  <2>1. s \in subs /\ s # t
    BY <1>4 DEF Unsubscribe
  <2> QED BY <1>1, <1>2, <1>4, <2>1
<1>5. ASSUME NEW t \in Subscribers, Take(t) PROVE Exact(s)'
  <2>1. s \in subs /\ s \in Subscribers
    BY <1>1, <1>5 DEF Take
  <2>2. CASE s = t
    <3>1. queue[s] \in Seq(Event) /\ queue[s] # <<>>
      BY <1>5, <2>1, <2>2 DEF EventInv, TypeOK, Take
    <3>2. /\ queue'[s] = Tail(queue[s]) /\ unfinished'[s] = unfinished[s]
          /\ taken'[s] = taken[s] \union {Head(queue[s])}
      BY <1>5, <2>1, <2>2 DEF EventInv, TypeOK, Take
    <3>3. /\ Len(queue'[s]) = Len(queue[s]) - 1 /\ Len(queue[s]) \in Nat
          /\ 1 \in DOMAIN queue[s] /\ Head(queue[s]) = queue[s][1]
      BY <3>1, <3>2
    <3>4. queue[s][1].id \in Nat
      BY <3>1, <3>3, EventsOfQueue
    <3>5. Head(queue[s]) \notin taken[s]
      BY <2>1, <3>3, <3>4 DEF EventInv, InOrder
    <3>6. /\ IsFiniteSet(taken'[s]) /\ Cardinality(taken[s]) \in Nat
          /\ Cardinality(taken'[s]) = Cardinality(taken[s]) + 1
      BY <1>1, <2>1, <3>2, <3>5, FS_AddElement, FS_CardinalityType
    <3> QED BY <1>1, <2>1, <3>2, <3>3, <3>6
  <2>3. CASE s # t
    BY <1>1, <1>2, <1>5, <2>1, <2>3
  <2> QED BY <2>2, <2>3
<1>6. CASE EmitAny
  <2>1. PICK p \in BOOLEAN, gone \in [Subscribers -> 0 .. Capacity + Overflow] :
           Emit([id |-> Len(sent) + 1, priority |-> p], gone)
    BY <1>6 DEF EmitAny
  <2> DEFINE e == [id |-> Len(sent) + 1, priority |-> p]
  <2>2. e \in Event /\ s \in subs /\ s \in Subscribers /\ queue[s] \in Seq(Event)
    BY <1>1, <2>1 DEF EventInv, TypeOK, Emit, Event
  <2>3. /\ Discards(queue[s], gone[s]) /\ queue'[s] = Put(queue[s], e, gone[s])
        /\ unfinished'[s] = unfinished[s] + Counted(queue[s], e, gone[s])
        /\ taken'[s] = taken[s]
    BY <2>1, <2>2 DEF Emit
  <2> HIDE DEF e
  <2>4. Len(queue'[s]) = Len(queue[s]) + Counted(queue[s], e, gone[s])
    BY <2>2, <2>3, PutIsCounted
  <2>5. Counted(queue[s], e, gone[s]) \in Nat /\ Len(queue[s]) \in Nat
        /\ Cardinality(taken[s]) \in Nat
    BY <1>1, <2>2, FS_CardinalityType DEF Counted
  <2> QED BY <1>1, <2>2, <2>3, <2>4, <2>5
<1>7. CASE UNCHANGED vars
  BY <1>1, <1>7 DEF vars, ghosts
<1> QED BY <1>3, <1>4, <1>5, <1>6, <1>7 DEF Next

-----------------------------------------------------------------------------
(***************************************************************************)
(* The theorems.                                                           *)
(***************************************************************************)

\* The inductive invariant, from which the rest follows.
LEMMA EventInvariance == Spec => []EventInv
<1>1. Init => EventInv
  BY QueueAssumption
  DEF Init, EventInv, TypeOK, Numbered, InOrder, MemoryBounded, PriorityIsKept, OldestGoFirst
<1>2. EventInv /\ [Next]_vars => EventInv'
  <2> SUFFICES ASSUME EventInv, [Next]_vars PROVE EventInv'
    OBVIOUS
  <2>1. ASSUME NEW s \in Subscribers, Subscribe(s) \/ Unsubscribe(s) PROVE EventInv'
    BY <2>1, SubscriptionStep
  <2>2. ASSUME NEW s \in Subscribers, Take(s) PROVE EventInv'
    BY <2>2, TakeStep
  <2>3. CASE EmitAny
    BY <2>3, EmitStep DEF EmitAny
  <2>4. CASE UNCHANGED vars
    BY <2>4 DEF vars, ghosts, EventInv, TypeOK, Numbered, InOrder, MemoryBounded,
                PriorityIsKept, OldestGoFirst
  <2> QED BY <2>1, <2>2, <2>3, <2>4 DEF Next
<1> QED BY <1>1, <1>2, PTL DEF Spec

\* Every variable keeps its type, and a queue nobody subscribes to is empty.
THEOREM EventTypes == Spec => []TypeOK
  BY EventInvariance, PTL DEF EventInv

\* A queue never grows past its size and the overflow.
THEOREM MemoryIsBounded == Spec => []MemoryBounded
  BY EventInvariance, PTL DEF EventInv

\* Every consumer gets the events in the order of their emission, once.
THEOREM EventsStayInOrder == Spec => []InOrder
  BY EventInvariance, PTL DEF EventInv

\* A priority event is lost only where the overflow is used up.
THEOREM PrioritiesAreKept == Spec => []PriorityIsKept
  BY EventInvariance, PTL DEF EventInv

\* Of the non-priority events the oldest are lost first.
THEOREM OldestAreLostFirst == Spec => []OldestGoFirst
  BY EventInvariance, PTL DEF EventInv

\* The count of a queue is what is in it and what was taken from it, however
\* often the queue is edited in place.
THEOREM CountOfAQueue == Spec => []CountIsKept
<1>1. Init => CountInv
  BY DEF Init, CountInv, CountIsKept
<1>2. EventInv /\ CountInv /\ [Next]_vars => CountInv'
  BY CountStep
<1>3. CountInv => CountIsKept
  BY DEF CountInv
<1> QED BY <1>1, <1>2, <1>3, EventInvariance, PTL DEF Spec
=============================================================================
