-------------------------- MODULE Delivery_proofs ---------------------------
(***************************************************************************)
(* What is proved of the components that bring something to a client: the  *)
(* event bus with its replays, the realtime connections and the chat.      *)
(* Each part has the invariant of its component, one lemma for each action *)
(* or group of actions that keeps it, and the theorems that follow.        *)
(***************************************************************************)
EXTENDS EventBus, Realtime, ChatSession, TLAPS, FiniteSetTheorems, WellFoundedInduction,
        SequenceTheorems

-----------------------------------------------------------------------------
(***************************************************************************)
(* The event bus.                                                          *)
(***************************************************************************)

Larger(a, b) == IF a > b THEN a ELSE b

Replays == [step : {"off", "query", "give", "done", "failed"}, tenant : Tenant \cup {Everyone},
            from : Nat, offset : Nat, batch : Seq(Envelopes), left : Nat, given : Seq(Nat),
            floor : Nat, upto : Nat]

\* The events stored and those about to be, in the order of publication, and
\* how many of the first n are of a tenant.
Stream == logged \o calls
CountOf(s, t, n) == Cardinality({j \in 1..n : s[j].tenant = t})

BusTypes ==
    /\ {started, wired} \subseteq BOOLEAN
    /\ tenantSequences \in [Tenant -> Nat]
    /\ buffer \in [0..Capacity - 1 -> Envelopes \cup {NoEvent}] /\ head \in 0..Capacity - 1
    /\ calls \in Seq(Envelopes) /\ logged \in Seq(Envelopes)
    /\ Len(logged) + Len(calls) <= MaxEvents
    /\ posted \in Seq(1..MaxEvents)
    /\ subscribed \subseteq Subscriber /\ heard \in [Subscriber -> Seq(1..MaxEvents)]
    /\ replay \in Replays

\* An event's number within its tenant is its place among the tenant's events.
NumberInv ==
    /\ \A i \in 1..Len(Stream) : Stream[i].sequence = CountOf(Stream, Stream[i].tenant, i)
    /\ \A t \in Tenant : tenantSequences[t] = CountOf(Stream, t, Len(Stream))

\* The slot of the p-th event stored, counted back from the next one.
Slot(p) == LET back == head - (Len(logged) + 1 - p) IN IF back < 0 THEN back + Capacity ELSE back

BufferInv ==
    /\ Len(logged) < Capacity => head = Len(logged)
    /\ \A p \in Len(logged) - Stored + 1..Len(logged) : buffer[Slot(p)] = logged[p]

\* How many events the driver has called back for while it had its callback.
Called == Len(logged) - Len(posted)

HeardInv ==
    /\ wired => \A i \in 1..Len(posted) : posted[i] = Called + i
    /\ wired => Called >= 0
    /\ \A i \in 1..Len(posted) : posted[i] <= Len(logged)
    /\ \A s \in Subscriber : \A i \in 1..Len(heard[s]) : heard[s][i] <= Len(logged)
    /\ \A s \in Subscriber : wired /\ s \in subscribed /\ heard[s] # <<>> =>
          LET last == heard[s][Len(heard[s])]
          IN  last <= Called /\ \A e \in last + 1..Called : ~Matches(s, logged[e])

\* A replay's numbers: the first it could give, and the first it still could.
FirstDue(r) == Larger(r.from, r.floor + 1)
FirstKept(r) == Larger(r.from, Evicted(r.tenant) + 1)

GivenInv(r) ==
    /\ r.tenant \in Tenant /\ r.from > 0 /\ r.floor <= Evicted(r.tenant)
    /\ \A i, j \in 1..Len(r.given) : i < j => r.given[i] < r.given[j]
    /\ \A i \in 1..Len(r.given) :
          FirstDue(r) <= r.given[i] /\ r.given[i] <= LatestSequence(r.tenant)
    /\ r.given # <<>> => r.given[Len(r.given)] + 1 - FirstKept(r) <= Len(r.given)

\* In step "give" the numbers of the batch follow one another from b + 1 on.
BatchInv(r) ==
    LET size == Len(r.batch)
    IN  /\ r.left \in 1..size /\ size <= ReplayBatch
        /\ Len(r.given) = r.offset + size - r.left
        /\ \E b \in Nat :
              /\ \A k \in 1..size : r.batch[k].sequence = b + k
              /\ FirstDue(r) <= b + 1 - r.offset /\ b + 1 - r.offset <= FirstKept(r)
              /\ r.given # <<>> => r.given[Len(r.given)] <= b + size - r.left
              /\ b + size <= r.upto /\ r.upto <= LatestSequence(r.tenant)
              /\ size < ReplayBatch => r.upto + 1 - FirstKept(r) <= r.offset + size

ReplayInv ==
    /\ replay.step # "off" => GivenInv(replay)
    /\ replay.step = "query" => Len(replay.given) = replay.offset
    /\ replay.step = "give" => BatchInv(replay)
    /\ replay.step = "done" =>
          /\ \A i \in 1..Len(replay.given) : replay.given[i] <= replay.upto
          /\ replay.upto + 1 - FirstKept(replay) <= Len(replay.given)

BusInv == BusTypes /\ NumberInv /\ BufferInv /\ HeardInv /\ HeardInOrder /\ ReplayInv

-----------------------------------------------------------------------------
\* A non-empty set of numbers has a least one.
LEMMA LeastExists ==
  ASSUME NEW S \in SUBSET Nat, S # {}
  PROVE  \E m \in S : \A n \in S : m <= n
<1>1. PICK x \in S : \A y \in S : <<y, x>> \notin OpToRel(<, Nat)
  BY NatLessThanWellFounded, WFMin
<1>2. ASSUME NEW y \in S PROVE x <= y
  <2>1. x \in Nat /\ y \in Nat
    OBVIOUS
  <2>2. ~(y < x)
    BY <1>1, <2>1 DEF OpToRel
  <2> QED BY <2>1, <2>2
<1> QED BY <1>2

\* Counting one event more.
LEMMA CountStep ==
  ASSUME NEW s \in Seq(Envelopes), NEW t
  PROVE  /\ CountOf(s, t, 0) = 0
         /\ \A n \in 0..Len(s) : CountOf(s, t, n) \in Nat
         /\ \A n \in 0..Len(s) - 1 :
               CountOf(s, t, n + 1)
                  = IF s[n + 1].tenant = t THEN CountOf(s, t, n) + 1 ELSE CountOf(s, t, n)
<1> DEFINE Of(n) == {j \in 1..n : s[j].tenant = t}
<1>1. \A n \in Nat : IsFiniteSet(Of(n)) /\ Cardinality(Of(n)) \in Nat
  <2> TAKE n \in Nat
  <2>1. IsFiniteSet(1..n) /\ Of(n) \in SUBSET (1..n)
    BY FS_Interval
  <2> QED BY <2>1, FS_Subset, FS_CardinalityType
<1>2. CountOf(s, t, 0) = 0
  <2>1. Of(0) = {}
    OBVIOUS
  <2>2. Cardinality(Of(0)) = 0
    BY <2>1, FS_EmptySet, Zenon
  <2> QED BY <2>2 DEF CountOf
<1>3. ASSUME NEW n \in 0..Len(s) - 1
      PROVE  CountOf(s, t, n + 1)
                = IF s[n + 1].tenant = t THEN CountOf(s, t, n) + 1 ELSE CountOf(s, t, n)
  <2>1. n \in Nat /\ n + 1 \notin Of(n)
    OBVIOUS
  <2>2. CASE s[n + 1].tenant = t
    <3>1. Of(n + 1) = Of(n) \cup {n + 1}
      BY <2>1, <2>2
    <3>2. Cardinality(Of(n) \cup {n + 1}) = Cardinality(Of(n)) + 1
      BY <1>1, <2>1, FS_AddElement
    <3>3. Cardinality(Of(n + 1)) = Cardinality(Of(n)) + 1
      BY <3>1, <3>2, Zenon
    <3> QED BY <2>2, <3>3 DEF CountOf
  <2>3. CASE s[n + 1].tenant # t
    <3>1. Of(n + 1) = Of(n)
      BY <2>1, <2>3
    <3>2. Cardinality(Of(n + 1)) = Cardinality(Of(n))
      BY <3>1, Zenon
    <3> QED BY <2>3, <3>2 DEF CountOf
  <2> QED BY <2>2, <2>3
<1>4. \A n \in 0..Len(s) : CountOf(s, t, n) \in Nat
  <2>1. \A n \in 0..Len(s) : n \in Nat
    OBVIOUS
  <2> QED BY <1>1, <2>1 DEF CountOf
<1> QED BY <1>2, <1>3, <1>4

\* A longer part has as many events of a tenant, and more when it ends in one;
\* it has at most so many more as it is longer.
LEMMA CountMonotone ==
  ASSUME NEW s \in Seq(Envelopes), NEW t, NEW m \in 0..Len(s), NEW n \in m..Len(s)
  PROVE  /\ CountOf(s, t, m) <= CountOf(s, t, n)
         /\ CountOf(s, t, n) <= CountOf(s, t, m) + (n - m)
         /\ m < n /\ s[n].tenant = t => CountOf(s, t, m) < CountOf(s, t, n)
<1> DEFINE c(i) == CountOf(s, t, i)
           Bad == {i \in m..Len(s) : ~(c(m) <= c(i) /\ c(i) <= c(m) + (i - m))}
<1>1. \A i \in 0..Len(s) : c(i) \in Nat
  BY CountStep
<1>2. \A i \in 0..Len(s) - 1 : c(i + 1) = IF s[i + 1].tenant = t THEN c(i) + 1 ELSE c(i)
  BY CountStep
<1> HIDE DEF c
<1>3. Bad = {}
  <2> SUFFICES ASSUME Bad # {} PROVE FALSE
    OBVIOUS
  <2>7. Bad \in SUBSET Nat
    OBVIOUS
  <2>1. PICK i \in Bad : \A j \in Bad : i <= j
    <3> HIDE DEF Bad
    <3> QED BY <2>7, LeastExists
  <2>2. i # m
    BY <1>1, <2>1
  <2>3. i - 1 \in m..Len(s) /\ i - 1 \notin Bad /\ i - 1 \in 0..Len(s) - 1
    BY <2>1, <2>2
  <2>4. c(m) <= c(i - 1) /\ c(i - 1) <= c(m) + (i - 1 - m)
    BY <2>3
  <2>5. c(i) = c(i - 1) \/ c(i) = c(i - 1) + 1
    BY <1>2, <2>3
  <2>6. c(i - 1) \in Nat /\ c(m) \in Nat /\ i \in m..Len(s)
    <3>1. i \in m..Len(s)
      BY <2>1
    <3>2. m \in 0..Len(s) /\ i - 1 \in 0..Len(s)
      BY <2>3
    <3> QED BY <1>1, <3>1, <3>2
  <2> QED BY <2>1, <2>4, <2>5, <2>6
<1>4. \A i \in m..Len(s) : c(m) <= c(i) /\ c(i) <= c(m) + (i - m)
  BY <1>3
<1>5. ASSUME m < n, s[n].tenant = t PROVE c(m) < c(n)
  <2>1. n - 1 \in m..Len(s) /\ n - 1 \in 0..Len(s) - 1
    BY <1>5
  <2>2. c(n) = c(n - 1) + 1
    BY <1>2, <1>5, <2>1
  <2>3. c(m) <= c(n - 1) /\ c(m) \in Nat /\ c(n - 1) \in Nat
    BY <1>1, <1>4, <2>1
  <2> QED BY <2>2, <2>3
<1> QED BY <1>4, <1>5 DEF c

\* Every number up to the last is an event's.
LEMMA CountReached ==
  ASSUME NEW s \in Seq(Envelopes), NEW t, NEW n \in 0..Len(s), NEW q \in 1..CountOf(s, t, n)
  PROVE  \E i \in 1..n : s[i].tenant = t /\ CountOf(s, t, i) = q
<1> DEFINE c(i) == CountOf(s, t, i)
           Past == {i \in 0..n : c(i) >= q}
<1>1. \A i \in 0..n : c(i) \in Nat
  <2>1. \A i \in 0..Len(s) : c(i) \in Nat
    BY CountStep
  <2> QED BY <2>1
<1>2. c(0) = 0
  BY CountStep
<1>3. \A i \in 0..Len(s) - 1 : c(i + 1) = IF s[i + 1].tenant = t THEN c(i) + 1 ELSE c(i)
  BY CountStep
<1>4. q \in 1..c(n)
  OBVIOUS
<1> HIDE DEF c
<1>5. n \in Past
  BY <1>1, <1>4
<1>12. Past \in SUBSET Nat /\ Past # {}
  BY <1>5
<1>6. PICK i \in Past : \A j \in Past : i <= j
  <2> HIDE DEF Past
  <2> QED BY <1>12, LeastExists
<1>7. i \in 1..n
  BY <1>2, <1>4, <1>6
<1>8. i - 1 \in 0..n /\ i - 1 \in 0..Len(s) - 1 /\ i - 1 \notin Past
  BY <1>6, <1>7
<1>9. c(i - 1) < q /\ c(i) >= q /\ c(i - 1) \in Nat /\ c(i) \in Nat
  BY <1>1, <1>4, <1>6, <1>8
<1>10. c(i) = IF s[i].tenant = t THEN c(i - 1) + 1 ELSE c(i - 1)
  BY <1>3, <1>7, <1>8
<1>11. s[i].tenant = t /\ c(i) = q
  BY <1>4, <1>9, <1>10
<1> QED BY <1>7, <1>11 DEF c

\* What is counted depends on the first events only.
LEMMA CountAgrees ==
  ASSUME NEW s, NEW u, NEW t, NEW n \in Nat, \A i \in 1..n : s[i] = u[i]
  PROVE  CountOf(s, t, n) = CountOf(u, t, n)
<1>1. {j \in 1..n : s[j].tenant = t} = {j \in 1..n : u[j].tenant = t}
  OBVIOUS
<1> QED BY <1>1, Zenon DEF CountOf

\* What the proofs use of the constants of the bus.
LEMMA ConstantFacts ==
  /\ Capacity \in Nat \ {0} /\ ReplayBatch \in Nat \ {0} /\ MaxEvents \in Nat
  /\ Wants \in [Subscriber -> Tenant \cup {Everyone}] /\ Everyone \notin Tenant
BY BusAssumption

\* The buffer holds the latest events, the oldest of them first.
LEMMA BufferedMeans ==
  ASSUME BusTypes, BufferInv
  PROVE  /\ Stored \in 0..Len(logged) /\ Stored <= Capacity
         /\ \A i \in 1..Stored : Buffered[i] = logged[Len(logged) - Stored + i]
<1> USE ConstantFacts
<1>1. Len(logged) \in Nat /\ head \in 0..Capacity - 1
  BY DEF BusTypes
<1>2. Stored \in 0..Len(logged) /\ Stored <= Capacity
  BY <1>1 DEF Stored
<1>3. \A x \in 0..Capacity - 1 : x % Capacity = x
  OBVIOUS
<1>4. \A x \in Capacity..2 * Capacity - 1 : x % Capacity = x - Capacity
  OBVIOUS
<1>5. ASSUME NEW i \in 1..Stored PROVE Buffered[i] = logged[Len(logged) - Stored + i]
  <2> DEFINE p == Len(logged) - Stored + i
  <2>1. p \in Len(logged) - Stored + 1..Len(logged)
    BY <1>1, <1>2, <1>5
  <2>2. Buffered[i] = buffer[(OldestSlot + i - 1) % Capacity]
    BY <1>5 DEF Buffered
  <2>3. (OldestSlot + i - 1) % Capacity = Slot(p)
    <3>1. CASE Stored < Capacity
      <4>1. OldestSlot = 0 /\ Len(logged) < Capacity /\ Stored = Len(logged) /\ head = Len(logged)
        BY <1>1, <3>1 DEF OldestSlot, Stored, BufferInv
      <4>2. Slot(p) = i - 1 /\ i - 1 \in 0..Capacity - 1
        BY <1>1, <1>5, <3>1, <4>1 DEF Slot
      <4>3. OldestSlot + i - 1 = i - 1
        BY <4>1, <4>2
      <4> QED BY <1>3, <4>2, <4>3
    <3>2. CASE ~(Stored < Capacity)
      <4>1. OldestSlot = head /\ Stored = Capacity
        BY <1>1, <1>2, <3>2 DEF OldestSlot
      <4>2. Slot(p) = IF head + i - 1 < Capacity THEN head + i - 1 ELSE head + i - 1 - Capacity
        BY <1>1, <1>2, <1>5, <4>1 DEF Slot
      <4>3. CASE head + i - 1 < Capacity
        <5>1. head + i - 1 \in 0..Capacity - 1
          BY <1>1, <1>5, <1>2, <4>3
        <5> QED BY <1>3, <4>1, <4>2, <5>1
      <4>4. CASE ~(head + i - 1 < Capacity)
        <5> DEFINE x == head + i - 1
        <5>1. x \in Capacity..2 * Capacity - 1
          BY <1>1, <1>5, <4>1, <4>4
        <5>2. Slot(p) = x - Capacity /\ OldestSlot + i - 1 = x
          BY <1>1, <1>5, <4>1, <4>2, <4>4
        <5> HIDE DEF x
        <5>3. x % Capacity = x - Capacity
          BY <1>4, <5>1
        <5> QED BY <5>2, <5>3
      <4> QED BY <4>3, <4>4
    <3> QED BY <3>1, <3>2
  <2>4. buffer[Slot(p)] = logged[p]
    BY <2>1 DEF BufferInv
  <2> QED BY <2>2, <2>3, <2>4
<1> QED BY <1>2, <1>5

\* What the events stored have for numbers, and what that makes of the two counts.
LEMMA StoredNumbers ==
  ASSUME BusTypes, NumberInv
  PROVE  /\ \A i \in 1..Len(logged) :
               logged[i].sequence = CountOf(logged, logged[i].tenant, i)
         /\ \A t : /\ LatestSequence(t) = CountOf(logged, t, Len(logged))
                   /\ Evicted(t) = CountOf(logged, t, Len(logged) - Stored)
         /\ Len(Stream) = Len(logged) + Len(calls) /\ Stream \in Seq(Envelopes)
         /\ \A i \in 1..Len(logged) : Stream[i] = logged[i]
<1>1. logged \in Seq(Envelopes) /\ calls \in Seq(Envelopes) /\ Len(logged) \in Nat
  BY DEF BusTypes
<1>2. /\ Len(Stream) = Len(logged) + Len(calls) /\ Stream \in Seq(Envelopes)
      /\ \A i \in 1..Len(logged) : Stream[i] = logged[i]
  BY <1>1, ConcatProperties DEF Stream
<1>3. ASSUME NEW i \in 1..Len(logged)
      PROVE  logged[i].sequence = CountOf(logged, logged[i].tenant, i)
  <2>1. i \in 1..Len(Stream) /\ Stream[i] = logged[i]
    BY <1>1, <1>2
  <2>2. logged[i].sequence = CountOf(Stream, logged[i].tenant, i)
    BY <2>1 DEF NumberInv
  <2>3. \A j \in 1..i : Stream[j] = logged[j]
    BY <1>1, <1>2
  <2>4. i \in Nat
    BY <1>1
  <2>5. CountOf(Stream, logged[i].tenant, i) = CountOf(logged, logged[i].tenant, i)
    BY <2>3, <2>4, CountAgrees
  <2> QED BY <2>2, <2>5
<1>4. ASSUME NEW t PROVE LatestSequence(t) = CountOf(logged, t, Len(logged))
  <2>1. DOMAIN logged = 1..Len(logged)
    BY <1>1
  <2>2. {i \in DOMAIN logged : logged[i].tenant = t} = {i \in 1..Len(logged) : logged[i].tenant = t}
    BY <2>1, Zenon
  <2> QED BY <2>2, Zenon DEF LatestSequence, CountOf
<1>5. ASSUME NEW t PROVE Evicted(t) = CountOf(logged, t, Len(logged) - Stored)
  BY Zenon DEF Evicted, CountOf
<1> QED BY <1>2, <1>3, <1>4, <1>5

\* The events of a query have the numbers that follow one another from the
\* offset after the first one kept that fits.
LEMMA QueryMeans ==
  ASSUME BusTypes, NumberInv, BufferInv,
         NEW t \in Tenant, NEW from \in Nat \ {0}, NEW offset \in Nat, NEW limit \in Nat \ {0}
  PROVE  LET q == Query(t, from, offset, limit)
             first == Larger(from, Evicted(t) + 1)
         IN  /\ q \in Seq(Envelopes) /\ Len(q) <= limit
             /\ \A k \in 1..Len(q) : q[k].sequence = first + offset + k - 1
             /\ Len(q) > 0 => first + offset + Len(q) - 1 <= LatestSequence(t)
             /\ Len(q) < limit => LatestSequence(t) + 1 - first <= offset + Len(q)
<1> USE ConstantFacts
<1> DEFINE L == Len(logged)
           E == L - Stored
           c(n) == CountOf(logged, t, n)
           first == Larger(from, Evicted(t) + 1)
           found == {i \in 1..Stored : Buffered[i].tenant = t /\ Buffered[i].sequence >= from}
           Place(i) == Cardinality({j \in found : j <= i})
           last == IF offset + limit < Cardinality(found)
                   THEN offset + limit ELSE Cardinality(found)
           q == Query(t, from, offset, limit)
<1>1. /\ logged \in Seq(Envelopes) /\ L \in Nat /\ Stored \in 0..L /\ E \in 0..L
      /\ \A i \in 1..Stored : E + i \in E + 1..L /\ E + i \in 1..L
  <2>1. logged \in Seq(Envelopes)
    BY DEF BusTypes
  <2>2. L \in Nat /\ Stored \in 0..L
    BY <2>1, BufferedMeans, LenProperties
  <2> DEFINE n == Stored
  <2> HIDE DEF L, n
  <2>3. n \in 0..L /\ L \in Nat
    BY <2>2 DEF n
  <2>4. /\ L - n \in 0..L
        /\ \A i \in 1..n : L - n + i \in L - n + 1..L /\ L - n + i \in 1..L
    BY <2>3
  <2> QED BY <2>1, <2>3, <2>4 DEF n
<1>2. \A i \in 1..Stored : Buffered[i] = logged[E + i]
  BY BufferedMeans
<1>3. \A i \in 1..L : logged[i].tenant = t => logged[i].sequence = c(i)
  BY StoredNumbers
<1>4. Evicted(t) = c(E) /\ LatestSequence(t) = c(L)
  BY StoredNumbers
<1>5. \A i \in 0..L : c(i) \in Nat
  BY <1>1, CountStep
<1>6. \A i, j \in 0..L : i < j /\ logged[j].tenant = t => c(i) < c(j)
  <2> SUFFICES ASSUME NEW i \in 0..L, NEW j \in 0..L, i < j, logged[j].tenant = t
               PROVE  c(i) < c(j)
    OBVIOUS
  <2>1. j \in i..L
    OBVIOUS
  <2> QED BY <1>1, <2>1, CountMonotone
<1>7. \A i, j \in 0..L : i <= j => c(i) <= c(j)
  <2> SUFFICES ASSUME NEW i \in 0..L, NEW j \in 0..L, i <= j PROVE c(i) <= c(j)
    OBVIOUS
  <2>1. j \in i..L
    OBVIOUS
  <2> QED BY <1>1, <2>1, CountMonotone
<1>8. \A n \in 0..L : \A v \in 1..c(n) : \E i \in 1..n : logged[i].tenant = t /\ c(i) = v
  <2> TAKE n \in 0..L
  <2> TAKE v \in 1..c(n)
  <2>1. v \in 1..CountOf(logged, t, n) /\ n \in 0..Len(logged)
    OBVIOUS
  <2> QED BY <1>1, <2>1, CountReached
<1>9. q = [k \in 1..last - offset |-> Buffered[CHOOSE i \in found : Place(i) = offset + k]]
  BY DEF Query
<1> HIDE DEF c, q
<1>10. /\ first \in Nat /\ first >= from /\ first >= c(E) + 1
       /\ first = from \/ first = c(E) + 1
  BY <1>1, <1>4, <1>5 DEF Larger
<1> HIDE DEF first
<1>11. \A i : i \in found <=> /\ i \in 1..Stored /\ logged[E + i].tenant = t
                              /\ c(E + i) \in first..c(L)
  <2> TAKE i
  <2>1. CASE i \in 1..Stored /\ logged[E + i].tenant = t
    <3>1. Buffered[i].tenant = t /\ Buffered[i].sequence = c(E + i)
      BY <1>1, <1>2, <1>3, <2>1
    <3>2. c(E) < c(E + i) /\ c(E + i) <= c(L) /\ c(E + i) \in Nat /\ c(E) \in Nat /\ c(L) \in Nat
      <4>1. E < E + i /\ E \in 0..L /\ E + i \in 0..L /\ L \in 0..L /\ E + i <= L
        BY <1>1, <2>1
      <4> QED BY <1>5, <1>6, <1>7, <2>1, <4>1
    <3> QED BY <1>10, <2>1, <3>1, <3>2
  <2>2. CASE ~(i \in 1..Stored /\ logged[E + i].tenant = t)
    BY <1>2, <2>2
  <2> QED BY <2>1, <2>2
<1> HIDE DEF found
<1>12. \A n \in 0..Stored : /\ IsFiniteSet({j \in found : j <= n})
                            /\ Cardinality({j \in found : j <= n})
                                  = IF first > c(E + n) THEN 0 ELSE c(E + n) - first + 1
  <2> TAKE n \in 0..Stored
  <2> DEFINE S == {j \in found : j <= n}
             T == first..c(E + n)
             f == [j \in S |-> c(E + j)]
  <2>1. E + n \in 0..L /\ c(E + n) \in Nat
    BY <1>1, <1>5
  <2>2. IsFiniteSet(S)
    <3>1. S \in SUBSET (1..Stored) /\ IsFiniteSet(1..Stored)
      BY <1>1, <1>11, FS_Interval
    <3> QED BY <3>1, FS_Subset
  <2>3. ASSUME NEW j \in S PROVE f[j] \in T /\ j \in 1..Stored /\ logged[E + j].tenant = t
    <3>1. j \in found /\ j <= n
      OBVIOUS
    <3>2. j \in 1..Stored /\ logged[E + j].tenant = t /\ c(E + j) >= first
      BY <1>5, <1>11, <3>1
    <3>3. E + j \in 0..L /\ E + j <= E + n
      BY <1>1, <3>1, <3>2
    <3>4. c(E + j) <= c(E + n) /\ c(E + j) \in Nat
      BY <1>5, <1>7, <2>1, <3>3
    <3> QED BY <1>10, <2>1, <3>2, <3>4
  <2>4. \A a, b \in S : f[a] = f[b] => a = b
    <3> SUFFICES ASSUME NEW a \in S, NEW b \in S, a < b PROVE f[a] # f[b]
      BY <2>3
    <3>1. E + a \in 0..L /\ E + b \in 0..L /\ E + a < E + b /\ logged[E + b].tenant = t
      BY <1>1, <2>3
    <3>2. c(E + a) < c(E + b) /\ c(E + a) \in Nat /\ c(E + b) \in Nat
      BY <1>5, <1>6, <3>1
    <3> QED BY <3>2
  <2>5. \A v \in T : \E j \in S : f[j] = v
    <3> SUFFICES ASSUME NEW v \in T PROVE \E j \in S : f[j] = v
      OBVIOUS
    <3>1. v \in 1..c(E + n) /\ v > c(E)
      BY <1>1, <1>5, <1>10, <2>1, SMTT(30)
    <3>2. PICK i \in 1..E + n : logged[i].tenant = t /\ c(i) = v
      BY <1>8, <2>1, <3>1
    <3>3. i > E
      <4> SUFFICES ASSUME i <= E PROVE FALSE
        BY <1>1, <3>2
      <4>1. i \in 0..L /\ E \in 0..L
        BY <1>1, <2>1, <3>2
      <4>2. c(i) <= c(E) /\ c(i) \in Nat /\ c(E) \in Nat
        BY <1>5, <1>7, <4>1
      <4> QED BY <3>1, <3>2, <4>2
    <3>4. i - E \in 1..Stored /\ E + (i - E) = i /\ i - E <= n
      BY <1>1, <2>1, <3>2, <3>3
    <3>5. c(i) \in first..c(L)
      <4>1. i \in 0..L /\ L \in 0..L /\ i <= L
        BY <1>1, <2>1, <3>2
      <4>2. c(i) <= c(L) /\ c(i) \in Nat /\ c(L) \in Nat
        BY <1>5, <1>7, <4>1
      <4> QED BY <1>10, <3>2, <4>2
    <3>6. i - E \in S /\ f[i - E] = v
      BY <1>11, <3>2, <3>4, <3>5
    <3> QED BY <3>6
  <2>6. f \in Bijection(S, T)
    <3>1. f \in [S -> T]
      BY <2>3
    <3> HIDE DEF f, S, T
    <3>2. f \in Injection(S, T)
      BY <2>4, <3>1 DEF Injection, IsInjective
    <3>3. f \in Surjection(S, T)
      BY <2>5, <3>1 DEF Surjection
    <3> QED BY <3>2, <3>3 DEF Bijection
  <2>7. Cardinality(T) = Cardinality(S)
    BY <2>2, <2>6, FS_Bijection DEF ExistsBijection
  <2>8. Cardinality(T) = IF first > c(E + n) THEN 0 ELSE c(E + n) - first + 1
    <3>1. first \in Int /\ c(E + n) \in Int
      BY <1>10, <2>1
    <3> QED BY <3>1, FS_Interval
  <2> HIDE DEF S, T
  <2>9. IsFiniteSet(S) /\ Cardinality(S) = IF first > c(E + n) THEN 0 ELSE c(E + n) - first + 1
    BY <2>2, <2>7, <2>8
  <2> QED BY <2>9 DEF S
<1> DEFINE all == IF first > c(L) THEN 0 ELSE c(L) - first + 1
<1>13. Cardinality(found) = all
  <2>1. {j \in found : j <= Stored} = found
    BY <1>1, <1>11
  <2>2. E + Stored = L /\ Stored \in 0..Stored
    BY <1>1
  <2>3. Cardinality({j \in found : j <= Stored}) = all
    BY <1>12, <2>2
  <2> QED BY <2>1, <2>3, Zenon
<1>14. \A i \in found : Place(i) = c(E + i) - first + 1 /\ Buffered[i] \in Envelopes
                        /\ Buffered[i].sequence = c(E + i) /\ c(E + i) \in first..c(L)
  <2> TAKE i \in found
  <2>1. i \in 1..Stored /\ logged[E + i].tenant = t /\ c(E + i) \in first..c(L)
    BY <1>11
  <2>2. Place(i) = IF first > c(E + i) THEN 0 ELSE c(E + i) - first + 1
    <3>1. i \in 0..Stored
      BY <2>1
    <3> QED BY <1>12, <3>1
  <2>3. E + i \in 1..L /\ Buffered[i] = logged[E + i]
    BY <1>1, <1>2, <2>1
  <2>4. Buffered[i] \in Envelopes /\ Buffered[i].sequence = c(E + i)
    BY <1>1, <1>3, <2>1, <2>3
  <2>5. c(E + i) \in Nat
    BY <1>1, <1>5, <2>3
  <2> QED BY <1>10, <2>1, <2>2, <2>4, <2>5
<1>15. \A m \in 1..all : \E i \in found : Place(i) = m
  <2> TAKE m \in 1..all
  <2>1. c(L) \in Nat /\ c(E) \in Nat
    BY <1>1, <1>5
  <2>2. first + m - 1 \in 1..c(L) /\ first + m - 1 > c(E)
    BY <1>10, <2>1
  <2>3. PICK i \in 1..L : logged[i].tenant = t /\ c(i) = first + m - 1
    BY <1>1, <1>8, <2>2
  <2>4. i > E
    <3> SUFFICES ASSUME i <= E PROVE FALSE
      BY <1>1, <2>3
    <3>1. i \in 0..L /\ E \in 0..L
      BY <1>1
    <3>2. c(i) <= c(E)
      BY <1>7, <3>1
    <3> QED BY <2>1, <2>2, <2>3, <3>2
  <2>5. i - E \in 1..Stored /\ E + (i - E) = i
    BY <1>1, <2>4
  <2>6. i - E \in found
    <3>1. c(i) \in first..c(L)
      BY <1>10, <2>1, <2>2, <2>3
    <3> QED BY <1>11, <2>3, <2>5, <3>1
  <2>7. Place(i - E) = m
    BY <1>10, <1>14, <2>3, <2>5, <2>6
  <2> QED BY <2>6, <2>7
<1>16. all \in Nat /\ c(L) \in Nat
  BY <1>1, <1>5, <1>10
<1>17. /\ last = IF offset + limit < all THEN offset + limit ELSE all
       /\ last \in Nat /\ last <= all
  BY <1>13, <1>16
<1> HIDE DEF all, last, Place
<1>18. \A k \in 1..last - offset :
          /\ q[k] \in Envelopes
          /\ q[k].sequence = first + offset + k - 1
  <2> TAKE k \in 1..last - offset
  <2> DEFINE i == CHOOSE i \in found : Place(i) = offset + k
  <2>1. offset + k \in 1..all
    BY <1>16, <1>17
  <2>2. i \in found /\ Place(i) = offset + k
    <3>1. \E x \in found : Place(x) = offset + k
      BY <1>15, <2>1
    <3> QED BY <3>1
  <2>3. q[k] = Buffered[i]
    BY <1>9
  <2> HIDE DEF i
  <2>4. /\ offset + k = c(E + i) - first + 1 /\ Buffered[i] \in Envelopes
        /\ Buffered[i].sequence = c(E + i) /\ c(E + i) \in Int
    BY <1>14, <2>2
  <2>5. c(E + i) = first + offset + k - 1
    BY <1>10, <2>4
  <2> QED BY <2>3, <2>4, <2>5
<1> DEFINE n == IF last < offset THEN 0 ELSE last - offset
<1>19. n \in Nat /\ 1..last - offset = 1..n
  BY <1>17
<1>20. q \in Seq(Envelopes) /\ Len(q) = n
  <2>1. q = [k \in 1..n |-> Buffered[CHOOSE i \in found : Place(i) = offset + k]]
    BY <1>9, <1>19
  <2>2. DOMAIN q = 1..n /\ \A k \in 1..n : q[k] \in Envelopes
    BY <1>18, <1>19, <2>1
  <2>3. q \in [1..n -> Envelopes]
    BY <2>1, <2>2
  <2> HIDE DEF n
  <2>4. q \in Seq(Envelopes)
    BY <1>19, <2>3
  <2>5. Len(q) = n
    BY <1>19, <2>2, <2>4
  <2> QED BY <2>4, <2>5
<1>21. /\ Len(q) <= limit
       /\ Len(q) > 0 => first + offset + Len(q) - 1 <= c(L)
       /\ Len(q) < limit => c(L) + 1 - first <= offset + Len(q)
  BY <1>10, <1>16, <1>17, <1>20 DEF all
<1>22. \A k \in 1..Len(q) : q[k].sequence = first + offset + k - 1
  BY <1>18, <1>19, <1>20
<1> HIDE DEF n
<1>23. LatestSequence(t) = c(L)
  BY <1>4
<1> QED BY <1>20, <1>21, <1>22, <1>23 DEF q, first

-----------------------------------------------------------------------------
\* The bus starts with everything in step.
LEMMA InitBus == BusInit => BusInv
<1> SUFFICES ASSUME BusInit PROVE BusInv
  OBVIOUS
<1> USE ConstantFacts DEF BusInit
<1>1. Len(<<>>) = 0 /\ Stream = <<>> /\ Len(Stream) = 0 /\ Stored = 0
  BY DEF Stream, Stored
<1>2. BusTypes
  <2>1. NoEvent \in Envelopes \cup {NoEvent} /\ buffer \in [0..Capacity - 1 -> Envelopes \cup {NoEvent}]
    OBVIOUS
  <2>2. replay \in Replays
    BY DEF NoReplay, Replays
  <2>3. /\ tenantSequences \in [Tenant -> Nat] /\ head \in 0..Capacity - 1
        /\ heard \in [Subscriber -> Seq(1..MaxEvents)]
    OBVIOUS
  <2>4. Len(logged) + Len(calls) <= MaxEvents
    BY <1>1
  <2>5. {started, wired} \subseteq BOOLEAN
    OBVIOUS
  <2>6. /\ calls \in Seq(Envelopes) /\ logged \in Seq(Envelopes) /\ posted \in Seq(1..MaxEvents)
        /\ subscribed \subseteq Subscriber
    OBVIOUS
  <2> QED BY <2>1, <2>2, <2>3, <2>4, <2>5, <2>6, Zenon DEF BusTypes
<1>3. NumberInv
  <2>1. \A t : CountOf(Stream, t, 0) = 0
    <3>1. Stream \in Seq(Envelopes)
      BY <1>1
    <3> QED BY <3>1, CountStep
  <2> QED BY <1>1, <2>1 DEF NumberInv
<1>4. BufferInv
  BY <1>1 DEF BufferInv
<1>5. HeardInv /\ HeardInOrder
  BY <1>1 DEF HeardInv, HeardInOrder, Called
<1>6. ReplayInv
  BY DEF ReplayInv, NoReplay
<1> QED BY <1>2, <1>3, <1>4, <1>5, <1>6 DEF BusInv

\* A tenant has no more events than there are.
LEMMA SequencesFit ==
  ASSUME BusTypes, NumberInv
  PROVE  /\ Stream \in Seq(Envelopes) /\ Len(Stream) = Len(logged) + Len(calls)
         /\ \A t \in Tenant : tenantSequences[t] \in 0..Len(Stream)
<1>1. Stream \in Seq(Envelopes) /\ Len(Stream) = Len(logged) + Len(calls)
  BY StoredNumbers
<1>2. ASSUME NEW t \in Tenant PROVE tenantSequences[t] \in 0..Len(Stream)
  <2>1. /\ Len(Stream) \in Nat /\ 0 \in 0..Len(Stream) /\ Len(Stream) \in 0..Len(Stream)
        /\ Len(Stream) - 0 = Len(Stream)
    BY <1>1
  <2>2. CountOf(Stream, t, 0) = 0 /\ CountOf(Stream, t, Len(Stream)) \in Nat
    BY <1>1, <2>1, CountStep
  <2>3. CountOf(Stream, t, Len(Stream)) <= CountOf(Stream, t, 0) + (Len(Stream) - 0)
    BY <1>1, <2>1, CountMonotone
  <2> QED BY <2>1, <2>2, <2>3 DEF NumberInv
<1> QED BY <1>1, <1>2

\* One more event has its number: the next of its tenant.
LEMMA PublishKeeps ==
  ASSUME BusTypes, NumberInv, NEW t \in Tenant, Publish(t)
  PROVE  BusTypes' /\ NumberInv'
<1> USE ConstantFacts
<1> DEFINE e == [tenant |-> t, sequence |-> tenantSequences[t] + 1]
<1>1. /\ Stream \in Seq(Envelopes) /\ Len(Stream) = Len(logged) + Len(calls)
      /\ \A u \in Tenant : tenantSequences[u] \in 0..Len(Stream)
  BY SequencesFit
<1>2. /\ calls \in Seq(Envelopes) /\ logged \in Seq(Envelopes) /\ Len(calls) \in Nat
      /\ Len(logged) \in Nat /\ Len(logged) + Len(calls) < MaxEvents
      /\ tenantSequences \in [Tenant -> Nat]
  BY DEF BusTypes, Publish
<1>3. e \in Envelopes
  BY <1>1, <1>2 DEF Envelopes
<1>4. /\ calls' = Append(calls, e) /\ logged' = logged
      /\ tenantSequences' = [tenantSequences EXCEPT ![t] = @ + 1]
  BY DEF Publish
<1> HIDE DEF e
<1>5. calls' \in Seq(Envelopes) /\ Len(calls') = Len(calls) + 1
  BY <1>2, <1>3, <1>4
<1>6. BusTypes'
  <2>1. tenantSequences' \in [Tenant -> Nat]
    BY <1>2, <1>4
  <2>2. UNCHANGED <<started, wired, buffer, head, posted, subscribed, heard, replay>>
    BY DEF Publish
  <2>3. Len(logged') + Len(calls') <= MaxEvents
    BY <1>2, <1>4, <1>5
  <2> QED BY <1>4, <1>5, <2>1, <2>2, <2>3 DEF BusTypes
<1>7. Stream' = Append(Stream, e)
  BY <1>2, <1>3, <1>4, AppendProperties, ConcatProperties, ConcatAssociative DEF Stream
<1>8. /\ Len(Stream') = Len(Stream) + 1 /\ Stream'[Len(Stream) + 1] = e
      /\ \A i \in 1..Len(Stream) : Stream'[i] = Stream[i]
      /\ Stream' \in Seq(Envelopes) /\ Len(Stream) \in Nat
  BY <1>1, <1>3, <1>7, AppendProperties
<1>9. \A u : \A n \in 0..Len(Stream) : CountOf(Stream', u, n) = CountOf(Stream, u, n)
  <2> TAKE u
  <2> TAKE n \in 0..Len(Stream)
  <2>1. n \in Nat /\ \A i \in 1..n : Stream'[i] = Stream[i]
    BY <1>8
  <2> QED BY <2>1, CountAgrees
<1>10. \A u : CountOf(Stream', u, Len(Stream) + 1)
                 = IF e.tenant = u THEN CountOf(Stream, u, Len(Stream)) + 1
                   ELSE CountOf(Stream, u, Len(Stream))
  <2> TAKE u
  <2>1. Len(Stream) \in 0..Len(Stream') - 1 /\ Len(Stream) \in 0..Len(Stream)
    BY <1>8
  <2>2. CountOf(Stream', u, Len(Stream) + 1)
           = IF Stream'[Len(Stream) + 1].tenant = u THEN CountOf(Stream', u, Len(Stream)) + 1
             ELSE CountOf(Stream', u, Len(Stream))
    <3>1. \A n \in 0..Len(Stream') - 1 :
             CountOf(Stream', u, n + 1) = IF Stream'[n + 1].tenant = u
                                          THEN CountOf(Stream', u, n) + 1
                                          ELSE CountOf(Stream', u, n)
      <4> HIDE DEF Publish
      <4>1. Stream' \in Seq(Envelopes)
        BY <1>8
      <4> QED BY <4>1, CountStep
    <3> QED BY <2>1, <3>1
  <2> QED BY <1>8, <1>9, <2>1, <2>2
<1>11. e.tenant = t /\ e.sequence = tenantSequences[t] + 1
  BY DEF e
<1>12. ASSUME NEW i \in 1..Len(Stream')
       PROVE  Stream'[i].sequence = CountOf(Stream', Stream'[i].tenant, i)
  <2>1. CASE i \in 1..Len(Stream)
    <3>1. i \in 0..Len(Stream)
      BY <1>8, <2>1
    <3> QED BY <1>8, <1>9, <2>1, <3>1 DEF NumberInv
  <2>2. CASE i = Len(Stream) + 1
    BY <1>8, <1>10, <1>11, <2>2 DEF NumberInv
  <2> QED BY <1>8, <2>1, <2>2
<1>13. ASSUME NEW u \in Tenant
       PROVE  tenantSequences'[u] = CountOf(Stream', u, Len(Stream'))
  BY <1>2, <1>4, <1>8, <1>10, <1>11 DEF NumberInv
<1> QED BY <1>6, <1>12, <1>13 DEF NumberInv

\* What Store does to the sequences.
LEMMA StoreShifts ==
  ASSUME BusTypes, NumberInv, Store
  PROVE  /\ logged' \in Seq(Envelopes) /\ calls' \in Seq(Envelopes)
         /\ Len(logged') = Len(logged) + 1 /\ Len(calls') = Len(calls) - 1
         /\ Len(logged) + 1 <= MaxEvents /\ Head(calls) \in Envelopes
         /\ \A i \in 1..Len(logged) : logged'[i] = logged[i]
         /\ logged'[Len(logged) + 1] = Head(calls)
         /\ Stream' = Stream
<1>1. /\ calls \in Seq(Envelopes) /\ logged \in Seq(Envelopes) /\ Len(calls) \in Nat /\ Len(calls) > 0
      /\ Len(logged) \in Nat /\ Len(logged) + Len(calls) <= MaxEvents
      /\ calls' = Tail(calls) /\ logged' = Append(logged, Head(calls))
  BY DEF BusTypes, Store
<1>2. /\ Head(calls) \in Envelopes /\ Tail(calls) \in Seq(Envelopes) /\ Head(calls) = calls[1]
      /\ Len(Tail(calls)) = Len(calls) - 1
      /\ \A i \in 1..Len(calls) - 1 : Tail(calls)[i] = calls[i + 1]
  BY <1>1, HeadTailProperties
<1>3. /\ logged' \in Seq(Envelopes) /\ Len(logged') = Len(logged) + 1
      /\ \A i \in 1..Len(logged) : logged'[i] = logged[i]
      /\ logged'[Len(logged) + 1] = Head(calls)
  BY <1>1, <1>2, AppendProperties
<1>4. Stream' = Stream
  <2>1. Stream \in Seq(Envelopes) /\ Stream' \in Seq(Envelopes)
    BY <1>1, <1>2, <1>3, ConcatProperties DEF Stream
  <2>2. Len(Stream) = Len(logged) + Len(calls) /\ Len(Stream') = Len(logged') + Len(calls')
    BY <1>1, <1>2, <1>3, ConcatProperties DEF Stream
  <2>3. \A i \in 1..Len(Stream) :
           Stream[i] = IF i <= Len(logged) THEN logged[i] ELSE calls[i - Len(logged)]
    BY <1>1, ConcatProperties DEF Stream
  <2>4. \A i \in 1..Len(Stream') :
           Stream'[i] = IF i <= Len(logged') THEN logged'[i] ELSE calls'[i - Len(logged')]
    <3>1. logged' \in Seq(Envelopes) /\ calls' \in Seq(Envelopes)
      BY <1>1, <1>2, <1>3
    <3> QED BY <3>1, ConcatProperties DEF Stream
  <2>5. Len(Stream') = Len(Stream)
    BY <1>1, <1>2, <1>3, <2>2
  <2>6. ASSUME NEW i \in 1..Len(Stream) PROVE Stream'[i] = Stream[i]
    <3>1. CASE i <= Len(logged)
      <4>1. i \in 1..Len(Stream')
        BY <2>5
      <4>2. i \in Nat \ {0} /\ Len(logged') = Len(logged) + 1 /\ Len(logged) \in Nat
        BY <1>1, <1>3, <2>1
      <4>3. i <= Len(logged') /\ i \in 1..Len(logged)
        BY <3>1, <4>2
      <4> QED BY <1>3, <2>3, <2>4, <3>1, <4>1, <4>3
    <3>2. CASE i = Len(logged) + 1
      <4>1. /\ ~(i <= Len(logged)) /\ i - Len(logged) = 1
            /\ Len(logged') = Len(logged) + 1 /\ i <= Len(logged')
        BY <1>1, <1>3, <3>2
      <4>2. Stream[i] = calls[1] /\ Stream'[i] = logged'[i]
        BY <2>3, <2>4, <2>5, <4>1, Zenon
      <4>3. logged'[i] = calls[1]
        BY <1>2, <1>3, <3>2, Zenon
      <4> QED BY <4>2, <4>3
    <3>3. CASE i > Len(logged) + 1
      <4>1. i - Len(logged') \in 1..Len(calls) - 1 /\ (i - Len(logged')) + 1 = i - Len(logged)
        BY <1>1, <1>3, <2>2, <3>3
      <4> QED BY <1>1, <1>2, <1>3, <2>2, <2>3, <2>4, <2>5, <3>3, <4>1
    <3> QED BY <1>1, <3>1, <3>2, <3>3
  <2> HIDE DEF Store
  <2>7. \A i \in 1..Len(Stream') : Stream'[i] = Stream[i]
    BY <2>5, <2>6
  <2> DEFINE a == Stream'
             b == Stream
  <2>8. /\ a \in Seq(Envelopes) /\ b \in Seq(Envelopes) /\ Len(a) = Len(b)
        /\ \A i \in 1..Len(a) : a[i] = b[i]
    BY <2>1, <2>5, <2>7
  <2> HIDE DEF a, b
  <2>9. a = b
    BY <2>8, SeqEqual
  <2> QED BY <2>9 DEF a, b
<1>5. /\ calls' \in Seq(Envelopes) /\ Len(calls') = Len(calls) - 1
      /\ Len(logged) + 1 <= MaxEvents
  BY ConstantFacts, <1>1, <1>2
<1> QED BY <1>2, <1>3, <1>4, <1>5, Zenon

\* An event stored takes the slot of the oldest.
LEMMA StoreKeeps ==
  ASSUME BusTypes, NumberInv, BufferInv, Store
  PROVE  BusTypes' /\ NumberInv' /\ BufferInv'
<1> USE ConstantFacts
<1> DEFINE L == Len(logged)
<1>1. /\ logged' \in Seq(Envelopes) /\ calls' \in Seq(Envelopes)
      /\ Len(logged') = L + 1 /\ Len(calls') = Len(calls) - 1
      /\ L + 1 <= MaxEvents /\ Head(calls) \in Envelopes
      /\ \A i \in 1..L : logged'[i] = logged[i]
      /\ logged'[L + 1] = Head(calls)
      /\ Stream' = Stream
  BY StoreShifts
<1>2. /\ L \in Nat /\ Len(calls) \in Nat /\ L + Len(calls) <= MaxEvents
      /\ head \in 0..Capacity - 1 /\ buffer \in [0..Capacity - 1 -> Envelopes \cup {NoEvent}]
      /\ posted \in Seq(1..MaxEvents)
  BY DEF BusTypes
<1>3. /\ buffer' = [buffer EXCEPT ![head] = Head(calls)]
      /\ head' = (head + 1) % Capacity
      /\ posted' = IF wired THEN Append(posted, L + 1) ELSE posted
      /\ UNCHANGED <<started, wired, tenantSequences, subscribed, heard, replay>>
  BY DEF Store
<1>4. head' = IF head + 1 < Capacity THEN head + 1 ELSE 0
  <2>1. CASE head + 1 < Capacity
    <3> DEFINE x == head + 1
    <3>1. x \in 0..Capacity - 1
      BY <1>2, <2>1
    <3> HIDE DEF x
    <3>2. x % Capacity = x
      BY <3>1
    <3> QED BY <1>3, <2>1, <3>2 DEF x
  <2>2. CASE ~(head + 1 < Capacity)
    <3>1. head + 1 = Capacity
      BY <1>2, <2>2
    <3>2. Capacity % Capacity = 0
      OBVIOUS
    <3> QED BY <1>3, <2>2, <3>1, <3>2
  <2> QED BY <2>1, <2>2
<1>5. BusTypes'
  <2>1. posted' \in Seq(1..MaxEvents)
    <3>1. L + 1 \in 1..MaxEvents
      BY <1>1, <1>2
    <3>2. Append(posted, L + 1) \in Seq(1..MaxEvents)
      BY <1>2, <3>1, AppendProperties
    <3> QED BY <1>2, <1>3, <3>2
  <2>2. head' \in 0..Capacity - 1
    BY <1>2, <1>4
  <2>3. buffer' \in [0..Capacity - 1 -> Envelopes \cup {NoEvent}]
    BY <1>1, <1>2, <1>3
  <2>4. Len(logged') + Len(calls') <= MaxEvents
    BY <1>1, <1>2
  <2> QED BY <1>1, <1>3, <2>1, <2>2, <2>3, <2>4 DEF BusTypes
<1>6. NumberInv'
  BY <1>1, <1>3 DEF NumberInv
<1>7. Stored' = IF L + 1 < Capacity THEN L + 1 ELSE Capacity
  BY <1>1 DEF Stored
<1>8. Stored = IF L < Capacity THEN L ELSE Capacity
  BY DEF Stored
<1>9. Len(logged') < Capacity => head' = Len(logged')
  BY <1>1, <1>2, <1>4 DEF BufferInv
<1>10. ASSUME NEW p \in Len(logged') - Stored' + 1..Len(logged')
       PROVE  buffer'[Slot(p)'] = logged'[p]
  <2>1. Slot(p)' = LET back == head' - (L + 2 - p) IN IF back < 0 THEN back + Capacity ELSE back
    BY <1>1, <1>2 DEF Slot
  <2>2. CASE p = L + 1
    <3>1. Slot(p)' = head
      BY <1>2, <1>4, <2>1, <2>2
    <3> QED BY <1>1, <1>2, <1>3, <2>2, <3>1
  <2>3. CASE p # L + 1
    <3>1. p \in L - Stored + 1..L /\ p \in 1..L /\ L + 1 - p \in 1..Capacity - 1
      <4>1. p \in L + 1 - Stored' + 1..L
        BY <1>1, <1>2, <1>7, <1>10, <2>3
      <4>2. CASE L + 1 < Capacity
        <5>1. Stored' = L + 1 /\ Stored = L
          BY <1>2, <1>7, <1>8, <4>2
        <5> QED BY <1>2, <4>1, <4>2, <5>1
      <4>3. CASE ~(L + 1 < Capacity)
        <5>1. Stored' = Capacity /\ (Stored = Capacity \/ (Stored = L /\ L + 1 = Capacity))
          <6>1. Stored' = Capacity
            BY <1>2, <1>7, <4>3
          <6>2. CASE L < Capacity
            <7>1. Stored = L /\ L + 1 = Capacity
              BY <1>2, <1>8, <4>3, <6>2
            <7> QED BY <6>1, <7>1
          <6>3. CASE ~(L < Capacity)
            <7>1. Stored = Capacity
              BY <1>8, <6>3
            <7> QED BY <6>1, <7>1
          <6> QED BY <6>2, <6>3
        <5> QED BY <1>2, <4>1, <4>3, <5>1
      <4> QED BY <4>2, <4>3
    <3>2. Slot(p) = LET back == head - (L + 1 - p) IN IF back < 0 THEN back + Capacity ELSE back
      BY DEF Slot
    <3>3. Slot(p)' = Slot(p) /\ Slot(p) # head /\ Slot(p) \in 0..Capacity - 1
      BY <1>2, <1>4, <2>1, <3>1, <3>2, SMTT(30)
    <3>4. buffer[Slot(p)] = logged[p]
      BY <3>1 DEF BufferInv
    <3> QED BY <1>1, <1>2, <1>3, <3>1, <3>3, <3>4
  <2> QED BY <2>2, <2>3
<1> QED BY <1>5, <1>6, <1>9, <1>10 DEF BufferInv

-----------------------------------------------------------------------------
\* The events called back for, in their order.
LEMMA HeardStable ==
  ASSUME HeardInv, HeardInOrder, UNCHANGED <<wired, logged, posted, subscribed, heard>>
  PROVE  HeardInv' /\ HeardInOrder'
BY DEF HeardInv, HeardInOrder, Called, Matches

\* A microtask is posted behind those that wait.
LEMMA StoreHeard ==
  ASSUME BusTypes, NumberInv, HeardInv, HeardInOrder, Store
  PROVE  HeardInv' /\ HeardInOrder'
<1> DEFINE L == Len(logged)
<1>1. /\ Len(logged') = L + 1 /\ L \in Nat
      /\ \A i \in 1..L : logged'[i] = logged[i]
  <2>1. L \in Nat
    BY DEF BusTypes
  <2> QED BY <2>1, StoreShifts
<1>2. /\ posted' = IF wired THEN Append(posted, L + 1) ELSE posted
      /\ UNCHANGED <<wired, subscribed, heard>>
  BY DEF Store
<1>3. /\ posted \in Seq(1..MaxEvents) /\ Len(posted) \in Nat
      /\ \A s \in Subscriber : heard[s] \in Seq(1..MaxEvents) /\ Len(heard[s]) \in Nat
      /\ MaxEvents \in Nat /\ L + 1 <= MaxEvents
  BY StoreShifts, ConstantFacts DEF BusTypes
<1>4. wired => /\ Len(posted') = Len(posted) + 1 /\ posted'[Len(posted) + 1] = L + 1
               /\ \A i \in 1..Len(posted) : posted'[i] = posted[i]
  <2>1. L + 1 \in 1..MaxEvents
    BY <1>1, <1>3
  <2> QED BY <1>2, <1>3, <2>1, AppendProperties
<1>5. wired => Called' = Called /\ Called \in Nat
  BY <1>1, <1>3, <1>4 DEF Called, HeardInv
<1>6. wired => \A i \in 1..Len(posted') : posted'[i] = Called' + i
  <2> SUFFICES ASSUME wired, NEW i \in 1..Len(posted') PROVE posted'[i] = Called' + i
    OBVIOUS
  <2>1. CASE i \in 1..Len(posted)
    BY <1>4, <1>5, <2>1 DEF HeardInv
  <2>2. CASE i = Len(posted) + 1
    <3>1. posted'[i] = L + 1 /\ Called' = Called
      BY <1>4, <1>5, <2>2
    <3>2. Called = L - Len(posted)
      BY DEF Called
    <3> QED BY <1>1, <1>3, <2>2, <3>1, <3>2
  <2> QED BY <1>3, <1>4, <2>1, <2>2
<1>7. \A i \in 1..Len(posted') : posted'[i] <= Len(logged')
  <2> SUFFICES ASSUME NEW i \in 1..Len(posted') PROVE posted'[i] <= Len(logged')
    OBVIOUS
  <2>1. CASE i \in 1..Len(posted)
    <3>1. posted'[i] = posted[i] /\ posted[i] <= L /\ posted[i] \in Nat
      BY <1>2, <1>3, <1>4, <2>1 DEF HeardInv
    <3> QED BY <1>1, <3>1
  <2>2. CASE i \notin 1..Len(posted)
    <3>1. wired /\ i = Len(posted) + 1
      BY <1>2, <1>3, <1>4, <2>2
    <3> QED BY <1>1, <1>4, <3>1
  <2> QED BY <2>1, <2>2
<1>8. \A s \in Subscriber : \A i \in 1..Len(heard'[s]) :
         heard'[s][i] <= L /\ heard'[s][i] <= Len(logged') /\ heard'[s][i] \in 1..MaxEvents
  <2> TAKE s \in Subscriber
  <2> TAKE i \in 1..Len(heard'[s])
  <2>1. heard[s][i] <= L /\ heard[s][i] \in 1..MaxEvents /\ heard' = heard
    BY <1>2, <1>3 DEF HeardInv
  <2> QED BY <1>1, <1>3, <2>1
<1>9. ASSUME NEW s \in Subscriber, wired, s \in subscribed, heard[s] # <<>>
      PROVE  LET last == heard[s][Len(heard[s])]
             IN  last <= Called' /\ \A e \in last + 1..Called' : ~Matches(s, logged'[e])
  <2> DEFINE last == heard[s][Len(heard[s])]
  <2>1. last <= Called /\ \A e \in last + 1..Called : ~Matches(s, logged[e])
    BY <1>9 DEF HeardInv
  <2>2. last \in Nat /\ Called <= L
    <3>1. Len(heard[s]) \in 1..Len(heard[s])
      BY <1>3, <1>9
    <3> QED BY <1>1, <1>3, <3>1 DEF Called
  <2>3. \A e \in last + 1..Called : logged'[e] = logged[e]
    BY <1>1, <1>5, <1>9, <2>2
  <2> QED BY <1>5, <1>9, <2>1, <2>3 DEF Matches
<1>10. HeardInv'
  BY <1>2, <1>5, <1>6, <1>7, <1>8, <1>9 DEF HeardInv
<1>11. HeardInOrder'
  <2> SUFFICES ASSUME NEW s \in Subscriber, NEW i \in 1..Len(heard[s]) - 1
               PROVE  /\ heard[s][i] < heard[s][i + 1]
                      /\ \A e \in heard[s][i] + 1..heard[s][i + 1] - 1 : ~Matches(s, logged'[e])
    BY <1>2 DEF HeardInOrder
  <2>1. /\ heard[s][i] < heard[s][i + 1]
        /\ \A e \in heard[s][i] + 1..heard[s][i + 1] - 1 : ~Matches(s, logged[e])
    BY DEF HeardInOrder
  <2>2. heard[s][i] \in Nat /\ heard[s][i + 1] \in Nat /\ heard[s][i + 1] <= L
    <3>1. i \in 1..Len(heard[s]) /\ i + 1 \in 1..Len(heard[s])
      BY <1>3
    <3> QED BY <1>2, <1>3, <1>8, <3>1, SMTT(30)
  <2>3. \A e \in heard[s][i] + 1..heard[s][i + 1] - 1 : logged'[e] = logged[e]
    BY <1>1, <2>2, SMTT(30)
  <2> QED BY <2>1, <2>3 DEF Matches
<1> QED BY <1>10, <1>11

\* The first microtask gives its event to those who want it.
LEMMA DispatchHeard ==
  ASSUME BusTypes, HeardInv, HeardInOrder, Dispatch
  PROVE  BusTypes' /\ HeardInv' /\ HeardInOrder'
<1> USE ConstantFacts
<1> DEFINE h == Head(posted)
           gives(s) == wired /\ s \in subscribed /\ Matches(s, logged[h])
<1>1. /\ posted \in Seq(1..MaxEvents) /\ Len(posted) \in Nat /\ Len(posted) > 0
      /\ heard \in [Subscriber -> Seq(1..MaxEvents)] /\ Len(logged) \in Nat
  BY DEF BusTypes, Dispatch
<1>2. /\ h = posted[1] /\ h \in 1..MaxEvents /\ posted' = Tail(posted)
      /\ posted' \in Seq(1..MaxEvents) /\ Len(posted') = Len(posted) - 1
      /\ \A i \in 1..Len(posted') : posted'[i] = posted[i + 1]
  BY <1>1, HeadTailProperties DEF Dispatch
<1>3. /\ heard' = [s \in Subscriber |-> IF gives(s) THEN Append(heard[s], h) ELSE heard[s]]
      /\ UNCHANGED <<started, wired, tenantSequences, calls, buffer, head, logged, subscribed, replay>>
  BY DEF Dispatch
<1> HIDE DEF h
<1>4. \A s \in Subscriber : /\ heard[s] \in Seq(1..MaxEvents) /\ Len(heard[s]) \in Nat
                            /\ gives(s) => /\ heard'[s] = Append(heard[s], h)
                                           /\ heard'[s] \in Seq(1..MaxEvents)
                                           /\ Len(heard'[s]) = Len(heard[s]) + 1
                                           /\ heard'[s][Len(heard[s]) + 1] = h
                                           /\ \A i \in 1..Len(heard[s]) : heard'[s][i] = heard[s][i]
                            /\ ~gives(s) => heard'[s] = heard[s]
  <2> TAKE s \in Subscriber
  <2>1. heard[s] \in Seq(1..MaxEvents) /\ Len(heard[s]) \in Nat
    BY <1>1
  <2>2. /\ gives(s) => heard'[s] = Append(heard[s], h)
        /\ ~gives(s) => heard'[s] = heard[s]
    BY <1>3
  <2>3. /\ Append(heard[s], h) \in Seq(1..MaxEvents)
        /\ Len(Append(heard[s], h)) = Len(heard[s]) + 1
        /\ Append(heard[s], h)[Len(heard[s]) + 1] = h
        /\ \A i \in 1..Len(heard[s]) : Append(heard[s], h)[i] = heard[s][i]
    BY <1>2, <2>1, AppendProperties
  <2> QED BY <2>1, <2>2, <2>3
<1>5. BusTypes'
  <2>1. heard' \in [Subscriber -> Seq(1..MaxEvents)]
    BY <1>3, <1>4
  <2> QED BY <1>2, <1>3, <2>1 DEF BusTypes
<1>6. Called' = Called + 1
  BY <1>1, <1>2, <1>3 DEF Called
<1>7. wired => h = Called + 1 /\ Called \in Nat
  BY <1>1, <1>2 DEF HeardInv, Called
<1>8. /\ wired => \A i \in 1..Len(posted') : posted'[i] = Called' + i
      /\ wired => Called' >= 0
      /\ \A i \in 1..Len(posted') : posted'[i] <= Len(logged)
  <2>1. \A i \in 1..Len(posted') : i + 1 \in 1..Len(posted)
    BY <1>1, <1>2
  <2>2. wired => Called' >= 0
    BY <1>6, <1>7
  <2>3. ASSUME wired, NEW i \in 1..Len(posted') PROVE posted'[i] = Called' + i
    <3>1. posted'[i] = posted[i + 1] /\ posted[i + 1] = Called + (i + 1)
      BY <1>2, <2>1, <2>3 DEF HeardInv
    <3> QED BY <1>6, <1>7, <2>3, <3>1
  <2>4. \A i \in 1..Len(posted') : posted'[i] <= Len(logged)
    BY <1>2, <2>1 DEF HeardInv
  <2> QED BY <2>2, <2>3, <2>4
<1>9. h <= Len(logged)
  BY <1>1, <1>2 DEF HeardInv
<1>10. ASSUME NEW s \in Subscriber, NEW i \in 1..Len(heard'[s]) PROVE heard'[s][i] <= Len(logged)
  <2>1. CASE gives(s)
    <3>1. CASE i \in 1..Len(heard[s])
      BY <1>4, <2>1, <3>1 DEF HeardInv
    <3>2. CASE i = Len(heard[s]) + 1
      BY <1>4, <1>9, <2>1, <3>2
    <3> QED BY <1>4, <2>1, <3>1, <3>2
  <2>2. CASE ~gives(s)
    BY <1>4, <2>2 DEF HeardInv
  <2> QED BY <2>1, <2>2
<1>11. ASSUME NEW s \in Subscriber, wired, s \in subscribed, heard'[s] # <<>>
       PROVE  LET last == heard'[s][Len(heard'[s])]
              IN  last <= Called' /\ \A e \in last + 1..Called' : ~Matches(s, logged[e])
  <2>1. CASE gives(s)
    BY <1>4, <1>6, <1>7, <1>11, <2>1
  <2>2. CASE ~gives(s)
    <3> DEFINE last == heard[s][Len(heard[s])]
    <3>1. heard'[s] = heard[s] /\ heard[s] # <<>>
      BY <1>4, <1>11, <2>2
    <3>2. last <= Called /\ \A e \in last + 1..Called : ~Matches(s, logged[e])
      BY <1>11, <3>1 DEF HeardInv
    <3>3. ~Matches(s, logged[Called + 1])
      BY <1>7, <1>11, <2>2
    <3>4. last \in Nat
      <4>1. Len(heard[s]) \in 1..Len(heard[s])
        BY <1>4, <3>1
      <4> QED BY <1>4, <4>1
    <3>5. last <= Called' /\ \A e \in last + 1..Called' : e \in last + 1..Called \/ e = Called + 1
      BY <1>6, <1>7, <1>11, <3>2, <3>4
    <3> QED BY <3>1, <3>2, <3>3, <3>5
  <2> QED BY <2>1, <2>2
<1>12. HeardInv'
  BY <1>3, <1>8, <1>10, <1>11 DEF HeardInv, Matches
<1>13. HeardInOrder'
  <2> SUFFICES ASSUME NEW s \in Subscriber, NEW i \in 1..Len(heard'[s]) - 1
               PROVE  /\ heard'[s][i] < heard'[s][i + 1]
                      /\ \A e \in heard'[s][i] + 1..heard'[s][i + 1] - 1 : ~Matches(s, logged[e])
    BY <1>3 DEF HeardInOrder, Matches
  <2>1. CASE heard'[s][i] = heard[s][i] /\ heard'[s][i + 1] = heard[s][i + 1]
             /\ i \in 1..Len(heard[s]) - 1
    BY <2>1 DEF HeardInOrder
  <2>2. CASE gives(s) /\ i = Len(heard[s])
    <3>1. heard[s] # <<>> /\ heard'[s][i] = heard[s][Len(heard[s])] /\ heard'[s][i + 1] = h
      BY <1>4, <2>2, SMTT(30)
    <3>2. /\ heard'[s][i] <= Called
          /\ \A e \in heard'[s][i] + 1..Called : ~Matches(s, logged[e])
      BY <2>2, <3>1 DEF HeardInv
    <3>3. heard'[s][i] \in Nat
      BY <1>4, <2>2, <3>1
    <3> QED BY <1>7, <2>2, <3>1, <3>2, <3>3
  <2>3. \/ gives(s) /\ i = Len(heard[s])
        \/ heard'[s][i] = heard[s][i] /\ heard'[s][i + 1] = heard[s][i + 1]
           /\ i \in 1..Len(heard[s]) - 1
    <3>1. CASE gives(s)
      <4>1. i \in 1..Len(heard[s]) /\ Len(heard[s]) \in Nat
        BY <1>4, <3>1
      <4>2. i = Len(heard[s]) \/ (i \in 1..Len(heard[s]) - 1 /\ i + 1 \in 1..Len(heard[s]))
        BY <4>1
      <4> QED BY <1>4, <3>1, <4>1, <4>2
    <3>2. CASE ~gives(s)
      BY <1>4, <3>2
    <3> QED BY <3>1, <3>2
  <2> QED BY <2>1, <2>2, <2>3
<1> QED BY <1>5, <1>12, <1>13

\* A new subscriber has been given nothing; one that leaves is given nothing more.
LEMMA SubscribersHeard ==
  ASSUME BusTypes, HeardInv, HeardInOrder,
         \/ \E s \in Subscriber : SubscribeTo(s) \/ Unsubscribe(s)
         \/ StopBus
  PROVE  BusTypes' /\ HeardInv' /\ HeardInOrder'
<1>1. ASSUME NEW s \in Subscriber, SubscribeTo(s) PROVE BusTypes' /\ HeardInv' /\ HeardInOrder'
  <2>1. /\ subscribed' = subscribed \cup {s} /\ heard' = [heard EXCEPT ![s] = <<>>]
        /\ heard \in [Subscriber -> Seq(1..MaxEvents)] /\ heard'[s] = <<>>
        /\ \A u \in Subscriber : u # s => heard'[u] = heard[u]
    BY <1>1 DEF SubscribeTo, BusTypes
  <2>2. UNCHANGED <<started, wired, tenantSequences, calls, buffer, head, logged, posted, replay>>
    BY <1>1 DEF SubscribeTo
  <2>3. heard' \in [Subscriber -> Seq(1..MaxEvents)] /\ subscribed' \subseteq Subscriber
    BY <2>1 DEF BusTypes
  <2>4. BusTypes'
    BY <2>2, <2>3 DEF BusTypes
  <2>5. Len(<<>>) = 0
    OBVIOUS
  <2>6. HeardInv'
    <3>1. /\ wired' => \A i \in 1..Len(posted') : posted'[i] = Called' + i
          /\ wired' => Called' >= 0
          /\ \A i \in 1..Len(posted') : posted'[i] <= Len(logged')
      BY <2>2 DEF HeardInv, Called
    <3>2. \A u \in Subscriber : \A i \in 1..Len(heard'[u]) : heard'[u][i] <= Len(logged')
      <4> TAKE u \in Subscriber
      <4>1. CASE u = s
        BY <2>1, <2>5, <4>1
      <4>2. CASE u # s
        BY <2>1, <2>2, <4>2 DEF HeardInv
      <4> QED BY <4>1, <4>2
    <3>3. \A u \in Subscriber : wired' /\ u \in subscribed' /\ heard'[u] # <<>> =>
             LET last == heard'[u][Len(heard'[u])]
             IN  last <= Called' /\ \A e \in last + 1..Called' : ~Matches(u, logged'[e])
      <4> TAKE u \in Subscriber
      <4>1. CASE u = s
        BY <2>1, <4>1
      <4>2. CASE u # s
        BY <2>1, <2>2, <4>2 DEF HeardInv, Called, Matches
      <4> QED BY <4>1, <4>2
    <3> QED BY <3>1, <3>2, <3>3 DEF HeardInv, Matches
  <2>7. HeardInOrder'
    <3> SUFFICES ASSUME NEW u \in Subscriber, NEW i \in 1..Len(heard'[u]) - 1
                 PROVE  /\ heard'[u][i] < heard'[u][i + 1]
                        /\ \A e \in heard'[u][i] + 1..heard'[u][i + 1] - 1 : ~Matches(u, logged'[e])
      BY DEF HeardInOrder, Matches
    <3>1. u # s
      BY <2>1, <2>5
    <3> QED BY <2>1, <2>2, <3>1 DEF HeardInOrder, Matches
  <2> QED BY <2>4, <2>6, <2>7
<1>2. ASSUME NEW s \in Subscriber, Unsubscribe(s) PROVE BusTypes' /\ HeardInv' /\ HeardInOrder'
  <2>1. /\ subscribed' \subseteq subscribed
        /\ UNCHANGED <<started, wired, tenantSequences, calls, buffer, head, logged, posted, heard,
                       replay>>
    BY <1>2 DEF Unsubscribe
  <2> QED BY <2>1 DEF BusTypes, HeardInv, HeardInOrder, Called, Matches
<1>3. ASSUME StopBus PROVE BusTypes' /\ HeardInv' /\ HeardInOrder'
  <2>1. /\ wired' = FALSE /\ started' = FALSE /\ subscribed' = {}
        /\ UNCHANGED <<tenantSequences, calls, buffer, head, logged, posted, heard, replay>>
    BY <1>3 DEF StopBus
  <2>2. BusTypes'
    <3>1. {started', wired'} \subseteq BOOLEAN /\ subscribed' \subseteq Subscriber
      BY <2>1
    <3> QED BY <2>1, <3>1 DEF BusTypes
  <2> QED BY <2>1, <2>2 DEF HeardInv, HeardInOrder, Called, Matches
<1> QED BY <1>1, <1>2, <1>3

-----------------------------------------------------------------------------
\* What the buffer has lost.
LEMMA LostNumbers ==
  ASSUME BusTypes, BufferInv, NumberInv
  PROVE  \A t : Evicted(t) \in Nat /\ LatestSequence(t) \in Nat
<1> TAKE t
<1>1. logged \in Seq(Envelopes) /\ Len(logged) \in Nat /\ Stored \in 0..Len(logged)
  BY BufferedMeans DEF BusTypes
<1>2. Len(logged) - Stored \in 0..Len(logged) /\ Len(logged) \in 0..Len(logged)
  BY <1>1
<1>3. /\ CountOf(logged, t, Len(logged) - Stored) \in Nat
      /\ CountOf(logged, t, Len(logged)) \in Nat
  BY <1>1, <1>2, CountStep
<1>4. /\ LatestSequence(t) = CountOf(logged, t, Len(logged))
      /\ Evicted(t) = CountOf(logged, t, Len(logged) - Stored)
  BY StoredNumbers
<1> QED BY <1>3, <1>4

\* An event stored costs the buffer its oldest at most.
LEMMA StoreEvicts ==
  ASSUME BusTypes, NumberInv, BufferInv, Store
  PROVE  \A t : /\ Evicted(t)' \in Nat /\ Evicted(t) <= Evicted(t)'
                /\ LatestSequence(t)' \in Nat /\ LatestSequence(t) <= LatestSequence(t)'
<1> USE ConstantFacts
<1> TAKE t
<1> DEFINE L == Len(logged)
           E == L - Stored
           F == L + 1 - Stored'
<1>1. /\ logged' \in Seq(Envelopes) /\ Len(logged') = L + 1
      /\ \A i \in 1..L : logged'[i] = logged[i]
  BY StoreShifts
<1>2. logged \in Seq(Envelopes) /\ L \in Nat
  BY DEF BusTypes
<1>3. /\ Stored' = IF L + 1 < Capacity THEN L + 1 ELSE Capacity
      /\ Stored = IF L < Capacity THEN L ELSE Capacity
  BY <1>1 DEF Stored
<1>4. E \in 0..L /\ F \in E..L /\ F \in 0..L /\ F \in Nat
  <2>1. CASE L + 1 < Capacity
    BY <1>2, <1>3, <2>1
  <2>2. CASE ~(L + 1 < Capacity)
    BY <1>2, <1>3, <2>2
  <2> QED BY <2>1, <2>2
<1>5. Evicted(t)' = CountOf(logged', t, Len(logged') - Stored')
  BY Zenon DEF Evicted, CountOf
<1>6. Len(logged') - Stored' = F
  <2>1. Stored' \in Int
    BY <1>2, <1>3
  <2> QED BY <1>1, <1>2, <2>1
<1> HIDE DEF E, F
<1>7. CountOf(logged', t, F) = CountOf(logged, t, F)
  <2>1. \A i \in 1..F : logged'[i] = logged[i]
    BY <1>1, <1>2, <1>4
  <2> QED BY <1>4, <2>1, CountAgrees
<1>8. CountOf(logged, t, E) <= CountOf(logged, t, F) /\ CountOf(logged, t, F) \in Nat
  BY <1>2, <1>4, CountMonotone, CountStep
<1>9. Evicted(t) = CountOf(logged, t, E)
  BY StoredNumbers DEF E
<1>10. Evicted(t)' = CountOf(logged, t, F)
  BY <1>5, <1>6, <1>7, Zenon
<1>11. LatestSequence(t)' \in Nat /\ LatestSequence(t) <= LatestSequence(t)'
  <2>1. LatestSequence(t)' = CountOf(logged', t, L + 1)
    <3>1. DOMAIN logged' = 1..L + 1
      BY <1>1
    <3>2. {i \in DOMAIN logged' : logged'[i].tenant = t} = {i \in 1..L + 1 : logged'[i].tenant = t}
      BY <3>1, Zenon
    <3> QED BY <3>2, Zenon DEF LatestSequence, CountOf
  <2>2. L \in 0..L + 1 /\ L + 1 \in L..L + 1 /\ L + 1 \in 0..L + 1
    BY <1>2
  <2>3. CountOf(logged', t, L) <= CountOf(logged', t, L + 1) /\ CountOf(logged', t, L + 1) \in Nat
    BY <1>1, <2>2, CountMonotone, CountStep
  <2>4. CountOf(logged', t, L) = CountOf(logged, t, L)
    BY <1>1, <1>2, CountAgrees
  <2>5. LatestSequence(t) = CountOf(logged, t, L)
    BY StoredNumbers
  <2> QED BY <2>1, <2>3, <2>4, <2>5
<1> QED BY <1>8, <1>9, <1>10, <1>11

\* A replay goes on as it was when nothing or only the oldest event is lost.
LEMMA ReplayStable ==
  ASSUME BusTypes, ReplayInv, UNCHANGED replay,
         \A t : Evicted(t) \in Nat /\ LatestSequence(t) \in Nat,
         \A t : /\ Evicted(t)' \in Nat /\ Evicted(t) <= Evicted(t)'
                /\ LatestSequence(t)' \in Nat /\ LatestSequence(t) <= LatestSequence(t)'
  PROVE  ReplayInv'
<1> USE ConstantFacts
<1> DEFINE r == replay
           t == r.tenant
<1>1. /\ r \in Replays /\ r' = r
      /\ r.from \in Nat /\ r.floor \in Nat /\ r.offset \in Nat /\ r.upto \in Nat /\ r.left \in Nat
      /\ r.given \in Seq(Nat) /\ Len(r.given) \in Nat
      /\ r.batch \in Seq(Envelopes) /\ Len(r.batch) \in Nat
  BY DEF BusTypes, Replays
<1>2. /\ FirstKept(replay) \in Nat /\ FirstKept(replay)' \in Nat
      /\ FirstKept(replay) <= FirstKept(replay)'
  <2>1. /\ FirstKept(replay) = Larger(r.from, Evicted(t) + 1)
        /\ FirstKept(replay)' = Larger(r.from, Evicted(t)' + 1)
    BY <1>1 DEF FirstKept
  <2>2. Evicted(t) \in Nat /\ Evicted(t)' \in Nat /\ Evicted(t) <= Evicted(t)'
    OBVIOUS
  <2> QED BY <1>1, <2>1, <2>2 DEF Larger
<1>3. FirstDue(replay)' = FirstDue(replay)
  BY <1>1 DEF FirstDue
<1>4. r.given # <<>> => r.given[Len(r.given)] \in Nat
  <2>1. r.given # <<>> => Len(r.given) \in 1..Len(r.given)
    BY <1>1
  <2> QED BY <1>1, <2>1
<1>5. r.step # "off" => GivenInv(replay)'
  <2> SUFFICES ASSUME r.step # "off" PROVE GivenInv(replay)'
    OBVIOUS
  <2>1. GivenInv(replay)
    BY DEF ReplayInv
  <2>2. r.floor <= Evicted(t)'
    BY <1>1, <2>1 DEF GivenInv
  <2>3. r.given # <<>> => r.given[Len(r.given)] + 1 - FirstKept(replay)' <= Len(r.given)
    <3> DEFINE l == r.given[Len(r.given)]
               n == Len(r.given)
               k == FirstKept(replay)
               kk == FirstKept(replay)'
    <3>1. r.given # <<>> => l + 1 - k <= n
      BY <2>1 DEF GivenInv
    <3>2. n \in Nat /\ k \in Nat /\ kk \in Nat /\ k <= kk /\ (r.given # <<>> => l \in Nat)
      BY <1>1, <1>2, <1>4
    <3> HIDE DEF l, n, k, kk
    <3>3. r.given # <<>> => l + 1 - kk <= n
      BY <3>1, <3>2
    <3> QED BY <3>3 DEF l, n, kk
  <2>4. \A i \in 1..Len(r.given) : r.given[i] <= LatestSequence(t)'
    <3> TAKE i \in 1..Len(r.given)
    <3>1. r.given[i] <= LatestSequence(t) /\ LatestSequence(t) <= LatestSequence(t)'
      BY <2>1 DEF GivenInv
    <3>2. r.given[i] \in Nat /\ LatestSequence(t) \in Nat /\ LatestSequence(t)' \in Nat
      <4>1. r.given[i] \in Nat
        BY <1>1
      <4>2. LatestSequence(t) \in Nat
        OBVIOUS
      <4>3. LatestSequence(t)' \in Nat
        OBVIOUS
      <4> QED BY <4>1, <4>2, <4>3
    <3> QED BY <3>1, <3>2
  <2> QED BY <1>1, <1>3, <2>1, <2>2, <2>3, <2>4 DEF GivenInv
<1>6. r.step = "give" => BatchInv(replay)'
  <2> SUFFICES ASSUME r.step = "give" PROVE BatchInv(replay)'
    OBVIOUS
  <2> DEFINE size == Len(r.batch)
  <2>1. BatchInv(replay)
    BY DEF ReplayInv
  <2>2. PICK b \in Nat : /\ \A k \in 1..size : r.batch[k].sequence = b + k
                         /\ FirstDue(r) <= b + 1 - r.offset /\ b + 1 - r.offset <= FirstKept(r)
                         /\ r.given # <<>> => r.given[Len(r.given)] <= b + size - r.left
                         /\ b + size <= r.upto /\ r.upto <= LatestSequence(t)
                         /\ size < ReplayBatch => r.upto + 1 - FirstKept(r) <= r.offset + size
    BY <2>1 DEF BatchInv
  <2>3. /\ b + 1 - r.offset <= FirstKept(replay)'
        /\ size < ReplayBatch => r.upto + 1 - FirstKept(replay)' <= r.offset + size
    <3>1. /\ b + 1 - r.offset <= FirstKept(r)
          /\ size < ReplayBatch => r.upto + 1 - FirstKept(r) <= r.offset + size
      BY <2>2
    <3> HIDE DEF size
    <3>2. size \in Nat
      BY <1>1 DEF size
    <3> QED BY <1>1, <1>2, <3>1, <3>2, SMTT(30)
  <2>4. r.upto <= LatestSequence(t)'
    <3>1. /\ LatestSequence(t) <= LatestSequence(t)' /\ LatestSequence(t) \in Nat
          /\ LatestSequence(t)' \in Nat
      OBVIOUS
    <3> QED BY <1>1, <2>2, <3>1
  <2> QED BY <1>1, <1>3, <2>1, <2>2, <2>3, <2>4 DEF BatchInv
<1>7. r.step = "done" => r.upto + 1 - FirstKept(replay)' <= Len(r.given)
  BY <1>1, <1>2 DEF ReplayInv
<1> QED BY <1>1, <1>5, <1>6, <1>7 DEF ReplayInv

\* The other variables in a step of the replay, and what follows for them.
LEMMA ReplayAlone ==
  ASSUME BusTypes, NumberInv, BufferInv,
         UNCHANGED <<started, wired, tenantSequences, calls, buffer, head, logged, posted, subscribed,
                     heard>>
  PROVE  /\ NumberInv' /\ BufferInv' /\ (replay' \in Replays => BusTypes')
         /\ \A t : Evicted(t)' = Evicted(t) /\ LatestSequence(t)' = LatestSequence(t)
<1>1. Stream' = Stream /\ Stored' = Stored
  BY DEF Stream, Stored
<1>2. NumberInv'
  BY <1>1 DEF NumberInv
<1>3. BufferInv'
  BY <1>1 DEF BufferInv, Slot
<1>4. replay' \in Replays => BusTypes'
  BY DEF BusTypes
<1>5. \A t : Evicted(t)' = Evicted(t) /\ LatestSequence(t)' = LatestSequence(t)
  BY <1>1 DEF Evicted, LatestSequence
<1> QED BY <1>2, <1>3, <1>4, <1>5

\* A replay starts with nothing given.
LEMMA StartReplayKeeps ==
  ASSUME BusInv, NEW t \in Tenant, NEW from \in 1..2, StartReplay(t, from)
  PROVE  ReplayInv' /\ replay' \in Replays
<1>1. UNCHANGED logged /\ Evicted(t) \in Nat /\ Evicted(t)' = Evicted(t)
  BY LostNumbers, ReplayAlone DEF BusInv, StartReplay
<1>2. replay' = [step |-> "query", tenant |-> t, from |-> from, offset |-> 0, batch |-> <<>>,
                 left |-> 0, given |-> <<>>, floor |-> Evicted(t), upto |-> 0]
  BY DEF StartReplay, NoReplay
<1>3. replay' \in Replays
  BY <1>1, <1>2 DEF Replays
<1>4. GivenInv(replay)'
  BY <1>1, <1>2 DEF GivenInv
<1> QED BY <1>2, <1>3, <1>4 DEF ReplayInv

\* The next batch begins after as many as have been given, counted from the
\* first number still kept.
LEMMA QueryKeeps ==
  ASSUME BusInv, QueryBatch
  PROVE  ReplayInv' /\ replay' \in Replays
<1> USE ConstantFacts
<1> DEFINE r == replay
           t == r.tenant
           q == Query(t, r.from, r.offset, ReplayBatch)
           next == IF q = <<>> THEN "done" ELSE "give"
<1>1. /\ r \in Replays /\ r.step = "query" /\ GivenInv(r) /\ Len(r.given) = r.offset
  BY DEF BusInv, BusTypes, ReplayInv, QueryBatch
<1>2. /\ t \in Tenant /\ r.from \in Nat \ {0} /\ r.offset \in Nat /\ r.floor \in Nat
      /\ r.given \in Seq(Nat) /\ Len(r.given) \in Nat
  BY <1>1 DEF Replays, GivenInv
<1>3. /\ Evicted(t) \in Nat /\ LatestSequence(t) \in Nat
      /\ \A u : Evicted(u)' = Evicted(u) /\ LatestSequence(u)' = LatestSequence(u)
  BY LostNumbers, ReplayAlone DEF BusInv, QueryBatch
<1> DEFINE first == FirstKept(r)
<1>4. /\ q \in Seq(Envelopes) /\ Len(q) <= ReplayBatch /\ Len(q) \in Nat
      /\ \A k \in 1..Len(q) : q[k].sequence = first + r.offset + k - 1
      /\ Len(q) > 0 => first + r.offset + Len(q) - 1 <= LatestSequence(t)
      /\ Len(q) < ReplayBatch => LatestSequence(t) + 1 - first <= r.offset + Len(q)
  <2>1. BusTypes /\ NumberInv /\ BufferInv
    BY DEF BusInv
  <2>2. first = Larger(r.from, Evicted(t) + 1)
    BY DEF FirstKept
  <2> HIDE DEF first
  <2> HIDE DEF t
  <2>3. LET z == Query(t, r.from, r.offset, ReplayBatch)
            one == Larger(r.from, Evicted(t) + 1)
         IN  /\ z \in Seq(Envelopes) /\ Len(z) <= ReplayBatch
             /\ \A k \in 1..Len(z) : z[k].sequence = one + r.offset + k - 1
             /\ Len(z) > 0 => one + r.offset + Len(z) - 1 <= LatestSequence(t)
             /\ Len(z) < ReplayBatch => LatestSequence(t) + 1 - one <= r.offset + Len(z)
    BY <1>2, <2>1, QueryMeans
  <2> QED BY <2>2, <2>3
<1>5. r' = [r EXCEPT !.step = next, !.batch = q, !.left = Len(q), !.upto = LatestSequence(t)]
  BY DEF QueryBatch
<1> HIDE DEF q
<1>6. /\ r'.step = next /\ r'.batch = q /\ r'.left = Len(q) /\ r'.upto = LatestSequence(t)
      /\ r'.tenant = t /\ r'.from = r.from /\ r'.offset = r.offset /\ r'.given = r.given
      /\ r'.floor = r.floor
  BY <1>1, <1>5 DEF Replays
<1>7. r' \in Replays
  BY <1>1, <1>3, <1>4, <1>5 DEF Replays
<1>8. FirstKept(r)' = first /\ FirstDue(r)' = FirstDue(r)
  BY <1>3, <1>6 DEF FirstKept, FirstDue
<1>9. first \in Nat \ {0} /\ FirstDue(r) \in Nat /\ FirstDue(r) <= first
  BY <1>1, <1>2, <1>3 DEF FirstKept, FirstDue, Larger, GivenInv
<1>10. r.given # <<>> => r.given[Len(r.given)] + 1 - first <= Len(r.given)
                         /\ r.given[Len(r.given)] \in Nat
  <2>1. r.given # <<>> => Len(r.given) \in 1..Len(r.given)
    BY <1>2
  <2> QED BY <1>1, <1>2, <2>1 DEF GivenInv
<1> HIDE DEF first
<1>11. GivenInv(r)'
  BY <1>1, <1>3, <1>6, <1>8, <1>10 DEF GivenInv
<1>12. CASE q = <<>>
  <2>1. Len(q) = 0 /\ next = "done"
    BY <1>12
  <2>2. LatestSequence(t) + 1 - first <= Len(r.given)
    BY <1>1, <1>2, <1>4, <2>1
  <2>3. \A i \in 1..Len(r.given) : r.given[i] <= LatestSequence(t)
    BY <1>1 DEF GivenInv
  <2> QED BY <1>6, <1>7, <1>8, <1>11, <2>1, <2>2, <2>3 DEF ReplayInv
<1>13. CASE q # <<>>
  <2>1. Len(q) > 0 /\ next = "give"
    BY <1>4, <1>13
  <2> DEFINE b == first + r.offset - 1
  <2>2. b \in Nat
    BY <1>2, <1>9
  <2>3. /\ \A k \in 1..Len(q) : q[k].sequence = b + k
        /\ FirstDue(r) <= b + 1 - r.offset /\ b + 1 - r.offset <= first
        /\ r.given # <<>> => r.given[Len(r.given)] <= b + Len(q) - Len(q)
        /\ b + Len(q) <= LatestSequence(t) /\ LatestSequence(t) <= LatestSequence(t)
        /\ Len(q) < ReplayBatch => LatestSequence(t) + 1 - first <= r.offset + Len(q)
    <3>1. \A k \in 1..Len(q) : q[k].sequence = b + k
      <4> TAKE k \in 1..Len(q)
      <4>1. q[k].sequence = first + r.offset + k - 1
        BY <1>4
      <4> QED BY <1>2, <1>9, <4>1
    <3>2. /\ FirstDue(r) <= b + 1 - r.offset /\ b + 1 - r.offset <= first
          /\ b + Len(q) <= LatestSequence(t) /\ LatestSequence(t) <= LatestSequence(t)
      BY <1>2, <1>3, <1>4, <1>9, <2>1, SMTT(30)
    <3>3. r.given # <<>> => r.given[Len(r.given)] <= b + Len(q) - Len(q)
      <4>1. b + Len(q) - Len(q) = first + Len(r.given) - 1
        BY <1>1, <1>2, <1>4, <1>9
      <4> QED BY <1>2, <1>9, <1>10, <4>1
    <3> QED BY <1>4, <3>1, <3>2, <3>3
  <2>4. Len(q) \in 1..Len(q) /\ Len(r.given) = r.offset + Len(q) - Len(q)
    BY <1>1, <1>2, <1>4, <2>1
  <2> HIDE DEF b
  <2>5. BatchInv(r)'
    BY <1>3, <1>4, <1>6, <1>8, <2>2, <2>3, <2>4 DEF BatchInv
  <2> QED BY <1>6, <1>7, <1>11, <2>1, <2>5 DEF ReplayInv
<1> QED BY <1>12, <1>13

\* The next event of the batch is given, and the last one ends it.
LEMMA GiveKeeps ==
  ASSUME BusInv, GiveEvent
  PROVE  ReplayInv' /\ replay' \in Replays
<1> USE ConstantFacts
<1> DEFINE r == replay
           t == r.tenant
           size == Len(r.batch)
           number == r.batch[size - r.left + 1].sequence
           more == [r EXCEPT !.left = @ - 1, !.given = Append(@, number)]
<1>1. /\ r \in Replays /\ r.step = "give" /\ GivenInv(r) /\ BatchInv(r)
  BY DEF BusInv, BusTypes, ReplayInv, GiveEvent
<1>2. /\ t \in Tenant /\ r.from \in Nat \ {0} /\ r.offset \in Nat /\ r.floor \in Nat
      /\ r.given \in Seq(Nat) /\ Len(r.given) \in Nat /\ r.upto \in Nat
      /\ r.batch \in Seq(Envelopes) /\ size \in Nat /\ r.left \in 1..size
      /\ size <= ReplayBatch /\ Len(r.given) = r.offset + size - r.left
  BY <1>1, SMTT(30) DEF Replays, GivenInv, BatchInv
<1>3. /\ Evicted(t) \in Nat /\ LatestSequence(t) \in Nat
      /\ \A u : Evicted(u)' = Evicted(u) /\ LatestSequence(u)' = LatestSequence(u)
  BY LostNumbers, ReplayAlone DEF BusInv, GiveEvent
<1>4. PICK b \in Nat : /\ \A k \in 1..size : r.batch[k].sequence = b + k
                       /\ FirstDue(r) <= b + 1 - r.offset /\ b + 1 - r.offset <= FirstKept(r)
                       /\ r.given # <<>> => r.given[Len(r.given)] <= b + size - r.left
                       /\ b + size <= r.upto /\ r.upto <= LatestSequence(t)
                       /\ size < ReplayBatch => r.upto + 1 - FirstKept(r) <= r.offset + size
  BY <1>1 DEF BatchInv
<1>5. FirstKept(r) \in Nat /\ FirstDue(r) \in Nat
  BY <1>2, <1>3, SMTT(30) DEF FirstKept, FirstDue, Larger
<1>19. /\ b \in Nat /\ size \in Nat /\ r.left \in Nat \ {0} /\ r.left <= size /\ r.offset \in Nat
       /\ r.upto \in Nat
  BY <1>2
<1>6. number = b + size - r.left + 1 /\ number \in Nat
  <2>1. size - r.left + 1 \in 1..size
    BY <1>2
  <2>2. number = b + (size - r.left + 1)
    BY <1>4, <2>1
  <2> QED BY <1>2, <2>2, SMTT(30)
<1> HIDE DEF number
<1>7. /\ more \in Replays /\ more.left = r.left - 1 /\ more.given = Append(r.given, number)
      /\ more.step = r.step /\ more.tenant = t /\ more.from = r.from /\ more.offset = r.offset
      /\ more.batch = r.batch /\ more.floor = r.floor /\ more.upto = r.upto
  <2>1. r.left - 1 \in Nat /\ Append(r.given, number) \in Seq(Nat)
    BY <1>2, <1>6, AppendProperties
  <2> QED BY <1>1, <2>1 DEF Replays
<1>8. /\ Len(more.given) = Len(r.given) + 1 /\ more.given[Len(r.given) + 1] = number
      /\ \A i \in 1..Len(r.given) : more.given[i] = r.given[i] /\ r.given[i] \in Nat
      /\ more.given # <<>>
  <2> HIDE DEF more
  <2>1. /\ Len(Append(r.given, number)) = Len(r.given) + 1
        /\ Append(r.given, number)[Len(r.given) + 1] = number
        /\ \A i \in 1..Len(r.given) : Append(r.given, number)[i] = r.given[i]
        /\ Append(r.given, number) # <<>>
    <3>1. r.given \in Seq(Nat) /\ number \in Nat
      BY <1>2, <1>6
    <3> QED BY <3>1, AppendProperties
  <2>2. \A i \in 1..Len(r.given) : r.given[i] \in Nat
    BY <1>2, SMTT(30)
  <2> QED BY <1>7, <2>1, <2>2
<1>9. \/ r.left > 1 /\ r' = more
      \/ r.left = 1 /\ size < ReplayBatch /\ r' = [more EXCEPT !.step = "done"]
      \/ r.left = 1 /\ size = ReplayBatch
         /\ r' = [more EXCEPT !.step = "query", !.offset = r.offset + size]
  <2>1. CASE r.left > 1
    BY <1>2, <2>1 DEF GiveEvent, number
  <2>2. CASE r.left = 1 /\ size < ReplayBatch
    BY <1>2, <2>2 DEF GiveEvent, number
  <2>3. CASE r.left = 1 /\ ~(size < ReplayBatch)
    BY <1>2, <2>3 DEF GiveEvent, number
  <2> QED BY <1>2, <2>1, <2>2, <2>3
<1> HIDE DEF more
<1>10. /\ r' \in Replays /\ r'.given = more.given /\ r'.tenant = t /\ r'.from = r.from
       /\ r'.floor = r.floor /\ r'.upto = r.upto /\ r'.batch = r.batch /\ r'.left = r.left - 1
       /\ r'.step = "give" => r.left > 1 /\ r'.offset = r.offset
       /\ r'.step = "done" => r.left = 1 /\ size < ReplayBatch
       /\ r'.step = "query" => r.left = 1 /\ r'.offset = r.offset + size
       /\ r'.step # "off"
  <2>1. r.offset + size \in Nat
    BY <1>2
  <2>2. CASE r.left > 1 /\ r' = more
    BY <1>1, <1>7, <2>2
  <2>3. CASE r.left = 1 /\ size < ReplayBatch /\ r' = [more EXCEPT !.step = "done"]
    BY <1>1, <1>7, <2>3 DEF Replays
  <2>4. CASE r.left = 1 /\ r' = [more EXCEPT !.step = "query", !.offset = r.offset + size]
    BY <1>1, <1>7, <2>1, <2>4 DEF Replays
  <2> QED BY <1>9, <2>2, <2>3, <2>4
<1>11. FirstKept(r)' = FirstKept(r) /\ FirstDue(r)' = FirstDue(r)
  BY <1>3, <1>10 DEF FirstKept, FirstDue
<1>12. /\ \A i, j \in 1..Len(more.given) : i < j => more.given[i] < more.given[j]
       /\ \A i \in 1..Len(more.given) :
             FirstDue(r) <= more.given[i] /\ more.given[i] <= number
       /\ number <= b + size /\ number <= LatestSequence(t) /\ FirstDue(r) <= number
  <2>1. number <= b + size /\ number <= LatestSequence(t) /\ FirstDue(r) <= number
    <3>1. FirstDue(r) <= b + 1 - r.offset /\ b + size <= r.upto /\ r.upto <= LatestSequence(t)
      BY <1>4
    <3> HIDE DEF size, t
    <3>2. LatestSequence(t) \in Nat
      BY <1>3
    <3> QED BY <1>5, <1>6, <1>19, <3>1, <3>2
  <2>2. \A i, j \in 1..Len(r.given) : i < j => r.given[i] < r.given[j]
    BY <1>1 DEF GivenInv
  <2>3. \A i \in 1..Len(r.given) : r.given[i] < number /\ FirstDue(r) <= r.given[i]
    <3> TAKE i \in 1..Len(r.given)
    <3> DEFINE n == Len(r.given)
    <3>1. FirstDue(r) <= r.given[i] /\ r.given # <<>> /\ n \in 1..n
      <4>1. FirstDue(r) <= r.given[i]
        BY <1>1 DEF GivenInv
      <4>2. n \in Nat /\ i \in 1..n
        BY <1>2
      <4>3. r.given # <<>>
        BY <4>2
      <4> QED BY <4>1, <4>2, <4>3
    <3>2. r.given[n] < number /\ r.given[n] \in Nat /\ r.given[i] \in Nat
      <4>1. r.given[n] \in Nat /\ r.given[i] \in Nat
        BY <1>8, <3>1
      <4>2. r.given[n] <= b + size - r.left
        BY <1>4, <3>1
      <4> HIDE DEF size, n
      <4> QED BY <1>6, <1>19, <4>1, <4>2
    <3>3. r.given[i] <= r.given[n]
      <4>1. CASE i = n
        BY <3>2, <4>1
      <4>2. CASE i # n
        <5>1. i < n
          BY <3>1, <4>2
        <5>2. r.given[i] < r.given[n]
          BY <2>2, <3>1, <5>1
        <5> QED BY <3>2, <5>2
      <4> QED BY <4>1, <4>2
    <3> QED BY <1>6, <3>1, <3>2, <3>3
  <2>4. ASSUME NEW i \in 1..Len(more.given), NEW j \in 1..Len(more.given), i < j
        PROVE  more.given[i] < more.given[j]
    <3>1. i \in 1..Len(r.given)
      BY <1>2, <1>8, <2>4
    <3>2. CASE j \in 1..Len(r.given)
      BY <1>8, <2>2, <2>4, <3>1, <3>2
    <3>3. CASE j = Len(r.given) + 1
      BY <1>8, <2>3, <3>1, <3>3
    <3> QED BY <1>2, <1>8, <3>2, <3>3
  <2>5. ASSUME NEW i \in 1..Len(more.given)
        PROVE  FirstDue(r) <= more.given[i] /\ more.given[i] <= number
    <3>1. CASE i \in 1..Len(r.given)
      <4>1. more.given[i] = r.given[i] /\ r.given[i] \in Nat /\ r.given[i] < number
        BY <1>8, <2>3, <3>1
      <4> QED BY <1>6, <2>3, <3>1, <4>1
    <3>2. CASE i = Len(r.given) + 1
      BY <1>6, <1>8, <2>1, <3>2
    <3> QED BY <1>2, <1>8, <3>1, <3>2
  <2> QED BY <2>1, <2>4, <2>5
<1>13. /\ number + 1 - FirstKept(r) <= Len(more.given)
       /\ more.given[Len(more.given)] = number
       /\ Len(more.given) = r.offset + size - (r.left - 1)
  <2>1. b + 1 - r.offset <= FirstKept(r)
    BY <1>4
  <2>2. Len(more.given) = r.offset + size - r.left + 1 /\ more.given[Len(more.given)] = number
    BY <1>2, <1>8
  <2> HIDE DEF size
  <2>3. number + 1 - FirstKept(r) <= r.offset + size - r.left + 1
    BY <1>5, <1>6, <1>19, <2>1
  <2>4. r.offset + size - r.left + 1 = r.offset + size - (r.left - 1)
    BY <1>19
  <2> QED BY <2>2, <2>3, <2>4
<1>14. \A i \in 1..Len(more.given) : more.given[i] <= LatestSequence(t) /\ more.given[i] <= r.upto
  <2> TAKE i \in 1..Len(more.given)
  <2>1. more.given[i] <= number /\ more.given[i] \in Nat
    <3>1. CASE i \in 1..Len(r.given)
      BY <1>8, <1>12, <3>1
    <3>2. CASE i = Len(r.given) + 1
      BY <1>6, <1>8, <1>12, <3>2
    <3> QED BY <1>2, <1>8, <3>1, <3>2
  <2>2. number <= LatestSequence(t) /\ number <= b + size /\ b + size <= r.upto
    BY <1>4, <1>12
  <2> HIDE DEF size, t
  <2>3. LatestSequence(t) \in Nat
    BY <1>3
  <2> DEFINE g == more.given[i]
             l == LatestSequence(t)
             u == r.upto
             d == b + size
  <2>4. g \in Nat /\ l \in Nat /\ u \in Nat /\ d \in Int /\ number \in Nat
    BY <1>6, <1>19, <2>1, <2>3
  <2>5. g <= number /\ number <= l /\ number <= d /\ d <= u
    BY <2>1, <2>2
  <2> HIDE DEF g, l, u, d
  <2>6. g <= l /\ g <= u
    BY <2>4, <2>5
  <2> QED BY <2>6 DEF g, l, u
<1>15. GivenInv(r)'
  <2>1. r'.floor <= Evicted(t)' /\ r'.from > 0 /\ r'.tenant \in Tenant
    BY <1>1, <1>2, <1>3, <1>10 DEF GivenInv
  <2> QED BY <1>3, <1>10, <1>11, <1>12, <1>13, <1>14, <2>1 DEF GivenInv
<1>16. ASSUME r'.step = "give" PROVE BatchInv(r)'
  <2>1. r.left > 1 /\ r'.offset = r.offset
    BY <1>10, <1>16
  <2>2. r.left - 1 \in 1..size
    BY <1>2, <2>1
  <2>3. number <= b + size - (r.left - 1)
    BY <1>2, <1>6
  <2>4. /\ r'.left \in 1..size /\ size <= ReplayBatch
        /\ Len(r'.given) = r'.offset + size - r'.left
    BY <1>2, <1>10, <1>13, <2>1, <2>2
  <2>5. /\ \A k \in 1..size : r'.batch[k].sequence = b + k
        /\ FirstDue(r)' <= b + 1 - r'.offset /\ b + 1 - r'.offset <= FirstKept(r)'
        /\ r'.given[Len(r'.given)] <= b + size - r'.left
    BY <1>4, <1>10, <1>11, <1>13, <2>1, <2>3
  <2>6. /\ b + size <= r'.upto /\ r'.upto <= LatestSequence(r.tenant)'
        /\ size < ReplayBatch => r'.upto + 1 - FirstKept(r)' <= r'.offset + size
    BY <1>3, <1>4, <1>10, <1>11, <2>1
  <2>7. Len(r'.batch) = size
    BY <1>10
  <2> QED BY <1>4, <2>4, <2>5, <2>6, <2>7 DEF BatchInv
<1>17. ASSUME r'.step = "done"
       PROVE  /\ \A i \in 1..Len(r'.given) : r'.given[i] <= r'.upto
              /\ r'.upto + 1 - FirstKept(r)' <= Len(r'.given)
  <2>1. r.left = 1 /\ size < ReplayBatch
    BY <1>10, <1>17
  <2>2. r.upto + 1 - FirstKept(r) <= r.offset + size /\ Len(more.given) = r.offset + size
    BY <1>2, <1>4, <1>13, <2>1
  <2> QED BY <1>10, <1>11, <1>14, <2>2
<1>18. r'.step = "query" => Len(r'.given) = r'.offset
  BY <1>2, <1>10, <1>13
<1> QED BY <1>10, <1>15, <1>16, <1>17, <1>18 DEF ReplayInv

\* A replay that fails has given what it gave.
LEMMA GiveFailsKeeps ==
  ASSUME BusInv, GiveFails
  PROVE  ReplayInv' /\ replay' \in Replays
<1>1. replay \in Replays /\ replay.step = "give" /\ GivenInv(replay)
  BY DEF BusInv, BusTypes, ReplayInv, GiveFails
<1>2. \A u : Evicted(u)' = Evicted(u) /\ LatestSequence(u)' = LatestSequence(u)
  BY ReplayAlone DEF BusInv, GiveFails
<1>3. /\ replay'.step = "failed" /\ replay' \in Replays /\ replay'.tenant = replay.tenant
      /\ replay'.from = replay.from /\ replay'.floor = replay.floor /\ replay'.given = replay.given
  BY <1>1 DEF GiveFails, Replays
<1>4. GivenInv(replay)'
  BY <1>1, <1>2, <1>3 DEF GivenInv, FirstDue, FirstKept
<1> QED BY <1>3, <1>4 DEF ReplayInv

-----------------------------------------------------------------------------
\* Every step of the bus keeps the invariant, action by action.
LEMMA BusNextKeeps == BusInv /\ [BusNext]_busVars => BusInv'
<1> SUFFICES ASSUME BusInv, [BusNext]_busVars PROVE BusInv'
  OBVIOUS
<1>1. BusTypes /\ NumberInv /\ BufferInv /\ HeardInv /\ HeardInOrder /\ ReplayInv
  BY DEF BusInv
<1>2. \A t : Evicted(t) \in Nat /\ LatestSequence(t) \in Nat
  BY <1>1, LostNumbers
<1>3. ASSUME UNCHANGED <<logged, replay>> PROVE ReplayInv'
  <2>1. \A t : /\ Evicted(t)' \in Nat /\ Evicted(t) <= Evicted(t)'
               /\ LatestSequence(t)' \in Nat /\ LatestSequence(t) <= LatestSequence(t)'
    <3> TAKE t
    <3>1. Evicted(t)' = Evicted(t) /\ LatestSequence(t)' = LatestSequence(t)
      BY <1>3 DEF Evicted, LatestSequence, Stored
    <3> QED BY <1>2, <3>1
  <2> QED BY <1>1, <1>2, <1>3, <2>1, ReplayStable
<1>4. ASSUME UNCHANGED <<logged, buffer, head>> PROVE BufferInv'
  BY <1>1, <1>4 DEF BufferInv, Slot, Stored
<1>5. ASSUME UNCHANGED <<logged, calls, tenantSequences>> PROVE NumberInv'
  <2>1. Stream' = Stream
    BY <1>5 DEF Stream
  <2> QED BY <1>1, <1>5, <2>1 DEF NumberInv
<1>6. ASSUME UNCHANGED <<wired, logged, posted, subscribed, heard>> PROVE HeardInv' /\ HeardInOrder'
  BY <1>1, <1>6, HeardStable
<1>7. ASSUME NEW t \in Tenant, Publish(t) PROVE BusInv'
  <2>1. BusTypes' /\ NumberInv'
    BY <1>1, <1>7, PublishKeeps
  <2>2. UNCHANGED <<started, wired, buffer, head, logged, posted, subscribed, heard, replay>>
    BY <1>7 DEF Publish
  <2> QED BY <1>3, <1>4, <1>6, <2>1, <2>2 DEF BusInv
<1>8. ASSUME Store PROVE BusInv'
  <2>1. BusTypes' /\ NumberInv' /\ BufferInv'
    BY <1>1, <1>8, StoreKeeps
  <2>2. HeardInv' /\ HeardInOrder'
    BY <1>1, <1>8, StoreHeard
  <2>3. ReplayInv'
    <3>1. UNCHANGED replay
      BY <1>8 DEF Store
    <3>2. \A t : /\ Evicted(t)' \in Nat /\ Evicted(t) <= Evicted(t)'
                 /\ LatestSequence(t)' \in Nat /\ LatestSequence(t) <= LatestSequence(t)'
      BY <1>1, <1>8, StoreEvicts
    <3> QED BY <1>1, <1>2, <3>1, <3>2, ReplayStable
  <2> QED BY <2>1, <2>2, <2>3 DEF BusInv
<1>9. ASSUME Dispatch PROVE BusInv'
  <2>1. BusTypes' /\ HeardInv' /\ HeardInOrder'
    BY <1>1, <1>9, DispatchHeard
  <2>2. UNCHANGED <<started, wired, tenantSequences, calls, buffer, head, logged, subscribed, replay>>
    BY <1>9 DEF Dispatch
  <2> QED BY <1>3, <1>4, <1>5, <2>1, <2>2 DEF BusInv
<1>10. ASSUME \/ \E s \in Subscriber : SubscribeTo(s) \/ Unsubscribe(s)
              \/ StopBus
       PROVE  BusInv'
  <2>1. BusTypes' /\ HeardInv' /\ HeardInOrder'
    BY <1>1, <1>10, SubscribersHeard
  <2>2. UNCHANGED <<tenantSequences, calls, buffer, head, logged, posted, replay>>
    BY <1>10 DEF SubscribeTo, Unsubscribe, StopBus
  <2> QED BY <1>3, <1>4, <1>5, <2>1, <2>2 DEF BusInv
<1>11. ASSUME StartBus PROVE BusInv'
  <2>1. /\ started' = TRUE
        /\ UNCHANGED <<wired, tenantSequences, calls, buffer, head, logged, posted, subscribed, heard,
                       replay>>
    BY <1>11 DEF StartBus
  <2>2. BusTypes'
    <3>1. {started', wired'} \subseteq BOOLEAN
      BY <1>1, <2>1 DEF BusTypes
    <3> QED BY <1>1, <2>1, <3>1 DEF BusTypes
  <2> QED BY <1>3, <1>4, <1>5, <1>6, <2>1, <2>2 DEF BusInv
<1>12. ASSUME ReplayInv', replay' \in Replays,
              UNCHANGED <<started, wired, tenantSequences, calls, buffer, head, logged, posted,
                          subscribed, heard>>
       PROVE  BusInv'
  <2>1. BusTypes' /\ NumberInv' /\ BufferInv'
    BY <1>1, <1>12, ReplayAlone
  <2> QED BY <1>6, <1>12, <2>1 DEF BusInv
<1>13. ASSUME NEW t \in Tenant, NEW from \in 1..2, StartReplay(t, from) PROVE BusInv'
  <2>1. ReplayInv' /\ replay' \in Replays
    BY <1>13, StartReplayKeeps
  <2> QED BY <1>12, <1>13, <2>1 DEF StartReplay
<1>14. ASSUME QueryBatch PROVE BusInv'
  <2>1. ReplayInv' /\ replay' \in Replays
    BY <1>14, QueryKeeps
  <2> QED BY <1>12, <1>14, <2>1 DEF QueryBatch
<1>15. ASSUME GiveEvent PROVE BusInv'
  <2>1. ReplayInv' /\ replay' \in Replays
    BY <1>15, GiveKeeps
  <2> QED BY <1>12, <1>15, <2>1 DEF GiveEvent
<1>16. ASSUME GiveFails PROVE BusInv'
  <2>1. ReplayInv' /\ replay' \in Replays
    BY <1>16, GiveFailsKeeps
  <2> QED BY <1>12, <1>16, <2>1 DEF GiveFails
<1>17. ASSUME UNCHANGED busVars PROVE BusInv'
  <2>1. UNCHANGED <<started, wired, tenantSequences, calls, buffer, head, logged, posted, subscribed,
                    heard, replay>>
    BY <1>17 DEF busVars
  <2>2. replay' \in Replays
    BY <1>1, <2>1 DEF BusTypes
  <2> QED BY <1>3, <1>12, <2>1, <2>2
<1> QED BY <1>7, <1>8, <1>9, <1>10, <1>11, <1>13, <1>14, <1>15, <1>16, <1>17 DEF BusNext

\* The numbers a replay passed over are counted against those the buffer lost:
\* whatever lies past the first one still kept has been given.
LEMMA FaithfulFollows ==
  ASSUME BusInv
  PROVE  ReplayFaithful
<1> SUFFICES ASSUME replay.step # "off" PROVE
        /\ \A i \in 1..Len(replay.given) - 1 : replay.given[i] < replay.given[i + 1]
        /\ Cardinality({q \in DueNumbers : \A i \in DOMAIN replay.given : replay.given[i] # q})
               <= Cardinality({q \in DueNumbers : q <= Evicted(replay.tenant)})
  BY DEF ReplayFaithful
<1> DEFINE r == replay
           t == r.tenant
           n == Len(r.given)
           first == FirstDue(r)
           last == CASE r.step = "done" -> r.upto
                     [] r.step # "done" /\ r.given = <<>> -> 0
                     [] OTHER -> r.given[Len(r.given)]
           least == IF last < Evicted(t) THEN last ELSE Evicted(t)
           Due == first..last
           Given == {r.given[i] : i \in 1..n}
           g == [i \in 1..n |-> r.given[i]]
           Missing == {q \in Due : \A i \in DOMAIN r.given : r.given[i] # q}
           Lost == {q \in Due : q <= Evicted(t)}
<1>1. /\ r \in Replays /\ GivenInv(r) /\ r.from \in Nat \ {0} /\ r.floor \in Nat /\ r.upto \in Nat
      /\ r.given \in Seq(Nat) /\ n \in Nat /\ DOMAIN r.given = 1..n
  BY DEF BusInv, BusTypes, ReplayInv, Replays, GivenInv
<1>2. Evicted(t) \in Nat /\ r.floor <= Evicted(t)
  BY <1>1, LostNumbers DEF BusInv, GivenInv
<1>3. /\ \A i, j \in 1..n : i < j => r.given[i] < r.given[j]
      /\ \A i \in 1..n : r.given[i] \in Nat /\ first <= r.given[i]
  BY <1>1 DEF GivenInv
<1>4. \A i \in 1..n - 1 : r.given[i] < r.given[i + 1]
  <2> TAKE i \in 1..n - 1
  <2>1. i \in 1..n /\ i + 1 \in 1..n /\ i < i + 1
    BY <1>1
  <2> QED BY <1>3, <2>1
<1>5. first = Larger(r.from, r.floor + 1) /\ FirstKept(r) = Larger(r.from, Evicted(t) + 1)
  BY DEF FirstDue, FirstKept
<1>6. DueNumbers = Due
  <2>1. first = IF replay.from > replay.floor THEN replay.from ELSE replay.floor + 1
    BY <1>1, <1>5 DEF Larger
  <2> HIDE DEF first
  <2> QED BY <2>1, Zenon DEF DueNumbers
<1> HIDE DEF first
<1>7. /\ last \in Nat /\ \A i \in 1..n : r.given[i] <= last
      /\ last + 1 - FirstKept(r) <= n
  <2>1. CASE r.step = "done"
    <3>1. last = r.upto
      BY <2>1
    <3> QED BY <1>1, <2>1, <3>1 DEF BusInv, ReplayInv
  <2>2. CASE r.step # "done" /\ r.given = <<>>
    <3>1. last = 0 /\ n = 0
      BY <2>2
    <3>2. FirstKept(r) \in Nat \ {0}
      BY <1>1, <1>2, <1>5 DEF Larger
    <3> QED BY <3>1, <3>2
  <2>3. CASE r.step # "done" /\ r.given # <<>>
    <3>1. last = r.given[n] /\ n \in 1..n
      BY <1>1, <2>3
    <3>2. last \in Nat /\ last + 1 - FirstKept(r) <= n
      BY <1>1, <1>3, <2>3, <3>1 DEF GivenInv
    <3>3. ASSUME NEW i \in 1..n PROVE r.given[i] <= last
      <4>1. CASE i = n
        BY <3>1, <3>2, <4>1
      <4>2. CASE i # n
        <5>1. i < n /\ r.given[i] \in Nat
          BY <1>1, <1>3, <3>3, <4>2
        <5>2. r.given[i] < r.given[n]
          BY <1>3, <3>1, <5>1
        <5> QED BY <3>1, <3>2, <5>1, <5>2
      <4> QED BY <4>1, <4>2
    <3> QED BY <3>2, <3>3
  <2> QED BY <2>1, <2>2, <2>3
<1> HIDE DEF last
<1>8. /\ first \in Nat \ {0} /\ FirstKept(r) \in Nat
      /\ \/ FirstKept(r) = first /\ r.from > Evicted(t)
         \/ FirstKept(r) = Evicted(t) + 1 /\ first <= Evicted(t) + 1
  BY <1>1, <1>2, <1>5 DEF Larger
<1>9. IsFiniteSet(Due) /\ Cardinality(Due) = IF first > last THEN 0 ELSE last - first + 1
  <2>1. first \in Int /\ last \in Int
    BY <1>7, <1>8
  <2> QED BY <2>1, FS_Interval
<1>10. Given \subseteq Due
  <2> SUFFICES ASSUME NEW i \in 1..n PROVE r.given[i] \in Due
    OBVIOUS
  <2>1. r.given[i] \in Nat /\ first <= r.given[i] /\ r.given[i] <= last
    BY <1>3, <1>7
  <2> QED BY <1>7, <1>8, <2>1
<1>11. Cardinality(Given) = n
  <2>1. g \in [1..n -> Given] /\ \A i \in 1..n : g[i] = r.given[i]
    OBVIOUS
  <2>2. \A i, j \in 1..n : g[i] = g[j] => i = j
    <3>1. ASSUME NEW i \in 1..n, NEW j \in 1..n, i < j PROVE g[i] # g[j]
      <4>1. r.given[i] < r.given[j] /\ r.given[i] \in Nat /\ r.given[j] \in Nat
        BY <1>3, <3>1
      <4> QED BY <2>1, <4>1
    <3> HIDE DEF g, n
    <3>2. \A i, j \in 1..n : i = j \/ i < j \/ j < i
      BY <1>1
    <3> QED BY <3>1, <3>2
  <2>3. \A v \in Given : \E i \in 1..n : g[i] = v
    BY <2>1
  <2> HIDE DEF g, Given
  <2>4. g \in Injection(1..n, Given)
    BY <2>1, <2>2 DEF Injection, IsInjective
  <2>5. g \in Surjection(1..n, Given)
    BY <2>1, <2>3 DEF Surjection
  <2>6. ExistsBijection(1..n, Given)
    BY <2>4, <2>5 DEF Bijection, ExistsBijection
  <2>7. IsFiniteSet(1..n) /\ Cardinality(1..n) = n
    <3>1. 1 \in Int /\ n \in Int
      BY <1>1
    <3>2. Cardinality(1..n) = IF 1 > n THEN 0 ELSE n - 1 + 1
      BY <3>1, FS_Interval
    <3>3. IsFiniteSet(1..n)
      BY <3>1, FS_Interval
    <3> QED BY <1>1, <3>2, <3>3
  <2>8. Cardinality(Given) = Cardinality(1..n)
    BY <2>6, <2>7, FS_Bijection
  <2> QED BY <2>7, <2>8
<1>12. Cardinality(Missing) = Cardinality(Due) - n
  <2>1. Missing = Due \ Given
    BY <1>1
  <2>2. Due \cap Given = Given
    BY <1>10
  <2> HIDE DEF Missing, Due, Given
  <2>3. Cardinality(Due \ Given) = Cardinality(Due) - Cardinality(Due \cap Given)
    BY <1>9, FS_Difference
  <2>4. Cardinality(Missing) = Cardinality(Due \ Given)
    BY <2>1, Zenon
  <2>5. Cardinality(Due \cap Given) = n
    BY <1>11, <2>2, Zenon
  <2> QED BY <2>3, <2>4, <2>5
<1>13. Cardinality(Lost) = IF first > least THEN 0 ELSE least - first + 1
  <2>1. Lost = first..least
    BY <1>2, <1>7, <1>8
  <2>2. first \in Int /\ least \in Int
    BY <1>2, <1>7, <1>8
  <2> HIDE DEF least, Lost
  <2>3. Cardinality(first..least) = IF first > least THEN 0 ELSE least - first + 1
    BY <2>2, FS_Interval
  <2> QED BY <2>1, <2>3, Zenon
<1> HIDE DEF Due, Given, Missing, Lost, n, t
<1>14. Cardinality(Missing) <= Cardinality(Lost)
  <2>1. n \in Nat /\ Evicted(t) \in Nat
    BY <1>1, <1>2
  <2> QED BY <1>7, <1>8, <1>9, <1>12, <1>13, <2>1
<1>15. /\ {q \in DueNumbers : \A i \in DOMAIN replay.given : replay.given[i] # q} = Missing
       /\ {q \in DueNumbers : q <= Evicted(replay.tenant)} = Lost
  BY <1>6, Zenon DEF Missing, Lost, t
<1>16. /\ Cardinality({q \in DueNumbers : \A i \in DOMAIN replay.given : replay.given[i] # q})
             = Cardinality(Missing)
       /\ Cardinality({q \in DueNumbers : q <= Evicted(replay.tenant)}) = Cardinality(Lost)
  BY <1>15, Zenon
<1> QED BY <1>4, <1>14, <1>16 DEF n

\* What has been said of the bus holds in every state.
THEOREM BusInvariant == BusSpec => []BusInv
BY InitBus, BusNextKeeps, PTL DEF BusSpec

\* The bus, its ring buffer and a replay of it hold what their types say; no
\* sequence number passes the bound on the events.
THEOREM BusTypeCorrect == BusSpec => []BusTypeOK
<1>1. BusInv => BusTypeOK
  <2> SUFFICES ASSUME BusInv PROVE BusTypeOK
    OBVIOUS
  <2>1. BusTypes /\ NumberInv
    BY DEF BusInv
  <2>2. tenantSequences \in [Tenant -> 0..MaxEvents]
    <3>1. \A t \in Tenant : tenantSequences[t] \in 0..MaxEvents
      <4> TAKE t \in Tenant
      <4>1. tenantSequences[t] \in 0..Len(Stream) /\ Len(Stream) = Len(logged) + Len(calls)
        BY <2>1, SequencesFit
      <4>2. Len(Stream) \in Nat /\ Len(Stream) <= MaxEvents /\ MaxEvents \in Nat
        BY <2>1, <4>1, ConstantFacts DEF BusTypes
      <4> QED BY <4>1, <4>2
    <3> QED BY <2>1, <3>1 DEF BusTypes
  <2>3. replay.step \in {"off", "query", "give", "done", "failed"}
    BY <2>1 DEF BusTypes, Replays
  <2> QED BY <2>1, <2>2, <2>3 DEF BusTypes, BusTypeOK
<1> QED BY <1>1, BusInvariant, PTL

\* Subscribers are given the events they want in the order of storage with none
\* left out in between, however calls, microtasks, subscriptions and a stop of
\* the bus interleave; and a replay that runs while events are published and
\* evicted gives them in order, none twice, and misses no more than were evicted.
THEOREM DeliveriesInOrder == BusSpec => []DeliveryInOrder
<1>1. BusInv => DeliveryInOrder
  BY FaithfulFollows DEF BusInv, DeliveryInOrder
<1> QED BY <1>1, BusInvariant, PTL

-----------------------------------------------------------------------------
(***************************************************************************)
(* The realtime connections.                                               *)
(***************************************************************************)

RealtimeTypes ==
    /\ RealtimeTypeOK
    /\ beat \in [Socket -> BOOLEAN]
    /\ IsFiniteSet(subs) /\ DOMAIN up = Socket
    /\ case \in [validating : BOOLEAN, sockets : 0..MaxSockets, beats : Nat, underWay : Nat,
                 pages : SUBSET PageChannel]

\* A socket that has been opened has the login it was opened with, the server
\* knows of no other, and none has sent anything before it was open.
SocketsInv ==
    \A s \in Socket :
        /\ ws[s] # "unused" => opened[s] \in Login
        /\ ws[s] = "unused" => handler[s] = "none"
        /\ ws[s] \in {"unused", "connecting"} => up[s] = <<>>

\* What a client can ask for: its tenant's channel, or the pages' channels.
Command(s) ==
    ({"SUBSCRIBE", "UNSUBSCRIBE"} \X PageChannel) \cup {<<"SUBSCRIBE", TenantChannel[opened[s]]>>}

CommandsInv == \A s \in Socket : up[s] \in Seq(Command(s))

\* What the server holds of a socket.
ServerInv ==
    /\ \A s \in conns : handler[s] = "serving"
    /\ \A s \in Socket : \A ch \in Channel :
          <<s, ch>> \in listens =>
              /\ handler[s] = "serving" /\ ServerLogin(s) \in Admits[ch]
              /\ ws[s] = "connecting" => ch \notin PageChannel
    /\ \A s \in Socket :
          (handler[s] = "serving" /\ s \notin gone) =>
              /\ <<s, TenantChannel[ServerLogin(s)]>> \in listens
              /\ s \notin cut => s \in conns

GoneInv == NothingLeft /\ \A s \in gone \ missed : handler[s] = "serving"

\* The i-th message under way is the last one about the channel.
LastAbout(q, ch, i) ==
    i \in DOMAIN q /\ q[i][2] = ch /\ \A j \in DOMAIN q : j > i => q[j][2] # ch
Unasked(q, ch) == \A i \in DOMAIN q : q[i][2] # ch

Attended(s) == s # 0 /\ ws[s] = "open" /\ s \notin UNION {cut, gone, deaf}

\* The last message under way about a channel says what the pages want of it;
\* where there is none, the server has it right.
Agreed(s, ch) ==
    /\ Unasked(up[s], ch) =>
          (<<s, ch>> \in listens <=> (ch \in subs /\ ServerLogin(s) \in Admits[ch]))
    /\ \A i \in Nat : LastAbout(up[s], ch, i) => (up[s][i][1] = "SUBSCRIBE" <=> ch \in subs)

EffectInv == Attended(current) => \A ch \in PageChannel : Agreed(current, ch)

RealtimeInv ==
    /\ RealtimeTypes /\ SocketsInv /\ CommandsInv /\ ServerInv /\ GoneInv /\ EffectInv
    /\ NeverStranded

-----------------------------------------------------------------------------
\* Sockets are numbered from one, zero is none.
LEMMA SocketsAreNumbers == MaxSockets \in Nat /\ Socket \subseteq Nat /\ 0 \notin Socket
BY RealtimeAssumption DEF Socket

\* A tenant's own channel is no page's and admits nobody else.
LEMMA LoginsKnown ==
  /\ Login \subseteq Identity /\ DefaultLogin \in Identity /\ NoLogin \notin Login
  /\ \A l \in Identity : /\ TenantChannel[l] \in Channel \ PageChannel
                         /\ Admits[TenantChannel[l]] = {l}
  /\ PageChannel \subseteq Channel
  /\ \A ch \in Channel \ PageChannel : \E l \in Identity : ch = TenantChannel[l]
BY RealtimeAssumption DEF Identity, Channel

\* Whom the server takes a socket for is somebody it knows.
LEMMA ServerLoginKnown ==
  ASSUME RealtimeTypes, SocketsInv, NEW s \in Socket, ws[s] # "unused"
  PROVE  ServerLogin(s) \in Identity
BY LoginsKnown DEF SocketsInv, ServerLogin

(* The least of a set of numbers.                                          *)
(* What connect does: no socket, or one that has not been used before.     *)
LEMMA ConnectMeans ==
  ASSUME RealtimeTypes, NEW l \in Login \cup {NoLogin}, Connect(l)
  PROVE  /\ ws' \in [Socket -> {"unused", "connecting", "open", "closing", "over"}]
         /\ opened' \in [Socket -> Login \cup {NoLogin}]
         /\ current' \in Socket \cup {0}
         /\ \A s \in Socket \ {current'} :
               /\ opened'[s] = opened[s]
               /\ ws'[s] = IF s = current /\ Live(s) THEN "closing" ELSE ws[s]
         /\ current' # 0 => /\ ws[current'] = "unused" /\ ws'[current'] = "connecting"
                            /\ opened'[current'] = l /\ l # NoLogin
         /\ current' = 0 => l = NoLogin
<1> DEFINE unused == {s \in 1..case.sockets : ws[s] = "unused"}
           closed == [s \in Socket |-> IF s = current /\ Live(s) THEN "closing" ELSE ws[s]]
           n == CHOOSE x \in unused : \A y \in unused : x <= y
<1>1. closed \in [Socket -> {"unused", "connecting", "open", "closing", "over"}]
  BY DEF RealtimeTypes, RealtimeTypeOK
<1>2. opened \in [Socket -> Login \cup {NoLogin}]
  BY DEF RealtimeTypes, RealtimeTypeOK
<1>3. CASE l = NoLogin
  <2>1. ws' = closed /\ current' = 0 /\ opened' = opened
    BY <1>3 DEF Connect
  <2> QED BY <1>1, <1>2, <1>3, <2>1, SocketsAreNumbers
<1>4. CASE l # NoLogin
  <2>1. /\ unused # {}
        /\ ws' = [closed EXCEPT ![n] = "connecting"] /\ current' = n
        /\ opened' = [opened EXCEPT ![n] = l]
    BY <1>4 DEF Connect
  <2>2. unused \subseteq Socket
    BY SocketsAreNumbers DEF RealtimeTypes, Socket
  <2>3. unused \in SUBSET Nat
    BY <2>2, SocketsAreNumbers
  <2> HIDE DEF unused
  <2>4. n \in unused
    BY <2>1, <2>3, LeastExists
  <2>5. n \in Socket /\ ws[n] = "unused" /\ n # 0
    BY <2>2, <2>4, SocketsAreNumbers DEF unused
  <2> HIDE DEF n, closed
  <2>6. /\ ws' \in [Socket -> {"unused", "connecting", "open", "closing", "over"}]
        /\ opened' \in [Socket -> Login \cup {NoLogin}]
        /\ ws'[n] = "connecting" /\ opened'[n] = l
        /\ \A s \in Socket \ {n} : ws'[s] = closed[s] /\ opened'[s] = opened[s]
    BY <1>1, <1>2, <2>1, <2>5
  <2>7. \A s \in Socket \ {n} :
            closed[s] = IF s = current /\ Live(s) THEN "closing" ELSE ws[s]
    BY DEF closed
  <2> QED BY <1>4, <2>1, <2>5, <2>6, <2>7
<1> QED BY <1>3, <1>4

\* A connect leaves the other sockets and the server as they are.
LEMMA ConnectKeeps ==
  ASSUME RealtimeInv, NEW l \in Login \cup {NoLogin}, Connect(l),
         login' \in Login \cup {NoLogin}, timer' \in Login \cup {NoLogin},
         UNCHANGED <<subs, told, up, serverVars>>
  PROVE  RealtimeInv'
<1> USE DEF RealtimeInv
<1>1. /\ ws' \in [Socket -> {"unused", "connecting", "open", "closing", "over"}]
      /\ opened' \in [Socket -> Login \cup {NoLogin}]
      /\ current' \in Socket \cup {0}
      /\ \A s \in Socket \ {current'} :
            /\ opened'[s] = opened[s]
            /\ ws'[s] = IF s = current /\ Live(s) THEN "closing" ELSE ws[s]
      /\ current' # 0 => /\ ws[current'] = "unused" /\ ws'[current'] = "connecting"
                         /\ opened'[current'] = l /\ l # NoLogin
      /\ current' = 0 => l = NoLogin
  BY ConnectMeans
<1>2. UNCHANGED <<subs, told, up, handler, conns, beat, listens, cut, gone, case, refused, deaf,
                  missed>>
  BY DEF serverVars
<1>3. RealtimeTypes'
  BY <1>1, <1>2 DEF RealtimeTypes, RealtimeTypeOK
<1>4. SocketsInv'
  <2> SUFFICES ASSUME NEW s \in Socket
               PROVE  /\ ws'[s] # "unused" => opened'[s] \in Login
                      /\ ws'[s] = "unused" => handler'[s] = "none"
                      /\ ws'[s] \in {"unused", "connecting"} => up'[s] = <<>>
    BY DEF SocketsInv
  <2>1. CASE s = current'
    BY <1>1, <1>2, <2>1, SocketsAreNumbers DEF SocketsInv
  <2>2. CASE s # current'
    BY <1>1, <1>2, <2>2 DEF SocketsInv, Live
  <2> QED BY <2>1, <2>2
<1>5. \A s \in Socket : ws[s] = "unused" => (up[s] = <<>> /\ handler[s] = "none")
  BY DEF SocketsInv
<1>6. CommandsInv'
  <2> SUFFICES ASSUME NEW s \in Socket PROVE up'[s] \in Seq(Command(s)')
    BY DEF CommandsInv
  <2>1. CASE s = current'
    <3>1. up'[s] = <<>>
      BY <1>1, <1>2, <1>5, <2>1, SocketsAreNumbers
    <3> QED BY <3>1
  <2>2. CASE s # current'
    <3>1. Command(s)' = Command(s) /\ up'[s] = up[s]
      BY <1>1, <1>2, <2>2 DEF Command
    <3> QED BY <3>1 DEF CommandsInv
  <2> QED BY <2>1, <2>2
<1>7. \A s \in Socket : handler[s] # "none" => (s # current' /\ ServerLogin(s)' = ServerLogin(s))
  BY <1>1, <1>2, <1>5, SocketsAreNumbers DEF ServerLogin
<1>8. ServerInv'
  <2>1. \A s \in conns' : handler'[s] = "serving"
    BY <1>2 DEF ServerInv
  <2>2. ASSUME NEW s \in Socket, NEW ch \in Channel, <<s, ch>> \in listens'
        PROVE  /\ handler'[s] = "serving" /\ ServerLogin(s)' \in Admits[ch]
               /\ ws'[s] = "connecting" => ch \notin PageChannel
    <3>1. /\ handler[s] = "serving" /\ ServerLogin(s) \in Admits[ch]
          /\ ws[s] = "connecting" => ch \notin PageChannel
      BY <1>2, <2>2 DEF ServerInv
    <3> QED BY <1>1, <1>2, <1>7, <3>1
  <2>3. ASSUME NEW s \in Socket, handler'[s] = "serving", s \notin gone'
        PROVE  /\ <<s, TenantChannel[ServerLogin(s)']>> \in listens'
               /\ s \notin cut' => s \in conns'
    BY <1>2, <1>7, <2>3 DEF ServerInv
  <2> QED BY <2>1, <2>2, <2>3 DEF ServerInv
<1>9. GoneInv'
  BY <1>2 DEF GoneInv, NothingLeft
<1>10. EffectInv'
  BY <1>1 DEF EffectInv, Attended
<1>11. NeverStranded'
  <2>1. {s \in Socket : Live(s)'} \subseteq {current'}
    BY <1>1 DEF NeverStranded, Live
  <2>2. (current' # 0) => ws'[current'] # "over"
    BY <1>1
  <2>3. {s \in Socket : Live(s)}' \subseteq {current'}
    BY <2>1
  <2> QED BY <2>2, <2>3 DEF NeverStranded
<1> QED BY <1>3, <1>4, <1>6, <1>8, <1>9, <1>10, <1>11

-----------------------------------------------------------------------------
\* A finite set has a sequence that lists it once.
LEMMA SequenceOfSet ==
  ASSUME IsFiniteSet(subs)
  PROVE  /\ SetToSeq(subs) \in Seq(subs)
         /\ \A ch \in subs : \E i \in DOMAIN SetToSeq(subs) : SetToSeq(subs)[i] = ch
<1> DEFINE n == Cardinality(subs)
           f == SetToSeq(subs)
<1>1. n \in Nat /\ ExistsBijection(1..n, subs)
  BY FS_CardinalityType
<1>2. \E g \in [1..n -> subs] : IsInjective(g)
  BY <1>1 DEF ExistsBijection, Bijection, Injection
<1>3. f \in [1..n -> subs] /\ IsInjective(f)
  BY <1>2 DEF SetToSeq
<1>4. f \in Injection(1..n, subs)
  BY <1>3 DEF Injection
<1>5. Cardinality(1..n) = n
  BY <1>1, FS_Interval
<1>6. f \in Surjection(1..n, subs)
  BY <1>4, <1>5, FS_Injection
<1>7. \A ch \in subs : \E i \in 1..n : f[i] = ch
  BY <1>6 DEF Surjection
<1> HIDE DEF f, n
<1>8. f \in Seq(subs) /\ DOMAIN f = 1..n
  BY <1>1, <1>3
<1> QED BY <1>7, <1>8 DEF f

(* The client asks again for its tenant and for all that pages want.       *)
LEMMA ResubscribedMeans ==
  ASSUME RealtimeTypes, NEW s \in Socket
  PROVE  /\ Resubscribed(s) \in Seq(Command(s))
         /\ \A i \in DOMAIN Resubscribed(s) :
               \/ Resubscribed(s)[i] = <<"SUBSCRIBE", TenantChannel[opened[s]]>>
               \/ \E ch \in subs : Resubscribed(s)[i] = <<"SUBSCRIBE", ch>>
         /\ \A ch \in subs : \E i \in DOMAIN Resubscribed(s) : Resubscribed(s)[i][2] = ch
<1> DEFINE asked == SetToSeq(subs)
           first == <<"SUBSCRIBE", TenantChannel[opened[s]]>>
           rest == [i \in DOMAIN asked |-> <<"SUBSCRIBE", asked[i]>>]
<1>1. /\ asked \in Seq(subs) /\ subs \subseteq PageChannel
      /\ \A ch \in subs : \E i \in DOMAIN asked : asked[i] = ch
  BY SequenceOfSet DEF RealtimeTypes, RealtimeTypeOK
<1>2. Resubscribed(s) = <<first>> \o rest
  BY DEF Resubscribed
<1> HIDE DEF asked
<1>3. /\ Len(asked) \in Nat /\ DOMAIN asked = 1..Len(asked)
      /\ \A i \in DOMAIN asked : asked[i] \in subs
  BY <1>1
<1>4. rest \in Seq(Command(s)) /\ Len(rest) = Len(asked)
  <2>1. \A i \in 1..Len(asked) : rest[i] \in Command(s)
    BY <1>1, <1>3 DEF Command
  <2>2. rest \in [1..Len(asked) -> Command(s)]
    BY <1>3, <2>1
  <2> HIDE DEF rest
  <2> QED BY <1>3, <2>2
<1>5. first \in Command(s)
  BY DEF Command
<1>6. \A i \in DOMAIN rest : \E ch \in subs : rest[i] = <<"SUBSCRIBE", ch>>
  BY <1>3
<1>7. \A ch \in subs : \E i \in DOMAIN rest : rest[i] = <<"SUBSCRIBE", ch>>
  BY <1>1
<1> HIDE DEF rest, first
<1>8. <<first>> \in Seq(Command(s)) /\ Len(<<first>>) = 1 /\ <<first>>[1] = first
  BY <1>5
<1>9. /\ Resubscribed(s) \in Seq(Command(s))
      /\ DOMAIN Resubscribed(s) = 1..1 + Len(rest)
      /\ Resubscribed(s)[1] = first
      /\ \A i \in DOMAIN rest : Resubscribed(s)[i + 1] = rest[i]
  BY <1>2, <1>4, <1>8
<1>10. \A i \in DOMAIN Resubscribed(s) : i = 1 \/ (i - 1 \in DOMAIN rest)
  BY <1>4, <1>9
<1>11. \A i \in DOMAIN rest : i \in Nat /\ i + 1 \in DOMAIN Resubscribed(s)
  BY <1>4, <1>9
<1>12. ASSUME NEW i \in DOMAIN Resubscribed(s)
       PROVE  \/ Resubscribed(s)[i] = first
              \/ \E ch \in subs : Resubscribed(s)[i] = <<"SUBSCRIBE", ch>>
  <2>1. i \in Nat
    BY <1>4, <1>9
  <2>2. CASE i # 1
    <3>1. i - 1 \in DOMAIN rest /\ Resubscribed(s)[(i - 1) + 1] = rest[i - 1]
      BY <1>9, <1>10, <2>2
    <3>2. (i - 1) + 1 = i
      BY <2>1
    <3> QED BY <1>6, <3>1, <3>2
  <2> QED BY <1>9, <2>2
<1>13. ASSUME NEW ch \in subs PROVE \E i \in DOMAIN Resubscribed(s) : Resubscribed(s)[i][2] = ch
  <2>1. PICK i \in DOMAIN rest : rest[i] = <<"SUBSCRIBE", ch>>
    BY <1>7
  <2>2. i + 1 \in DOMAIN Resubscribed(s) /\ Resubscribed(s)[i + 1] = <<"SUBSCRIBE", ch>>
    BY <1>9, <1>11, <2>1
  <2> QED BY <2>2
<1> QED BY <1>9, <1>12, <1>13 DEF first

(* A message that is appended is the last one about its channel.           *)
LEMMA AppendedLast ==
  ASSUME NEW T, NEW q \in Seq(T), NEW m, NEW ch
  PROVE  /\ m[2] = ch =>
               /\ ~Unasked(Append(q, m), ch)
               /\ \A i \in Nat : LastAbout(Append(q, m), ch, i) => Append(q, m)[i] = m
         /\ m[2] # ch =>
               /\ Unasked(Append(q, m), ch) => Unasked(q, ch)
               /\ \A i \in Nat : LastAbout(Append(q, m), ch, i) =>
                                    Append(q, m)[i] = q[i] /\ LastAbout(q, ch, i)
<1>1. /\ Len(q) \in Nat /\ DOMAIN q = 1..Len(q) /\ DOMAIN Append(q, m) = 1..Len(q) + 1
      /\ Append(q, m)[Len(q) + 1] = m
      /\ \A j \in 1..Len(q) : Append(q, m)[j] = q[j]
  OBVIOUS
<1>2. CASE m[2] = ch
  <2>1. ~Unasked(Append(q, m), ch)
    BY <1>1, <1>2 DEF Unasked
  <2>2. ASSUME NEW i \in Nat, LastAbout(Append(q, m), ch, i) PROVE i = Len(q) + 1
    BY <1>1, <1>2, <2>2 DEF LastAbout
  <2> QED BY <1>1, <1>2, <2>1, <2>2
<1>3. CASE m[2] # ch
  <2>1. Unasked(Append(q, m), ch) => Unasked(q, ch)
    BY <1>1 DEF Unasked
  <2>2. ASSUME NEW i \in Nat, LastAbout(Append(q, m), ch, i)
        PROVE  Append(q, m)[i] = q[i] /\ LastAbout(q, ch, i)
    BY <1>1, <1>3, <2>2 DEF LastAbout
  <2> QED BY <1>3, <2>1, <2>2
<1> QED BY <1>2, <1>3

(* What is said about a channel behind the first message.                  *)
LEMMA TailLast ==
  ASSUME NEW T, NEW q \in Seq(T), q # <<>>, NEW ch
  PROVE  /\ \A i \in Nat : LastAbout(Tail(q), ch, i) =>
                              LastAbout(q, ch, i + 1) /\ q[i + 1] = Tail(q)[i]
         /\ (Unasked(Tail(q), ch) /\ q[1][2] # ch) => Unasked(q, ch)
         /\ (Unasked(Tail(q), ch) /\ q[1][2] = ch) => LastAbout(q, ch, 1)
<1>1. /\ Len(q) \in Nat \ {0} /\ DOMAIN q = 1..Len(q)
      /\ Tail(q) \in Seq(T) /\ Len(Tail(q)) = Len(q) - 1 /\ DOMAIN Tail(q) = 1..Len(q) - 1
      /\ \A j \in 1..Len(q) - 1 : Tail(q)[j] = q[j + 1]
  OBVIOUS
<1>2. \A j \in 1..Len(q) : j = 1 \/ (j - 1 \in 1..Len(q) - 1 /\ q[j] = Tail(q)[j - 1])
  <2> TAKE j \in 1..Len(q)
  <2>1. CASE j # 1
    <3>1. j - 1 \in 1..Len(q) - 1 /\ (j - 1) + 1 = j
      BY <1>1, <2>1
    <3> QED BY <1>1, <3>1
  <2> QED BY <2>1
<1>3. ASSUME NEW i \in Nat, LastAbout(Tail(q), ch, i)
      PROVE  LastAbout(q, ch, i + 1) /\ q[i + 1] = Tail(q)[i]
  <2>1. i \in 1..Len(q) - 1 /\ i + 1 \in 1..Len(q) /\ q[i + 1] = Tail(q)[i]
    BY <1>1, <1>3 DEF LastAbout
  <2>2. q[i + 1][2] = ch
    BY <1>3, <2>1 DEF LastAbout
  <2>3. ASSUME NEW j \in 1..Len(q), j > i + 1 PROVE q[j][2] # ch
    <3>1. j - 1 \in 1..Len(q) - 1 /\ q[j] = Tail(q)[j - 1] /\ j - 1 > i
      BY <1>2, <2>3, <1>1
    <3> QED BY <1>1, <1>3, <3>1 DEF LastAbout
  <2> QED BY <1>1, <2>1, <2>2, <2>3 DEF LastAbout
<1>4. ASSUME Unasked(Tail(q), ch), NEW j \in 1..Len(q), j # 1 PROVE q[j][2] # ch
  <2>1. PICK i \in 1..Len(q) - 1 : q[j] = Tail(q)[i]
    BY <1>2, <1>4
  <2>2. i \in DOMAIN Tail(q)
    BY <1>1, <2>1
  <2>3. Tail(q)[i][2] # ch
    BY <1>4, <2>2 DEF Unasked
  <2> QED BY <2>1, <2>3
<1> QED BY <1>1, <1>3, <1>4 DEF Unasked, LastAbout

-----------------------------------------------------------------------------
LEMMA OpensKeeps == ASSUME RealtimeInv, NEW s \in Socket, Opens(s) PROVE RealtimeInv'
<1> USE DEF RealtimeInv
<1>1. /\ ws[s] = "connecting" /\ handler[s] # "none"
      /\ ws' = [ws EXCEPT ![s] = "open"] /\ up' = [up EXCEPT ![s] = Resubscribed(s)]
      /\ UNCHANGED <<login, subs, current, timer, opened, told, handler, conns, beat, listens, cut,
                     gone, case, refused, deaf, missed>>
  BY DEF Opens, serverVars
<1>2. /\ ws \in [Socket -> {"unused", "connecting", "open", "closing", "over"}]
      /\ DOMAIN up = Socket
  BY DEF RealtimeTypes, RealtimeTypeOK
<1>3. /\ ws'[s] = "open" /\ up'[s] = Resubscribed(s)
      /\ \A o \in Socket \ {s} : ws'[o] = ws[o] /\ up'[o] = up[o]
  BY <1>1, <1>2
<1>4. RealtimeTypes'
  BY <1>1, <1>2 DEF RealtimeTypes, RealtimeTypeOK
<1>5. SocketsInv'
  BY <1>1, <1>3 DEF SocketsInv
<1>6. CommandsInv'
  <2>1. \A o \in Socket : Command(o)' = Command(o)
    BY <1>1 DEF Command
  <2> QED BY <1>1, <1>3, <2>1, ResubscribedMeans DEF CommandsInv
<1>7. \A o : ServerLogin(o)' = ServerLogin(o)
  BY <1>1 DEF ServerLogin
<1>8. ServerInv'
  BY <1>1, <1>3, <1>7 DEF ServerInv
<1>9. GoneInv'
  BY <1>1 DEF GoneInv, NothingLeft
<1>10. EffectInv'
  <2> SUFFICES ASSUME Attended(current)', NEW ch \in PageChannel
               PROVE  Agreed(current, ch)'
    BY DEF EffectInv
  <2>1. current' = current /\ current # 0 /\ current \in Socket
    BY <1>1 DEF RealtimeTypes, RealtimeTypeOK, Attended
  <2>3. CASE current = s
    <3>1. <<s, ch>> \notin listens
      BY <1>1, LoginsKnown DEF ServerInv
    <3>2. \A i \in DOMAIN Resubscribed(s) :
              Resubscribed(s)[i][2] = ch => (Resubscribed(s)[i][1] = "SUBSCRIBE" /\ ch \in subs)
      <4>1. opened[s] \in Identity
        BY <1>1, LoginsKnown DEF SocketsInv
      <4>2. TenantChannel[opened[s]] # ch
        BY <4>1, LoginsKnown
      <4> QED BY <4>2, ResubscribedMeans
    <3>3. ch \in subs => ~Unasked(Resubscribed(s), ch)
      BY ResubscribedMeans DEF Unasked
    <3> QED
      BY <1>1, <1>3, <2>3, <3>1, <3>2, <3>3 DEF Agreed, LastAbout
  <2>4. CASE current # s
    <3>1. Attended(current)
      BY <1>1, <1>3, <2>1, <2>4 DEF Attended
    <3>2. Agreed(current, ch)
      BY <3>1 DEF EffectInv
    <3>3. up'[current] = up[current]
      BY <1>3, <2>1, <2>4
    <3> QED BY <1>1, <1>7, <3>2, <3>3 DEF Agreed
  <2> QED BY <2>3, <2>4
<1>11. NeverStranded'
  BY <1>1, <1>3 DEF NeverStranded, Live
<1> QED BY <1>4, <1>5, <1>6, <1>8, <1>9, <1>10, <1>11

LEMMA ClosesKeeps == ASSUME RealtimeInv, NEW s \in Socket, Closes(s) PROVE RealtimeInv'
<1> USE DEF RealtimeInv
<1>1. /\ ws[s] # "unused" /\ ws' = [ws EXCEPT ![s] = "over"]
      /\ UNCHANGED <<login, subs, current, opened, up, handler, conns, beat, listens, cut,
                     gone, case, refused, deaf, missed>>
  BY DEF Closes, serverVars
<1>2. ws \in [Socket -> {"unused", "connecting", "open", "closing", "over"}]
  BY DEF RealtimeTypes, RealtimeTypeOK
<1>3. /\ ws'[s] = "over" /\ \A o \in Socket \ {s} : ws'[o] = ws[o]
  BY <1>1, <1>2
<1>4. \/ told' = told \cup {s} /\ timer' = timer
      \/ timer' = opened[s] /\ told' = told
  BY DEF Closes
<1>5. opened[s] \in Login /\ opened[s] # NoLogin
  BY <1>1, LoginsKnown DEF SocketsInv
<1>6. RealtimeTypes'
  BY <1>1, <1>2, <1>4, <1>5 DEF RealtimeTypes, RealtimeTypeOK
<1>7. SocketsInv'
  BY <1>1, <1>3 DEF SocketsInv
<1>8. CommandsInv'
  <2>1. \A o \in Socket : Command(o)' = Command(o)
    BY <1>1 DEF Command
  <2> QED BY <1>1, <2>1 DEF CommandsInv
<1>9. \A o : ServerLogin(o)' = ServerLogin(o)
  BY <1>1 DEF ServerLogin
<1>10. ServerInv'
  BY <1>1, <1>3, <1>9 DEF ServerInv
<1>11. GoneInv'
  BY <1>1 DEF GoneInv, NothingLeft
<1>12. EffectInv'
  <2> SUFFICES ASSUME Attended(current)', NEW ch \in PageChannel
               PROVE  Agreed(current, ch)'
    BY DEF EffectInv
  <2>1. current' = current /\ current # s /\ current \in Socket
    BY <1>1, <1>3 DEF RealtimeTypes, RealtimeTypeOK, Attended
  <2>2. Attended(current)
    BY <1>1, <1>3, <2>1 DEF Attended
  <2>3. Agreed(current, ch)
    BY <2>2 DEF EffectInv
  <2> QED BY <1>1, <1>9, <2>3 DEF Agreed
<1>13. NeverStranded'
  <2>1. \A o \in Socket : Live(o)' => Live(o)
    BY <1>3 DEF Live
  <2>2. {o \in Socket : Live(o)}' \subseteq {current'}
    BY <1>1, <2>1 DEF NeverStranded
  <2>3. (login' # NoLogin /\ current' # 0) =>
            (timer' # NoLogin \/ ws'[current'] # "over" \/ current' \in told')
    <3>1. CASE current = s
      <4>1. timer' = opened[s] \/ s \in told'
        BY <1>4
      <4> QED BY <1>1, <1>5, <3>1, <4>1
    <3>2. CASE current # s
      <4>1. current \in Socket \cup {0}
        BY DEF RealtimeTypes, RealtimeTypeOK
      <4>2. (timer # NoLogin => timer' # NoLogin) /\ told \subseteq told'
        BY <1>4, <1>5
      <4> QED BY <1>1, <1>3, <3>2, <4>1, <4>2 DEF NeverStranded
    <3> QED BY <3>1, <3>2
  <2> QED BY <2>2, <2>3 DEF NeverStranded
<1> QED BY <1>6, <1>7, <1>8, <1>10, <1>11, <1>12, <1>13

(* A page subscribes or leaves: the channel is noted, and the server told  *)
(* if the connection is open.                                              *)
LEMMA PageKeeps ==
  ASSUME RealtimeInv, NEW ch \in PageChannel, NEW kind \in {"SUBSCRIBE", "UNSUBSCRIBE"},
         subs' = IF kind = "SUBSCRIBE" THEN subs \cup {ch} ELSE subs \ {ch},
         Send(<<kind, ch>>),
         UNCHANGED <<login, current, timer, ws, opened, told, serverVars>>
  PROVE  RealtimeInv'
<1> USE DEF RealtimeInv
<1> DEFINE m == <<kind, ch>>
           sent == current # 0 /\ ws[current] = "open"
<1>1. UNCHANGED <<login, current, timer, ws, opened, told, handler, conns, beat, listens, cut, gone,
                  case, refused, deaf, missed>>
  BY DEF serverVars
<1>2. DOMAIN up = Socket /\ current \in Socket \cup {0}
  BY DEF RealtimeTypes, RealtimeTypeOK
<1>3. /\ IF sent THEN up' = [up EXCEPT ![current] = Append(@, m)] ELSE up' = up
      /\ DOMAIN up' = Socket
  BY <1>2 DEF Send
<1>4. /\ \A s \in Socket \ {current} : up'[s] = up[s]
      /\ sent => (current \in Socket /\ up'[current] = Append(up[current], m))
  BY <1>2, <1>3
<1>5. RealtimeTypes'
  <2>1. IsFiniteSet(subs \cup {ch}) /\ IsFiniteSet(subs \ {ch})
    BY FS_AddElement, FS_RemoveElement DEF RealtimeTypes
  <2> QED BY <1>1, <1>3, <2>1 DEF RealtimeTypes, RealtimeTypeOK
<1>6. SocketsInv'
  BY <1>1, <1>3, <1>4 DEF SocketsInv
<1>7. CommandsInv'
  <2> SUFFICES ASSUME NEW s \in Socket PROVE up'[s] \in Seq(Command(s)')
    BY DEF CommandsInv
  <2>1. Command(s)' = Command(s) /\ m \in Command(s)
    BY <1>1 DEF Command
  <2>2. up[s] \in Seq(Command(s))
    BY DEF CommandsInv
  <2>3. up'[s] = up[s] \/ up'[s] = Append(up[s], m)
    BY <1>3, <1>4
  <2> HIDE DEF m
  <2>4. Append(up[s], m) \in Seq(Command(s))
    BY <2>1, <2>2
  <2> QED BY <2>1, <2>2, <2>3, <2>4
<1>8. \A o : ServerLogin(o)' = ServerLogin(o)
  BY <1>1 DEF ServerLogin
<1>9. ServerInv'
  BY <1>1, <1>8 DEF ServerInv
<1>10. GoneInv'
  BY <1>1 DEF GoneInv, NothingLeft
<1>11. EffectInv'
  <2> SUFFICES ASSUME Attended(current)', NEW c \in PageChannel
               PROVE  Agreed(current, c)'
    BY DEF EffectInv
  <2>1. /\ current' = current /\ current \in Socket /\ sent
        /\ up'[current] = Append(up[current], m)
    BY <1>1, <1>4 DEF Attended
  <2>2. Agreed(current, c)
    BY <1>1 DEF Attended, EffectInv
  <2>3. up[current] \in Seq(Command(current))
    BY <2>1 DEF CommandsInv
  <2>4. CASE c = ch
    <3>1. m[2] = c /\ m[1] = kind
      BY <2>4
    <3> HIDE DEF m
    <3>2. ~Unasked(up'[current], c)
      BY <2>1, <2>3, <3>1, AppendedLast
    <3>3. \A i \in Nat : LastAbout(up'[current], c, i) => up'[current][i] = m
      <4>1. m[2] = c =>
               /\ ~Unasked(Append(up[current], m), c)
               /\ \A i \in Nat : LastAbout(Append(up[current], m), c, i) =>
                                    Append(up[current], m)[i] = m
        BY <2>3, AppendedLast, ZenonT(60)
      <4> QED BY <2>1, <3>1, <4>1
    <3>4. kind = "SUBSCRIBE" <=> c \in subs'
      BY <2>4
    <3> QED BY <2>1, <3>1, <3>2, <3>3, <3>4 DEF Agreed
  <2>5. CASE c # ch
    <3>1. m[2] # c
      BY <2>5
    <3> HIDE DEF m
    <3>2. Unasked(up'[current], c) => Unasked(up[current], c)
      BY <2>1, <2>3, <3>1, AppendedLast
    <3>3. \A i \in Nat : LastAbout(up'[current], c, i) =>
              LastAbout(up[current], c, i) /\ up'[current][i] = up[current][i]
      <4>1. \A i \in Nat : LastAbout(Append(up[current], m), c, i) =>
                Append(up[current], m)[i] = up[current][i] /\ LastAbout(up[current], c, i)
        BY <2>3, <3>1, AppendedLast
      <4> QED BY <2>1, <4>1
    <3>4. c \in subs' <=> c \in subs
      BY <2>5
    <3> QED BY <1>1, <1>8, <2>1, <2>2, <3>2, <3>3, <3>4 DEF Agreed
  <2> QED BY <2>4, <2>5
<1>12. NeverStranded'
  BY <1>1 DEF NeverStranded, Live
<1> QED BY <1>5, <1>6, <1>7, <1>9, <1>10, <1>11, <1>12

-----------------------------------------------------------------------------
(* A server step that leaves the client, what it has asked for and the     *)
(* server's subscriptions alone.                                           *)
LEMMA ServerLoginStays ==
  ASSUME RealtimeTypes, UNCHANGED opened, case' = case \/ case' = [case EXCEPT !.beats = @ - 1]
  PROVE  \A s : ServerLogin(s)' = ServerLogin(s)
<1>1. case'.validating = case.validating
  BY DEF RealtimeTypes
<1> QED BY <1>1 DEF ServerLogin

(* The client is registered: it has its tenant's channel and no other.     *)
LEMMA RegisterKeeps ==
  ASSUME RealtimeInv, NEW s \in Socket, ws[s] # "unused", handler[s] \in {"none", "auth"},
         Register(s), s \in gone => s \in missed,
         UNCHANGED <<clientVars, up, cut, gone, case, refused, deaf, missed>>
  PROVE  RealtimeInv'
<1> USE DEF RealtimeInv
<1> DEFINE t == <<s, TenantChannel[ServerLogin(s)]>>
<1>1. /\ handler' = [handler EXCEPT ![s] = "serving"] /\ conns' = conns \cup {s}
      /\ beat' = [beat EXCEPT ![s] = TRUE] /\ listens' = listens \cup {t}
      /\ UNCHANGED <<login, subs, current, timer, ws, opened, told, up, cut, gone, case, refused,
                     deaf, missed>>
  BY DEF Register, clientVars
<1>2. ServerLogin(s) \in Identity
  BY ServerLoginKnown
<1>3. /\ TenantChannel[ServerLogin(s)] \in Channel \ PageChannel
      /\ Admits[TenantChannel[ServerLogin(s)]] = {ServerLogin(s)}
  BY <1>2, LoginsKnown
<1>4. /\ handler'[s] = "serving"
      /\ \A o \in Socket \ {s} : handler'[o] = handler[o]
  BY <1>1 DEF RealtimeTypes, RealtimeTypeOK
<1>5. RealtimeTypes'
  BY <1>1, <1>3 DEF RealtimeTypes, RealtimeTypeOK
<1>6. SocketsInv'
  BY <1>1, <1>4 DEF SocketsInv
<1>7. CommandsInv'
  <2>1. \A o \in Socket : Command(o)' = Command(o)
    BY <1>1 DEF Command
  <2> QED BY <1>1, <2>1 DEF CommandsInv
<1>8. \A o : ServerLogin(o)' = ServerLogin(o)
  BY <1>1, ServerLoginStays
<1>9. ServerInv'
  <2>1. \A o \in conns' : handler'[o] = "serving"
    BY <1>1, <1>4 DEF ServerInv, RealtimeTypes, RealtimeTypeOK
  <2>2. ASSUME NEW o \in Socket, NEW ch \in Channel, <<o, ch>> \in listens'
        PROVE  /\ handler'[o] = "serving" /\ ServerLogin(o) \in Admits[ch]
               /\ ws[o] = "connecting" => ch \notin PageChannel
    <3>1. CASE <<o, ch>> = t
      BY <1>3, <1>4, <3>1
    <3>2. CASE <<o, ch>> \in listens
      BY <1>4, <3>2 DEF ServerInv
    <3> QED BY <1>1, <2>2, <3>1, <3>2
  <2>3. ASSUME NEW o \in Socket, handler'[o] = "serving", o \notin gone
        PROVE  /\ <<o, TenantChannel[ServerLogin(o)]>> \in listens'
               /\ o \notin cut => o \in conns'
    <3>1. CASE o = s
      BY <1>1, <3>1
    <3>2. CASE o # s
      BY <1>1, <1>4, <2>3, <3>2 DEF ServerInv
    <3> QED BY <3>1, <3>2
  <2> QED BY <1>1, <1>8, <2>1, <2>2, <2>3 DEF ServerInv
<1>10. GoneInv'
  <2>1. ASSUME NEW o \in gone \ missed
        PROVE  o # s /\ o \notin conns' /\ (\A l \in listens' : l[1] # o) /\ handler'[o] = "serving"
    <3>1. o # s /\ o \in Socket
      BY DEF RealtimeTypes, RealtimeTypeOK
    <3>2. t[1] = s
      OBVIOUS
    <3> QED BY <1>1, <1>4, <3>1, <3>2 DEF GoneInv, NothingLeft
  <2> QED BY <1>1, <2>1 DEF GoneInv, NothingLeft
<1>11. EffectInv'
  <2> SUFFICES ASSUME Attended(current)', NEW ch \in PageChannel
               PROVE  Agreed(current, ch)'
    BY DEF EffectInv
  <2>1. Agreed(current, ch)
    BY <1>1 DEF Attended, EffectInv
  <2>2. <<current, ch>> \in listens' <=> <<current, ch>> \in listens
    BY <1>1, <1>3
  <2> QED BY <1>1, <1>8, <2>1, <2>2 DEF Agreed
<1>12. NeverStranded'
  BY <1>1 DEF NeverStranded, Live
<1> QED BY <1>5, <1>6, <1>7, <1>9, <1>10, <1>11, <1>12

(* The handler goes on without registering the client.                     *)
LEMMA HandlerKeeps ==
  ASSUME RealtimeInv, NEW s \in Socket, ws[s] # "unused",
         handler[s] \in {"none", "auth"}, s \in gone => s \in missed,
         NEW to \in {"auth", "refused"}, handler' = [handler EXCEPT ![s] = to],
         refused' \in SUBSET Socket, refused \subseteq refused',
         UNCHANGED <<clientVars, up, conns, beat, listens, cut, gone, case, deaf, missed>>
  PROVE  RealtimeInv'
<1> USE DEF RealtimeInv
<1>1. UNCHANGED <<login, subs, current, timer, ws, opened, told, up, conns, beat, listens, cut, gone,
                  case, deaf, missed>>
  BY DEF clientVars
<1>2. /\ handler'[s] = to
      /\ \A o \in Socket \ {s} : handler'[o] = handler[o]
  BY DEF RealtimeTypes, RealtimeTypeOK
<1>3. RealtimeTypes'
  BY <1>1 DEF RealtimeTypes, RealtimeTypeOK
<1>4. SocketsInv'
  BY <1>1, <1>2 DEF SocketsInv
<1>5. CommandsInv'
  <2>1. \A o \in Socket : Command(o)' = Command(o)
    BY <1>1 DEF Command
  <2> QED BY <1>1, <2>1 DEF CommandsInv
<1>6. \A o : ServerLogin(o)' = ServerLogin(o)
  BY <1>1, ServerLoginStays
<1>7. ServerInv'
  <2>1. \A o \in conns : o # s /\ handler'[o] = "serving"
    BY <1>2 DEF ServerInv, RealtimeTypes, RealtimeTypeOK
  <2>2. \A o \in Socket, ch \in Channel : <<o, ch>> \in listens => o # s
    BY DEF ServerInv
  <2>3. \A o \in Socket : handler'[o] = "serving" => o # s
    BY <1>2
  <2> QED BY <1>1, <1>2, <1>6, <2>1, <2>2, <2>3 DEF ServerInv
<1>8. GoneInv'
  <2>1. \A o \in gone \ missed : o \in Socket /\ o # s
    BY DEF RealtimeTypes, RealtimeTypeOK
  <2> QED BY <1>1, <1>2, <2>1 DEF GoneInv, NothingLeft
<1>9. EffectInv'
  BY <1>1, <1>6 DEF EffectInv, Attended, Agreed
<1>10. NeverStranded'
  BY <1>1 DEF NeverStranded, Live
<1> QED BY <1>3, <1>4, <1>5, <1>7, <1>8, <1>9, <1>10

LEMMA AcceptKeeps == ASSUME RealtimeInv, NEW s \in Socket, Accept(s) PROVE RealtimeInv'
<1>1. CASE case.validating
  <2>1. /\ ws[s] # "unused" /\ handler[s] = "none" /\ s \notin gone
        /\ handler' = [handler EXCEPT ![s] = "auth"]
        /\ UNCHANGED <<clientVars, up, conns, beat, listens, cut, gone, case, refused, deaf, missed>>
    BY <1>1 DEF Accept
  <2>2. refused' \in SUBSET Socket
    BY <2>1 DEF RealtimeInv, RealtimeTypes, RealtimeTypeOK
  <2> QED BY <2>1, <2>2, HandlerKeeps
<1>2. CASE ~case.validating
  <2>1. /\ ws[s] # "unused" /\ handler[s] = "none" /\ s \notin gone /\ Register(s)
        /\ UNCHANGED <<clientVars, up, cut, gone, case, refused, deaf, missed>>
    BY <1>2 DEF Accept
  <2> QED BY <2>1, RegisterKeeps
<1> QED BY <1>1, <1>2

LEMMA VerifiedKeeps == ASSUME RealtimeInv, NEW s \in Socket, Verified(s) PROVE RealtimeInv'
<1>1. /\ handler[s] = "auth" /\ ws[s] # "unused"
  BY DEF Verified, RealtimeInv, SocketsInv
<1>2. s \in gone => s \in missed
  BY <1>1 DEF RealtimeInv, GoneInv
<1>3. CASE Register(s) /\ UNCHANGED refused
  BY <1>1, <1>2, <1>3, RegisterKeeps DEF Verified
<1>4. CASE /\ handler' = [handler EXCEPT ![s] = "refused"]
           /\ refused' = refused \cup {s} /\ UNCHANGED <<conns, beat, listens>>
  <2>1. refused' \in SUBSET Socket
    BY <1>4 DEF RealtimeInv, RealtimeTypes, RealtimeTypeOK
  <2> QED BY <1>1, <1>2, <1>4, <2>1, HandlerKeeps DEF Verified
<1> QED BY <1>3, <1>4 DEF Verified

LEMMA MessageKeeps == ASSUME RealtimeInv, NEW s \in Socket, Message(s) PROVE RealtimeInv'
<1> USE DEF RealtimeInv
<1> DEFINE T == Command(s)
           q == up[s]
           m == Head(up[s])
           l == ServerLogin(s)
<1>1. /\ q # <<>> /\ s \notin gone \cup cut /\ up' = [up EXCEPT ![s] = Tail(q)]
      /\ UNCHANGED <<login, subs, current, timer, ws, opened, told, handler, conns, beat, cut, gone,
                     case, refused, missed>>
  BY DEF Message, clientVars
<1>2. q \in Seq(T)
  BY DEF CommandsInv
<1>3. m \in T /\ m = q[1] /\ Tail(q) \in Seq(T)
  BY <1>1, <1>2
<1>4. /\ up'[s] = Tail(q) /\ DOMAIN up' = Socket
      /\ \A o \in Socket \ {s} : up'[o] = up[o]
  BY <1>1 DEF RealtimeTypes
<1>5. ws[s] \notin {"unused", "connecting"} /\ opened[s] \in Login
  BY <1>1 DEF SocketsInv
<1>6. l \in Identity
  BY <1>5, ServerLoginKnown
<1>7. /\ TenantChannel[opened[s]] \in Channel \ PageChannel
      /\ TenantChannel[l] \in Channel \ PageChannel /\ Admits[TenantChannel[l]] = {l}
      /\ PageChannel \subseteq Channel
  BY <1>5, <1>6, LoginsKnown
<1>8. m[2] \in Channel /\ (m[1] = "UNSUBSCRIBE" => m[2] \in PageChannel)
      /\ m[1] \in {"SUBSCRIBE", "UNSUBSCRIBE"}
  BY <1>3, <1>7 DEF Command
<1> HIDE DEF m, T
<1>9. /\ handler[s] = "serving" => (listens' = Listening(s, m) /\ deaf' = deaf)
      /\ handler[s] # "serving" => (deaf' = deaf \cup {s} /\ listens' = listens)
  BY DEF Message, m
<1>10. /\ m[1] = "UNSUBSCRIBE" => Listening(s, m) = listens \ {<<s, m[2]>>}
       /\ (m[1] = "SUBSCRIBE" /\ l \in Admits[m[2]]) => Listening(s, m) = listens \cup {<<s, m[2]>>}
       /\ (m[1] = "SUBSCRIBE" /\ l \notin Admits[m[2]]) => Listening(s, m) = listens
  <2>1. CASE m[1] = "UNSUBSCRIBE"
    BY <2>1 DEF Listening
  <2>2. CASE m[1] = "SUBSCRIBE" /\ l \in Admits[m[2]]
    BY <2>2 DEF Listening
  <2>3. CASE m[1] = "SUBSCRIBE" /\ l \notin Admits[m[2]]
    BY <2>3 DEF Listening
  <2> QED BY <1>8, <2>1, <2>2, <2>3
<1> HIDE DEF l
<1>11. /\ listens' \subseteq listens \cup {<<s, m[2]>>}
       /\ <<s, m[2]>> \in listens' =>
             (<<s, m[2]>> \in listens \/ (handler[s] = "serving" /\ l \in Admits[m[2]]))
       /\ \A o \in Socket, ch \in Channel :
             <<o, ch>> # <<s, m[2]>> => (<<o, ch>> \in listens' <=> <<o, ch>> \in listens)
  BY <1>8, <1>9, <1>10
<1>12. RealtimeTypes'
  BY <1>1, <1>4, <1>8, <1>9, <1>11 DEF RealtimeTypes, RealtimeTypeOK
<1>13. SocketsInv'
  BY <1>1, <1>4, <1>5 DEF SocketsInv
<1>14. CommandsInv'
  <2>1. \A o \in Socket : Command(o)' = Command(o)
    BY <1>1 DEF Command
  <2> QED BY <1>3, <1>4, <2>1 DEF CommandsInv, T
<1>15. \A o : ServerLogin(o)' = ServerLogin(o)
  BY <1>1, ServerLoginStays
<1>16. ServerInv'
  <2>1. \A o \in conns' : handler'[o] = "serving"
    BY <1>1 DEF ServerInv
  <2>2. ASSUME NEW o \in Socket, NEW ch \in Channel, <<o, ch>> \in listens'
        PROVE  /\ handler[o] = "serving" /\ ServerLogin(o) \in Admits[ch]
               /\ ws[o] = "connecting" => ch \notin PageChannel
    <3>1. CASE <<o, ch>> \in listens
      BY <3>1 DEF ServerInv
    <3>2. CASE <<o, ch>> \notin listens
      <4>1. o = s /\ ch = m[2]
        BY <1>11, <2>2, <3>2
      <4> QED BY <1>5, <1>11, <2>2, <3>2, <4>1 DEF l
    <3> QED BY <3>1, <3>2
  <2>3. ASSUME NEW o \in Socket, handler[o] = "serving", o \notin gone
        PROVE  /\ <<o, TenantChannel[ServerLogin(o)]>> \in listens'
               /\ o \notin cut => o \in conns
    <3>1. /\ <<o, TenantChannel[ServerLogin(o)]>> \in listens
          /\ o \notin cut => o \in conns
      BY <2>3 DEF ServerInv
    <3>2. CASE o = s
      <4>1. CASE m[2] = TenantChannel[l]
        <5>1. m[1] = "SUBSCRIBE" /\ l \in Admits[m[2]]
          BY <1>7, <1>8, <4>1
        <5> QED BY <1>9, <1>10, <2>3, <3>1, <3>2, <4>1, <5>1 DEF l
      <4>2. CASE m[2] # TenantChannel[l]
        BY <1>7, <1>11, <3>1, <3>2, <4>2 DEF l
      <4> QED BY <4>1, <4>2
    <3>3. CASE o # s
      <4>1. TenantChannel[ServerLogin(o)] \in Channel
        BY <3>1 DEF RealtimeTypes, RealtimeTypeOK
      <4> QED BY <1>11, <3>1, <3>3, <4>1
    <3> QED BY <3>2, <3>3
  <2> QED BY <1>1, <1>15, <2>1, <2>2, <2>3 DEF ServerInv
<1>17. GoneInv'
  <2>1. \A t \in listens' : t \in listens \/ t[1] = s
    BY <1>11
  <2> QED BY <1>1, <2>1 DEF GoneInv, NothingLeft
<1>18. EffectInv'
  <2> SUFFICES ASSUME Attended(current)', NEW ch \in PageChannel
               PROVE  Agreed(current, ch)'
    BY DEF EffectInv
  <2>1. /\ current' = current /\ Attended(current) /\ current \in Socket
        /\ current = s => handler[s] = "serving"
    BY <1>1, <1>9 DEF Attended, RealtimeTypes, RealtimeTypeOK
  <2>2. Agreed(current, ch)
    BY <2>1 DEF EffectInv
  <2>3. CASE current # s
    <3>1. <<current, ch>> \in listens' <=> <<current, ch>> \in listens
      BY <1>7, <1>11, <2>1, <2>3
    <3> QED BY <1>1, <1>4, <1>15, <2>1, <2>2, <2>3, <3>1 DEF Agreed
  <2>4. CASE current = s
    <3>1. /\ Unasked(q, ch) => (<<s, ch>> \in listens <=> (ch \in subs /\ l \in Admits[ch]))
          /\ \A i \in Nat : LastAbout(q, ch, i) => (q[i][1] = "SUBSCRIBE" <=> ch \in subs)
      BY <2>2, <2>4 DEF Agreed, l
    <3>2. \A i \in Nat : LastAbout(Tail(q), ch, i) => (Tail(q)[i][1] = "SUBSCRIBE" <=> ch \in subs)
      <4>1. \A i \in Nat : LastAbout(Tail(q), ch, i) =>
                LastAbout(q, ch, i + 1) /\ q[i + 1] = Tail(q)[i]
        BY <1>1, <1>2, TailLast
      <4>2. \A i \in Nat : i + 1 \in Nat
        OBVIOUS
      <4> QED BY <3>1, <4>1, <4>2
    <3>3. ASSUME Unasked(Tail(q), ch)
          PROVE  <<s, ch>> \in listens' <=> (ch \in subs /\ l \in Admits[ch])
      <4>1. CASE m[2] # ch
        <5>1. Unasked(q, ch)
          BY <1>1, <1>2, <1>3, <3>3, <4>1, TailLast
        <5> QED BY <1>7, <1>11, <3>1, <4>1, <5>1
      <4>2. CASE m[2] = ch
        <5>1. LastAbout(q, ch, 1)
          BY <1>1, <1>2, <1>3, <3>3, <4>2, TailLast
        <5>2. m[1] = "SUBSCRIBE" <=> ch \in subs
          BY <1>3, <3>1, <5>1
        <5>3. <<s, ch>> \in listens => l \in Admits[ch]
          BY <1>7 DEF ServerInv, l
        <5> QED BY <1>8, <1>9, <1>10, <2>1, <2>4, <4>2, <5>2, <5>3
      <4> QED BY <4>1, <4>2
    <3> QED BY <1>1, <1>4, <1>15, <2>1, <2>4, <3>2, <3>3 DEF Agreed, l
  <2> QED BY <2>3, <2>4
<1>19. NeverStranded'
  BY <1>1 DEF NeverStranded, Live
<1> QED BY <1>12, <1>13, <1>14, <1>16, <1>17, <1>18, <1>19

LEMMA CloseKeeps == ASSUME RealtimeInv, NEW s \in Socket, Close(s) PROVE RealtimeInv'
<1> USE DEF RealtimeInv
<1>1. /\ gone' = gone \cup {s} /\ up' = [up EXCEPT ![s] = <<>>]
      /\ UNCHANGED <<login, subs, current, timer, ws, opened, told, handler, beat, cut, case,
                     refused, deaf>>
  BY DEF Close, clientVars
<1>2. \/ /\ handler[s] = "serving" /\ listens' = {t \in listens : t[1] # s}
         /\ conns' = conns \ {s} /\ missed' = missed
      \/ /\ handler[s] # "serving" /\ missed' = missed \cup {s}
         /\ listens' = listens /\ conns' = conns
  BY DEF Close
<1>3. /\ up'[s] = <<>> /\ DOMAIN up' = Socket
      /\ \A o \in Socket \ {s} : up'[o] = up[o]
  BY <1>1 DEF RealtimeTypes
<1>4. /\ listens' \subseteq listens /\ conns' \subseteq conns
      /\ \A o \in Socket \ {s} : /\ o \in conns' <=> o \in conns
                               /\ \A ch : <<o, ch>> \in listens' <=> <<o, ch>> \in listens
  BY <1>2
<1>5. RealtimeTypes'
  BY <1>1, <1>2, <1>3, <1>4 DEF RealtimeTypes, RealtimeTypeOK
<1>6. SocketsInv'
  BY <1>1, <1>3 DEF SocketsInv
<1>7. CommandsInv'
  <2>1. \A o \in Socket : Command(o)' = Command(o)
    BY <1>1 DEF Command
  <2>2. <<>> \in Seq(Command(s))
    OBVIOUS
  <2> QED BY <1>3, <2>1, <2>2 DEF CommandsInv
<1>8. \A o : ServerLogin(o)' = ServerLogin(o)
  BY <1>1, ServerLoginStays
<1>9. ServerInv'
  BY <1>1, <1>4, <1>8 DEF ServerInv
<1>10. GoneInv'
  <2>1. \A o \in gone' \ missed' : o = s \/ o \in gone \ missed
    BY <1>1, <1>2
  <2>2. s \notin missed' =>
            (handler[s] = "serving" /\ s \notin conns' /\ \A t \in listens' : t[1] # s)
    BY <1>2
  <2> QED BY <1>1, <1>4, <2>1, <2>2 DEF GoneInv, NothingLeft
<1>11. EffectInv'
  <2> SUFFICES ASSUME Attended(current)', NEW ch \in PageChannel
               PROVE  Agreed(current, ch)'
    BY DEF EffectInv
  <2>1. current' = current /\ current \in Socket /\ current # s /\ Attended(current)
    BY <1>1 DEF Attended, RealtimeTypes, RealtimeTypeOK
  <2> QED BY <1>1, <1>3, <1>4, <1>8, <2>1 DEF Agreed, EffectInv
<1>12. NeverStranded'
  BY <1>1 DEF NeverStranded, Live
<1> QED BY <1>5, <1>6, <1>7, <1>9, <1>10, <1>11, <1>12

LEMMA HeartbeatKeeps == ASSUME RealtimeInv, Heartbeat PROVE RealtimeInv'
<1> USE DEF RealtimeInv
<1> DEFINE dead == {s \in conns : ~beat[s]}
<1>1. /\ case.beats > 0 /\ case' = [case EXCEPT !.beats = @ - 1]
      /\ conns' = conns \ dead /\ cut' = cut \cup dead
      /\ beat' = [s \in Socket |-> beat[s] /\ s \notin conns]
      /\ UNCHANGED <<login, subs, current, timer, ws, opened, told, up, handler, listens, gone,
                     refused, deaf, missed>>
  BY DEF Heartbeat, clientVars
<1>2. dead \subseteq conns
  OBVIOUS
<1> HIDE DEF dead
<1>3. case' \in [validating : BOOLEAN, sockets : 0..MaxSockets, beats : Nat, underWay : Nat,
                 pages : SUBSET PageChannel]
  BY <1>1 DEF RealtimeTypes
<1>4. RealtimeTypes'
  <2>1. beat' \in [Socket -> BOOLEAN]
    BY <1>1
  <2> QED BY <1>1, <1>2, <1>3, <2>1 DEF RealtimeTypes, RealtimeTypeOK
<1>5. SocketsInv'
  BY <1>1 DEF SocketsInv
<1>6. CommandsInv'
  <2>1. \A o \in Socket : Command(o)' = Command(o)
    BY <1>1 DEF Command
  <2> QED BY <1>1, <2>1 DEF CommandsInv
<1>7. \A o : ServerLogin(o)' = ServerLogin(o)
  BY <1>1, ServerLoginStays
<1>8. ServerInv'
  BY <1>1, <1>2, <1>7 DEF ServerInv
<1>9. GoneInv'
  BY <1>1 DEF GoneInv, NothingLeft
<1>10. EffectInv'
  BY <1>1, <1>7 DEF EffectInv, Attended, Agreed
<1>11. NeverStranded'
  BY <1>1 DEF NeverStranded, Live
<1> QED BY <1>4, <1>5, <1>6, <1>8, <1>9, <1>10, <1>11

\* Everything that the invariant is about but beat, which has only a type.
LEMMA BeatKeeps ==
  ASSUME RealtimeInv, beat' \in [Socket -> BOOLEAN],
         UNCHANGED <<clientVars, up, handler, conns, listens, cut, gone, case, refused, deaf, missed>>
  PROVE  RealtimeInv'
<1> USE DEF RealtimeInv
<1>1. UNCHANGED <<login, subs, current, timer, ws, opened, told, up, handler, conns, listens, cut,
                  gone, case, refused, deaf, missed>>
  BY DEF clientVars
<1>2. RealtimeTypes' /\ SocketsInv'
  BY <1>1 DEF RealtimeTypes, RealtimeTypeOK, SocketsInv
<1>3. CommandsInv'
  <2>1. \A o \in Socket : Command(o)' = Command(o)
    BY <1>1 DEF Command
  <2> QED BY <1>1, <2>1 DEF CommandsInv
<1>4. \A o : ServerLogin(o)' = ServerLogin(o)
  BY <1>1 DEF ServerLogin
<1>5. ServerInv'
  BY <1>1, <1>4 DEF ServerInv
<1>6. GoneInv' /\ NeverStranded'
  BY <1>1 DEF GoneInv, NothingLeft, NeverStranded, Live
<1>7. EffectInv'
  BY <1>1, <1>4 DEF EffectInv, Attended, Agreed
<1> QED BY <1>2, <1>3, <1>5, <1>6, <1>7

-----------------------------------------------------------------------------
LEMMA RealtimeInitHolds == ASSUME RealtimeInit PROVE RealtimeInv
<1>1. RealtimeTypes
  BY FS_EmptySet, RealtimeAssumption DEF RealtimeInit, RealtimeTypes, RealtimeTypeOK
<1>2. SocketsInv /\ ServerInv /\ GoneInv /\ NeverStranded
  BY DEF RealtimeInit, SocketsInv, ServerInv, GoneInv, NothingLeft, NeverStranded, Live
<1>3. CommandsInv
  BY DEF RealtimeInit, CommandsInv
<1>4. EffectInv
  BY DEF RealtimeInit, EffectInv, Attended
<1> QED BY <1>1, <1>2, <1>3, <1>4 DEF RealtimeInv

LEMMA RealtimeNextKeeps == ASSUME RealtimeInv, [RealtimeNext]_realtimeVars PROVE RealtimeInv'
<1>1. {login, timer} \subseteq Login \cup {NoLogin}
  BY DEF RealtimeInv, RealtimeTypes, RealtimeTypeOK
<1>2. ASSUME NEW l \in Login \cup {NoLogin}, SetLogin(l) PROVE RealtimeInv'
  BY <1>2, ConnectKeeps DEF SetLogin
<1>3. ASSUME Reconnect PROVE RealtimeInv'
  BY <1>1, <1>3, ConnectKeeps DEF Reconnect
<1>4. ASSUME ReconnectTimer PROVE RealtimeInv'
  BY <1>1, <1>4, ConnectKeeps DEF ReconnectTimer
<1>5. ASSUME NEW ch \in PageChannel, Subscribe(ch) PROVE RealtimeInv'
  BY <1>5, PageKeeps DEF Subscribe
<1>6. ASSUME NEW ch \in PageChannel, Leave(ch) PROVE RealtimeInv'
  BY <1>6, PageKeeps DEF Leave
<1>7. ASSUME NEW s \in Socket, Pong(s) PROVE RealtimeInv'
  <2>1. beat' \in [Socket -> BOOLEAN]
    BY <1>7 DEF Pong, RealtimeInv, RealtimeTypes
  <2> QED BY <1>7, <2>1, BeatKeeps DEF Pong
<1>8. ASSUME UNCHANGED realtimeVars PROVE RealtimeInv'
  <2>1. beat' \in [Socket -> BOOLEAN]
    BY <1>8 DEF realtimeVars, serverVars, RealtimeInv, RealtimeTypes
  <2> QED BY <1>8, <2>1, BeatKeeps DEF realtimeVars, serverVars
<1> QED
  BY <1>2, <1>3, <1>4, <1>5, <1>6, <1>7, <1>8, OpensKeeps, ClosesKeeps, AcceptKeeps, VerifiedKeeps,
     MessageKeeps, CloseKeeps, HeartbeatKeeps
  DEF RealtimeNext

\* What has been said of the connections holds in every state.
LEMMA RealtimeInvariance == RealtimeSpec => []RealtimeInv
<1>1. RealtimeInit => RealtimeInv
  BY RealtimeInitHolds
<1>2. RealtimeInv /\ [RealtimeNext]_realtimeVars => RealtimeInv'
  BY RealtimeNextKeeps
<1> QED BY <1>1, <1>2, PTL DEF RealtimeSpec

\* Browser, wire and server keep their types.
THEOREM RealtimeTypeCorrect == RealtimeSpec => []RealtimeTypeOK
<1>1. RealtimeInv => RealtimeTypeOK
  BY DEF RealtimeInv, RealtimeTypes
<1> QED BY <1>1, RealtimeInvariance, PTL

\* With no message under way the server listens for what the pages want.
LEMMA EffectFollows == ASSUME RealtimeInv PROVE InEffect
<1> USE DEF RealtimeInv
<1> SUFFICES ASSUME current # 0, ws[current] = "open", up[current] = <<>>,
                    handler[current] = "serving", current \notin UNION {cut, gone, deaf}
             PROVE  LET l == ServerLogin(current)
                        wanted == {ch \in subs : l \in Admits[ch]} \cup {TenantChannel[l]}
                    IN  /\ {ch \in Channel : <<current, ch>> \in listens} = wanted
                        /\ \A tenant \in Identity, ch \in Channel :
                               current \in Receivers(tenant, ch) <=> tenant = l
  BY DEF InEffect
<1> DEFINE l == ServerLogin(current)
<1>1. current \in Socket /\ subs \subseteq PageChannel
  BY DEF RealtimeTypes, RealtimeTypeOK
<1>2. l \in Identity
  BY <1>1, ServerLoginKnown
<1>3. /\ TenantChannel[l] \in Channel \ PageChannel /\ PageChannel \subseteq Channel
      /\ \A ch \in Channel \ PageChannel :
            \E k \in Identity : ch = TenantChannel[k] /\ Admits[ch] = {k}
  BY <1>2, LoginsKnown
<1>4. \A ch \in PageChannel : <<current, ch>> \in listens <=> (ch \in subs /\ l \in Admits[ch])
  BY DEF EffectInv, Attended, Agreed, Unasked
<1>5. /\ <<current, TenantChannel[l]>> \in listens /\ current \in conns
      /\ \A ch \in Channel : <<current, ch>> \in listens => l \in Admits[ch]
  BY <1>1 DEF ServerInv
<1> HIDE DEF l
<1>6. \A ch \in Channel \ PageChannel : <<current, ch>> \in listens => ch = TenantChannel[l]
  BY <1>3, <1>5
<1>7. {ch \in Channel : <<current, ch>> \in listens} =
          {ch \in subs : l \in Admits[ch]} \cup {TenantChannel[l]}
  BY <1>1, <1>3, <1>4, <1>5, <1>6
<1>8. \A tenant \in Identity, ch \in Channel : current \in Receivers(tenant, ch) <=> tenant = l
  BY <1>5 DEF Receivers, l
<1> QED BY <1>7, <1>8 DEF l

\* Through lost connections, logins, subscriptions and messages under way a client
\* stays connected, the server listens for what its pages ask for and its login
\* admits, and of a socket whose end the server has seen nothing is left.
THEOREM ConnectionsKept == RealtimeSpec => []ConnectionKept
<1>1. RealtimeInv => ConnectionKept
  BY EffectFollows DEF RealtimeInv, GoneInv, ConnectionKept
<1> QED BY <1>1, RealtimeInvariance, PTL

-----------------------------------------------------------------------------
(***************************************************************************)
(* The chat.                                                               *)
(***************************************************************************)

\* A process has asked for a start exactly when it has registered a handle, and
\* who asks for one is registered.
HandleInv ==
    /\ starts = IF registered THEN 1 ELSE 0
    /\ core # "absent" => registered
    /\ core = "over" => isEnded
    /\ \A s \in Sender : at[s] = "starting" => registered

\* While reads and writes do not overlap and succeed, what a call is about to
\* write lies between the row and the files.
RowInv ==
    (~overlapped /\ unread = 0) =>
        /\ shown <= row /\ row <= written
        /\ \A s \in Sender : at[s] = "update" => (row <= fetched[s] /\ fetched[s] <= written)
        /\ \A s, o \in Sender : (at[s] = "update" /\ at[o] = "update") => s = o

ChatInv == ChatTypeOK /\ HandleInv /\ RowInv

\* The bounds of the chat are numbers.
LEMMA ChatBounds == MaxMessages \in Nat /\ MaxReadFaults \in Nat /\ MaxStops \in Nat
BY ChatAssumption

LEMMA ChatInitHolds == ASSUME ChatInit PROVE ChatInv
<1>1. /\ at \in [Sender -> Places] /\ fetched \in [Sender -> 0..MaxMessages]
      /\ unread \in 0..MaxReadFaults /\ stops \in 0..MaxStops
      /\ 0 \in 0..MaxMessages
  BY ChatBounds DEF ChatInit, Places
<1>2. ChatTypeOK
  BY <1>1 DEF ChatInit, ChatTypeOK
<1>3. HandleInv /\ RowInv
  BY DEF ChatInit, HandleInv, RowInv
<1> QED BY <1>2, <1>3 DEF ChatInv

\* A call goes on: its place changes and no other call's does.
LEMMA GoesMeans ==
  ASSUME ChatTypeOK, NEW s \in Sender, NEW from, NEW to \in Places, Goes(s, from, to)
  PROVE  /\ at' \in [Sender -> Places] /\ at[s] = from /\ at'[s] = to
         /\ \A o \in Sender \ {s} : at'[o] = at[o]
BY DEF ChatTypeOK, Goes

\* A call goes on to a place other than starting and update.
LEMMA CallMoves ==
  ASSUME ChatInv, NEW s \in Sender, NEW from, NEW to \in Places \ {"starting", "update"},
         Goes(s, from, to),
         UNCHANGED <<registered, isEnded, core, written, row, fetched, starts, shown, overlapped,
                     unread, stops>>
  PROVE  ChatInv'
<1>1. /\ at' \in [Sender -> Places] /\ at'[s] \notin {"starting", "update"}
      /\ \A o \in Sender \ {s} : at'[o] = at[o]
  BY GoesMeans DEF ChatInv
<1>2. ChatTypeOK'
  BY <1>1 DEF ChatInv, ChatTypeOK
<1>3. HandleInv'
  BY <1>1 DEF ChatInv, HandleInv
<1>4. RowInv'
  BY <1>1 DEF ChatInv, RowInv
<1> QED BY <1>2, <1>3, <1>4 DEF ChatInv

LEMMA StartSessionKeeps ==
  ASSUME ChatInv, NEW s \in Sender, StartSession(s) PROVE ChatInv'
<1>1. /\ at' \in [Sender -> Places] /\ at'[s] = "starting"
      /\ \A o \in Sender \ {s} : at'[o] = at[o]
  BY GoesMeans DEF ChatInv, StartSession, Places
<1>2. ChatTypeOK'
  <2>1. starts \in Nat /\ starts' = starts + 1
    BY DEF ChatInv, ChatTypeOK, StartSession
  <2>2. starts' \in Nat
    BY <2>1
  <2> QED BY <1>1, <2>2 DEF ChatInv, ChatTypeOK, StartSession
<1>3. HandleInv'
  BY <1>1 DEF ChatInv, HandleInv, StartSession
<1>4. RowInv'
  BY <1>1 DEF ChatInv, RowInv, StartSession
<1> QED BY <1>2, <1>3, <1>4 DEF ChatInv

LEMMA FetchKeeps ==
  ASSUME ChatInv, NEW s \in Sender, Fetch(s) PROVE ChatInv'
<1>1. /\ at' \in [Sender -> Places] /\ at'[s] = "update"
      /\ \A o \in Sender \ {s} : at'[o] = at[o]
  BY GoesMeans DEF ChatInv, Fetch, Places
<1>2. /\ fetched' \in [Sender -> 0..MaxMessages] /\ unread' \in 0..MaxReadFaults
      /\ \A o \in Sender \ {s} : fetched'[o] = fetched[o]
      /\ unread' = 0 => (unread = 0 /\ fetched'[s] = written)
  BY ChatBounds DEF ChatInv, ChatTypeOK, Fetch
<1>3. ChatTypeOK'
  BY <1>1, <1>2 DEF ChatInv, ChatTypeOK, Fetch
<1>4. HandleInv'
  BY <1>1 DEF ChatInv, HandleInv, Fetch
<1>5. RowInv'
  <2> SUFFICES ASSUME ~overlapped', unread' = 0
               PROVE  /\ shown <= row /\ row <= written
                      /\ \A o \in Sender : at'[o] = "update" => o = s
                      /\ fetched'[s] = written
    BY <1>1 DEF RowInv, Fetch, ChatInv, ChatTypeOK
  <2>1. \A o \in Sender \ {s} : at[o] # "update"
    BY DEF Fetch
  <2>2. ~overlapped /\ unread = 0 /\ fetched'[s] = written
    BY <1>2 DEF Fetch
  <2>3. shown <= row /\ row <= written
    BY <2>2 DEF ChatInv, RowInv
  <2> QED BY <1>1, <2>1, <2>2, <2>3
<1> QED BY <1>3, <1>4, <1>5 DEF ChatInv

LEMMA UpdateKeeps ==
  ASSUME ChatInv, NEW s \in Sender, Update(s) PROVE ChatInv'
<1>1. /\ at' \in [Sender -> Places] /\ at[s] = "update" /\ at'[s] = "idle"
      /\ \A o \in Sender \ {s} : at'[o] = at[o]
  BY GoesMeans DEF ChatInv, Update, Places
<1>2. /\ fetched' \in [Sender -> 0..MaxMessages]
      /\ {row', shown'} \subseteq 0..MaxMessages
      /\ row' = fetched[s] /\ shown' \in {fetched[s], shown}
      /\ \A o \in Sender \ {s} : fetched'[o] = fetched[o]
  BY ChatBounds DEF ChatInv, ChatTypeOK, Update
<1>3. ChatTypeOK'
  BY <1>1, <1>2 DEF ChatInv, ChatTypeOK, Update
<1>4. HandleInv'
  BY <1>1 DEF ChatInv, HandleInv, Update
<1>5. RowInv'
  BY <1>1, <1>2 DEF ChatInv, ChatTypeOK, RowInv, Update
<1> QED BY <1>3, <1>4, <1>5 DEF ChatInv

LEMMA CoreKeeps ==
  ASSUME ChatInv, CoreStarts \/ CoreWrites \/ CoreEnds PROVE ChatInv'
<1>1. CASE CoreStarts
  BY <1>1 DEF ChatInv, ChatTypeOK, HandleInv, RowInv, CoreStarts
<1>2. CASE CoreWrites
  <2>1. written \in Nat /\ written' = written + 1 /\ written' \in 0..MaxMessages
    BY <1>2, ChatBounds DEF ChatInv, ChatTypeOK, CoreWrites
  <2>2. ChatTypeOK' /\ HandleInv'
    BY <1>2, <2>1 DEF ChatInv, ChatTypeOK, HandleInv, CoreWrites
  <2>3. RowInv'
    BY <1>2, <2>1 DEF ChatInv, ChatTypeOK, RowInv, CoreWrites
  <2> QED BY <2>2, <2>3 DEF ChatInv
<1>3. CASE CoreEnds
  BY <1>3 DEF ChatInv, ChatTypeOK, HandleInv, RowInv, CoreEnds
<1> QED BY <1>1, <1>2, <1>3

LEMMA BackendRestartKeeps == ASSUME ChatInv, Restart PROVE ChatInv'
<1>1. ChatTypeOK'
  <2>1. stops' \in 0..MaxStops
    BY ChatBounds DEF ChatInv, ChatTypeOK, Restart
  <2>2. at' \in [Sender -> Places] /\ fetched' \in [Sender -> 0..MaxMessages]
    BY ChatBounds DEF Restart, Places
  <2> QED BY <2>1, <2>2 DEF ChatInv, ChatTypeOK, Restart
<1>2. HandleInv'
  BY DEF HandleInv, Restart
<1>3. RowInv'
  BY DEF ChatInv, RowInv, Restart
<1> QED BY <1>1, <1>2, <1>3 DEF ChatInv

LEMMA ChatNextKeeps == ASSUME ChatInv, [ChatNext]_chatVars PROVE ChatInv'
<1>1. CASE UNCHANGED chatVars
  BY <1>1 DEF ChatInv, ChatTypeOK, HandleInv, RowInv, chatVars
<1>2. ASSUME NEW s \in Sender, SendMessage(s) PROVE ChatInv'
  BY <1>2, CallMoves DEF SendMessage, Places
<1>3. ASSUME NEW s \in Sender, FollowUp(s) PROVE ChatInv'
  BY <1>3, CallMoves DEF FollowUp, Places
<1>4. ASSUME NEW s \in Sender, CoreAnswers(s) PROVE ChatInv'
  BY <1>4, CallMoves DEF CoreAnswers, Places
<1>5. ASSUME NEW s \in Sender, CoreFails(s) PROVE ChatInv'
  BY <1>5, CallMoves DEF CoreFails, Places
<1>6. ASSUME NEW s \in Sender, WaitIsOver(s) PROVE ChatInv'
  BY <1>6, CallMoves DEF WaitIsOver, Places
<1> QED
  BY <1>1, <1>2, <1>3, <1>4, <1>5, <1>6, StartSessionKeeps, FetchKeeps, UpdateKeeps, CoreKeeps,
     BackendRestartKeeps
  DEF ChatNext, ChatSteps

\* What has been said of the chat holds in every state.
LEMMA ChatInvariance == ChatSpec => []ChatInv
<1>1. ChatInit => ChatInv
  BY ChatInitHolds
<1>2. ChatInv /\ [ChatNext]_chatVars => ChatInv'
  BY ChatNextKeeps
<1> QED BY <1>1, <1>2, PTL DEF ChatSpec

\* The chat's row, files, handle and calls keep their types.
THEOREM ChatTypeCorrect == ChatSpec => []ChatTypeOK
<1>1. ChatInv => ChatTypeOK
  BY DEF ChatInv
<1> QED BY <1>1, ChatInvariance, PTL

\* However messages overlap, a process asks the core once to start a session, and
\* no call waits for a session that is over.
THEOREM SessionStartsOnce == ChatSpec => []OneHandle
<1>1. ChatInv => OneHandle
  BY DEF ChatInv, HandleInv, OneHandle
<1> QED BY <1>1, ChatInvariance, PTL

\* The row never falls behind what a caller was shown, also across restarts, but
\* for calls that overlap and reads that fail.
THEOREM RowNeverBehind == ChatSpec => []RowKeepsUp
<1>1. ChatInv => RowKeepsUp
  BY DEF ChatInv, ChatTypeOK, RowInv, RowKeepsUp
<1> QED BY <1>1, ChatInvariance, PTL
=============================================================================
