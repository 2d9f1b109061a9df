------------------------ MODULE MetricsDeliveryProofs ------------------------
(***************************************************************************)
(* Theorems about MetricsPipeline: no event is in two places, and what     *)
(* follows from that, the counts of dropped events and of errors; what the *)
(* filter keeps, how much of it, and the refinement of MetricsDelivery.    *)
(***************************************************************************)
EXTENDS MetricsPipelineProofs, FiniteSetTheorems, WellFoundedInduction

-----------------------------------------------------------------------------
(* Sequences without two copies of an event. *)

Distinct(q) == \A i, j \in DOMAIN q : q[i].id = q[j].id => i = j

Apart(A, B) == \A x \in A, y \in B : x.id # y.id

LEMMA EmptySet == ToSet(<<>>) = {} /\ Distinct(<<>>)
  BY DEF ToSet, Distinct

LEMMA CutSet ==
  ASSUME NEW q \in Seq(Metric), NEW n \in 0..Len(q)
  PROVE  LET a == SubSeq(q, 1, n)
             b == SubSeq(q, n + 1, Len(q))
         IN  /\ ToSet(q) = ToSet(a) \union ToSet(b)
             /\ Distinct(q) => Distinct(a) /\ Distinct(b) /\ Apart(ToSet(a), ToSet(b))
<1> DEFINE a == SubSeq(q, 1, n)
           b == SubSeq(q, n + 1, Len(q))
<1>1. Len(a) = n /\ DOMAIN a = 1..n /\ \A i \in 1..n : a[i] = q[i]
  BY SubSeqProperties, CutType
<1>2. /\ Len(b) = Len(q) - n /\ DOMAIN b = 1..(Len(q) - n)
      /\ \A i \in 1..(Len(q) - n) : b[i] = q[n + i]
  BY SubSeqProperties, CutType
<1>3. \A i \in DOMAIN a : i \in DOMAIN q /\ i <= n /\ i \in Nat /\ a[i] = q[i]
  BY <1>1
<1>4. \A i \in DOMAIN b : n + i \in DOMAIN q /\ n + i > n /\ i \in Nat /\ b[i] = q[n + i]
  BY <1>2
<1>5. \A i \in DOMAIN q : \/ i \in DOMAIN a
                          \/ i - n \in DOMAIN b /\ b[i - n] = q[i]
  BY <1>1, <1>2
<1> HIDE DEF a, b
<1>6. ToSet(q) = ToSet(a) \union ToSet(b)
  <2>1. ASSUME NEW i \in DOMAIN q PROVE q[i] \in ToSet(a) \union ToSet(b)
    BY <1>3, <1>5 DEF ToSet
  <2>2. ToSet(a) \subseteq ToSet(q) /\ ToSet(b) \subseteq ToSet(q)
    BY <1>3, <1>4 DEF ToSet
  <2> QED
    BY <2>1, <2>2 DEF ToSet
<1>7. Distinct(q) => Distinct(a) /\ Distinct(b)
  <2>1. Distinct(q) => Distinct(a)
    BY <1>3 DEF Distinct
  <2>2. ASSUME Distinct(q), NEW i \in DOMAIN b, NEW j \in DOMAIN b, b[i].id = b[j].id
        PROVE  i = j
    <3>1. n + i = n + j
      BY <1>4, <2>2 DEF Distinct
    <3> QED
      BY <1>4, <3>1
  <2> QED
    BY <2>1, <2>2 DEF Distinct
<1>8. ASSUME Distinct(q), NEW i \in DOMAIN a, NEW j \in DOMAIN b PROVE a[i].id # b[j].id
  <2>1. n + j # i
    BY <1>3, <1>4
  <2> QED
    BY <1>3, <1>4, <1>8, <2>1 DEF Distinct
<1>9. Distinct(q) => Apart(ToSet(a), ToSet(b))
  BY <1>8 DEF Apart, ToSet
<1> QED
  BY <1>6, <1>7, <1>9 DEF a, b

LEMMA AppendSet ==
  ASSUME NEW q \in Seq(Metric), NEW m \in Metric
  PROVE  /\ ToSet(Append(q, m)) = ToSet(q) \union {m}
         /\ Distinct(q) /\ Apart(ToSet(q), {m}) => Distinct(Append(q, m))
<1> DEFINE r == Append(q, m)
<1>1. /\ DOMAIN r = 1..(Len(q) + 1) /\ DOMAIN q = 1..Len(q) /\ Len(q) \in Nat
      /\ \A i \in 1..Len(q) : r[i] = q[i]
      /\ r[Len(q) + 1] = m
  OBVIOUS
<1> HIDE DEF r
<1>2. \A i \in DOMAIN r : (i \in DOMAIN q /\ r[i] = q[i]) \/ (i = Len(q) + 1 /\ r[i] = m)
  BY <1>1
<1>3. Len(q) + 1 \in DOMAIN r /\ \A i \in DOMAIN q : i \in DOMAIN r
  BY <1>1
<1>4. ToSet(r) = ToSet(q) \union {m}
  BY <1>1, <1>2, <1>3 DEF ToSet
<1>5. Distinct(q) /\ Apart(ToSet(q), {m}) => Distinct(r)
  BY <1>2 DEF Distinct, Apart, ToSet
<1> QED
  BY <1>4, <1>5 DEF r

LEMMA HeadTailSet ==
  ASSUME NEW q \in Seq(Metric), q # <<>>
  PROVE  /\ Head(q) \in Metric /\ Tail(q) \in Seq(Metric)
         /\ ToSet(q) = {Head(q)} \union ToSet(Tail(q))
         /\ Distinct(q) => Distinct(Tail(q)) /\ Apart({Head(q)}, ToSet(Tail(q)))
<1> DEFINE h == Head(q)
           r == Tail(q)
<1>1. /\ h = q[1] /\ DOMAIN q = 1..Len(q) /\ Len(q) \in Nat /\ Len(q) >= 1
      /\ h \in Metric /\ r \in Seq(Metric)
      /\ DOMAIN r = 1..(Len(q) - 1) /\ \A i \in 1..(Len(q) - 1) : r[i] = q[i + 1]
  OBVIOUS
<1> HIDE DEF h, r
<1>2. \A i \in DOMAIN r : i + 1 \in DOMAIN q /\ i + 1 # 1 /\ i \in Nat /\ r[i] = q[i + 1]
  BY <1>1
<1>3. \A i \in DOMAIN q : i = 1 \/ (i - 1 \in DOMAIN r /\ r[i - 1] = q[i])
  BY <1>1
<1>4. 1 \in DOMAIN q
  BY <1>1
<1>5. ToSet(q) = {h} \union ToSet(r)
  <2>1. ASSUME NEW i \in DOMAIN q PROVE q[i] \in {h} \union ToSet(r)
    BY <1>1, <1>3 DEF ToSet
  <2>2. {h} \union ToSet(r) \subseteq ToSet(q)
    BY <1>1, <1>2, <1>4 DEF ToSet
  <2> QED
    BY <2>1, <2>2 DEF ToSet
<1>6. ASSUME Distinct(q), NEW i \in DOMAIN r, NEW j \in DOMAIN r, r[i].id = r[j].id
      PROVE  i = j
  <2>1. i + 1 = j + 1
    BY <1>2, <1>6 DEF Distinct
  <2> QED
    BY <1>2, <2>1
<1>7. ASSUME Distinct(q), NEW i \in DOMAIN r PROVE h.id # r[i].id
  BY <1>1, <1>2, <1>4, <1>7 DEF Distinct
<1>8. Distinct(q) => Distinct(r) /\ Apart({h}, ToSet(r))
  BY <1>6, <1>7 DEF Distinct, Apart, ToSet
<1> QED
  BY <1>1, <1>5, <1>8 DEF h, r

LEMMA ReverseSet ==
  ASSUME NEW q \in Seq(Metric)
  PROVE  /\ ToSet(Reverse(q)) = ToSet(q)
         /\ Distinct(q) => Distinct(Reverse(q))
<1> DEFINE r == Reverse(q)
<1>1. /\ DOMAIN r = 1..Len(q) /\ DOMAIN q = 1..Len(q) /\ Len(q) \in Nat
      /\ \A i \in 1..Len(q) : r[i] = q[(Len(q) - i) + 1]
  BY DEF Reverse
<1> HIDE DEF r
<1>2. \A i \in DOMAIN r : /\ (Len(q) - i) + 1 \in DOMAIN q /\ r[i] = q[(Len(q) - i) + 1]
                          /\ i \in Nat
  BY <1>1
<1>3. \A i \in DOMAIN q : (Len(q) - i) + 1 \in DOMAIN r /\ r[(Len(q) - i) + 1] = q[i]
  BY <1>1
<1>4. ToSet(r) = ToSet(q)
  BY <1>2, <1>3 DEF ToSet
<1>5. ASSUME Distinct(q), NEW i \in DOMAIN r, NEW j \in DOMAIN r, r[i].id = r[j].id
      PROVE  i = j
  <2>1. (Len(q) - i) + 1 = (Len(q) - j) + 1
    BY <1>2, <1>5 DEF Distinct
  <2> QED
    BY <1>1, <1>2, <2>1
<1> QED
  BY <1>4, <1>5 DEF Distinct, r

LEMMA ConcatSet ==
  ASSUME NEW q \in Seq(Metric), NEW r \in Seq(Metric)
  PROVE  /\ ToSet(q \o r) = ToSet(q) \union ToSet(r)
         /\ Distinct(q) /\ Distinct(r) /\ Apart(ToSet(q), ToSet(r)) => Distinct(q \o r)
<1> DEFINE c == q \o r
<1>1. /\ c \in Seq(Metric) /\ Len(c) = Len(q) + Len(r)
      /\ \A i \in 1..Len(q) : c[i] = q[i]
      /\ \A i \in 1..Len(r) : c[Len(q) + i] = r[i]
  BY ConcatProperties
<1>2. DOMAIN c = 1..(Len(q) + Len(r)) /\ DOMAIN q = 1..Len(q) /\ DOMAIN r = 1..Len(r)
      /\ Len(q) \in Nat /\ Len(r) \in Nat
  BY <1>1
<1> HIDE DEF c
<1>3. \A i \in DOMAIN q : i \in DOMAIN c /\ c[i] = q[i]
  BY <1>1, <1>2
<1>4. \A i \in DOMAIN r : Len(q) + i \in DOMAIN c /\ c[Len(q) + i] = r[i]
  BY <1>1, <1>2
<1>5. \A i \in DOMAIN c : \/ i \in DOMAIN q
                          \/ i - Len(q) \in DOMAIN r /\ c[i] = r[i - Len(q)] /\ i \in Nat
  BY <1>1, <1>2
<1>6. ToSet(c) = ToSet(q) \union ToSet(r)
  BY <1>3, <1>4, <1>5 DEF ToSet
<1>7. ASSUME Distinct(q), Distinct(r), Apart(ToSet(q), ToSet(r)),
             NEW i \in DOMAIN c, NEW j \in DOMAIN c, c[i].id = c[j].id
      PROVE  i = j
  <2>1. ASSUME NEW a \in DOMAIN q, NEW b \in DOMAIN r PROVE q[a].id # r[b].id
    BY <1>7 DEF Apart, ToSet
  <2>2. CASE i \in DOMAIN q /\ j \in DOMAIN q
    BY <1>3, <1>7, <2>2 DEF Distinct
  <2>3. CASE i \notin DOMAIN q /\ j \notin DOMAIN q
    <3>1. i - Len(q) = j - Len(q)
      BY <1>5, <1>7, <2>3 DEF Distinct
    <3> QED
      BY <1>2, <1>5, <2>3, <3>1
  <2>4. CASE i \in DOMAIN q /\ j \notin DOMAIN q
    BY <1>3, <1>5, <1>7, <2>1, <2>4
  <2>5. CASE i \notin DOMAIN q /\ j \in DOMAIN q
    <3>1. c[j].id # c[i].id
      BY <1>3, <1>5, <2>1, <2>5
    <3> QED
      BY <1>7, <3>1
  <2> QED
    BY <2>2, <2>3, <2>4, <2>5
<1> QED
  BY <1>6, <1>7 DEF Distinct, c

LEMMA PushSet ==
  ASSUME NEW q \in Seq(Metric), NEW front \in Seq(Metric)
  PROVE  LET r == PushMetricsToFront(q, front)
         IN  /\ r \in Seq(Metric)
             /\ ToSet(r) = ToSet(q) \union ToSet(front)
             /\ Distinct(q) /\ Distinct(front) /\ Apart(ToSet(front), ToSet(q)) => Distinct(r)
<1>1. CASE q = <<>>
  BY <1>1, EmptySet DEF PushMetricsToFront
<1>2. CASE q # <<>>
  BY <1>2, ReverseIds, ReverseSet, ConcatIds, ConcatSet DEF PushMetricsToFront
<1> QED
  BY <1>1, <1>2

LEMMA SortSet ==
  ASSUME NEW q \in Seq(Metric), NEW p \in SortedOrders(q)
  PROVE  LET s == [i \in 1..Len(q) |-> q[p[i]]]
         IN  /\ s \in Seq(Metric) /\ Len(s) = Len(q)
             /\ ToSet(s) = ToSet(q)
             /\ Distinct(q) => Distinct(s)
<1> DEFINE s == [i \in 1..Len(q) |-> q[p[i]]]
<1>1. /\ p \in [1..Len(q) -> 1..Len(q)]
      /\ \A j \in 1..Len(q) : \E i \in 1..Len(q) : p[i] = j
      /\ \A i, j \in 1..Len(q) : i < j => SortsBefore(q, p[i], p[j])
  BY DEF SortedOrders
<1>2. DOMAIN q = 1..Len(q) /\ Len(q) \in Nat
  OBVIOUS
<1>3. s \in Seq(Metric) /\ Len(s) = Len(q) /\ DOMAIN s = 1..Len(q)
  BY SortIds
<1>4. ToSet(s) = ToSet(q)
  BY <1>1, <1>2, <1>3 DEF ToSet
<1>5. ASSUME NEW i \in 1..Len(q) PROVE ~SortsBefore(q, i, i)
  <2>1. q[i] \in Metric /\ i \in Nat
    BY <1>2
  <2>2. q[i].priority \in Nat
    BY <2>1 DEF Metric
  <2> QED
    BY <2>1, <2>2 DEF SortsBefore
<1>6. ASSUME NEW i \in 1..Len(q), NEW j \in 1..Len(q), p[i] = p[j] PROVE i = j
  <2>1. ~(i < j) /\ ~(j < i)
    BY <1>1, <1>5, <1>6
  <2> QED
    BY <1>2, <2>1
<1>7. Distinct(q) => Distinct(s)
  <2>1. ASSUME Distinct(q), NEW i \in DOMAIN s, NEW j \in DOMAIN s, s[i].id = s[j].id
        PROVE  i = j
    <3>1. i \in 1..Len(q) /\ j \in 1..Len(q) /\ p[i] \in DOMAIN q /\ p[j] \in DOMAIN q
          /\ s[i] = q[p[i]] /\ s[j] = q[p[j]]
      BY <1>1, <1>2, <1>3
    <3>2. p[i] = p[j]
      BY <2>1, <3>1 DEF Distinct
    <3> QED
      BY <1>6, <3>1, <3>2
  <2> QED
    BY <2>1 DEF Distinct
<1> QED
  BY <1>3, <1>4, <1>7

-----------------------------------------------------------------------------
(* Where a copy is: in the queue, being sent by a thread, in a request (what *)
(* a saved one holds is in the file), in the file, or at one of its ends.  *)

In(c, k, m) ==
  \/ c = "queue" /\ k = 0 /\ m \in ToSet(metricsQueue)
  \/ c = "sending" /\ k \in Threads /\ m \in ToSet(sending[k])
  \/ c = "events" /\ k \in UnsavedSlots /\ m \in ToSet(jobs[k].events)
  \/ c = "retry" /\ k \in UnsavedSlots /\ m \in ToSet(jobs[k].retry)
  \/ c = "file" /\ k = 0 /\ \E e \in ToSet(FileRecords) : m = ReadFromJson(e)
  \/ c = "acked" /\ k = 0 /\ \E e \in acked : m = ReadFromJson(e)
  \/ c = "dropped" /\ k = 0 /\ m \in dropped

(* Two copies of e are one copy.                                           *)
UniqueEvent(e) ==
  \A c, k, m, d, j, n :
    In(c, k, m) /\ In(d, j, n) /\ m.id = e /\ n.id = e => c = d /\ k = j /\ m = n

Unique == \A e : UniqueEvent(e)

DistinctRecords == \A i, j \in DOMAIN FileRecords : FileRecords[i] = FileRecords[j] => i = j

AllDistinct ==
  /\ Distinct(metricsQueue)
  /\ \A t \in Threads : Distinct(sending[t])
  /\ \A s \in Slots : Distinct(jobs[s].events) /\ Distinct(jobs[s].retry)
  /\ DistinctRecords

(* An event that has a copy has been submitted.                            *)
Known == \A c, k, m : In(c, k, m) => m.id \in accepted

SavedRetryNothing == \A s \in Slots : jobs[s].kind = "saved" => jobs[s].retry = <<>>

(* Copies move. *)
LEMMA Vanish ==
  ASSUME Unique, \A d, j, m : In(d, j, m)' => In(d, j, m)
  PROVE  Unique'
  BY DEF Unique, UniqueEvent


(* The copies of X leave their place for another.                          *)
SetMoves(X, c1, k1, c, k) ==
  /\ \A m \in X : In(c1, k1, m)
  /\ \A d, j, m : In(d, j, m)' => \/ In(d, j, m) /\ ~(d = c1 /\ j = k1 /\ m \in X)
                                  \/ d = c /\ j = k /\ m \in X

LEMMA MoveSet ==
  ASSUME Unique, NEW X, NEW c1, NEW k1, NEW c, NEW k, SetMoves(X, c1, k1, c, k)
  PROVE  Unique'
<1> SUFFICES ASSUME NEW d, NEW j, NEW m, NEW g, NEW i, NEW n,
                    In(d, j, m)', In(g, i, n)', m.id = n.id
             PROVE  d = g /\ j = i /\ m = n
  BY DEF Unique, UniqueEvent
<1>1. \A a, b, x, a2, b2, y : In(a, b, x) /\ In(a2, b2, y) /\ x.id = y.id
        => a = a2 /\ b = b2 /\ x = y
  BY DEF Unique, UniqueEvent
<1> QED
  BY <1>1 DEF SetMoves

(* The copy h leaves its place for another, as x.                          *)
OneMoves(h, x, c1, k1, c, k) ==
  /\ In(c1, k1, h)
  /\ \A d, j, m : In(d, j, m)' => \/ In(d, j, m) /\ ~(d = c1 /\ j = k1 /\ m = h)
                                  \/ d = c /\ j = k /\ m = x

LEMMA MoveOne ==
  ASSUME Unique, NEW h, NEW x, x.id = h.id, NEW c1, NEW k1, NEW c, NEW k,
         OneMoves(h, x, c1, k1, c, k)
  PROVE  Unique'
<1> SUFFICES ASSUME NEW d, NEW j, NEW m, NEW g, NEW i, NEW n,
                    In(d, j, m)', In(g, i, n)', m.id = n.id
             PROVE  d = g /\ j = i /\ m = n
  BY DEF Unique, UniqueEvent
<1>1. \A a, b, y, a2, b2, z : In(a, b, y) /\ In(a2, b2, z) /\ y.id = z.id
        => a = a2 /\ b = b2 /\ y = z
  BY DEF Unique, UniqueEvent
<1> QED
  BY <1>1 DEF OneMoves

(* The first copy of an event arrives.                                     *)
Arrives(x, c, k) ==
  /\ \A d, j, m : In(d, j, m) => m.id # x.id
  /\ \A d, j, m : In(d, j, m)' => In(d, j, m) \/ (d = c /\ j = k /\ m = x)

LEMMA Arrive ==
  ASSUME Unique, NEW x, NEW c, NEW k, Arrives(x, c, k)
  PROVE  Unique'
<1> SUFFICES ASSUME NEW d, NEW j, NEW m, NEW g, NEW i, NEW n,
                    In(d, j, m)', In(g, i, n)', m.id = n.id
             PROVE  d = g /\ j = i /\ m = n
  BY DEF Unique, UniqueEvent
<1>1. \A a, b, y, a2, b2, z : In(a, b, y) /\ In(a2, b2, z) /\ y.id = z.id
        => a = a2 /\ b = b2 /\ y = z
  BY DEF Unique, UniqueEvent
<1> QED
  BY <1>1 DEF Arrives

LEMMA UnchangedIn ==
  ASSUME UNCHANGED <<metricsQueue, sending, jobs, acked, dropped>>, FileRecords' = FileRecords
  PROVE  /\ \A c, k, m : In(c, k, m)' <=> In(c, k, m)
         /\ AllDistinct' <=> AllDistinct
         /\ SavedRetryNothing' <=> SavedRetryNothing
<1>1. UnsavedSlots' = UnsavedSlots
  BY DEF UnsavedSlots
<1>2. \A c, k, m : In(c, k, m)' <=> In(c, k, m)
  BY <1>1 DEF In
<1> QED
  BY <1>2 DEF AllDistinct, DistinctRecords, SavedRetryNothing

-----------------------------------------------------------------------------
(* How each step moves the copies. *)

(* A job is started in an idle slot.                                       *)
LEMMA StartJobMoves ==
  ASSUME TypeOK, NEW kind \in {"api", "file"}, NEW q \in Seq(Metric), StartJob(kind, q)
  PROVE  \E s \in Slots :
           /\ jobs[s] = Idle
           /\ \A r \in Slots : r # s => jobs'[r] = jobs[r]
           /\ jobs'[s].events = q /\ jobs'[s].retry = <<>> /\ jobs'[s].kind = kind
           /\ UnsavedSlots' = UnsavedSlots
           /\ s \in UnsavedSlots
<1>1. PICK s \in Slots :
        /\ jobs[s] = Idle
        /\ jobs' = [jobs EXCEPT ![s] = [kind |-> kind, events |-> q, retry |-> <<>>]]
  BY DEF StartJob
<1>2. /\ jobs'[s] = [kind |-> kind, events |-> q, retry |-> <<>>]
      /\ \A r \in Slots : r # s => jobs'[r] = jobs[r]
  BY <1>1 DEF TypeOK
<1>3. jobs'[s].kind # "saved" /\ jobs[s].kind # "saved"
  BY <1>1, <1>2 DEF Idle
<1>4. UnsavedSlots' = UnsavedSlots /\ s \in UnsavedSlots
  BY <1>2, <1>3 DEF UnsavedSlots
<1> QED
  BY <1>1, <1>2, <1>4

(* What SendMetricsAsync takes is in a file job or in the sending loop.    *)
SentTo(q, c, k) ==
  /\ c \in {"sending", "events"}
  /\ \A d, j, m : d \in {"sending", "events", "retry"} =>
       (In(d, j, m)' <=> In(d, j, m) \/ (d = c /\ j = k /\ m \in ToSet(q)))
  /\ Distinct(q) /\ AllDistinct =>
       /\ \A t \in Threads : Distinct(sending'[t])
       /\ \A s \in Slots : Distinct(jobs'[s].events) /\ Distinct(jobs'[s].retry)
  /\ SavedRetryNothing => SavedRetryNothing'
  /\ \A s \in Slots : jobs'[s].kind = "saved" <=> jobs[s].kind = "saved"
  /\ \A s \in Slots : jobs[s].kind = "saved" => jobs'[s] = jobs[s]

LEMMA StartJobSends ==
  ASSUME TypeOK, NEW kind \in {"api", "file"}, NEW q \in Seq(Metric), StartJob(kind, q),
         UNCHANGED sending
  PROVE  \E s : SentTo(q, "events", s)
<1>1. PICK s \in Slots :
           /\ jobs[s] = Idle
           /\ \A r \in Slots : r # s => jobs'[r] = jobs[r]
           /\ jobs'[s].events = q /\ jobs'[s].retry = <<>> /\ jobs'[s].kind = kind
           /\ UnsavedSlots' = UnsavedSlots
           /\ s \in UnsavedSlots
  BY StartJobMoves
<1>2. jobs[s].events = <<>> /\ jobs[s].retry = <<>> /\ jobs[s].kind # "saved"
  BY <1>1 DEF Idle
<1>3. \A j, m : In("sending", j, m)' <=> In("sending", j, m)
  BY DEF In
<1>4. \A j, m : In("events", j, m)' <=> In("events", j, m) \/ (j = s /\ m \in ToSet(q))
  BY <1>1, <1>2, EmptySet DEF In, UnsavedSlots
<1>5. \A j, m : In("retry", j, m)' <=> In("retry", j, m)
  BY <1>1, <1>2, EmptySet DEF In, UnsavedSlots
<1>6. Distinct(q) /\ AllDistinct =>
       /\ \A t \in Threads : Distinct(sending'[t])
       /\ \A r \in Slots : Distinct(jobs'[r].events) /\ Distinct(jobs'[r].retry)
  BY <1>1, EmptySet DEF AllDistinct
<1>7. SavedRetryNothing => SavedRetryNothing'
  BY <1>1 DEF SavedRetryNothing
<1>8. /\ \A r \in Slots : jobs'[r].kind = "saved" <=> jobs[r].kind = "saved"
      /\ \A r \in Slots : jobs[r].kind = "saved" => jobs'[r] = jobs[r]
  BY <1>1, <1>2
<1> QED
  BY <1>3, <1>4, <1>5, <1>6, <1>7, <1>8 DEF SentTo

LEMMA SendMoves ==
  ASSUME TypeOK, NEW t \in Threads, sending[t] = <<>>, NEW q \in Seq(Metric), NEW mutex,
         SendMetricsAsync(t, q, mutex)
  PROVE  \E c, k : SentTo(q, c, k)
<1>1. CASE StartJob("file", q) /\ UNCHANGED sending
  BY <1>1, StartJobSends
<1>2. CASE sending' = [sending EXCEPT ![t] = q] /\ UNCHANGED jobs
  <2>1. sending'[t] = q /\ \A u \in Threads : u # t => sending'[u] = sending[u]
    BY <1>2 DEF TypeOK
  <2>2. UnsavedSlots' = UnsavedSlots
    BY <1>2 DEF UnsavedSlots
  <2>3. \A j, m : In("sending", j, m)' <=> In("sending", j, m) \/ (j = t /\ m \in ToSet(q))
    BY <2>1, EmptySet DEF In
  <2>4. \A j, m : (In("events", j, m)' <=> In("events", j, m))
                  /\ (In("retry", j, m)' <=> In("retry", j, m))
    BY <1>2, <2>2 DEF In
  <2>5. Distinct(q) /\ AllDistinct =>
         /\ \A u \in Threads : Distinct(sending'[u])
         /\ \A r \in Slots : Distinct(jobs'[r].events) /\ Distinct(jobs'[r].retry)
    BY <1>2, <2>1 DEF AllDistinct
  <2>6. SavedRetryNothing => SavedRetryNothing'
    BY <1>2 DEF SavedRetryNothing
  <2>7. SentTo(q, "sending", t)
    BY <1>2, <2>3, <2>4, <2>5, <2>6 DEF SentTo
  <2> QED
    BY <2>7
<1> QED
  BY <1>1, <1>2 DEF SendMetricsAsync

Copied(m) == \E c, k : In(c, k, m)

(* A copy in a saved job, which only waits to be counted.                  *)
Awaiting(s, m) == jobs[s].kind = "saved" /\ m \in ToSet(jobs[s].events)

(* What a step does that moves copies and changes none.                    *)
Kept ==
  /\ Unique /\ AllDistinct => Unique' /\ AllDistinct'
  /\ \A m : Copied(m)' <=> Copied(m)
  /\ SavedRetryNothing => SavedRetryNothing'
  /\ \A s \in Slots : \A m : Awaiting(s, m)' <=> Awaiting(s, m)

LEMMA UnchangedKept ==
  ASSUME UNCHANGED <<metricsQueue, sending, jobs, acked, dropped>>, FileRecords' = FileRecords
  PROVE  Kept
<1>1. \A s, m : Awaiting(s, m)' <=> Awaiting(s, m)
  BY DEF Awaiting
<1> QED
  BY <1>1, UnchangedIn, Vanish DEF Kept, Copied

LEMMA FlushKept ==
  ASSUME TypeOK, NEW t \in Threads, sending[t] = <<>>, FlushMetricsAsync(t),
         UNCHANGED <<file, local, acked, dropped>>
  PROVE  Kept
<1>0. FileRecords' = FileRecords
  BY DEF FileRecords
<1>1. CASE UNCHANGED <<queueVars, jobs>>
  BY <1>0, <1>1, UnchangedKept DEF queueVars
<1>2. CASE metricsQueue' = <<>> /\ SendMetricsAsync(t, metricsQueue, t)
  <2>1. metricsQueue \in Seq(Metric)
    BY DEF TypeOK
  <2>2. PICK c, k : SentTo(metricsQueue, c, k)
    BY <1>2, <2>1, SendMoves
  <2>3. \A m : ~In("queue", 0, m)'
    BY <1>2, EmptySet DEF In
  <2>4. \A m : In("queue", 0, m) <=> m \in ToSet(metricsQueue)
    BY DEF In
  <2>5. \A d, j, m : d \in {"file", "acked", "dropped"} => (In(d, j, m)' <=> In(d, j, m))
    BY <1>0 DEF In
  <2>6. \A d, j, m : In(d, j, m) => /\ d \in {"file", "acked", "dropped", "queue", "sending", "events", "retry"}
                                    /\ d = "queue" => j = 0
    BY DEF In
  <2>7. \A d, j, m : In(d, j, m)' => /\ d \in {"file", "acked", "dropped", "queue", "sending", "events", "retry"}
                                     /\ d = "queue" => j = 0
    BY DEF In
  <2>8. \A d, j, m : d \in {"sending", "events", "retry"} =>
          (In(d, j, m)' <=> In(d, j, m) \/ (d = c /\ j = k /\ m \in ToSet(metricsQueue)))
    BY <2>2 DEF SentTo
  <2>9. c \in {"sending", "events"}
    BY <2>2 DEF SentTo
  <2>10. \A d, j, m : In(d, j, m)' <=> \/ In(d, j, m) /\ d # "queue"
                                       \/ d = c /\ j = k /\ m \in ToSet(metricsQueue)
    BY <2>3, <2>5, <2>6, <2>7, <2>8, <2>9
  <2>11. Unique => Unique'
    <3>1. HAVE Unique
    <3>2. SetMoves(ToSet(metricsQueue), "queue", 0, c, k)
      BY <2>4, <2>10 DEF SetMoves
    <3> QED
      BY <3>1, <3>2, MoveSet
  <2>12. \A m : Copied(m)' <=> Copied(m)
    BY <2>4, <2>6, <2>10 DEF Copied
  <2>13. AllDistinct => AllDistinct'
    BY <1>0, <1>2, <2>2, EmptySet DEF SentTo, AllDistinct, DistinctRecords
  <2>14. \A s \in Slots : \A m : Awaiting(s, m)' <=> Awaiting(s, m)
    BY <2>2 DEF SentTo, Awaiting
  <2> QED
    BY <2>2, <2>11, <2>12, <2>13, <2>14 DEF Kept, SentTo
<1> QED
  BY <1>1, <1>2 DEF FlushMetricsAsync

LEMMA SendToServiceKept ==
  ASSUME TypeOK, NEW t \in Threads, SendMetricsToServiceApiAsync(t)
  PROVE  Kept
<1>1. PICK n \in 0..Len(sending[t]) :
        /\ IF n = 0 THEN UNCHANGED jobs ELSE StartJob("api", SubSeq(sending[t], 1, n))
        /\ sending' = [sending EXCEPT ![t] = SubSeq(@, n + 1, Len(@))]
  BY DEF SendMetricsToServiceApiAsync
<1> DEFINE a == SubSeq(sending[t], 1, n)
           b == SubSeq(sending[t], n + 1, Len(sending[t]))
<1>2. sending[t] \in Seq(Metric)
  BY DEF TypeOK
<1>3. /\ a \in Seq(Metric) /\ ToSet(sending[t]) = ToSet(a) \union ToSet(b)
      /\ Distinct(sending[t]) => Distinct(a) /\ Distinct(b) /\ Apart(ToSet(a), ToSet(b))
  BY <1>2, CutType, CutSet
<1>4. sending'[t] = b /\ \A u \in Threads : u # t => sending'[u] = sending[u]
  BY <1>1 DEF TypeOK
<1>5. UNCHANGED <<metricsQueue, file, local, acked, dropped>> /\ FileRecords' = FileRecords
  BY DEF SendMetricsToServiceApiAsync, fileVars, ghostVars, FileRecords
<1>6. n = 0 => a = <<>>
  BY <1>2
<1>7. CASE n = 0
  <2> HIDE DEF a, b
  <2>1. ToSet(sending'[t]) = ToSet(sending[t])
    BY <1>3, <1>4, <1>6, <1>7, EmptySet
  <2>2. UNCHANGED jobs /\ UnsavedSlots' = UnsavedSlots
    BY <1>1, <1>7 DEF UnsavedSlots
  <2>3. \A c, k, m : In(c, k, m)' <=> In(c, k, m)
    <3>1. \A u \in Threads : ToSet(sending'[u]) = ToSet(sending[u])
      BY <1>4, <2>1
    <3>2. \A m : In("queue", 0, m)' <=> In("queue", 0, m)
      BY <1>5 DEF In
    <3> QED
      BY <1>5, <2>2, <3>1 DEF In
  <2>4. AllDistinct => AllDistinct'
    BY <1>3, <1>4, <1>5, <2>2 DEF AllDistinct, DistinctRecords
  <2> QED
    BY <2>2, <2>3, <2>4, Vanish DEF Kept, Copied, SavedRetryNothing, Awaiting
<1>8. CASE n # 0
  <2>1. StartJob("api", a)
    BY <1>1, <1>8
  <2> HIDE DEF a, b
  <2>2. PICK s \in Slots :
           /\ jobs[s] = Idle
           /\ \A r \in Slots : r # s => jobs'[r] = jobs[r]
           /\ jobs'[s].events = a /\ jobs'[s].retry = <<>> /\ jobs'[s].kind = "api"
           /\ UnsavedSlots' = UnsavedSlots
           /\ s \in UnsavedSlots
    BY <1>3, <2>1, StartJobMoves
  <2>3. jobs[s].events = <<>> /\ jobs[s].retry = <<>> /\ jobs[s].kind # "saved"
    BY <2>2 DEF Idle
  <2>4. \A j, m : In("events", j, m)' <=> In("events", j, m) \/ (j = s /\ m \in ToSet(a))
    BY <2>2, <2>3, EmptySet DEF In, UnsavedSlots
  <2>5. \A j, m : In("retry", j, m)' <=> In("retry", j, m)
    BY <2>2, <2>3, EmptySet DEF In, UnsavedSlots
  <2>6. \A d, j, m : d \in {"queue", "file", "acked", "dropped"} => (In(d, j, m)' <=> In(d, j, m))
    BY <1>5 DEF In
  <2>7. \A j, m : In("sending", j, m)' <=> In("sending", j, m) /\ (j = t => m \in ToSet(b))
    BY <1>3, <1>4 DEF In
  <2>8. \A m : In("sending", t, m) <=> m \in ToSet(a) \/ m \in ToSet(b)
    BY <1>3 DEF In
  <2>9. \A d, j, m : In(d, j, m) \/ In(d, j, m)' =>
          d \in {"file", "acked", "dropped", "queue", "sending", "events", "retry"}
    BY DEF In
  <2>10. Unique /\ AllDistinct => Unique'
    <3>1. HAVE Unique /\ AllDistinct
    <3>2. Apart(ToSet(a), ToSet(b))
      BY <1>3, <3>1 DEF AllDistinct
    <3>3. \A m \in ToSet(b) : m \notin ToSet(a)
      BY <3>2 DEF Apart
    <3>4. SetMoves(ToSet(a), "sending", t, "events", s)
      BY <2>4, <2>5, <2>6, <2>7, <2>8, <2>9, <3>3 DEF SetMoves
    <3> QED
      BY <3>1, <3>4, MoveSet
  <2>11. \A m : Copied(m)' <=> Copied(m)
    <3>1. \A m : Copied(m)' => Copied(m)
      BY <2>4, <2>5, <2>6, <2>7, <2>8, <2>9 DEF Copied
    <3>2. \A d, j, m : In(d, j, m) => In(d, j, m)' \/ In("events", s, m)'
      BY <2>4, <2>5, <2>6, <2>7, <2>8, <2>9
    <3> QED
      BY <3>1, <3>2 DEF Copied
  <2>12. AllDistinct => AllDistinct'
    BY <1>3, <1>4, <1>5, <2>2, EmptySet DEF AllDistinct, DistinctRecords
  <2>13. SavedRetryNothing => SavedRetryNothing'
    BY <2>2 DEF SavedRetryNothing
  <2>14. \A r \in Slots : \A m : Awaiting(r, m)' <=> Awaiting(r, m)
    BY <2>2, <2>3 DEF Awaiting
  <2> QED
    BY <2>10, <2>11, <2>12, <2>13, <2>14 DEF Kept
<1> QED
  BY <1>7, <1>8

(* The filter keeps some of the queue and drops the rest, z.               *)
LEMMA FilterSplits ==
  ASSUME TypeOK, NEW q \in Seq(Metric), FilterMetricsByPriority(q)
  PROVE  \E z \in Seq(Metric) :
           /\ DropMetrics(z)
           /\ ToSet(q) = ToSet(metricsQueue') \union ToSet(z)
           /\ Distinct(q) => /\ Distinct(metricsQueue') /\ Distinct(z)
                             /\ Apart(ToSet(metricsQueue'), ToSet(z))
<1>1. CASE metricsQueue' = q /\ UNCHANGED <<stats, dropped>>
  <2>1. stats \in Stats
    BY DEF TypeOK
  <2>2. stats = [stats EXCEPT !.numDropped = @ + Len(<<>>)]
    BY <2>1 DEF Stats
  <2>3. DropMetrics(<<>>)
    BY <1>1, <2>2, EmptySet DEF DropMetrics
  <2>4. <<>> \in Seq(Metric)
    OBVIOUS
  <2> QED
    BY <1>1, <2>3, <2>4, EmptySet DEF Apart
<1>2. ASSUME NEW p \in SortedOrders(q), NEW n \in 0..Len(q),
             metricsQueue' = SubSeq([i \in 1..Len(q) |-> q[p[i]]], 1, n),
             DropMetrics(SubSeq([i \in 1..Len(q) |-> q[p[i]]], n + 1,
                                Len([i \in 1..Len(q) |-> q[p[i]]])))
      PROVE  \E z \in Seq(Metric) :
               /\ DropMetrics(z)
               /\ ToSet(q) = ToSet(metricsQueue') \union ToSet(z)
               /\ Distinct(q) => /\ Distinct(metricsQueue') /\ Distinct(z)
                                 /\ Apart(ToSet(metricsQueue'), ToSet(z))
  <2> DEFINE s == [i \in 1..Len(q) |-> q[p[i]]]
  <2>1. /\ s \in Seq(Metric) /\ n \in 0..Len(s)
        /\ ToSet(s) = ToSet(q) /\ (Distinct(q) => Distinct(s))
    BY SortSet
  <2>2. metricsQueue' = SubSeq(s, 1, n) /\ DropMetrics(SubSeq(s, n + 1, Len(s)))
    BY <1>2
  <2> HIDE DEF s
  <2> DEFINE z == SubSeq(s, n + 1, Len(s))
  <2>3. z \in Seq(Metric)
    BY <2>1, CutType
  <2>4. /\ ToSet(s) = ToSet(metricsQueue') \union ToSet(z)
        /\ Distinct(s) => /\ Distinct(metricsQueue') /\ Distinct(z)
                          /\ Apart(ToSet(metricsQueue'), ToSet(z))
    BY <2>1, <2>2, CutSet
  <2>5. DropMetrics(z)
    BY <2>2
  <2> HIDE DEF z
  <2> QED
    BY <2>1, <2>3, <2>4, <2>5
<1> QED
  BY <1>1, <1>2 DEF FilterMetricsByPriority

(* The end of a response splits the queue and the retries in two: what the *)
(* queue holds next, and what is dropped, z.                               *)
RetrySplits(s, z) ==
  /\ z \in Seq(Metric) /\ DropMetrics(z)
  /\ ToSet(metricsQueue) \union ToSet(jobs[s].retry) = ToSet(metricsQueue') \union ToSet(z)
  /\ Unique /\ AllDistinct => /\ Distinct(metricsQueue') /\ Distinct(z)
                              /\ Apart(ToSet(metricsQueue'), ToSet(z))

LEMMA RetrySplit ==
  ASSUME TypeOK, SavedRetryNothing, NEW s \in Slots, PushMetricsForRetry(s)
  PROVE  \E z : RetrySplits(s, z)
<1> DEFINE q == metricsQueue
           f == jobs[s].retry
<1>1. q \in Seq(Metric) /\ f \in Seq(Metric)
  BY DEF TypeOK, Job
<1>2. \A m \in ToSet(f) : In("retry", s, m)
  BY EmptySet DEF SavedRetryNothing, In, UnsavedSlots
<1>3. \A m \in ToSet(q) : In("queue", 0, m)
  BY DEF In
<1> HIDE DEF q, f
<1>4. Unique => Apart(ToSet(f), ToSet(q)) /\ Apart(ToSet(q), ToSet(f))
  BY <1>2, <1>3 DEF Unique, UniqueEvent, Apart
<1>5. AllDistinct => Distinct(f) /\ Distinct(q)
  BY DEF AllDistinct, f, q
<1>6. CASE DropMetrics(f) /\ metricsQueue' = q
  <2>1. RetrySplits(s, f)
    BY <1>1, <1>4, <1>5, <1>6 DEF RetrySplits, f, q
  <2> QED
    BY <2>1
<1>7. CASE FilterMetricsByPriority(PushMetricsToFront(q, f))
  <2> DEFINE r == PushMetricsToFront(q, f)
  <2>1. /\ r \in Seq(Metric) /\ ToSet(r) = ToSet(q) \union ToSet(f)
        /\ Unique /\ AllDistinct => Distinct(r)
    BY <1>1, <1>4, <1>5, PushSet
  <2>2. FilterMetricsByPriority(r)
    BY <1>7
  <2> HIDE DEF r
  <2>3. PICK z \in Seq(Metric) :
           /\ DropMetrics(z)
           /\ ToSet(r) = ToSet(metricsQueue') \union ToSet(z)
           /\ Distinct(r) => /\ Distinct(metricsQueue') /\ Distinct(z)
                             /\ Apart(ToSet(metricsQueue'), ToSet(z))
    BY <2>1, <2>2, FilterSplits
  <2>4. RetrySplits(s, z)
    BY <2>1, <2>3 DEF RetrySplits, f, q
  <2> QED
    BY <2>4
<1> QED
  BY <1>6, <1>7 DEF PushMetricsForRetry, f, q

LEMMA PushForRetryKept ==
  ASSUME TypeOK, SavedRetryNothing, NEW s \in Slots, PushMetricsForRetry(s)
  PROVE  Kept
<1>1. PICK z : RetrySplits(s, z)
  BY RetrySplit
<1> DEFINE X == ToSet(metricsQueue')
           Y == ToSet(z)
           f == jobs[s].retry
<1>2. /\ dropped' = dropped \union Y
      /\ ToSet(metricsQueue) \union ToSet(f) = X \union Y
      /\ Unique /\ AllDistinct => Distinct(metricsQueue') /\ Apart(X, Y)
  BY <1>1 DEF RetrySplits, DropMetrics
<1>3. /\ jobs[s].events = <<>> /\ jobs'[s] = Idle
      /\ \A r \in Slots : r # s => jobs'[r] = jobs[r]
      /\ UNCHANGED <<sending, file, local, acked>> /\ FileRecords' = FileRecords
  BY DEF PushMetricsForRetry, TypeOK, fileVars, FileRecords
<1>4. Idle.events = <<>> /\ Idle.retry = <<>> /\ Idle.kind = "idle"
  BY DEF Idle
<1>5. \A m : m \in ToSet(f) <=> In("retry", s, m)
  BY EmptySet DEF SavedRetryNothing, In, UnsavedSlots
<1>6. \A m : In("queue", 0, m) <=> m \in ToSet(metricsQueue)
  BY DEF In
<1>7. \A m : In("queue", 0, m)' <=> m \in X
  BY DEF In
<1> HIDE DEF X, Y, f
<1>8. \A m : In("dropped", 0, m)' <=> In("dropped", 0, m) \/ m \in Y
  BY <1>2 DEF In
<1>9. \A j, m : In("events", j, m)' <=> In("events", j, m)
  BY <1>3, <1>4, EmptySet DEF In, UnsavedSlots
<1>10. \A j, m : In("retry", j, m)' <=> In("retry", j, m) /\ j # s
  BY <1>3, <1>4, EmptySet DEF In, UnsavedSlots
<1>11. \A d, j, m : d \in {"sending", "file", "acked"} => (In(d, j, m)' <=> In(d, j, m))
  BY <1>3 DEF In
<1>12. \A d, j, m : In(d, j, m) \/ In(d, j, m)' =>
          /\ d \in {"file", "acked", "dropped", "queue", "sending", "events", "retry"}
          /\ d \in {"queue", "dropped"} => j = 0
  BY DEF In
<1>13. \A d, j, m : In(d, j, m)' <=>
          \/ In(d, j, m) /\ d # "queue" /\ ~(d = "retry" /\ j = s)
          \/ d = "queue" /\ j = 0 /\ m \in X
          \/ d = "dropped" /\ j = 0 /\ m \in Y
  <2> TAKE d, j, m
  <2>1. CASE d = "queue"
    BY <2>1, <1>7, <1>12
  <2>2. CASE d = "dropped"
    BY <2>2, <1>8, <1>12
  <2>3. CASE d = "events"
    BY <2>3, <1>9
  <2>4. CASE d = "retry"
    BY <2>4, <1>10
  <2>5. CASE d \in {"sending", "file", "acked"}
    BY <2>5, <1>11
  <2>6. CASE d \notin {"file", "acked", "dropped", "queue", "sending", "events", "retry"}
    BY <2>6, <1>12
  <2> QED
    BY <2>1, <2>2, <2>3, <2>4, <2>5, <2>6
<1>14. \A m : m \in X \/ m \in Y <=> In("queue", 0, m) \/ In("retry", s, m)
  BY <1>2, <1>5, <1>6
<1>15. Unique /\ AllDistinct => Unique'
  <2> SUFFICES ASSUME Unique, AllDistinct,
                      NEW d, NEW j, NEW m, NEW g, NEW i, NEW n,
                      In(d, j, m)', In(g, i, n)', m.id = n.id
               PROVE  d = g /\ j = i /\ m = n
    BY DEF Unique, UniqueEvent
  <2>1. \A a, b, y, a2, b2, w : In(a, b, y) /\ In(a2, b2, w) /\ y.id = w.id
          => a = a2 /\ b = b2 /\ y = w
    BY DEF Unique, UniqueEvent
  <2>2. \A x \in X, y \in Y : x.id # y.id
    BY <1>2 DEF Apart
  <2>3. CASE (m \in X \/ m \in Y) /\ (n \in X \/ n \in Y)
    <3>1. m = n
      BY <1>14, <2>1, <2>3
    <3> QED
      BY <1>13, <1>14, <2>1, <2>2, <2>3, <3>1
  <2>4. CASE ~(m \in X \/ m \in Y) /\ ~(n \in X \/ n \in Y)
    BY <1>13, <2>1, <2>4
  <2>5. CASE (m \in X \/ m \in Y) /\ ~(n \in X \/ n \in Y)
    BY <1>13, <1>14, <2>1, <2>5
  <2>6. CASE ~(m \in X \/ m \in Y) /\ (n \in X \/ n \in Y)
    BY <1>13, <1>14, <2>1, <2>6
  <2> QED
    BY <2>3, <2>4, <2>5, <2>6
<1>16. \A m : Copied(m)' <=> Copied(m)
  <2>1. \A m : Copied(m)' => Copied(m)
    BY <1>13, <1>14 DEF Copied
  <2>2. \A d, j, m : In(d, j, m) => In(d, j, m)' \/ In("queue", 0, m)' \/ In("dropped", 0, m)'
    BY <1>6, <1>12, <1>13, <1>14
  <2> QED
    BY <2>1, <2>2 DEF Copied
<1>17. Unique /\ AllDistinct => AllDistinct'
  BY <1>2, <1>3, <1>4, EmptySet DEF AllDistinct, DistinctRecords
<1>18. SavedRetryNothing'
  BY <1>3, <1>4 DEF SavedRetryNothing
<1>19. \A r \in Slots : \A m : Awaiting(r, m)' <=> Awaiting(r, m)
  BY <1>3, <1>4, EmptySet DEF Awaiting
<1> QED
  BY <1>15, <1>16, <1>17, <1>18, <1>19 DEF Kept

(* A record read back is the copy the file held.                           *)
LEMMA AddOfflineRecordKept ==
  ASSUME TypeOK, AddOfflineRecord
  PROVE  Kept
<1> DEFINE q == local.records
           x == ReadFromJson(Head(q))
<1>1. q \in Seq(Events) /\ q # <<>> /\ local.active
  BY DEF AddOfflineRecord, TypeOK
<1>2. /\ Head(q) \in Events /\ Tail(q) \in Seq(Events)
      /\ Head(q) = q[1] /\ DOMAIN q = 1..Len(q) /\ Len(q) \in Nat /\ Len(q) >= 1
      /\ DOMAIN Tail(q) = 1..(Len(q) - 1) /\ \A i \in 1..(Len(q) - 1) : Tail(q)[i] = q[i + 1]
  BY <1>1
<1>3. local' = [local EXCEPT !.records = Tail(q)]
      /\ local \in [active : BOOLEAN, records : Seq(Events)]
  BY DEF AddOfflineRecord, TypeOK
<1>4. FileRecords = q /\ FileRecords' = Tail(q)
  BY <1>1, <1>3 DEF FileRecords
<1>5. x \in Metric /\ x.id = Head(q) /\ metricsQueue \in Seq(Metric)
  BY <1>2, MetricsEventType DEF TypeOK, ReadFromJson
<1>6. metricsQueue' = Append(metricsQueue, x) /\ UNCHANGED <<sending, jobs, acked, dropped>>
  BY DEF AddOfflineRecord, ghostVars
<1>7. UnsavedSlots' = UnsavedSlots
  BY <1>6 DEF UnsavedSlots
<1> HIDE DEF q
<1>8. \A i \in DOMAIN Tail(q) : i + 1 \in DOMAIN q /\ i + 1 # 1 /\ i \in Nat /\ Tail(q)[i] = q[i + 1]
  BY <1>2
<1>9. \A i \in DOMAIN q : i = 1 \/ (i - 1 \in DOMAIN Tail(q) /\ Tail(q)[i - 1] = q[i])
  BY <1>2
<1>10. 1 \in DOMAIN q
  BY <1>2
<1>11. ToSet(q) = {Head(q)} \union ToSet(Tail(q))
  <2>1. ASSUME NEW i \in DOMAIN q PROVE q[i] \in {Head(q)} \union ToSet(Tail(q))
    BY <1>2, <1>9 DEF ToSet
  <2>2. {Head(q)} \union ToSet(Tail(q)) \subseteq ToSet(q)
    BY <1>2, <1>8, <1>10 DEF ToSet
  <2> QED
    BY <2>1, <2>2 DEF ToSet
<1>12. DistinctRecords => DistinctRecords' /\ Head(q) \notin ToSet(Tail(q))
  <2>1. ASSUME DistinctRecords, NEW i \in DOMAIN Tail(q) PROVE Head(q) # Tail(q)[i]
    BY <1>2, <1>4, <1>8, <1>10, <2>1 DEF DistinctRecords
  <2>2. ASSUME DistinctRecords, NEW i \in DOMAIN Tail(q), NEW j \in DOMAIN Tail(q),
               Tail(q)[i] = Tail(q)[j]
        PROVE  i = j
    <3>1. i + 1 = j + 1
      BY <1>4, <1>8, <2>2 DEF DistinctRecords
    <3> QED
      BY <1>8, <3>1
  <2>3. Head(q) \in ToSet(Tail(q)) => \E i \in DOMAIN Tail(q) : Head(q) = Tail(q)[i]
    BY DEF ToSet
  <2> QED
    BY <1>4, <2>1, <2>2, <2>3 DEF DistinctRecords
<1>13. \A e, g : ReadFromJson(e) = ReadFromJson(g) => e = g
  BY DEF ReadFromJson
<1> HIDE DEF x
<1>14. \A m : In("queue", 0, m)' <=> In("queue", 0, m) \/ m = x
  BY <1>5, <1>6, AppendSet DEF In
<1>15. \A m : In("file", 0, m) <=> In("file", 0, m)' \/ m = x
  BY <1>4, <1>11 DEF In, x
<1>16. \A d, j, m : d \in {"sending", "events", "retry", "acked", "dropped"} =>
          (In(d, j, m)' <=> In(d, j, m))
  BY <1>6, <1>7 DEF In
<1>17. \A d, j, m : In(d, j, m) \/ In(d, j, m)' =>
          /\ d \in {"file", "acked", "dropped", "queue", "sending", "events", "retry"}
          /\ d \in {"queue", "file"} => j = 0
  BY DEF In
<1>18. AllDistinct => \A m : m = x => ~In("file", 0, m)'
  <2>1. HAVE AllDistinct
  <2>2. Head(q) \notin ToSet(Tail(q))
    BY <1>12, <2>1 DEF AllDistinct
  <2> QED
    BY <1>4, <1>13, <2>2 DEF In, x
<1>19. Unique /\ AllDistinct => Unique'
  <2>1. HAVE Unique /\ AllDistinct
  <2>2. \A m : m = x => ~In("file", 0, m)'
    BY <1>18, <2>1
  <2>3. OneMoves(x, x, "file", 0, "queue", 0)
    BY <1>14, <1>15, <1>16, <1>17, <2>2 DEF OneMoves
  <2> QED
    BY <2>1, <2>3, MoveOne
<1>20. \A m : Copied(m)' <=> Copied(m)
  <2>1. \A m : Copied(m)' => Copied(m)
    BY <1>14, <1>15, <1>16, <1>17 DEF Copied
  <2>2. \A d, j, m : In(d, j, m) => In(d, j, m)' \/ In("queue", 0, m)'
    BY <1>14, <1>15, <1>16, <1>17
  <2> QED
    BY <2>1, <2>2 DEF Copied
<1>21. Unique /\ AllDistinct => AllDistinct'
  <2>1. HAVE Unique /\ AllDistinct
  <2>2. In("file", 0, x)
    BY <1>15
  <2>3. Apart(ToSet(metricsQueue), {x})
    <3>1. \A m \in ToSet(metricsQueue) : In("queue", 0, m)
      BY DEF In
    <3> QED
      BY <2>1, <2>2, <3>1 DEF Unique, UniqueEvent, Apart
  <2>4. Distinct(metricsQueue')
    BY <1>5, <1>6, <2>1, <2>3, AppendSet DEF AllDistinct
  <2> QED
    BY <1>6, <1>12, <2>1, <2>4 DEF AllDistinct
<1>22. SavedRetryNothing' <=> SavedRetryNothing
  BY <1>6 DEF SavedRetryNothing
<1>23. \A r \in Slots : \A m : Awaiting(r, m)' <=> Awaiting(r, m)
  BY <1>6 DEF Awaiting
<1> QED
  BY <1>19, <1>20, <1>21, <1>22, <1>23 DEF Kept

(* What becomes of the copy h a response of job s is about: it is x, at c. *)
Answered(s, h, x, c, k) ==
  /\ x.id = h.id
  /\ OneMoves(h, x, "events", s, c, k)
  /\ \A d, j, m : m.id # h.id => (In(d, j, m)' <=> In(d, j, m))
  /\ In(c, k, x)'
  /\ \/ x.failures = 0 /\ CountSuccess(h) /\ UNCHANGED dropped
     \/ /\ x = MarkFailedSubmission(h) /\ CountFailure(x)
        /\ \/ MayRetry(x) /\ UNCHANGED dropped
           \/ ~MayRetry(x) /\ dropped' = dropped \union {x}
  /\ AllDistinct'

(* The loop of OnResponseReceived takes the first event of the job.        *)
LEMMA OnResponseTakes ==
  ASSUME TypeOK, NEW s \in Slots, OnResponseReceived(s)
  PROVE  \E h \in Metric : \E f :
           /\ h = Head(jobs[s].events) /\ f = MarkFailedSubmission(h)
           /\ ToSet(jobs[s].events) = {h} \union ToSet(jobs'[s].events)
           /\ Distinct(jobs[s].events) =>
                Distinct(jobs'[s].events) /\ Apart({h}, ToSet(jobs'[s].events))
           /\ jobs'[s].kind = jobs[s].kind
           /\ \A r \in Slots : r # s => jobs'[r] = jobs[r]
           /\ UNCHANGED <<metricsQueue, sending, file, local, accepted, rejected, faultsSeen>>
           /\ \/ /\ jobs[s].kind # "failed" /\ CountSuccess(h)
                 /\ acked' = IF jobs[s].kind = "api" THEN acked \union {h.id} ELSE acked
                 /\ jobs'[s].retry = jobs[s].retry
                 /\ UNCHANGED dropped
              \/ /\ jobs[s].kind # "saved" /\ CountFailure(f) /\ UNCHANGED acked
                 /\ \/ /\ ~MayRetry(f) /\ dropped' = dropped \union {f}
                       /\ jobs'[s].retry = jobs[s].retry
                    \/ /\ MayRetry(f) /\ UNCHANGED dropped
                       /\ jobs'[s].retry = Append(jobs[s].retry, f)
<1> DEFINE q == jobs[s].events
           rest == [jobs[s] EXCEPT !.events = Tail(@)]
<1>1. jobs[s] \in Job /\ q \in Seq(Metric) /\ q # <<>> /\ jobs[s].retry \in Seq(Metric)
  BY DEF TypeOK, Job, OnResponseReceived
<1>2. PICK h \in Metric : h = Head(q)
  BY <1>1, HeadTailSet
<1>3. PICK f : f = MarkFailedSubmission(h)
  OBVIOUS
<1>4. /\ ToSet(q) = {h} \union ToSet(Tail(q))
      /\ Distinct(q) => Distinct(Tail(q)) /\ Apart({h}, ToSet(Tail(q)))
  BY <1>1, <1>2, HeadTailSet
<1>5. /\ rest.events = Tail(q) /\ rest.kind = jobs[s].kind /\ rest.retry = jobs[s].retry
      /\ \A z : /\ [rest EXCEPT !.retry = z].events = Tail(q)
                /\ [rest EXCEPT !.retry = z].kind = jobs[s].kind
                /\ [rest EXCEPT !.retry = z].retry = z
  BY <1>1 DEF Job
<1>6. [rest EXCEPT !.retry = Append(@, f)] = [rest EXCEPT !.retry = Append(jobs[s].retry, f)]
  BY <1>5
<1>7. \A x : jobs' = [jobs EXCEPT ![s] = x] =>
         jobs'[s] = x /\ \A r \in Slots : r # s => jobs'[r] = jobs[r]
  BY DEF TypeOK
<1>8. \/ /\ jobs[s].kind # "failed" /\ CountSuccess(h)
         /\ acked' = IF jobs[s].kind = "api" THEN acked \union {h.id} ELSE acked
         /\ jobs' = [jobs EXCEPT ![s] = rest]
         /\ UNCHANGED dropped
      \/ /\ jobs[s].kind # "saved" /\ CountFailure(f) /\ UNCHANGED acked
         /\ \/ /\ ~MayRetry(f) /\ dropped' = dropped \union {f}
               /\ jobs' = [jobs EXCEPT ![s] = rest]
            \/ /\ MayRetry(f) /\ UNCHANGED dropped
               /\ jobs' = [jobs EXCEPT ![s] = [rest EXCEPT !.retry = Append(@, f)]]
  BY <1>2, <1>3 DEF OnResponseReceived
<1>9. UNCHANGED <<metricsQueue, sending, file, local, accepted, rejected, faultsSeen>>
  BY DEF OnResponseReceived, queueVars, fileVars
<1>10. CASE jobs' = [jobs EXCEPT ![s] = rest]
  <2>1. /\ jobs'[s].events = Tail(q) /\ jobs'[s].kind = jobs[s].kind
        /\ jobs'[s].retry = jobs[s].retry
        /\ \A r \in Slots : r # s => jobs'[r] = jobs[r]
    BY <1>5, <1>7, <1>10
  <2>2. jobs[s].retry # Append(jobs[s].retry, f)
    <3>1. Len(Append(jobs[s].retry, f)) = Len(jobs[s].retry) + 1 /\ Len(jobs[s].retry) \in Nat
      BY <1>1
    <3> QED
      BY <3>1
  <2>3. jobs' # [jobs EXCEPT ![s] = [rest EXCEPT !.retry = Append(@, f)]]
    <3>1. SUFFICES ASSUME jobs' = [jobs EXCEPT ![s] = [rest EXCEPT !.retry = Append(@, f)]]
                   PROVE  FALSE
      OBVIOUS
    <3>2. jobs'[s] = [rest EXCEPT !.retry = Append(jobs[s].retry, f)]
      BY <1>6, <1>7, <3>1
    <3>3. jobs'[s].retry = Append(jobs[s].retry, f)
      BY <1>5, <3>2
    <3> QED
      BY <2>1, <2>2, <3>3
  <2> HIDE DEF rest
  <2> QED
    BY <1>2, <1>3, <1>4, <1>8, <1>9, <2>1, <2>3
<1>11. CASE jobs' = [jobs EXCEPT ![s] = [rest EXCEPT !.retry = Append(@, f)]]
            /\ jobs[s].kind # "saved" /\ CountFailure(f) /\ UNCHANGED acked
            /\ MayRetry(f) /\ UNCHANGED dropped
  <2>1. /\ jobs'[s].events = Tail(q) /\ jobs'[s].kind = jobs[s].kind
        /\ jobs'[s].retry = Append(jobs[s].retry, f)
        /\ \A r \in Slots : r # s => jobs'[r] = jobs[r]
    <3>1. /\ jobs'[s] = [rest EXCEPT !.retry = Append(jobs[s].retry, f)]
          /\ \A r \in Slots : r # s => jobs'[r] = jobs[r]
      BY <1>6, <1>7, <1>11
    <3> HIDE DEF rest
    <3> QED
      BY <1>5, <3>1
  <2> HIDE DEF rest
  <2> QED
    BY <1>2, <1>3, <1>4, <1>9, <1>11, <2>1
<1> QED
  BY <1>8, <1>10, <1>11

LEMMA OnResponseAnswers ==
  ASSUME TypeOK, NEW s \in Slots, OnResponseReceived(s), jobs[s].kind # "saved",
         Unique, AllDistinct
  PROVE  \E h \in Metric : \E x, c, k : h = Head(jobs[s].events) /\ Answered(s, h, x, c, k)
<1>1. PICK h, f :
           /\ h \in Metric
           /\ h = Head(jobs[s].events) /\ f = MarkFailedSubmission(h)
           /\ ToSet(jobs[s].events) = {h} \union ToSet(jobs'[s].events)
           /\ Distinct(jobs[s].events) =>
                Distinct(jobs'[s].events) /\ Apart({h}, ToSet(jobs'[s].events))
           /\ jobs'[s].kind = jobs[s].kind
           /\ \A r \in Slots : r # s => jobs'[r] = jobs[r]
           /\ UNCHANGED <<metricsQueue, sending, file, local, accepted, rejected, faultsSeen>>
           /\ \/ /\ jobs[s].kind # "failed" /\ CountSuccess(h)
                 /\ acked' = IF jobs[s].kind = "api" THEN acked \union {h.id} ELSE acked
                 /\ jobs'[s].retry = jobs[s].retry
                 /\ UNCHANGED dropped
              \/ /\ jobs[s].kind # "saved" /\ CountFailure(f) /\ UNCHANGED acked
                 /\ \/ /\ ~MayRetry(f) /\ dropped' = dropped \union {f}
                       /\ jobs'[s].retry = jobs[s].retry
                    \/ /\ MayRetry(f) /\ UNCHANGED dropped
                       /\ jobs'[s].retry = Append(jobs[s].retry, f)
  BY OnResponseTakes
<1>2. f.id = h.id /\ f.failures = h.failures + 1 /\ (MayRetry(f) => f \in Metric)
  BY <1>1, MarkFailedType DEF MayRetry
<1>3. /\ Distinct(jobs'[s].events) /\ \A m \in ToSet(jobs'[s].events) : m.id # h.id
  BY <1>1 DEF AllDistinct, Apart
<1>4. jobs[s].kind \in {"api", "failed"}
  BY DEF OnResponseReceived
<1>5. UnsavedSlots' = UnsavedSlots /\ s \in UnsavedSlots /\ UnsavedSlots \subseteq Slots
  BY <1>1, <1>4 DEF UnsavedSlots
<1>6. FileRecords' = FileRecords
  BY <1>1 DEF FileRecords
<1>7. In("events", s, h)
  BY <1>1, <1>5 DEF In
<1>8. \A j, m : In("events", j, m)' <=> In("events", j, m) /\ ~(j = s /\ m = h)
  BY <1>1, <1>3, <1>5 DEF In
<1>9. \A d, j, m : d \in {"queue", "sending", "file"} => (In(d, j, m)' <=> In(d, j, m))
  BY <1>1, <1>6 DEF In
<1>10. \A d, j, m : In(d, j, m) \/ In(d, j, m)' =>
          /\ d \in {"file", "acked", "dropped", "queue", "sending", "events", "retry"}
          /\ d \in {"acked", "dropped"} => j = 0
  BY DEF In
<1>11. ASSUME jobs'[s].retry = jobs[s].retry
       PROVE  /\ \A j, m : In("retry", j, m)' <=> In("retry", j, m)
              /\ AllDistinct'
  <2>1. \A j, m : In("retry", j, m)' <=> In("retry", j, m)
    BY <1>1, <1>5, <1>11 DEF In
  <2> QED
    BY <1>1, <1>3, <1>6, <1>11, <2>1 DEF AllDistinct, DistinctRecords
<1>12. CASE /\ jobs[s].kind # "failed" /\ CountSuccess(h)
            /\ acked' = IF jobs[s].kind = "api" THEN acked \union {h.id} ELSE acked
            /\ jobs'[s].retry = jobs[s].retry
            /\ UNCHANGED dropped
  <2>1. acked' = acked \union {h.id}
    BY <1>4, <1>12
  <2>2. PICK x : x = ReadFromJson(h.id)
    OBVIOUS
  <2>3. x.id = h.id /\ x.failures = 0
    BY <2>2 DEF ReadFromJson
  <2>4. \A j, m : In("acked", j, m)' <=> In("acked", j, m) \/ (j = 0 /\ m = x)
    BY <2>1, <2>2 DEF In
  <2>5. \A j, m : In("dropped", j, m)' <=> In("dropped", j, m)
    BY <1>12 DEF In
  <2>6. OneMoves(h, x, "events", s, "acked", 0)
    BY <1>7, <1>8, <1>9, <1>10, <1>11, <1>12, <2>4, <2>5 DEF OneMoves
  <2>7. \A d, j, m : m.id # h.id => (In(d, j, m)' <=> In(d, j, m))
    BY <1>8, <1>9, <1>10, <1>11, <1>12, <2>3, <2>4, <2>5
  <2>8. In("acked", 0, x)'
    BY <2>4
  <2>9. Answered(s, h, x, "acked", 0)
    BY <1>11, <1>12, <2>3, <2>6, <2>7, <2>8 DEF Answered
  <2> QED
    BY <1>1, <2>9
<1>13. CASE /\ CountFailure(f) /\ UNCHANGED acked
            /\ ~MayRetry(f) /\ dropped' = dropped \union {f}
            /\ jobs'[s].retry = jobs[s].retry
  <2>4. \A j, m : In("dropped", j, m)' <=> In("dropped", j, m) \/ (j = 0 /\ m = f)
    BY <1>13 DEF In
  <2>5. \A j, m : In("acked", j, m)' <=> In("acked", j, m)
    BY <1>13 DEF In
  <2>6. OneMoves(h, f, "events", s, "dropped", 0)
    BY <1>7, <1>8, <1>9, <1>10, <1>11, <1>13, <2>4, <2>5 DEF OneMoves
  <2>7. \A d, j, m : m.id # h.id => (In(d, j, m)' <=> In(d, j, m))
    BY <1>2, <1>8, <1>9, <1>10, <1>11, <1>13, <2>4, <2>5
  <2>8. In("dropped", 0, f)'
    BY <2>4
  <2>9. Answered(s, h, f, "dropped", 0)
    BY <1>1, <1>2, <1>11, <1>13, <2>6, <2>7, <2>8 DEF Answered
  <2> QED
    BY <1>1, <2>9
<1>14. CASE /\ CountFailure(f) /\ UNCHANGED acked
            /\ MayRetry(f) /\ UNCHANGED dropped
            /\ jobs'[s].retry = Append(jobs[s].retry, f)
  <2>1. f \in Metric /\ jobs[s].retry \in Seq(Metric)
    BY <1>2, <1>14 DEF TypeOK, Job
  <2>2. /\ ToSet(jobs'[s].retry) = ToSet(jobs[s].retry) \union {f}
        /\ Distinct(jobs[s].retry) /\ Apart(ToSet(jobs[s].retry), {f}) =>
             Distinct(jobs'[s].retry)
    BY <1>14, <2>1, AppendSet
  <2>3. Apart(ToSet(jobs[s].retry), {f})
    <3>1. \A m \in ToSet(jobs[s].retry) : In("retry", s, m)
      BY <1>5 DEF In
    <3> QED
      BY <1>2, <1>7, <3>1 DEF Unique, UniqueEvent, Apart
  <2>4. \A j, m : In("retry", j, m)' <=> In("retry", j, m) \/ (j = s /\ m = f)
    BY <1>1, <1>5, <2>2 DEF In
  <2>5. \A d, j, m : d \in {"acked", "dropped"} => (In(d, j, m)' <=> In(d, j, m))
    BY <1>14 DEF In
  <2>6. OneMoves(h, f, "events", s, "retry", s)
    BY <1>7, <1>8, <1>9, <1>10, <2>4, <2>5 DEF OneMoves
  <2>7. \A d, j, m : m.id # h.id => (In(d, j, m)' <=> In(d, j, m))
    BY <1>2, <1>8, <1>9, <1>10, <2>4, <2>5
  <2>8. In("retry", s, f)'
    BY <2>4
  <2>9. AllDistinct'
    BY <1>1, <1>3, <1>6, <2>2, <2>3 DEF AllDistinct, DistinctRecords
  <2>10. Answered(s, h, f, "retry", s)
    BY <1>1, <1>2, <1>14, <2>6, <2>7, <2>8, <2>9 DEF Answered
  <2> QED
    BY <1>1, <2>10
<1> QED
  BY <1>1, <1>12, <1>13, <1>14

(* The response of a saved batch only counts.                              *)
LEMMA OnResponseCounts ==
  ASSUME TypeOK, NEW s \in Slots, OnResponseReceived(s), jobs[s].kind = "saved", AllDistinct
  PROVE  /\ \A c, k, m : In(c, k, m)' <=> In(c, k, m)
         /\ AllDistinct' /\ UNCHANGED dropped
         /\ \E h \in Metric :
              /\ CountSuccess(h) /\ Awaiting(s, h)
              /\ \A r \in Slots : \A m :
                   Awaiting(r, m)' <=> Awaiting(r, m) /\ ~(r = s /\ m.id = h.id)
              /\ \A m : Awaiting(s, m) /\ m.id = h.id => m = h
<1>1. PICK h \in Metric :
           /\ ToSet(jobs[s].events) = {h} \union ToSet(jobs'[s].events)
           /\ Distinct(jobs[s].events) =>
                Distinct(jobs'[s].events) /\ Apart({h}, ToSet(jobs'[s].events))
           /\ jobs'[s].kind = jobs[s].kind
           /\ \A r \in Slots : r # s => jobs'[r] = jobs[r]
           /\ UNCHANGED <<metricsQueue, sending, file, local, acked, dropped>>
           /\ CountSuccess(h)
           /\ jobs'[s].retry = jobs[s].retry
  BY OnResponseTakes
<1>2. Distinct(jobs'[s].events) /\ \A m \in ToSet(jobs'[s].events) : m.id # h.id
  BY <1>1 DEF AllDistinct, Apart
<1>3. FileRecords' = FileRecords
  BY <1>1 DEF FileRecords
<1>4. UnsavedSlots' = UnsavedSlots /\ UnsavedSlots \subseteq Slots /\ s \notin UnsavedSlots
  BY <1>1 DEF UnsavedSlots
<1>5. \A r \in UnsavedSlots : jobs'[r] = jobs[r]
  BY <1>1, <1>4
<1>6. \A c, k, m : In(c, k, m)' <=> In(c, k, m)
  BY <1>1, <1>3, <1>4, <1>5 DEF In
<1>7. AllDistinct'
  BY <1>1, <1>2, <1>3 DEF AllDistinct, DistinctRecords
<1>8. /\ \A m : Awaiting(s, m) <=> m \in ToSet(jobs[s].events)
      /\ \A m : Awaiting(s, m)' <=> m \in ToSet(jobs'[s].events)
      /\ \A r \in Slots : \A m : r # s => (Awaiting(r, m)' <=> Awaiting(r, m))
  BY <1>1 DEF Awaiting
<1> QED
  BY <1>1, <1>2, <1>6, <1>7, <1>8

(* A job whose events were written, or lost in a Write that failed: they   *)
(* leave their places, and wait in the job only to be counted.             *)
Saves(s) ==
  /\ jobs[s].kind = "file" /\ jobs[s].events \in Seq(Metric) /\ jobs'[s].kind = "saved"
  /\ jobs'[s].events = jobs[s].events /\ jobs'[s].retry = <<>>
  /\ \A r \in Slots : r # s => jobs'[r] = jobs[r]
  /\ \A d, j, m : m.failures > 0 => (In(d, j, m)' <=> In(d, j, m) /\ ~(d = "events" /\ j = s))
  /\ \A m : Copied(m)' => \E n : Copied(n) /\ n.id = m.id
  /\ Unique /\ AllDistinct => Unique' /\ AllDistinct'

LEMMA SendMetricsToFileSaves ==
  ASSUME TypeOK, FileJobsRetryNothing, NEW s \in Slots, SendMetricsToFile(s)
  PROVE  Kept \/ Saves(s)
<1> DEFINE q == jobs[s].events
           ids == [i \in DOMAIN q |-> q[i].id]
<1>1. /\ q \in Seq(Metric) /\ jobs[s] \in Job /\ jobs[s].kind = "file" /\ jobs[s].retry = <<>>
      /\ file \in [state : {"absent", "valid", "corrupt"}, records : Seq(Events)]
      /\ file.records \in Seq(Events) /\ ~local.active /\ local' = local
  BY DEF TypeOK, Job, SendMetricsToFile, FileJobsRetryNothing
<1>2. \A k : jobs' = [jobs EXCEPT ![s].kind = k] =>
         /\ jobs'[s].kind = k /\ jobs'[s].events = q /\ jobs'[s].retry = jobs[s].retry
         /\ \A r \in Slots : r # s => jobs'[r] = jobs[r]
  BY <1>1 DEF TypeOK, Job
<1>3. UNCHANGED <<metricsQueue, sending, acked, dropped>>
  BY DEF SendMetricsToFile, queueVars, ghostVars
<1>4. s \in UnsavedSlots /\ UnsavedSlots \subseteq Slots
  BY <1>1 DEF UnsavedSlots
<1>5. CASE jobs' = [jobs EXCEPT ![s].kind = "failed"] /\ UNCHANGED file
  <2> HIDE DEF q
  <2>1. /\ jobs'[s].kind = "failed" /\ jobs'[s].events = jobs[s].events
        /\ jobs'[s].retry = jobs[s].retry
        /\ \A r \in Slots : r # s => jobs'[r] = jobs[r]
    BY <1>2, <1>5 DEF q
  <2>2. UnsavedSlots' = UnsavedSlots
    BY <1>1, <2>1 DEF UnsavedSlots
  <2>3. FileRecords' = FileRecords
    BY <1>1, <1>5 DEF FileRecords
  <2>4. \A r \in Slots : jobs'[r].events = jobs[r].events /\ jobs'[r].retry = jobs[r].retry
    BY <2>1
  <2>5. \A d, j, m : In(d, j, m)' <=> In(d, j, m)
    BY <1>3, <1>4, <2>2, <2>3, <2>4 DEF In
  <2>6. AllDistinct => AllDistinct'
    BY <1>3, <2>3, <2>4 DEF AllDistinct, DistinctRecords
  <2>7. SavedRetryNothing => SavedRetryNothing'
    BY <2>1 DEF SavedRetryNothing
  <2>8. \A r \in Slots : \A m : Awaiting(r, m)' <=> Awaiting(r, m)
    BY <1>1, <2>1 DEF Awaiting
  <2> QED
    BY <2>5, <2>6, <2>7, <2>8, Vanish DEF Kept, Copied
<1>6. CASE jobs' = [jobs EXCEPT ![s].kind = "saved"]
  <2>1. /\ jobs'[s].kind = "saved" /\ jobs'[s].events = q /\ jobs'[s].retry = <<>>
        /\ \A r \in Slots : r # s => jobs'[r] = jobs[r]
    BY <1>1, <1>2, <1>6
  <2>2. UnsavedSlots' = UnsavedSlots \ {s}
    BY <2>1 DEF UnsavedSlots
  <2>3. \A r \in Slots : jobs'[r].events = jobs[r].events /\ jobs'[r].retry = jobs[r].retry
    BY <1>1, <2>1
  <2>4. \A m : In("events", s, m) <=> m \in ToSet(q)
    BY <1>4 DEF In
  <2>5. \A m : ~In("retry", s, m)
    BY <1>1, EmptySet DEF In
  <2> DEFINE new == FileRecords'
  <2>6. FileRecords = file.records /\ new = file'.records
    BY <1>1 DEF FileRecords
  <2> HIDE DEF q
  <2>7. \A j, m : In("events", j, m)' <=> In("events", j, m) /\ j # s
    BY <1>4, <2>2, <2>3 DEF In
  <2>8. \A j, m : In("retry", j, m)' <=> In("retry", j, m)
    BY <1>4, <2>2, <2>3, <2>5 DEF In
  <2>9. \A d, j, m : d \in {"queue", "sending", "acked", "dropped"} =>
           (In(d, j, m)' <=> In(d, j, m))
    BY <1>3 DEF In
  <2>10. \A d, j, m : In(d, j, m) \/ In(d, j, m)' =>
          /\ d \in {"file", "acked", "dropped", "queue", "sending", "events", "retry"}
          /\ d = "file" => j = 0 /\ \E e : m = ReadFromJson(e)
    BY DEF In
  <2>11. \A e : ReadFromJson(e).failures = 0 /\ ReadFromJson(e).id = e
    BY DEF ReadFromJson
  <2>12. \A d, j, m : m.failures > 0 =>
            (In(d, j, m)' <=> In(d, j, m) /\ ~(d = "events" /\ j = s))
    <3> TAKE d, j, m
    <3>1. HAVE m.failures > 0
    <3>2. \A e : m # ReadFromJson(e)
      BY <2>11, <3>1
    <3>3. d = "file" => ~In(d, j, m) /\ ~In(d, j, m)'
      BY <2>10, <3>2
    <3> QED
      BY <2>7, <2>8, <2>9, <2>10, <3>3
  <2>13. CASE file'.records = file.records \o ids
    <3>1. ids \in Seq(Events) /\ Len(ids) = Len(q) /\ DOMAIN ids = DOMAIN q
          /\ \A i \in DOMAIN q : ids[i] = q[i].id
      <4>1. \A i \in DOMAIN q : q[i] \in Metric
        BY <1>1 DEF q
      <4>2. \A i \in DOMAIN q : q[i].id \in Events
        BY <4>1 DEF Metric
      <4>3. DOMAIN q = 1..Len(q) /\ Len(q) \in Nat
        BY <1>1 DEF q
      <4> QED
        BY <4>2, <4>3, IsASeq
    <3> DEFINE old == file.records
    <3>2. /\ Len(old) \in Nat /\ DOMAIN old = 1..Len(old) /\ Len(ids) \in Nat
          /\ DOMAIN ids = 1..Len(ids)
          /\ DOMAIN (old \o ids) = 1..(Len(old) + Len(ids))
          /\ \A i \in 1..Len(old) : (old \o ids)[i] = old[i]
          /\ \A i \in 1..Len(ids) : (old \o ids)[Len(old) + i] = ids[i]
      BY <1>1, <3>1, ConcatProperties
    <3>3. new = old \o ids /\ FileRecords = old
      BY <2>6, <2>13
    <3> HIDE DEF new, old, ids
    <3>4. \A i \in DOMAIN new :
             \/ i \in DOMAIN old /\ new[i] = old[i]
             \/ i - Len(old) \in DOMAIN q /\ new[i] = q[i - Len(old)].id /\ i \in Nat
      BY <3>1, <3>2, <3>3
    <3>5. \A i \in DOMAIN old : i \in DOMAIN new /\ new[i] = old[i]
      BY <3>2, <3>3
    <3>6. \A m : In("file", 0, m)' =>
             In("file", 0, m) \/ \E n \in ToSet(q) : m = ReadFromJson(n.id)
      <4>1. \A m : In("file", 0, m)' => \E i \in DOMAIN new : m = ReadFromJson(new[i])
        BY DEF In, ToSet, new
      <4>2. \A i \in DOMAIN old : In("file", 0, ReadFromJson(old[i]))
        BY <3>3 DEF In, ToSet
      <4>3. \A i \in DOMAIN q : q[i] \in ToSet(q)
        BY DEF ToSet
      <4> QED
        BY <3>4, <4>1, <4>2, <4>3
    <3>7. \A m : Copied(m)' => \E n : Copied(n) /\ n.id = m.id
      BY <2>4, <2>7, <2>8, <2>9, <2>10, <2>11, <3>6 DEF Copied
    <3>8. Unique => Unique'
      <4> SUFFICES ASSUME Unique, NEW d, NEW j, NEW m, NEW g, NEW i, NEW n,
                          In(d, j, m)', In(g, i, n)', m.id = n.id
                   PROVE  d = g /\ j = i /\ m = n
        BY DEF Unique, UniqueEvent
      <4>1. \A a, b, x, a2, b2, y : In(a, b, x) /\ In(a2, b2, y) /\ x.id = y.id
              => a = a2 /\ b = b2 /\ x = y
        BY DEF Unique, UniqueEvent
      <4>2. \A a, b, x : In(a, b, x)' =>
               \/ In(a, b, x) /\ ~(a = "events" /\ b = s)
               \/ a = "file" /\ b = 0 /\ \E y : In("events", s, y) /\ x = ReadFromJson(y.id)
        BY <2>4, <2>7, <2>8, <2>9, <2>10, <3>6
      <4>3. CASE In(d, j, m) /\ ~(d = "events" /\ j = s)
        <5>1. ~\E y : In("events", s, y) /\ n = ReadFromJson(y.id)
          BY <2>11, <4>1, <4>3
        <5> QED
          BY <4>1, <4>2, <4>3, <5>1
      <4>4. CASE In(g, i, n) /\ ~(g = "events" /\ i = s)
        <5>1. ~\E y : In("events", s, y) /\ m = ReadFromJson(y.id)
          BY <2>11, <4>1, <4>4
        <5> QED
          BY <4>1, <4>2, <4>4, <5>1
      <4>5. CASE /\ d = "file" /\ j = 0 /\ \E y : In("events", s, y) /\ m = ReadFromJson(y.id)
                 /\ g = "file" /\ i = 0 /\ \E y : In("events", s, y) /\ n = ReadFromJson(y.id)
        BY <2>11, <4>1, <4>5
      <4> QED
        BY <4>2, <4>3, <4>4, <4>5
    <3>9. Unique /\ AllDistinct => DistinctRecords'
      <4> SUFFICES ASSUME Unique, AllDistinct, NEW i \in DOMAIN new, NEW j \in DOMAIN new,
                          new[i] = new[j]
                   PROVE  i = j
        BY DEF DistinctRecords, new
      <4>1. \A a, b \in DOMAIN old : old[a] = old[b] => a = b
        BY <3>3 DEF AllDistinct, DistinctRecords
      <4>2. \A a, b \in DOMAIN q : q[a].id = q[b].id => a = b
        BY DEF AllDistinct, Distinct, q
      <4>3. ASSUME NEW a \in DOMAIN old, NEW b \in DOMAIN q PROVE old[a] # q[b].id
        <5>1. In("file", 0, ReadFromJson(old[a]))
          BY <3>3 DEF In, ToSet
        <5>2. In("events", s, q[b])
          BY <2>4 DEF ToSet
        <5>3. ReadFromJson(old[a]).id # q[b].id
          BY <5>1, <5>2 DEF Unique, UniqueEvent
        <5> QED
          BY <2>11, <5>3
      <4>4. CASE i \in DOMAIN old /\ j \in DOMAIN old
        BY <3>5, <4>1, <4>4
      <4>5. CASE i \notin DOMAIN old /\ j \notin DOMAIN old
        <5>1. i - Len(old) = j - Len(old)
          BY <3>4, <4>2, <4>5
        <5> QED
          BY <3>2, <3>4, <4>5, <5>1
      <4>6. CASE i \in DOMAIN old /\ j \notin DOMAIN old
        BY <3>4, <3>5, <4>3, <4>6
      <4>7. CASE i \notin DOMAIN old /\ j \in DOMAIN old
        <5>1. new[j] # new[i]
          BY <3>4, <3>5, <4>3, <4>7
        <5> QED
          BY <5>1
      <4> QED
        BY <4>4, <4>5, <4>6, <4>7
    <3>10. Unique /\ AllDistinct => AllDistinct'
      BY <1>3, <2>3, <3>9 DEF AllDistinct
    <3> QED
      BY <1>1, <2>1, <2>12, <3>7, <3>8, <3>10 DEF Saves, q
  <2>14. CASE file'.records = <<>>
    <3>1. \A d, j, m : In(d, j, m)' => In(d, j, m)
      <4>1. \A j, m : ~In("file", j, m)'
        BY <2>6, <2>14, EmptySet DEF In, new
      <4> QED
        BY <2>7, <2>8, <2>9, <2>10, <4>1
    <3>2. DistinctRecords'
      BY <2>6, <2>14 DEF DistinctRecords, new
    <3>3. AllDistinct => AllDistinct'
      BY <1>3, <2>3, <3>2 DEF AllDistinct
    <3> QED
      BY <1>1, <2>1, <2>12, <3>1, <3>3, Vanish DEF Saves, Copied, q
  <2>15. jobs' # [jobs EXCEPT ![s].kind = "failed"]
    BY <1>2, <2>1
  <2>16. file'.records = file.records \o ids \/ file'.records = <<>>
    BY <2>15 DEF SendMetricsToFile, q
  <2> QED
    BY <2>13, <2>14, <2>16
<1> QED
  BY <1>5, <1>6 DEF SendMetricsToFile

(* The copy x of an event submitted now is the only one it has.            *)
Adds(x) ==
  /\ Unique /\ AllDistinct /\ Known => Unique' /\ AllDistinct'
  /\ \A m : Copied(m)' <=> Copied(m) \/ m = x
  /\ SavedRetryNothing => SavedRetryNothing'
  /\ \A s \in Slots : \A m : Awaiting(s, m)' <=> Awaiting(s, m)

LEMMA SubmitAdds ==
  ASSUME TypeOK, NEW e \in Events, SubmitMetrics(e)
  PROVE  \/ Kept /\ accepted' = accepted
         \/ Adds(MetricsEvent(e)) /\ accepted' = accepted \union {e}
<1>1. PICK x \in Metric : x = MetricsEvent(e)
  BY MetricsEventType
<1>2. x.id = e /\ metricsQueue \in Seq(Metric) /\ e \notin accepted
  BY <1>1 DEF MetricsEvent, TypeOK, SubmitMetrics, Unsubmitted
<1>3. UNCHANGED <<sending, jobs, acked, dropped>> /\ FileRecords' = FileRecords
      /\ UnsavedSlots' = UnsavedSlots
  BY DEF SubmitMetrics, fileVars, FileRecords, UnsavedSlots
<1>4. CASE UNCHANGED <<metricsQueue, accepted>>
  BY <1>3, <1>4, UnchangedKept
<1>5. CASE metricsQueue' = Append(metricsQueue, x) /\ accepted' = accepted \union {e}
  <2>1. \A d, j, m : In(d, j, m)' <=> In(d, j, m) \/ (d = "queue" /\ j = 0 /\ m = x)
    <3>1. \A m : In("queue", 0, m)' <=> In("queue", 0, m) \/ m = x
      <4>1. ToSet(metricsQueue') = ToSet(metricsQueue) \union {x}
        BY <1>2, <1>5, AppendSet
      <4> QED
        BY <4>1 DEF In
    <3>2. \A d, j, m : d # "queue" => (In(d, j, m)' <=> In(d, j, m))
      BY <1>3 DEF In
    <3>3. \A j, m : In("queue", j, m) \/ In("queue", j, m)' => j = 0
      BY DEF In
    <3> QED
      BY <3>1, <3>2, <3>3
  <2>2. Unique /\ AllDistinct /\ Known => Unique' /\ AllDistinct'
    <3>1. HAVE Unique /\ AllDistinct /\ Known
    <3>2. \A d, j, m : In(d, j, m) => m.id # x.id
      BY <1>2, <3>1 DEF Known
    <3>3. Arrives(x, "queue", 0)
      BY <2>1, <3>2 DEF Arrives
    <3>4. Unique'
      BY <3>1, <3>3, Arrive
    <3>5. Apart(ToSet(metricsQueue), {x})
      <4>1. \A m \in ToSet(metricsQueue) : In("queue", 0, m)
        BY DEF In
      <4> QED
        BY <3>2, <4>1 DEF Apart
    <3>6. Distinct(metricsQueue')
      BY <1>2, <1>5, <3>1, <3>5, AppendSet DEF AllDistinct
    <3> QED
      BY <1>3, <3>1, <3>4, <3>6 DEF AllDistinct, DistinctRecords
  <2>3. \A m : Copied(m)' <=> Copied(m) \/ m = x
    BY <2>1 DEF Copied
  <2>4. (SavedRetryNothing => SavedRetryNothing')
        /\ \A s \in Slots : \A m : Awaiting(s, m)' <=> Awaiting(s, m)
    BY <1>3 DEF SavedRetryNothing, Awaiting
  <2>5. Adds(x)
    BY <2>2, <2>3, <2>4 DEF Adds
  <2> QED
    BY <1>1, <1>5, <2>5
<1> QED
  BY <1>1, <1>4, <1>5 DEF SubmitMetrics

LEMMA DirectlyAdds ==
  ASSUME TypeOK, NEW e \in Events, SendMetricsDirectly(e)
  PROVE  Adds(MetricsEvent(e))
<1>1. PICK x \in Metric : x = MetricsEvent(e)
  BY MetricsEventType
<1>2. x.id = e /\ e \notin accepted /\ sending["client"] = <<>>
  BY <1>1 DEF MetricsEvent, SendMetricsDirectly, Unsubmitted
<1> DEFINE q == <<x>>
<1>3. q \in Seq(Metric) /\ ToSet(q) = {x} /\ Distinct(q)
  BY DEF ToSet, Distinct
<1>4. SendMetricsAsync("client", q, metricsMutex)
  BY <1>1 DEF SendMetricsDirectly
<1> HIDE DEF q
<1>5. PICK c, k : SentTo(q, c, k)
  BY <1>2, <1>3, <1>4, SendMoves DEF Threads
<1>6. UNCHANGED <<metricsQueue, acked, dropped>> /\ FileRecords' = FileRecords
  BY DEF SendMetricsDirectly, fileVars, FileRecords
<1>7. \A d, j, m : In(d, j, m)' <=> In(d, j, m) \/ (d = c /\ j = k /\ m = x)
  <2>1. \A d, j, m : d \in {"sending", "events", "retry"} =>
          (In(d, j, m)' <=> In(d, j, m) \/ (d = c /\ j = k /\ m = x))
    BY <1>3, <1>5 DEF SentTo
  <2>2. c \in {"sending", "events"}
    BY <1>5 DEF SentTo
  <2>3. \A d, j, m : d \notin {"sending", "events", "retry"} => (In(d, j, m)' <=> In(d, j, m))
    BY <1>6 DEF In
  <2> QED
    BY <2>1, <2>2, <2>3
<1>8. Unique /\ AllDistinct /\ Known => Unique' /\ AllDistinct'
  <2>1. HAVE Unique /\ AllDistinct /\ Known
  <2>2. \A d, j, m : In(d, j, m) => m.id # x.id
    BY <1>2, <2>1 DEF Known
  <2>3. Arrives(x, c, k)
    BY <1>7, <2>2 DEF Arrives
  <2>4. Unique'
    BY <2>1, <2>3, Arrive
  <2>5. AllDistinct'
    BY <1>3, <1>5, <1>6, <2>1 DEF AllDistinct, DistinctRecords, SentTo
  <2> QED
    BY <2>4, <2>5
<1>9. \A m : Copied(m)' <=> Copied(m) \/ m = x
  BY <1>7 DEF Copied
<1>10. (SavedRetryNothing => SavedRetryNothing')
       /\ \A s \in Slots : \A m : Awaiting(s, m)' <=> Awaiting(s, m)
  BY <1>5 DEF SentTo, Awaiting
<1> QED
  BY <1>1, <1>8, <1>9, <1>10 DEF Adds

-----------------------------------------------------------------------------
(* No event is in two places. *)

(* Every step keeps the copies, adds one, saves a batch or answers.        *)
LEMMA StepMoves ==
  ASSUME LostInv, SavedRetryNothing, [Next]_vars
  PROVE  \/ Kept /\ accepted' = accepted
         \/ \E e \in Events : Adds(MetricsEvent(e)) /\ accepted' = accepted \union {e}
         \/ \E s \in Slots : Saves(s) /\ accepted' = accepted
         \/ \E s \in Slots : OnResponseReceived(s)
         \/ "remove" \in faultsSeen' /\ UNCHANGED jobs
<1>1. TypeOK /\ FileJobsRetryNothing /\ MonitorSendsInFlush
  BY DEF LostInv
<1>2. ASSUME NEW e \in Events, SubmitMetrics(e)
      PROVE  \/ Kept /\ accepted' = accepted
             \/ Adds(MetricsEvent(e)) /\ accepted' = accepted \union {e}
  BY <1>1, <1>2, SubmitAdds
<1>3. ASSUME NEW e \in Events, SendMetricsDirectly(e)
      PROVE  Adds(MetricsEvent(e)) /\ accepted' = accepted \union {e}
  BY <1>1, <1>3, DirectlyAdds DEF SendMetricsDirectly
<1>4. CASE FlushMetrics
  BY <1>1, <1>4, FlushKept DEF FlushMetrics, Threads, fileVars, ghostVars
<1>5. CASE MonitorFlush
  BY <1>1, <1>5, FlushKept DEF MonitorFlush, MonitorSendsInFlush, Threads, fileVars, ghostVars
<1>6. ASSUME NEW t \in Threads, SendMetricsToServiceApiAsync(t)
      PROVE  Kept /\ accepted' = accepted
  BY <1>1, <1>6, SendToServiceKept DEF SendMetricsToServiceApiAsync, ghostVars
<1>7. ASSUME NEW s \in Slots, PushMetricsForRetry(s) PROVE Kept /\ accepted' = accepted
  BY <1>1, <1>7, PushForRetryKept DEF PushMetricsForRetry
<1>8. ASSUME NEW s \in Slots, SendMetricsToFile(s)
      PROVE  (Kept \/ Saves(s)) /\ accepted' = accepted
  BY <1>1, <1>8, SendMetricsToFileSaves DEF SendMetricsToFile, ghostVars
<1>9. CASE LocalJob
  <2>1. local \in [active : BOOLEAN, records : Seq(Events)]
    BY <1>1 DEF TypeOK
  <2>2. CASE SubmitLocalMetricsAsync
    <3>1. FileRecords' = FileRecords
      BY <2>1, <2>2 DEF SubmitLocalMetricsAsync, FileRecords
    <3> QED
      BY <2>2, <3>1, UnchangedKept DEF SubmitLocalMetricsAsync, queueVars, ghostVars
  <2>3. CASE AddOfflineRecord
    BY <1>1, <2>3, AddOfflineRecordKept DEF AddOfflineRecord, ghostVars
  <2>4. CASE RemoveLocalFile
    <3>1. CASE Fails("remove")
      BY <2>4, <3>1 DEF RemoveLocalFile, Fails
    <3>2. CASE ~Fails("remove")
      <4>1. FileRecords' = FileRecords
        BY <2>4, <3>2 DEF RemoveLocalFile, FileRecords
      <4> QED
        BY <2>4, <4>1, UnchangedKept DEF RemoveLocalFile, queueVars, ghostVars
    <3> QED
      BY <3>1, <3>2
  <2> QED
    BY <1>9, <2>2, <2>3, <2>4 DEF LocalJob
<1>10. CASE UNCHANGED <<metricsQueue, sending, jobs, file, local, acked, dropped, accepted>>
  <2>1. FileRecords' = FileRecords
    BY <1>10 DEF FileRecords
  <2> QED
    BY <1>10, <2>1, UnchangedKept
<1> QED
  BY <1>2, <1>3, <1>4, <1>5, <1>6, <1>7, <1>8, <1>9, <1>10 DEF Next, Client, Monitor, JobStep,
     vars, queueVars, fileVars, monitorVars, ghostVars, UpdateOfflineRecordingStatus,
     StartMetrics, ShutdownMetrics, Join, MonitorCheck, MonitorWakeUp

(* The strengthened invariant.                                             *)
OneCopy == Unique /\ AllDistinct /\ Known

DupInv == LostInv /\ SavedRetryNothing /\ ("remove" \notin faultsSeen => OneCopy)

LEMMA DupInit == Init => DupInv
<1> SUFFICES ASSUME Init PROVE DupInv
  OBVIOUS
<1>1. LostInv
  <2>1. TypeOK
    BY InitTypeOK
  <2>2. FileJobsRetryNothing
    BY DEF Init, FileJobsRetryNothing, Idle
  <2>3. MonitorSendsInFlush
    BY DEF Init, MonitorSendsInFlush, Threads
  <2>4. NoEventLost
    BY DEF Init, NoEventLost
  <2> QED
    BY <2>1, <2>2, <2>3, <2>4 DEF LostInv
<1>2. /\ metricsQueue = <<>> /\ \A t \in Threads : sending[t] = <<>>
      /\ \A s \in Slots : jobs[s].events = <<>> /\ jobs[s].retry = <<>>
      /\ FileRecords = <<>> /\ acked = {} /\ dropped = {}
  BY DEF Init, Idle, FileRecords
<1>3. \A c, k, m : ~In(c, k, m)
  BY <1>2, EmptySet DEF In, UnsavedSlots
<1>4. Unique /\ Known
  BY <1>3 DEF Unique, UniqueEvent, Known
<1>5. AllDistinct
  BY <1>2, EmptySet DEF AllDistinct, DistinctRecords
<1>6. SavedRetryNothing
  BY <1>2 DEF SavedRetryNothing
<1> QED
  BY <1>1, <1>4, <1>5, <1>6 DEF DupInv, OneCopy

LEMMA DupInductive == DupInv /\ [Next]_vars => DupInv'
<1> SUFFICES ASSUME DupInv, [Next]_vars PROVE DupInv'
  OBVIOUS
<1>1. LostInv /\ SavedRetryNothing /\ TypeOK
  BY DEF DupInv, LostInv
<1>2. LostInv'
  BY <1>1, LostInductive
<1>3. SavedRetryNothing'
  <2>1. ASSUME NEW r \in Slots, Saves(r) PROVE SavedRetryNothing'
    BY <1>1, <2>1 DEF SavedRetryNothing, Saves
  <2>2. ASSUME NEW r \in Slots, OnResponseReceived(r) PROVE SavedRetryNothing'
    <3>1. /\ jobs'[r].kind = jobs[r].kind
          /\ \A s \in Slots : s # r => jobs'[s] = jobs[s]
          /\ jobs[r].kind = "saved" => jobs'[r].retry = jobs[r].retry
      BY <1>1, <2>2, OnResponseTakes
    <3> QED
      BY <1>1, <3>1 DEF SavedRetryNothing
  <2> QED
    BY <1>1, <2>1, <2>2, StepMoves DEF Kept, Adds, SavedRetryNothing
<1>4. ASSUME "remove" \notin faultsSeen' PROVE OneCopy'
  <2>1. "remove" \notin faultsSeen /\ OneCopy
    BY <1>1, <1>4, FaultsStay DEF DupInv
  <2>2. CASE Kept /\ accepted' = accepted
    <3>1. \A m : Copied(m)' => Copied(m)
      BY <2>2 DEF Kept
    <3>2. Known'
      BY <2>1, <2>2, <3>1 DEF Known, Copied, OneCopy
    <3> QED
      BY <2>1, <2>2, <3>2 DEF Kept, OneCopy
  <2>3. ASSUME NEW e \in Events, Adds(MetricsEvent(e)), accepted' = accepted \union {e}
        PROVE  OneCopy'
    <3>1. \A m : Copied(m)' => Copied(m) \/ m.id = e
      BY <2>3 DEF Adds, MetricsEvent
    <3>2. Known'
      BY <2>1, <2>3, <3>1 DEF Known, Copied, OneCopy
    <3> QED
      BY <2>1, <2>3, <3>2 DEF Adds, OneCopy
  <2>4. ASSUME NEW s \in Slots, Saves(s), accepted' = accepted PROVE OneCopy'
    <3>1. \A m : Copied(m)' => \E n : Copied(n) /\ n.id = m.id
      BY <2>4 DEF Saves
    <3>2. Known'
      BY <2>1, <2>4, <3>1 DEF Known, Copied, OneCopy
    <3> QED
      BY <2>1, <2>4, <3>2 DEF Saves, OneCopy
  <2>5. ASSUME NEW s \in Slots, OnResponseReceived(s) PROVE OneCopy'
    <3>1. accepted' = accepted
      BY <2>5 DEF OnResponseReceived
    <3>2. CASE jobs[s].kind # "saved"
      <4>1. PICK h, x, c, k : h = Head(jobs[s].events) /\ Answered(s, h, x, c, k)
        BY <1>1, <2>1, <2>5, <3>2, OnResponseAnswers DEF OneCopy
      <4>2. OneMoves(h, x, "events", s, c, k) /\ x.id = h.id
        BY <4>1 DEF Answered
      <4>3. Unique'
        BY <2>1, <4>2, MoveOne DEF OneCopy
      <4>4. \A d, j, m : In(d, j, m)' => In(d, j, m) \/ (In("events", s, h) /\ m.id = h.id)
        BY <4>2 DEF OneMoves
      <4>5. Known'
        BY <2>1, <3>1, <4>4 DEF Known, OneCopy
      <4> QED
        BY <4>1, <4>3, <4>5 DEF Answered, OneCopy
    <3>3. CASE jobs[s].kind = "saved"
      <4>1. (\A d, j, m : In(d, j, m)' <=> In(d, j, m)) /\ AllDistinct'
        BY <1>1, <2>1, <2>5, <3>3, OnResponseCounts DEF OneCopy
      <4>2. Unique'
        BY <2>1, <4>1, Vanish DEF OneCopy
      <4> QED
        BY <2>1, <3>1, <4>1, <4>2 DEF OneCopy, Known
    <3> QED
      BY <3>2, <3>3
  <2> QED
    BY <1>1, <1>4, <2>2, <2>3, <2>4, <2>5, StepMoves
<1> QED
  BY <1>2, <1>3, <1>4 DEF DupInv

(* The sequence at a place, and the token MemoryCopies has of its copy i.  *)
Line(k, j) ==
  CASE k = "queue"   -> metricsQueue
    [] k = "sending" -> sending[j]
    [] k = "events"  -> jobs[j].events
    [] OTHER         -> jobs[j].retry

InMemory(slots, k, j) ==
  \/ k = "queue" /\ j = 0
  \/ k = "sending" /\ j \in Threads
  \/ k \in {"events", "retry"} /\ j \in slots

Token(k, j, i) ==
  [place |-> <<k, j>>, at |-> i, id |-> Line(k, j)[i].id, failures |-> Line(k, j)[i].failures]

LEMMA Tokens ==
  ASSUME NEW slots, NEW c
  PROVE  c \in MemoryCopies(slots) <=>
           \E k, j : InMemory(slots, k, j) /\ \E i \in DOMAIN Line(k, j) : c = Token(k, j, i)
<1>1. \A k, j : c \in CopiesAt(<<k, j>>, Line(k, j)) <=>
                 \E i \in DOMAIN Line(k, j) : c = Token(k, j, i)
  BY DEF CopiesAt, Token
<1>2. /\ Line("queue", 0) = metricsQueue
      /\ \A t \in Threads : Line("sending", t) = sending[t]
      /\ \A s \in slots : Line("events", s) = jobs[s].events /\ Line("retry", s) = jobs[s].retry
  BY DEF Line
<1>3. c \in MemoryCopies(slots) <=>
        \/ c \in CopiesAt(<<"queue", 0>>, metricsQueue)
        \/ \E t \in Threads : c \in CopiesAt(<<"sending", t>>, sending[t])
        \/ \E s \in slots : \/ c \in CopiesAt(<<"events", s>>, jobs[s].events)
                            \/ c \in CopiesAt(<<"retry", s>>, jobs[s].retry)
  <2>1. c \in UNION {JobCopies(s) : s \in slots} <=> \E s \in slots : c \in JobCopies(s)
    OBVIOUS
  <2>2. c \in UNION {CopiesAt(<<"sending", t>>, sending[t]) : t \in Threads} <=>
           \E t \in Threads : c \in CopiesAt(<<"sending", t>>, sending[t])
    OBVIOUS
  <2>3. \A s \in slots : c \in JobCopies(s) <=>
           \/ c \in CopiesAt(<<"events", s>>, jobs[s].events)
           \/ c \in CopiesAt(<<"retry", s>>, jobs[s].retry)
    BY DEF JobCopies
  <2>4. c \in MemoryCopies(slots) <=>
           \/ c \in CopiesAt(<<"queue", 0>>, metricsQueue)
           \/ c \in UNION {CopiesAt(<<"sending", t>>, sending[t]) : t \in Threads}
           \/ c \in UNION {JobCopies(s) : s \in slots}
    <3>1. MemoryCopies(slots) =
            (CopiesAt(<<"queue", 0>>, metricsQueue)
              \union (UNION {CopiesAt(<<"sending", t>>, sending[t]) : t \in Threads}))
              \union (UNION {JobCopies(s) : s \in slots})
      BY DEF MemoryCopies
    <3>2. \A A, B, C : c \in (A \union B) \union C <=> c \in A \/ c \in B \/ c \in C
      OBVIOUS
    <3> QED
      BY <3>1, <3>2, Zenon
  <2>5. c \in UNION {JobCopies(s) : s \in slots} <=>
           \E s \in slots : \/ c \in CopiesAt(<<"events", s>>, jobs[s].events)
                            \/ c \in CopiesAt(<<"retry", s>>, jobs[s].retry)
    BY <2>1, <2>3, Zenon
  <2> QED
    BY <2>2, <2>4, <2>5, Zenon
<1>4. c \in MemoryCopies(slots) <=>
        \/ c \in CopiesAt(<<"queue", 0>>, Line("queue", 0))
        \/ \E t \in Threads : c \in CopiesAt(<<"sending", t>>, Line("sending", t))
        \/ \E s \in slots : \/ c \in CopiesAt(<<"events", s>>, Line("events", s))
                            \/ c \in CopiesAt(<<"retry", s>>, Line("retry", s))
  BY <1>2, <1>3, Zenon
<1>5. c \in MemoryCopies(slots) <=>
        \E k, j : InMemory(slots, k, j) /\ c \in CopiesAt(<<k, j>>, Line(k, j))
  BY <1>4 DEF InMemory
<1> QED
  BY <1>1, <1>5

(* A token says where its copy is.                                         *)
LEMMA TokenEqual ==
  ASSUME NEW k, NEW j, NEW i, NEW l, NEW n, NEW h, Token(k, j, i) = Token(l, n, h)
  PROVE  k = l /\ j = n /\ i = h
<1>1. <<k, j>> = <<l, n>> /\ i = h
  BY DEF Token
<1> QED
  BY <1>1

LEMMA TokenIn ==
  ASSUME NEW k, NEW j, InMemory(UnsavedSlots, k, j), NEW i \in DOMAIN Line(k, j)
  PROVE  In(k, j, Line(k, j)[i])
  BY DEF InMemory, In, Line, ToSet

LEMMA LineDistinct ==
  ASSUME AllDistinct, NEW k, NEW j, InMemory(Slots, k, j)
  PROVE  Distinct(Line(k, j))
  BY DEF AllDistinct, InMemory, Line

LEMMA SameSize ==
  ASSUME NEW S, NEW T, NEW f \in [S -> T], IsFiniteSet(T),
         \A x, y \in S : f[x] = f[y] => x = y,
         \A z \in T : \E x \in S : f[x] = z
  PROVE  IsFiniteSet(S) /\ Cardinality(S) = Cardinality(T)
<1>1. f \in Injection(S, T) /\ f \in Surjection(S, T)
  BY DEF Injection, IsInjective, Surjection
<1> QED
  BY <1>1, FS_Injection

LEMMA AtMostOne ==
  ASSUME NEW S, \A x, y \in S : x = y
  PROVE  Cardinality(S) = IF S = {} THEN 0 ELSE 1
<1>1. CASE S = {}
  BY <1>1, FS_EmptySet
<1>2. CASE S # {}
  <2>1. PICK x : S = {x}
    BY <1>2
  <2> QED
    BY <1>2, <2>1, FS_Singleton
<1> QED
  BY <1>1, <1>2

LEMMA OneCopyCounts ==
  ASSUME OneCopy, NEW e
  PROVE  TotalCopies(e) <= 1
<1> DEFINE A == {c \in MemoryCopies(UnsavedSlots) : c.id = e}
           B == {i \in DOMAIN FileRecords : FileRecords[i] = e}
           C == {d \in dropped : d.id = e}
<1>1. \A k, j, m, l, n, h : In(k, j, m) /\ In(l, n, h) /\ m.id = e /\ h.id = e
        => k = l /\ j = n /\ m = h
  BY DEF OneCopy, Unique, UniqueEvent
<1>2. \A c \in A : \E k, j : InMemory(UnsavedSlots, k, j) /\ \E i \in DOMAIN Line(k, j) :
        c = Token(k, j, i) /\ Line(k, j)[i].id = e /\ In(k, j, Line(k, j)[i])
  <2> TAKE c \in A
  <2>1. PICK k, j : /\ InMemory(UnsavedSlots, k, j)
                    /\ \E i \in DOMAIN Line(k, j) : c = Token(k, j, i)
    BY Tokens
  <2>2. PICK i \in DOMAIN Line(k, j) : c = Token(k, j, i)
    BY <2>1
  <2>3. c.id = e /\ c.id = Line(k, j)[i].id
    BY <2>2 DEF Token
  <2> QED
    BY <2>1, <2>2, <2>3, TokenIn
<1>3. \A k, j : InMemory(UnsavedSlots, k, j) => Distinct(Line(k, j))
  BY LineDistinct DEF OneCopy, InMemory, UnsavedSlots
<1>4. \A x, y \in A : x = y
  <2> TAKE x, y \in A
  <2>1. PICK k, j, i :
          /\ i \in DOMAIN Line(k, j)
          /\ InMemory(UnsavedSlots, k, j) /\ x = Token(k, j, i)
          /\ Line(k, j)[i].id = e /\ In(k, j, Line(k, j)[i])
    BY <1>2
  <2>2. PICK l, n, h :
          /\ h \in DOMAIN Line(l, n)
          /\ InMemory(UnsavedSlots, l, n) /\ y = Token(l, n, h)
          /\ Line(l, n)[h].id = e /\ In(l, n, Line(l, n)[h])
    BY <1>2
  <2>3. k = l /\ j = n
    BY <1>1, <2>1, <2>2
  <2>4. i = h
    BY <1>3, <2>1, <2>2, <2>3 DEF Distinct
  <2> QED
    BY <2>1, <2>2, <2>3, <2>4
<1>5. \A x, y \in B : x = y
  BY DEF OneCopy, AllDistinct, DistinctRecords
<1>6. \A x \in C : In("dropped", 0, x) /\ x.id = e
  BY DEF In
<1>7. \A x, y \in C : x = y
  BY <1>1, <1>6
<1>8. B # {} => \E m : In("file", 0, m) /\ m.id = e
  <2>1. B # {} => In("file", 0, ReadFromJson(e)) /\ ReadFromJson(e).id = e
    BY DEF In, ToSet, ReadFromJson
  <2> QED
    BY <2>1
<1>9. e \in acked => \E m : In("acked", 0, m) /\ m.id = e
  <2>1. e \in acked => In("acked", 0, ReadFromJson(e)) /\ ReadFromJson(e).id = e
    BY DEF In, ReadFromJson
  <2> QED
    BY <2>1
<1>10. A # {} => \E k, j, m : In(k, j, m) /\ m.id = e /\ k \in {"queue", "sending", "events", "retry"}
  BY <1>2 DEF InMemory
<1>11. /\ Cardinality(A) = IF A = {} THEN 0 ELSE 1
       /\ Cardinality(B) = IF B = {} THEN 0 ELSE 1
       /\ Cardinality(C) = IF C = {} THEN 0 ELSE 1
  <2> HIDE DEF A, B, C
  <2> QED
    BY <1>4, <1>5, <1>7, AtMostOne
<1>12. TotalCopies(e) =
         Cardinality(A) + Cardinality(B) + (IF e \in acked THEN 1 ELSE 0) + Cardinality(C)
  BY DEF TotalCopies
<1> HIDE DEF A, B, C
<1>13. C # {} => \E m : In("dropped", 0, m) /\ m.id = e
  BY <1>6
<1>14. /\ ~(A # {} /\ B # {}) /\ ~(A # {} /\ C # {}) /\ ~(B # {} /\ C # {})
       /\ e \in acked => A = {} /\ B = {} /\ C = {}
  BY <1>1, <1>8, <1>9, <1>10, <1>13
<1> QED
  BY <1>11, <1>12, <1>14

(* No event is in two of the places it can be in, nor twice in one of them, *)
(* whatever the threads, the jobs and the service do, until a file could   *)
(* not be removed: NoEventDuplicated holds in every reachable state.       *)
THEOREM NothingDuplicated == Spec => []NoEventDuplicated
<1>1. DupInv => NoEventDuplicated
  BY OneCopyCounts DEF DupInv, NoEventDuplicated
<1> QED
  BY <1>1, DupInit, DupInductive, PTL DEF Spec

-----------------------------------------------------------------------------
(* The count of dropped events. *)

LEMMA SeqSet ==
  ASSUME NEW q \in Seq(Metric)
  PROVE  /\ IsFiniteSet(ToSet(q))
         /\ Distinct(q) => Cardinality(ToSet(q)) = Len(q)
<1>1. Len(q) \in Nat /\ DOMAIN q = 1..Len(q) /\ \A i \in 1..Len(q) : q[i] \in ToSet(q)
  BY DEF ToSet
<1>2. q \in [1..Len(q) -> ToSet(q)]
  BY <1>1
<1>3. q \in Surjection(1..Len(q), ToSet(q))
  <2>1. \A x \in ToSet(q) : \E i \in 1..Len(q) : q[i] = x
    BY <1>1 DEF ToSet
  <2> QED
    BY <1>2, <2>1 DEF Surjection
<1>4. IsFiniteSet(1..Len(q)) /\ Cardinality(1..Len(q)) = Len(q)
  BY <1>1, FS_Interval
<1>5. Distinct(q) => q \in Injection(1..Len(q), ToSet(q))
  BY <1>1, <1>2 DEF Distinct, Injection, IsInjective
<1> QED
  BY <1>3, <1>4, <1>5, FS_Surjection

DropCounted ==
  /\ IsFiniteSet(rejected) /\ IsFiniteSet(dropped)
  /\ "remove" \notin faultsSeen =>
       stats.numDropped = Cardinality(rejected) + Cardinality(dropped)

DropInv == DupInv /\ DropCounted

(* What a step drops has not been dropped before.                          *)
LEMMA DropsNew ==
  ASSUME TypeOK, IsFiniteSet(dropped), NEW z \in Seq(Metric), DropMetrics(z)
  PROVE  /\ IsFiniteSet(dropped')
         /\ Distinct(z) /\ Apart(ToSet(z), dropped) =>
              /\ Cardinality(dropped') = Cardinality(dropped) + Len(z)
              /\ stats'.numDropped = stats.numDropped + Len(z)
<1>1. IsFiniteSet(ToSet(z)) /\ (Distinct(z) => Cardinality(ToSet(z)) = Len(z))
  BY SeqSet
<1>2. dropped' = dropped \union ToSet(z) /\ stats' = [stats EXCEPT !.numDropped = @ + Len(z)]
  BY DEF DropMetrics
<1>3. /\ IsFiniteSet(dropped \union ToSet(z))
      /\ Cardinality(dropped \union ToSet(z)) =
           Cardinality(dropped) + Cardinality(ToSet(z)) - Cardinality(dropped \intersect ToSet(z))
  BY <1>1, FS_Union
<1>4. Apart(ToSet(z), dropped) => dropped \intersect ToSet(z) = {}
  BY DEF Apart
<1>5. Cardinality({}) = 0 /\ Cardinality(dropped) \in Nat /\ Len(z) \in Nat
  BY FS_EmptySet, FS_CardinalityType
<1>6. stats'.numDropped = stats.numDropped + Len(z)
  BY <1>2 DEF TypeOK, Stats
<1>7. ASSUME Distinct(z), Apart(ToSet(z), dropped)
      PROVE  Cardinality(dropped') = Cardinality(dropped) + Len(z)
  <2>1. Cardinality(dropped \intersect ToSet(z)) = 0
    BY <1>4, <1>5, <1>7
  <2>2. Cardinality(ToSet(z)) = Len(z)
    BY <1>1, <1>7
  <2>3. Cardinality(dropped') = Cardinality(dropped) + Len(z) - 0
    BY <1>2, <1>3, <2>1, <2>2
  <2> QED
    BY <1>5, <2>3
<1>8. IsFiniteSet(dropped')
  BY <1>2, <1>3
<1> QED
  BY <1>6, <1>7, <1>8

(* The copies that end a response are apart from those dropped before.     *)
LEMMA RetryDropsNew ==
  ASSUME TypeOK, SavedRetryNothing, OneCopy, NEW s \in Slots, NEW z, RetrySplits(s, z)
  PROVE  Distinct(z) /\ Apart(ToSet(z), dropped)
<1>1. \A m \in ToSet(z) : In("queue", 0, m) \/ In("retry", s, m)
  <2>1. \A m \in ToSet(jobs[s].retry) : In("retry", s, m)
    BY EmptySet DEF SavedRetryNothing, In, UnsavedSlots
  <2>2. \A m \in ToSet(metricsQueue) : In("queue", 0, m)
    BY DEF In
  <2> QED
    BY <2>1, <2>2 DEF RetrySplits
<1>2. \A m \in dropped : In("dropped", 0, m)
  BY DEF In
<1>3. Apart(ToSet(z), dropped)
  BY <1>1, <1>2 DEF Apart, OneCopy, Unique, UniqueEvent
<1> QED
  BY <1>3 DEF RetrySplits, OneCopy

LEMMA DropInductive == DropInv /\ [Next]_vars => DropInv'
<1> SUFFICES ASSUME DropInv, [Next]_vars PROVE DropInv'
  OBVIOUS
<1>1. /\ DupInv /\ TypeOK /\ SavedRetryNothing /\ DupInv' /\ stats \in Stats
      /\ IsFiniteSet(rejected) /\ IsFiniteSet(dropped)
  BY DupInductive DEF DropInv, DropCounted, DupInv, LostInv, TypeOK
<1>2. /\ Cardinality(rejected) \in Nat /\ Cardinality(dropped) \in Nat
      /\ stats.numDropped \in Int
  BY <1>1, FS_CardinalityType DEF Stats
<1>3. "remove" \notin faultsSeen' =>
        /\ OneCopy
        /\ stats.numDropped = Cardinality(rejected) + Cardinality(dropped)
  BY <1>1, FaultsStay DEF DropInv, DropCounted, DupInv
<1>4. CASE rejected' = rejected /\ dropped' = dropped /\ stats'.numDropped = stats.numDropped
  BY <1>1, <1>3, <1>4 DEF DropInv, DropCounted
<1>5. ASSUME NEW e \in Events, SubmitMetrics(e) PROVE DropInv'
  <2>1. CASE UNCHANGED <<rejected, stats>>
    BY <1>4, <1>5, <2>1 DEF SubmitMetrics
  <2>2. CASE rejected' = rejected \union {e}
             /\ stats' = [stats EXCEPT !.numDropped = @ + 1]
    <3>1. e \notin rejected /\ dropped' = dropped
      BY <1>5 DEF SubmitMetrics, Unsubmitted
    <3>2. IsFiniteSet(rejected') /\ Cardinality(rejected') = Cardinality(rejected) + 1
      BY <1>1, <2>2, <3>1, FS_AddElement
    <3>3. stats'.numDropped = stats.numDropped + 1
      BY <1>1, <2>2 DEF Stats
    <3> QED
      BY <1>1, <1>2, <1>3, <3>1, <3>2, <3>3 DEF DropInv, DropCounted
  <2> QED
    BY <1>5, <2>1, <2>2 DEF SubmitMetrics
<1>6. ASSUME NEW s \in Slots, OnResponseReceived(s) PROVE DropInv'
  <2>1. PICK h, f :
           /\ h \in Metric
           /\ f = MarkFailedSubmission(h)
           /\ h = Head(jobs[s].events)
           /\ rejected' = rejected
           /\ \/ CountSuccess(h) /\ UNCHANGED dropped
              \/ /\ jobs[s].kind # "saved" /\ CountFailure(f)
                 /\ \/ ~MayRetry(f) /\ dropped' = dropped \union {f}
                    \/ MayRetry(f) /\ UNCHANGED dropped
    BY <1>1, <1>6, OnResponseTakes
  <2>2. CASE CountSuccess(h) /\ UNCHANGED dropped
    <3>1. stats'.numDropped = stats.numDropped
      BY <1>1, <2>2 DEF CountSuccess, Stats
    <3> QED
      BY <1>4, <2>1, <2>2, <3>1
  <2>3. CASE CountFailure(f) /\ MayRetry(f) /\ UNCHANGED dropped
    <3>1. stats'.numDropped = stats.numDropped
      BY <1>1, <2>3 DEF CountFailure, Stats
    <3> QED
      BY <1>4, <2>1, <2>3, <3>1
  <2>4. CASE jobs[s].kind # "saved" /\ CountFailure(f) /\ ~MayRetry(f)
             /\ dropped' = dropped \union {f}
    <3>1. stats'.numDropped = stats.numDropped + 1
      BY <1>1, <2>4 DEF CountFailure, Stats
    <3>2. /\ IsFiniteSet(dropped')
          /\ f \notin dropped => Cardinality(dropped') = Cardinality(dropped) + 1
      BY <1>1, <2>4, FS_AddElement
    <3>3. OneCopy => f \notin dropped
      <4>1. HAVE OneCopy
      <4>2. jobs[s].events \in Seq(Metric) /\ jobs[s].events # <<>>
        BY <1>1, <1>6 DEF OnResponseReceived, TypeOK, Job
      <4>3. h \in ToSet(jobs[s].events)
        BY <2>1, <4>2, HeadTailSet
      <4>4. In("events", s, h)
        BY <2>4, <4>3 DEF In, UnsavedSlots
      <4>5. f.id = h.id
        BY <2>1, MarkFailedType
      <4>6. f \in dropped => In("dropped", 0, f)
        BY DEF In
      <4> QED
        BY <4>1, <4>4, <4>5, <4>6 DEF OneCopy, Unique, UniqueEvent
    <3> QED
      BY <1>1, <1>2, <1>3, <2>1, <3>1, <3>2, <3>3 DEF DropInv, DropCounted
  <2> QED
    BY <2>1, <2>2, <2>3, <2>4
<1>7. ASSUME NEW s \in Slots, PushMetricsForRetry(s) PROVE DropInv'
  <2>1. PICK z : RetrySplits(s, z)
    BY <1>1, <1>7, RetrySplit
  <2>2. z \in Seq(Metric) /\ DropMetrics(z) /\ rejected' = rejected /\ Len(z) \in Nat
    BY <1>7, <2>1 DEF RetrySplits, PushMetricsForRetry
  <2>3. /\ IsFiniteSet(dropped')
        /\ Distinct(z) /\ Apart(ToSet(z), dropped) =>
             /\ Cardinality(dropped') = Cardinality(dropped) + Len(z)
             /\ stats'.numDropped = stats.numDropped + Len(z)
    BY <1>1, <2>2, DropsNew
  <2>4. OneCopy => Distinct(z) /\ Apart(ToSet(z), dropped)
    BY <1>1, <2>1, RetryDropsNew
  <2> QED
    BY <1>1, <1>2, <1>3, <2>2, <2>3, <2>4 DEF DropInv, DropCounted
<1>8. CASE UNCHANGED <<rejected, dropped, stats>>
  BY <1>4, <1>8
<1> QED
  BY <1>5, <1>6, <1>7, <1>8 DEF Next, Client, Monitor, LocalJob, JobStep, vars, ghostVars,
     SendMetricsDirectly, FlushMetrics, UpdateOfflineRecordingStatus, StartMetrics,
     ShutdownMetrics, Join, MonitorCheck, MonitorWakeUp, MonitorFlush,
     SendMetricsToServiceApiAsync, SendMetricsToFile, SubmitLocalMetricsAsync,
     AddOfflineRecord, RemoveLocalFile

(* numDropped is exactly the number of events refused and given up on,     *)
(* whichever of the places in the code gave them up: DroppedAccountedFor   *)
(* holds in every reachable state.                                         *)
THEOREM DroppedCorrect == Spec => []DroppedAccountedFor
<1>1. Init => DropInv
  <2> SUFFICES ASSUME Init PROVE DropInv
    OBVIOUS
  <2>1. rejected = {} /\ dropped = {} /\ stats.numDropped = 0
    BY DEF Init
  <2> QED
    BY <2>1, DupInit, FS_EmptySet DEF DropInv, DropCounted
<1>2. DropInv => DroppedAccountedFor
  BY DEF DropInv, DropCounted, DroppedAccountedFor
<1> QED
  BY <1>1, <1>2, DropInductive, PTL DEF Spec

-----------------------------------------------------------------------------
(* The count of errors. *)

(* The events with a copy that failed, and those whose failed copy waits in *)
(* a saved job.                                                            *)
FailedEvents == {e \in Events : \E m : Copied(m) /\ m.id = e /\ m.failures > 0}

WaitingFailed ==
  {p \in Slots \X Events : \E m : Awaiting(p[1], m) /\ m.id = p[2] /\ m.failures > 0}

ErrorsCounted ==
  /\ IsFiniteSet(FailedEvents) /\ IsFiniteSet(WaitingFailed)
  /\ stats.numErrors = Cardinality(FailedEvents) + Cardinality(WaitingFailed)

ErrorInv == DupInv /\ ("remove" \notin faultsSeen => ErrorsCounted)

(* Only a response changes numErrors.                                      *)
LEMMA ErrorsStay ==
  ASSUME TypeOK, [Next]_vars, ~\E s \in Slots : OnResponseReceived(s)
  PROVE  stats'.numErrors = stats.numErrors
<1>1. stats \in Stats
  BY DEF TypeOK
<1>2. \A n : [stats EXCEPT !.numDropped = n].numErrors = stats.numErrors
  BY <1>1 DEF Stats
<1>3. ASSUME NEW s \in Slots, PushMetricsForRetry(s) PROVE stats'.numErrors = stats.numErrors
  BY <1>2, <1>3 DEF PushMetricsForRetry, FilterMetricsByPriority, DropMetrics
<1>4. ASSUME NEW e \in Events, SubmitMetrics(e) PROVE stats'.numErrors = stats.numErrors
  BY <1>2, <1>4 DEF SubmitMetrics
<1>5. CASE UNCHANGED stats
  BY <1>5
<1> QED
  BY <1>3, <1>4, <1>5 DEF Next, Client, Monitor, LocalJob, JobStep, vars,
     SendMetricsDirectly, FlushMetrics, UpdateOfflineRecordingStatus, StartMetrics,
     ShutdownMetrics, Join, MonitorCheck, MonitorWakeUp, MonitorFlush,
     SendMetricsToServiceApiAsync, SendMetricsToFile, SubmitLocalMetricsAsync,
     AddOfflineRecord, RemoveLocalFile

LEMMA KeepsErrors ==
  ASSUME ErrorsCounted, stats'.numErrors = stats.numErrors,
         \A m : m.failures > 0 => (Copied(m)' <=> Copied(m)),
         \A s \in Slots : \A m : Awaiting(s, m)' <=> Awaiting(s, m)
  PROVE  ErrorsCounted'
<1>1. FailedEvents' = FailedEvents
  BY DEF FailedEvents
<1>2. WaitingFailed' = WaitingFailed
  <2>1. \A p \in Slots \X Events : p[1] \in Slots
    OBVIOUS
  <2>2. \A p \in Slots \X Events : \A m : Awaiting(p[1], m)' <=> Awaiting(p[1], m)
    BY <2>1
  <2> QED
    BY <2>2 DEF WaitingFailed
<1> QED
  BY <1>1, <1>2 DEF ErrorsCounted

(* A saved batch takes its failed copies to where they only wait.          *)
LEMMA SavesErrors ==
  ASSUME TypeOK, OneCopy, ErrorsCounted, stats'.numErrors = stats.numErrors,
         NEW s \in Slots, Saves(s)
  PROVE  ErrorsCounted'
<1> DEFINE q == jobs[s].events
           E == {e \in Events : \E m \in ToSet(q) : m.id = e /\ m.failures > 0}
           P == {s} \X E
<1>1. /\ jobs[s].kind = "file" /\ jobs'[s].kind = "saved" /\ jobs'[s].events = q
      /\ \A r \in Slots : r # s => jobs'[r] = jobs[r]
      /\ \A d, j, m : m.failures > 0 => (In(d, j, m)' <=> In(d, j, m) /\ ~(d = "events" /\ j = s))
  BY DEF Saves
<1>2. \A m : In("events", s, m) <=> m \in ToSet(q)
  BY <1>1 DEF In, UnsavedSlots
<1>3. \A k, j, m, l, n, h : In(k, j, m) /\ In(l, n, h) /\ m.id = h.id => k = l /\ j = n /\ m = h
  BY DEF OneCopy, Unique, UniqueEvent
<1>4. \A r \in Slots : \A m : Awaiting(r, m)' <=> Awaiting(r, m) \/ (r = s /\ m \in ToSet(q))
  BY <1>1 DEF Awaiting
<1>5. \A m : ~Awaiting(s, m)
  BY <1>1 DEF Awaiting
<1> HIDE DEF q
<1>6. FailedEvents' = FailedEvents \ E
  <2>1. \A m : m.failures > 0 => (Copied(m)' <=> \E d, j : In(d, j, m) /\ ~(d = "events" /\ j = s))
    BY <1>1 DEF Copied
  <2>2. \A e \in Events : e \in FailedEvents' <=>
           \E m : m.id = e /\ m.failures > 0 /\ \E d, j : In(d, j, m) /\ ~(d = "events" /\ j = s)
    BY <2>1 DEF FailedEvents
  <2>3. \A e \in Events : e \in FailedEvents <=>
           \E m : m.id = e /\ m.failures > 0 /\ \E d, j : In(d, j, m)
    BY DEF FailedEvents, Copied
  <2>4. \A e \in Events : e \in FailedEvents' <=> e \in FailedEvents /\ e \notin E
    <3> TAKE e \in Events
    <3>1. ASSUME e \in FailedEvents' PROVE e \in FailedEvents /\ e \notin E
      BY <1>2, <1>3, <2>2, <2>3, <3>1
    <3>2. ASSUME e \in FailedEvents, e \notin E PROVE e \in FailedEvents'
      BY <1>2, <2>2, <2>3, <3>2
    <3> QED
      BY <3>1, <3>2
  <2>5. FailedEvents' \subseteq Events /\ FailedEvents \subseteq Events
    BY DEF FailedEvents
  <2> QED
    BY <2>4, <2>5
<1>7. E \subseteq FailedEvents
  BY <1>2 DEF FailedEvents, Copied
<1>8. WaitingFailed' = WaitingFailed \union P
  <2>1. \A p \in Slots \X Events : p = <<p[1], p[2]>> /\ p[1] \in Slots /\ p[2] \in Events
    OBVIOUS
  <2>2. \A p \in Slots \X Events : p \in P <=> p[1] = s /\ p[2] \in E
    BY <2>1
  <2>3. P \subseteq Slots \X Events
    OBVIOUS
  <2>4. \A p \in Slots \X Events : p \in WaitingFailed' <=>
           \E m : Awaiting(p[1], m)' /\ m.id = p[2] /\ m.failures > 0
    BY DEF WaitingFailed
  <2>5. \A p \in Slots \X Events : p \in WaitingFailed <=>
           \E m : Awaiting(p[1], m) /\ m.id = p[2] /\ m.failures > 0
    BY DEF WaitingFailed
  <2>6. \A p \in Slots \X Events : p[2] \in E <=>
           \E m : m \in ToSet(q) /\ m.id = p[2] /\ m.failures > 0
    BY <2>1
  <2> HIDE DEF P, E
  <2>7. \A p \in Slots \X Events : p \in WaitingFailed' <=> p \in WaitingFailed \/ p \in P
    BY <1>4, <2>1, <2>2, <2>4, <2>5, <2>6
  <2>8. WaitingFailed' \subseteq Slots \X Events /\ WaitingFailed \subseteq Slots \X Events
    BY DEF WaitingFailed
  <2> QED
    BY <2>3, <2>7, <2>8
<1>9. WaitingFailed \intersect P = {}
  <2>1. \A p \in WaitingFailed : p[1] # s
    BY <1>5 DEF WaitingFailed
  <2>2. \A p \in P : p[1] = s
    OBVIOUS
  <2> QED
    BY <2>1, <2>2
<1>10. IsFiniteSet(E)
  BY <1>7, FS_Subset DEF ErrorsCounted
<1>11. IsFiniteSet(P) /\ Cardinality(P) = Cardinality(E)
  <2> DEFINE f == [p \in P |-> p[2]]
  <2>1. f \in [P -> E]
    OBVIOUS
  <2>2. \A x, y \in P : f[x] = f[y] => x = y
    OBVIOUS
  <2>3. \A z \in E : \E x \in P : f[x] = z
    <3> TAKE z \in E
    <3>1. <<s, z>> \in P /\ f[<<s, z>>] = z
      OBVIOUS
    <3> QED
      BY <3>1
  <2> HIDE DEF f, P, E
  <2> QED
    BY <1>10, <2>1, <2>2, <2>3, SameSize
<1> HIDE DEF E, P
<1>12. /\ IsFiniteSet(FailedEvents \ E)
       /\ Cardinality(FailedEvents \ E) = Cardinality(FailedEvents) - Cardinality(E)
  <2>1. FailedEvents = (FailedEvents \ E) \union E /\ (FailedEvents \ E) \intersect E = {}
    BY <1>7
  <2>2. IsFiniteSet(FailedEvents \ E)
    BY FS_Subset DEF ErrorsCounted
  <2>3. Cardinality((FailedEvents \ E) \union E) =
          Cardinality(FailedEvents \ E) + Cardinality(E) - Cardinality((FailedEvents \ E) \intersect E)
    BY <1>10, <2>2, FS_Union
  <2>4. Cardinality(FailedEvents) = Cardinality(FailedEvents \ E) + Cardinality(E) - 0
    BY <2>1, <2>3, FS_EmptySet
  <2>5. Cardinality(FailedEvents \ E) \in Nat /\ Cardinality(E) \in Nat
    BY <1>10, <2>2, FS_CardinalityType
  <2> QED
    BY <2>2, <2>4, <2>5
<1>13. /\ IsFiniteSet(WaitingFailed \union P)
       /\ Cardinality(WaitingFailed \union P) = Cardinality(WaitingFailed) + Cardinality(E)
  <2>1. /\ IsFiniteSet(WaitingFailed \union P)
        /\ Cardinality(WaitingFailed \union P) =
             Cardinality(WaitingFailed) + Cardinality(P) - Cardinality(WaitingFailed \intersect P)
    BY <1>11, FS_Union DEF ErrorsCounted
  <2>2. Cardinality(WaitingFailed \intersect P) = 0
    BY <1>9, FS_EmptySet
  <2>3. Cardinality(WaitingFailed) \in Nat /\ Cardinality(E) \in Nat
    BY <1>10, FS_CardinalityType DEF ErrorsCounted
  <2> QED
    BY <1>11, <2>1, <2>2, <2>3
<1>14. /\ Cardinality(FailedEvents) \in Nat /\ Cardinality(WaitingFailed) \in Nat
       /\ Cardinality(E) \in Nat
  BY <1>10, FS_CardinalityType DEF ErrorsCounted
<1>15. /\ IsFiniteSet(FailedEvents') /\ IsFiniteSet(WaitingFailed')
       /\ Cardinality(FailedEvents') = Cardinality(FailedEvents) - Cardinality(E)
       /\ Cardinality(WaitingFailed') = Cardinality(WaitingFailed) + Cardinality(E)
  BY <1>6, <1>8, <1>12, <1>13
<1> QED
  BY <1>14, <1>15 DEF ErrorsCounted

LEMMA CountType ==
  ASSUME TypeOK, NEW m
  PROVE  /\ CountSuccess(m) =>
              stats'.numErrors = IF m.failures = 0 THEN stats.numErrors ELSE stats.numErrors - 1
         /\ CountFailure(m) =>
              stats'.numErrors = IF m.failures = 1 THEN stats.numErrors + 1 ELSE stats.numErrors
<1>1. stats \in Stats
  BY DEF TypeOK
<1>2. \A a, b, c, d : /\ [stats EXCEPT !.numEvents = a, !.numErrors = b, !.numSuccesses = c].numErrors = b
                      /\ [stats EXCEPT !.numEvents = a, !.numErrors = b, !.numDropped = d].numErrors = b
  BY <1>1 DEF Stats
<1>3. ASSUME CountSuccess(m)
      PROVE  stats'.numErrors = IF m.failures = 0 THEN stats.numErrors ELSE stats.numErrors - 1
  BY <1>2, <1>3 DEF CountSuccess
<1>4. ASSUME CountFailure(m)
      PROVE  stats'.numErrors = IF m.failures = 1 THEN stats.numErrors + 1 ELSE stats.numErrors
  BY <1>2, <1>4 DEF CountFailure
<1> QED
  BY <1>3, <1>4

(* One error more or less.                                                 *)
LEMMA ErrorArrives ==
  ASSUME ErrorsCounted, NEW e, FailedEvents' = FailedEvents \union {e}, e \notin FailedEvents,
         WaitingFailed' = WaitingFailed, stats'.numErrors = stats.numErrors + 1
  PROVE  ErrorsCounted'
<1>1. /\ IsFiniteSet(FailedEvents') /\ Cardinality(FailedEvents') = Cardinality(FailedEvents) + 1
  BY FS_AddElement DEF ErrorsCounted
<1>2. Cardinality(FailedEvents) \in Nat /\ Cardinality(WaitingFailed) \in Nat
  BY FS_CardinalityType DEF ErrorsCounted
<1> QED
  BY <1>1, <1>2 DEF ErrorsCounted

LEMMA ErrorLeaves ==
  ASSUME ErrorsCounted, NEW e, FailedEvents' = FailedEvents \ {e}, e \in FailedEvents,
         WaitingFailed' = WaitingFailed, stats'.numErrors = stats.numErrors - 1
  PROVE  ErrorsCounted'
<1>1. /\ IsFiniteSet(FailedEvents') /\ Cardinality(FailedEvents') = Cardinality(FailedEvents) - 1
  BY FS_RemoveElement DEF ErrorsCounted
<1>2. Cardinality(FailedEvents) \in Nat /\ Cardinality(WaitingFailed) \in Nat
  BY FS_CardinalityType DEF ErrorsCounted
<1> QED
  BY <1>1, <1>2 DEF ErrorsCounted

LEMMA ErrorIsCounted ==
  ASSUME ErrorsCounted, NEW p, WaitingFailed' = WaitingFailed \ {p}, p \in WaitingFailed,
         FailedEvents' = FailedEvents, stats'.numErrors = stats.numErrors - 1
  PROVE  ErrorsCounted'
<1>1. /\ IsFiniteSet(WaitingFailed') /\ Cardinality(WaitingFailed') = Cardinality(WaitingFailed) - 1
  BY FS_RemoveElement DEF ErrorsCounted
<1>2. Cardinality(FailedEvents) \in Nat /\ Cardinality(WaitingFailed) \in Nat
  BY FS_CardinalityType DEF ErrorsCounted
<1> QED
  BY <1>1, <1>2 DEF ErrorsCounted

(* A request's answer counts its copy at its new place.                    *)
LEMMA AnswerErrors ==
  ASSUME TypeOK, OneCopy, ErrorsCounted, NEW s \in Slots, OnResponseReceived(s),
         jobs[s].kind # "saved"
  PROVE  ErrorsCounted'
<1>1. PICK h, x, c, k : h \in Metric /\ Answered(s, h, x, c, k)
  BY OnResponseAnswers DEF OneCopy
<1>2. /\ x.id = h.id /\ OneMoves(h, x, "events", s, c, k) /\ In("events", s, h) /\ In(c, k, x)'
      /\ h.id \in Events /\ h.failures \in Nat
      /\ \A d, j, m : m.id # h.id => (In(d, j, m)' <=> In(d, j, m))
  BY <1>1 DEF Answered, OneMoves, Metric
<1>3. Unique'
  BY <1>2, MoveOne DEF OneCopy
<1>4. \A e \in Events : e # h.id => (e \in FailedEvents' <=> e \in FailedEvents)
  <2>1. \A m : m.id # h.id => (Copied(m)' <=> Copied(m))
    BY <1>2 DEF Copied
  <2> QED
    BY <2>1 DEF FailedEvents
<1>5. h.id \in FailedEvents <=> h.failures > 0
  <2>1. \A m : Copied(m) /\ m.id = h.id <=> m = h
    BY <1>2 DEF Copied, OneCopy, Unique, UniqueEvent
  <2> QED
    BY <1>2, <2>1 DEF FailedEvents
<1>6. h.id \in FailedEvents' <=> x.failures > 0
  <2>1. \A m : Copied(m)' /\ m.id = h.id <=> m = x
    BY <1>2, <1>3 DEF Copied, Unique, UniqueEvent
  <2> QED
    BY <1>2, <2>1 DEF FailedEvents
<1>7. WaitingFailed' = WaitingFailed
  <2>1. jobs'[s].kind = jobs[s].kind /\ \A r \in Slots : r # s => jobs'[r] = jobs[r]
    BY OnResponseTakes
  <2>2. \A r \in Slots : \A m : Awaiting(r, m)' <=> Awaiting(r, m)
    BY <2>1 DEF Awaiting
  <2>3. \A p \in Slots \X Events : p[1] \in Slots
    OBVIOUS
  <2>4. \A p \in Slots \X Events : \A m : Awaiting(p[1], m)' <=> Awaiting(p[1], m)
    BY <2>2, <2>3
  <2> QED
    BY <2>4 DEF WaitingFailed
<1>8. FailedEvents \subseteq Events /\ FailedEvents' \subseteq Events
  BY DEF FailedEvents
<1>9. CASE x.failures = 0 /\ CountSuccess(h)
  <2>1. stats'.numErrors = IF h.failures = 0 THEN stats.numErrors ELSE stats.numErrors - 1
    BY <1>9, CountType
  <2>2. FailedEvents' = FailedEvents \ {h.id}
    BY <1>4, <1>6, <1>8, <1>9
  <2>3. CASE h.failures = 0
    <3>1. FailedEvents' = FailedEvents
      BY <1>5, <2>2, <2>3
    <3> QED
      BY <1>7, <2>1, <2>3, <3>1 DEF ErrorsCounted
  <2>4. CASE h.failures > 0
    BY <1>2, <1>5, <1>7, <2>1, <2>2, <2>4, ErrorLeaves
  <2> QED
    BY <1>2, <2>3, <2>4
<1>10. CASE x = MarkFailedSubmission(h) /\ CountFailure(x)
  <2>1. x.failures = h.failures + 1
    BY <1>1, <1>10, MarkFailedType
  <2>2. stats'.numErrors = IF x.failures = 1 THEN stats.numErrors + 1 ELSE stats.numErrors
    BY <1>10, CountType
  <2>3. FailedEvents' = FailedEvents \union {h.id}
    BY <1>2, <1>4, <1>6, <1>8, <2>1
  <2>4. CASE h.failures = 0
    BY <1>5, <1>7, <2>1, <2>2, <2>3, <2>4, ErrorArrives
  <2>5. CASE h.failures > 0
    <3>1. FailedEvents' = FailedEvents
      BY <1>5, <2>3, <2>5
    <3> QED
      BY <1>2, <1>7, <2>1, <2>2, <2>5, <3>1 DEF ErrorsCounted
  <2> QED
    BY <1>2, <2>4, <2>5
<1> QED
  BY <1>1, <1>9, <1>10 DEF Answered

(* The answer of a saved batch counts a copy that waits for that.          *)
LEMMA SavedErrors ==
  ASSUME TypeOK, OneCopy, ErrorsCounted, NEW s \in Slots, OnResponseReceived(s),
         jobs[s].kind = "saved"
  PROVE  ErrorsCounted'
<1>1. PICK h \in Metric :
        /\ CountSuccess(h) /\ Awaiting(s, h)
        /\ \A r \in Slots : \A m : Awaiting(r, m)' <=> Awaiting(r, m) /\ ~(r = s /\ m.id = h.id)
        /\ \A m : Awaiting(s, m) /\ m.id = h.id => m = h
  BY OnResponseCounts DEF OneCopy
<1>2. \A c, k, m : In(c, k, m)' <=> In(c, k, m)
  BY OnResponseCounts DEF OneCopy
<1>3. FailedEvents' = FailedEvents
  BY <1>2 DEF FailedEvents, Copied
<1>4. h.id \in Events /\ h.failures \in Nat
  BY DEF Metric
<1>5. PICK p : p = <<s, h.id>>
  OBVIOUS
<1>6. p \in Slots \X Events /\ \A q \in Slots \X Events : q = p <=> q[1] = s /\ q[2] = h.id
  BY <1>4, <1>5
<1>7. \A q \in Slots \X Events : q[1] \in Slots
  OBVIOUS
<1>8. p[1] = s /\ p[2] = h.id
  BY <1>5
<1>9. WaitingFailed' = WaitingFailed \ {p}
  <2>1. \A q \in Slots \X Events : q \in WaitingFailed' <=> q \in WaitingFailed /\ q # p
    <3> TAKE q \in Slots \X Events
    <3>1. q \in WaitingFailed' <=> \E m : Awaiting(q[1], m)' /\ m.id = q[2] /\ m.failures > 0
      BY DEF WaitingFailed
    <3>2. q \in WaitingFailed <=> \E m : Awaiting(q[1], m) /\ m.id = q[2] /\ m.failures > 0
      BY DEF WaitingFailed
    <3>3. \A m : Awaiting(q[1], m)' <=> Awaiting(q[1], m) /\ ~(q[1] = s /\ m.id = h.id)
      BY <1>1, <1>7
    <3> QED
      BY <1>6, <3>1, <3>2, <3>3
  <2>2. WaitingFailed' \subseteq Slots \X Events /\ WaitingFailed \subseteq Slots \X Events
    BY DEF WaitingFailed
  <2> QED
    BY <2>1, <2>2
<1>10. p \in WaitingFailed <=> h.failures > 0
  <2>1. p \in WaitingFailed <=> \E m : Awaiting(s, m) /\ m.id = h.id /\ m.failures > 0
    BY <1>6, <1>8 DEF WaitingFailed
  <2> QED
    BY <1>1, <2>1
<1>11. stats'.numErrors = IF h.failures = 0 THEN stats.numErrors ELSE stats.numErrors - 1
  BY <1>1, CountType
<1>12. CASE h.failures = 0
  <2>1. WaitingFailed' = WaitingFailed
    BY <1>9, <1>10, <1>12
  <2> QED
    BY <1>3, <1>11, <1>12, <2>1 DEF ErrorsCounted
<1>13. CASE h.failures > 0
  BY <1>3, <1>4, <1>9, <1>10, <1>11, <1>13, ErrorIsCounted
<1> QED
  BY <1>4, <1>12, <1>13

LEMMA ErrorInductive == ErrorInv /\ [Next]_vars => ErrorInv'
<1> SUFFICES ASSUME ErrorInv, [Next]_vars PROVE ErrorInv'
  OBVIOUS
<1>1. DupInv /\ DupInv' /\ LostInv /\ TypeOK /\ SavedRetryNothing
  BY DupInductive DEF ErrorInv, DupInv, LostInv
<1>2. ASSUME "remove" \notin faultsSeen' PROVE ErrorsCounted'
  <2>1. OneCopy /\ ErrorsCounted
    BY <1>1, <1>2, FaultsStay DEF ErrorInv, DupInv
  <2>2. ASSUME NEW s \in Slots, OnResponseReceived(s) PROVE ErrorsCounted'
    BY <1>1, <2>1, <2>2, AnswerErrors, SavedErrors
  <2>3. CASE ~\E s \in Slots : OnResponseReceived(s)
    <3>1. stats'.numErrors = stats.numErrors
      BY <1>1, <2>3, ErrorsStay
    <3>2. CASE Kept
      BY <2>1, <3>1, <3>2, KeepsErrors DEF Kept
    <3>3. ASSUME NEW e \in Events, Adds(MetricsEvent(e)) PROVE ErrorsCounted'
      <4>1. MetricsEvent(e).failures = 0
        BY DEF MetricsEvent
      <4>2. \A m : m.failures > 0 => m # MetricsEvent(e)
        BY <4>1
      <4>3. \A m : Copied(m)' <=> Copied(m) \/ m = MetricsEvent(e)
        BY <3>3 DEF Adds
      <4>4. \A m : m.failures > 0 => (Copied(m)' <=> Copied(m))
        BY <4>2, <4>3
      <4>5. \A s \in Slots : \A m : Awaiting(s, m)' <=> Awaiting(s, m)
        BY <3>3 DEF Adds
      <4> QED
        BY <2>1, <3>1, <4>4, <4>5, KeepsErrors
    <3>4. ASSUME NEW s \in Slots, Saves(s) PROVE ErrorsCounted'
      BY <1>1, <2>1, <3>1, <3>4, SavesErrors
    <3> QED
      BY <1>1, <1>2, <2>3, <3>2, <3>3, <3>4, StepMoves
  <2> QED
    BY <2>2, <2>3
<1> QED
  BY <1>1, <1>2 DEF ErrorInv

LEMMA TokenFields ==
  ASSUME NEW k, NEW j, NEW i
  PROVE  /\ Token(k, j, i).place = <<k, j>> /\ Token(k, j, i).at = i
         /\ Token(k, j, i).id = Line(k, j)[i].id
         /\ Token(k, j, i).failures = Line(k, j)[i].failures
  BY DEF Token

(* The failed copies in memory, outside the saved jobs, are so many events. *)
LEMMA UnsavedErrors ==
  ASSUME TypeOK, OneCopy, IsFiniteSet(FailedEvents)
  PROVE  LET U == {c \in MemoryCopies(UnsavedSlots) : c.failures > 0}
             E == {e \in FailedEvents : \E k, j, m :
                     InMemory(UnsavedSlots, k, j) /\ In(k, j, m) /\ m.id = e /\ m.failures > 0}
         IN  IsFiniteSet(U) /\ Cardinality(U) = Cardinality(E)
<1> DEFINE U == {c \in MemoryCopies(UnsavedSlots) : c.failures > 0}
           E == {e \in FailedEvents : \E k, j, m :
                   InMemory(UnsavedSlots, k, j) /\ In(k, j, m) /\ m.id = e /\ m.failures > 0}
           f == [c \in U |-> c.id]
<1>1. \A k, j, m, l, n, h : In(k, j, m) /\ In(l, n, h) /\ m.id = h.id => k = l /\ j = n /\ m = h
  BY DEF OneCopy, Unique, UniqueEvent
<1>2. ASSUME NEW c \in U
      PROVE  \E k, j : InMemory(UnsavedSlots, k, j) /\ \E i \in DOMAIN Line(k, j) :
               /\ c = Token(k, j, i) /\ In(k, j, Line(k, j)[i])
               /\ c.id = Line(k, j)[i].id /\ Line(k, j)[i].failures > 0
  <2>1. PICK k, j : /\ InMemory(UnsavedSlots, k, j)
                    /\ \E i \in DOMAIN Line(k, j) : c = Token(k, j, i)
    BY Tokens
  <2>2. PICK i \in DOMAIN Line(k, j) : c = Token(k, j, i)
    BY <2>1
  <2>3. c.id = Line(k, j)[i].id /\ c.failures = Line(k, j)[i].failures
    BY <2>2, TokenFields
  <2> QED
    BY <2>1, <2>2, <2>3, TokenIn
<1>3. \A e : (\E k, j, m : In(k, j, m) /\ m.id = e /\ m.failures > 0) /\ e \in Events
               => e \in FailedEvents
  BY DEF FailedEvents, Copied
<1>4. \A k, j, m : InMemory(UnsavedSlots, k, j) /\ In(k, j, m) =>
        \E i \in DOMAIN Line(k, j) : m = Line(k, j)[i]
  BY DEF InMemory, In, Line, ToSet
<1>5. \A k, j : InMemory(UnsavedSlots, k, j) => Distinct(Line(k, j))
  BY LineDistinct DEF OneCopy, InMemory, UnsavedSlots
<1>6. f \in [U -> E]
  <2>1. ASSUME NEW c \in U PROVE c.id \in E
    <3>1. PICK k, j, i : /\ i \in DOMAIN Line(k, j) /\ InMemory(UnsavedSlots, k, j)
                         /\ In(k, j, Line(k, j)[i])
                         /\ c.id = Line(k, j)[i].id /\ Line(k, j)[i].failures > 0
      BY <1>2
    <3>2. c.id \in Events
      BY <3>1 DEF OneCopy, Known, TypeOK
    <3>3. c.id \in FailedEvents
      BY <1>3, <3>1, <3>2
    <3> QED
      BY <3>1, <3>3
  <2> HIDE DEF U, E
  <2> QED
    BY <2>1
<1>7. \A x, y \in U : f[x] = f[y] => x = y
  <2> TAKE x, y \in U
  <2> HAVE f[x] = f[y]
  <2>1. x.id = y.id
    OBVIOUS
  <2>2. PICK k, j, i : /\ i \in DOMAIN Line(k, j) /\ InMemory(UnsavedSlots, k, j)
                       /\ x = Token(k, j, i)
                       /\ In(k, j, Line(k, j)[i]) /\ x.id = Line(k, j)[i].id
    BY <1>2
  <2>3. PICK l, n, h : /\ h \in DOMAIN Line(l, n) /\ InMemory(UnsavedSlots, l, n)
                       /\ y = Token(l, n, h)
                       /\ In(l, n, Line(l, n)[h]) /\ y.id = Line(l, n)[h].id
    BY <1>2
  <2>4. k = l /\ j = n
    BY <1>1, <2>1, <2>2, <2>3
  <2>5. i = h
    BY <1>5, <2>1, <2>2, <2>3, <2>4 DEF Distinct
  <2> QED
    BY <2>2, <2>3, <2>4, <2>5
<1>8. \A z \in E : \E x \in U : f[x] = z
  <2> TAKE z \in E
  <2>1. PICK k, j, m : InMemory(UnsavedSlots, k, j) /\ In(k, j, m) /\ m.id = z /\ m.failures > 0
    OBVIOUS
  <2>2. PICK i \in DOMAIN Line(k, j) : m = Line(k, j)[i]
    BY <1>4, <2>1
  <2>3. Token(k, j, i) \in MemoryCopies(UnsavedSlots)
    BY <2>1, <2>2, Tokens
  <2>4. Token(k, j, i).id = z /\ Token(k, j, i).failures > 0
    BY <2>1, <2>2, TokenFields
  <2>5. Token(k, j, i) \in U
    BY <2>3, <2>4
  <2> QED
    BY <2>4, <2>5
<1>9. IsFiniteSet(E)
  BY FS_Subset
<1> HIDE DEF U, E, f
<1>10. IsFiniteSet(U) /\ Cardinality(U) = Cardinality(E)
  BY <1>6, <1>7, <1>8, <1>9, SameSize
<1> QED
  BY <1>10 DEF U, E

(* So are those dropped after a failure.                                   *)
LEMMA DroppedErrors ==
  ASSUME TypeOK, OneCopy, IsFiniteSet(FailedEvents)
  PROVE  LET D == {d \in dropped : d.failures > 0}
             E == {e \in FailedEvents : \E m : m \in dropped /\ m.id = e /\ m.failures > 0}
         IN  IsFiniteSet(D) /\ Cardinality(D) = Cardinality(E)
<1> DEFINE D == {d \in dropped : d.failures > 0}
           E == {e \in FailedEvents : \E m : m \in dropped /\ m.id = e /\ m.failures > 0}
           f == [d \in D |-> d.id]
<1>1. \A m \in dropped : In("dropped", 0, m) /\ m.id \in Events
  BY DEF In, TypeOK, Dropped
<1>2. \A m \in D : m.id \in E
  BY <1>1 DEF FailedEvents, Copied
<1>3. f \in [D -> E]
  <2> HIDE DEF D, E
  <2> QED
    BY <1>2
<1>4. \A x, y \in D : f[x] = f[y] => x = y
  BY <1>1 DEF OneCopy, Unique, UniqueEvent
<1>5. \A z \in E : \E x \in D : f[x] = z
  OBVIOUS
<1>6. IsFiniteSet(E)
  BY FS_Subset
<1> HIDE DEF D, E, f
<1>7. IsFiniteSet(D) /\ Cardinality(D) = Cardinality(E)
  BY <1>3, <1>4, <1>5, <1>6, SameSize
<1> QED
  BY <1>7 DEF D, E

(* The failed copies of saved jobs only wait to be counted.                *)
LEMMA WaitingErrors ==
  ASSUME TypeOK, AllDistinct, SavedRetryNothing, IsFiniteSet(WaitingFailed)
  PROVE  LET V == {c \in MemoryCopies(Slots) \ MemoryCopies(UnsavedSlots) : c.failures > 0}
         IN  IsFiniteSet(V) /\ Cardinality(V) = Cardinality(WaitingFailed)
<1> DEFINE V == {c \in MemoryCopies(Slots) \ MemoryCopies(UnsavedSlots) : c.failures > 0}
           f == [c \in V |-> <<c.place[2], c.id>>]
<1>1. ASSUME NEW c \in V
      PROVE  \E s \in Slots : /\ jobs[s].kind = "saved"
                              /\ \E i \in DOMAIN jobs[s].events :
                                   /\ c = Token("events", s, i)
                                   /\ c.id = jobs[s].events[i].id
                                   /\ jobs[s].events[i].failures > 0
                                   /\ c.place[2] = s
                                   /\ c.id \in Events
  <2>1. PICK k, j : /\ InMemory(Slots, k, j)
                    /\ \E i \in DOMAIN Line(k, j) : c = Token(k, j, i)
    BY Tokens
  <2>2. PICK i \in DOMAIN Line(k, j) : c = Token(k, j, i)
    BY <2>1
  <2>3. ~InMemory(UnsavedSlots, k, j)
    BY <2>2, Tokens
  <2>4. k \in {"events", "retry"} /\ j \in Slots /\ jobs[j].kind = "saved"
    BY <2>1, <2>3 DEF InMemory, UnsavedSlots
  <2>5. k = "events"
    <3>1. jobs[j].retry = <<>>
      BY <2>4 DEF SavedRetryNothing
    <3>2. k = "retry" => Line(k, j) = <<>>
      BY <3>1 DEF Line
    <3>3. DOMAIN <<>> = {}
      OBVIOUS
    <3> QED
      BY <2>2, <2>4, <3>2, <3>3
  <2>6. Line(k, j) = jobs[j].events
    BY <2>5 DEF Line
  <2>7. c.id = Line(k, j)[i].id /\ c.failures = Line(k, j)[i].failures /\ c.place = <<k, j>>
    BY <2>2, TokenFields
  <2>8. jobs[j].events \in Seq(Metric)
    BY <2>4 DEF TypeOK, Job
  <2>9. jobs[j].events[i] \in Metric
    BY <2>2, <2>6, <2>8
  <2>10. c.id \in Events
    BY <2>6, <2>7, <2>9 DEF Metric
  <2>11. c.place[2] = j
    BY <2>7
  <2> QED
    BY <2>2, <2>4, <2>5, <2>6, <2>7, <2>10, <2>11
<1>2. \A s \in Slots : \A i : i \in DOMAIN jobs[s].events => jobs[s].events[i] \in ToSet(jobs[s].events)
  BY DEF ToSet
<1>3. \A p \in Slots \X Events : p \in WaitingFailed <=>
         \E m : Awaiting(p[1], m) /\ m.id = p[2] /\ m.failures > 0
  BY DEF WaitingFailed
<1>4. f \in [V -> WaitingFailed]
  <2>1. ASSUME NEW c \in V PROVE <<c.place[2], c.id>> \in WaitingFailed
    <3>1. PICK s, i : /\ s \in Slots
                      /\ jobs[s].kind = "saved" /\ i \in DOMAIN jobs[s].events
                      /\ c.id = jobs[s].events[i].id
                      /\ jobs[s].events[i].failures > 0
                      /\ c.place[2] = s /\ c.id \in Events
      BY <1>1
    <3>2. Awaiting(s, jobs[s].events[i])
      BY <1>2, <3>1 DEF Awaiting
    <3>3. PICK p : p = <<s, c.id>>
      OBVIOUS
    <3>4. p \in Slots \X Events /\ p[1] = s /\ p[2] = c.id
      BY <3>1, <3>3
    <3>5. p \in WaitingFailed
      BY <1>3, <3>1, <3>2, <3>4
    <3> QED
      BY <3>1, <3>3, <3>5
  <2> HIDE DEF V
  <2> QED
    BY <2>1
<1>5. \A x, y \in V : f[x] = f[y] => x = y
  <2> TAKE x, y \in V
  <2> HAVE f[x] = f[y]
  <2>1. <<x.place[2], x.id>> = <<y.place[2], y.id>>
    OBVIOUS
  <2>2. x.place[2] = y.place[2] /\ x.id = y.id
    BY <2>1
  <2>3. PICK s, i : /\ s \in Slots
                    /\ i \in DOMAIN jobs[s].events /\ x = Token("events", s, i)
                    /\ x.id = jobs[s].events[i].id /\ x.place[2] = s
    BY <1>1
  <2>4. PICK r, j : /\ r \in Slots
                    /\ j \in DOMAIN jobs[r].events /\ y = Token("events", r, j)
                    /\ y.id = jobs[r].events[j].id /\ y.place[2] = r
    BY <1>1
  <2>5. s = r
    BY <2>2, <2>3, <2>4
  <2>6. i = j
    BY <2>2, <2>3, <2>4, <2>5 DEF AllDistinct, Distinct
  <2> QED
    BY <2>3, <2>4, <2>5, <2>6
<1>6. \A z \in WaitingFailed : \E x \in V : f[x] = z
  <2> TAKE z \in WaitingFailed
  <2>1. z \in Slots \X Events
    BY DEF WaitingFailed
  <2>2. PICK m : Awaiting(z[1], m) /\ m.id = z[2] /\ m.failures > 0
    BY <1>3, <2>1
  <2>3. PICK s \in Slots : s = z[1]
    BY <2>1
  <2>4. jobs[s].kind = "saved" /\ m \in ToSet(jobs[s].events)
    BY <2>2, <2>3 DEF Awaiting
  <2>5. PICK i \in DOMAIN jobs[s].events : m = jobs[s].events[i]
    BY <2>4 DEF ToSet
  <2>6. Line("events", s) = jobs[s].events
    BY DEF Line
  <2>7. InMemory(Slots, "events", s)
    BY DEF InMemory
  <2>8. PICK t : t = Token("events", s, i)
    OBVIOUS
  <2>9. t \in MemoryCopies(Slots)
    BY <2>5, <2>6, <2>7, <2>8, Tokens
  <2>10. t \notin MemoryCopies(UnsavedSlots)
    <3>1. ASSUME t \in MemoryCopies(UnsavedSlots) PROVE FALSE
      <4>1. PICK k, j, n : InMemory(UnsavedSlots, k, j) /\ t = Token(k, j, n)
        BY <3>1, Tokens
      <4>2. k = "events" /\ j = s
        BY <2>8, <4>1, TokenEqual
      <4> QED
        BY <2>4, <4>1, <4>2 DEF InMemory, UnsavedSlots
    <3> QED
      BY <3>1
  <2>11. /\ t.id = z[2] /\ t.failures > 0 /\ t.place = <<"events", s>>
    BY <2>2, <2>5, <2>6, <2>8, TokenFields
  <2>12. t.place[2] = s
    BY <2>11
  <2>13. t \in V
    BY <2>9, <2>10, <2>11
  <2>14. f[t] = <<s, z[2]>>
    BY <2>11, <2>12, <2>13
  <2>15. z = <<z[1], z[2]>>
    BY <2>1
  <2> QED
    BY <2>3, <2>13, <2>14, <2>15
<1> HIDE DEF V, f
<1>7. IsFiniteSet(V) /\ Cardinality(V) = Cardinality(WaitingFailed)
  BY <1>4, <1>5, <1>6, SameSize
<1> QED
  BY <1>7 DEF V

LEMMA ErrorsCountedAll ==
  ASSUME TypeOK, OneCopy, SavedRetryNothing, ErrorsCounted
  PROVE  stats.numErrors = Cardinality({c \in MemoryCopies(Slots) : c.failures > 0})
                             + Cardinality({d \in dropped : d.failures > 0})
<1> DEFINE M == {c \in MemoryCopies(Slots) : c.failures > 0}
           D == {d \in dropped : d.failures > 0}
           U == {c \in MemoryCopies(UnsavedSlots) : c.failures > 0}
           V == {c \in MemoryCopies(Slots) \ MemoryCopies(UnsavedSlots) : c.failures > 0}
           EU == {e \in FailedEvents : \E k, j, m :
                    InMemory(UnsavedSlots, k, j) /\ In(k, j, m) /\ m.id = e /\ m.failures > 0}
           ED == {e \in FailedEvents : \E m : m \in dropped /\ m.id = e /\ m.failures > 0}
<1>1. IsFiniteSet(FailedEvents) /\ IsFiniteSet(WaitingFailed)
      /\ stats.numErrors = Cardinality(FailedEvents) + Cardinality(WaitingFailed)
  BY DEF ErrorsCounted
<1>2. IsFiniteSet(U) /\ Cardinality(U) = Cardinality(EU)
  BY <1>1, UnsavedErrors
<1>3. IsFiniteSet(D) /\ Cardinality(D) = Cardinality(ED)
  BY <1>1, DroppedErrors
<1>4. IsFiniteSet(V) /\ Cardinality(V) = Cardinality(WaitingFailed)
  BY <1>1, WaitingErrors DEF OneCopy
<1>5. M = U \union V /\ U \intersect V = {}
  <2>1. \A k, j : InMemory(UnsavedSlots, k, j) => InMemory(Slots, k, j)
    BY DEF InMemory, UnsavedSlots
  <2>2. MemoryCopies(UnsavedSlots) \subseteq MemoryCopies(Slots)
    BY <2>1, Tokens
  <2> QED
    BY <2>2
<1>6. FailedEvents = EU \union ED
  <2>1. ASSUME NEW e \in FailedEvents PROVE e \in EU \union ED
    <3>1. PICK k, j, m : In(k, j, m) /\ m.id = e /\ m.failures > 0
      BY DEF FailedEvents, Copied
    <3>2. \A d : m # ReadFromJson(d)
      BY <3>1 DEF ReadFromJson
    <3>3. InMemory(UnsavedSlots, k, j) \/ m \in dropped
      BY <3>1, <3>2 DEF In, InMemory
    <3> QED
      BY <3>1, <3>3
  <2> QED
    BY <2>1
<1>7. EU \intersect ED = {}
  <2>1. ASSUME NEW e \in EU, e \in ED PROVE FALSE
    <3>1. PICK k, j, m : InMemory(UnsavedSlots, k, j) /\ In(k, j, m) /\ m.id = e
      OBVIOUS
    <3>2. PICK n : n \in dropped /\ n.id = e
      BY <2>1
    <3>3. In("dropped", 0, n)
      BY <3>2 DEF In
    <3>4. k = "dropped"
      BY <3>1, <3>2, <3>3 DEF OneCopy, Unique, UniqueEvent
    <3> QED
      BY <3>1, <3>4 DEF InMemory
  <2> QED
    BY <2>1
<1>8. IsFiniteSet(EU) /\ IsFiniteSet(ED)
  BY <1>1, FS_Subset
<1> HIDE DEF M, D, U, V, EU, ED
<1>9. Cardinality({}) = 0
  BY FS_EmptySet
<1>10. Cardinality(M) = Cardinality(U) + Cardinality(V) - Cardinality(U \intersect V)
  BY <1>2, <1>4, <1>5, FS_Union
<1>11. Cardinality(FailedEvents) = Cardinality(EU) + Cardinality(ED) - Cardinality(EU \intersect ED)
  BY <1>6, <1>8, FS_Union
<1>12. Cardinality(U \intersect V) = 0 /\ Cardinality(EU \intersect ED) = 0
  BY <1>5, <1>7, <1>9
<1>13. /\ Cardinality(U) \in Nat /\ Cardinality(V) \in Nat /\ Cardinality(EU) \in Nat
       /\ Cardinality(ED) \in Nat
  BY <1>2, <1>4, <1>8, FS_CardinalityType
<1>14. stats.numErrors = Cardinality(M) + Cardinality(D)
  BY <1>1, <1>2, <1>3, <1>4, <1>10, <1>11, <1>12, <1>13
<1> QED
  BY <1>14 DEF M, D

(* numErrors is exactly the number of copies that wait for a retry and of  *)
(* those dropped after one, a saved batch's included until its answer, and *)
(* so never below zero: ErrorsAccountedFor holds in every reachable state. *)
THEOREM ErrorsCorrect == Spec => []ErrorsAccountedFor
<1>1. Init => ErrorInv
  <2> SUFFICES ASSUME Init PROVE ErrorInv
    OBVIOUS
  <2>1. DupInv
    BY DupInit
  <2>2. /\ metricsQueue = <<>> /\ \A t \in Threads : sending[t] = <<>>
        /\ \A s \in Slots : jobs[s] = Idle
        /\ FileRecords = <<>> /\ acked = {} /\ dropped = {} /\ stats.numErrors = 0
    BY DEF Init, FileRecords
  <2>3. \A s \in Slots : jobs[s].events = <<>> /\ jobs[s].retry = <<>> /\ jobs[s].kind = "idle"
    BY <2>2 DEF Idle
  <2>4. \A c, k, m : ~In(c, k, m)
    BY <2>2, <2>3, EmptySet DEF In, UnsavedSlots
  <2>5. FailedEvents = {}
    BY <2>4 DEF FailedEvents, Copied
  <2>6. WaitingFailed = {}
    <3>1. \A p \in Slots \X Events : p[1] \in Slots
      OBVIOUS
    <3>2. \A p \in Slots \X Events : \A m : ~Awaiting(p[1], m)
      BY <2>3, <3>1 DEF Awaiting
    <3> QED
      BY <3>2 DEF WaitingFailed
  <2> QED
    BY <2>1, <2>2, <2>5, <2>6, FS_EmptySet DEF ErrorInv, ErrorsCounted
<1>2. ErrorInv => ErrorsAccountedFor
  <2> SUFFICES ASSUME ErrorInv, "remove" \notin faultsSeen
               PROVE  stats.numErrors = Cardinality({c \in MemoryCopies(Slots) : c.failures > 0})
                                          + Cardinality({d \in dropped : d.failures > 0})
    BY DEF ErrorsAccountedFor
  <2>1. TypeOK /\ OneCopy /\ SavedRetryNothing /\ ErrorsCounted
    BY DEF ErrorInv, DupInv, LostInv
  <2> QED
    BY <2>1, ErrorsCountedAll
<1> QED
  BY <1>1, <1>2, ErrorInductive, PTL DEF Spec

-----------------------------------------------------------------------------
(* The priority filter. *)

(* What waits for a retry has failed.                                      *)
RetriesFailed == \A s \in Slots : \A m \in ToSet(jobs[s].retry) : m.failures > 0

LEMMA RetriesFailedInit == Init => RetriesFailed
  BY EmptySet DEF Init, Idle, RetriesFailed

LEMMA StartJobRetries ==
  ASSUME TypeOK, RetriesFailed, NEW kind \in {"api", "file"}, NEW q \in Seq(Metric),
         StartJob(kind, q)
  PROVE  RetriesFailed'
<1>1. PICK s \in Slots : /\ \A r \in Slots : r # s => jobs'[r] = jobs[r]
                         /\ jobs'[s].retry = <<>>
  BY StartJobMoves
<1> QED
  BY <1>1, EmptySet DEF RetriesFailed

LEMMA RetriesFailedInductive == TypeOK /\ RetriesFailed /\ [Next]_vars => RetriesFailed'
<1> SUFFICES ASSUME TypeOK, RetriesFailed, [Next]_vars PROVE RetriesFailed'
  OBVIOUS
<1>1. metricsQueue \in Seq(Metric) /\ \A t \in Threads : sending[t] \in Seq(Metric)
  BY DEF TypeOK
<1>2. ASSUME NEW e \in Events, SendMetricsDirectly(e) PROVE RetriesFailed'
  <2>1. <<MetricsEvent(e)>> \in Seq(Metric)
    BY MetricsEventType
  <2> QED
    BY <1>2, <2>1, StartJobRetries DEF SendMetricsDirectly, SendMetricsAsync, RetriesFailed
<1>3. ASSUME NEW t \in Threads, FlushMetricsAsync(t) PROVE RetriesFailed'
  BY <1>1, <1>3, StartJobRetries DEF FlushMetricsAsync, SendMetricsAsync, RetriesFailed
<1>4. ASSUME NEW t \in Threads, SendMetricsToServiceApiAsync(t) PROVE RetriesFailed'
  <2>1. PICK n \in 0..Len(sending[t]) :
          IF n = 0 THEN UNCHANGED jobs ELSE StartJob("api", SubSeq(sending[t], 1, n))
    BY <1>4 DEF SendMetricsToServiceApiAsync
  <2>2. SubSeq(sending[t], 1, n) \in Seq(Metric)
    BY <1>1, CutType
  <2> QED
    BY <2>1, <2>2, StartJobRetries DEF RetriesFailed
<1>5. ASSUME NEW s \in Slots, OnResponseReceived(s) PROVE RetriesFailed'
  <2>1. PICK h, f :
           /\ h \in Metric
           /\ f = MarkFailedSubmission(h)
           /\ \A r \in Slots : r # s => jobs'[r] = jobs[r]
           /\ \/ jobs'[s].retry = jobs[s].retry
              \/ MayRetry(f) /\ jobs'[s].retry = Append(jobs[s].retry, f)
    BY <1>5, OnResponseTakes
  <2>2. CASE jobs'[s].retry = jobs[s].retry
    BY <2>1, <2>2 DEF RetriesFailed
  <2>3. CASE MayRetry(f) /\ jobs'[s].retry = Append(jobs[s].retry, f)
    <3>1. f \in Metric /\ f.failures > 0
      BY <2>1, <2>3, MarkFailedType DEF MayRetry, Metric
    <3>2. jobs[s].retry \in Seq(Metric)
      BY DEF TypeOK, Job
    <3>3. ToSet(jobs'[s].retry) = ToSet(jobs[s].retry) \union {f}
      BY <2>3, <3>1, <3>2, AppendSet
    <3> QED
      BY <2>1, <3>1, <3>3 DEF RetriesFailed
  <2> QED
    BY <2>1, <2>2, <2>3
<1>6. ASSUME NEW s \in Slots, PushMetricsForRetry(s) PROVE RetriesFailed'
  <2>1. jobs'[s].retry = <<>> /\ \A r \in Slots : r # s => jobs'[r] = jobs[r]
    BY <1>6 DEF PushMetricsForRetry, TypeOK, Idle
  <2> QED
    BY <2>1, EmptySet DEF RetriesFailed
<1>7. ASSUME NEW s \in Slots, SendMetricsToFile(s) PROVE RetriesFailed'
  <2>1. \E k : jobs' = [jobs EXCEPT ![s].kind = k]
    BY <1>7 DEF SendMetricsToFile
  <2>2. jobs[s] \in Job /\ jobs \in [Slots -> Job]
    BY DEF TypeOK
  <2>3. jobs'[s].retry = jobs[s].retry /\ \A r \in Slots : r # s => jobs'[r] = jobs[r]
    BY <2>1, <2>2 DEF Job
  <2> QED
    BY <2>3 DEF RetriesFailed
<1>8. CASE UNCHANGED jobs
  BY <1>8 DEF RetriesFailed
<1> QED
  BY <1>2, <1>3, <1>4, <1>5, <1>6, <1>7, <1>8 DEF Next, Client, Monitor, LocalJob, JobStep, vars,
     Threads, SubmitMetrics, FlushMetrics, UpdateOfflineRecordingStatus, StartMetrics,
     ShutdownMetrics, Join, MonitorCheck, MonitorWakeUp, MonitorFlush, SubmitLocalMetricsAsync,
     AddOfflineRecord, RemoveLocalFile

(* Of a sorted queue, the part kept comes first.                           *)
LEMMA FilterPrefers ==
  ASSUME TypeOK, NEW q \in Seq(Metric), FilterMetricsByPriority(q),
         NEW d \in dropped' \ dropped, NEW i \in DOMAIN metricsQueue'
  PROVE  metricsQueue'[i].priority <= d.priority
<1>1. PICK p \in SortedOrders(q), n \in 0..Len(q) :
        /\ metricsQueue' = SubSeq([k \in 1..Len(q) |-> q[p[k]]], 1, n)
        /\ DropMetrics(SubSeq([k \in 1..Len(q) |-> q[p[k]]], n + 1,
                              Len([k \in 1..Len(q) |-> q[p[k]]])))
  BY DEF FilterMetricsByPriority
<1> DEFINE s == [k \in 1..Len(q) |-> q[p[k]]]
<1>2. s \in Seq(Metric) /\ Len(s) = Len(q) /\ n \in 0..Len(s)
  BY SortSet
<1>3. p \in [1..Len(q) -> 1..Len(q)] /\ \A k, j \in 1..Len(q) : k < j => SortsBefore(q, p[k], p[j])
  BY DEF SortedOrders
<1>4. \A k \in 1..Len(q) : s[k] = q[p[k]] /\ q[p[k]].priority \in Nat
  <2> TAKE k \in 1..Len(q)
  <2>1. p[k] \in 1..Len(q) /\ s[k] = q[p[k]]
    BY <1>3
  <2>2. q[p[k]] \in Metric
    BY <2>1
  <2> QED
    BY <2>1, <2>2 DEF Metric
<1>5. \A k, j \in 1..Len(q) : k < j => s[k].priority <= s[j].priority
  BY <1>3, <1>4 DEF SortsBefore
<1>6. metricsQueue' = SubSeq(s, 1, n) /\ DropMetrics(SubSeq(s, n + 1, Len(s)))
  BY <1>1
<1> HIDE DEF s
<1>7. i \in 1..n /\ metricsQueue'[i] = s[i]
  BY <1>2, <1>6, SubSeqProperties, CutType
<1>8. PICK j \in DOMAIN SubSeq(s, n + 1, Len(s)) : d = SubSeq(s, n + 1, Len(s))[j]
  BY <1>6 DEF DropMetrics, ToSet
<1>9. j \in 1..(Len(q) - n) /\ d = s[n + j]
  BY <1>2, <1>8, SubSeqProperties, CutType
<1>10. i \in 1..Len(q) /\ n + j \in 1..Len(q) /\ i < n + j
  BY <1>7, <1>9
<1> QED
  BY <1>5, <1>7, <1>9, <1>10

(* Whatever mixture of retries, new events and resubmitted records the     *)
(* queue holds, and also without retries, where a response drops what      *)
(* failed and not what waits: no step of a run drops an event while one of *)
(* lower priority stays.                                                   *)
THEOREM FilterCorrect == Spec => FilterPrefersPriority
<1> DEFINE Prefers ==
      \A s \in Slots : PushMetricsForRetry(s) =>
        \A d \in dropped' \ dropped :
          \A i \in DOMAIN metricsQueue' : metricsQueue'[i].priority <= d.priority
<1>1. TypeOK /\ RetriesFailed /\ [Next]_vars => Prefers
  <2> SUFFICES ASSUME TypeOK, RetriesFailed, NEW s \in Slots, PushMetricsForRetry(s),
                      NEW d \in dropped' \ dropped, NEW i \in DOMAIN metricsQueue'
               PROVE  metricsQueue'[i].priority <= d.priority
    OBVIOUS
  <2>1. jobs[s].retry \in Seq(Metric) /\ metricsQueue \in Seq(Metric)
    BY DEF TypeOK, Job
  <2>2. CASE MaxRetries = 0 /\ DropMetrics(jobs[s].retry)
    <3>1. d \in ToSet(jobs[s].retry)
      BY <2>2 DEF DropMetrics
    <3>2. d \in Metric
      BY <2>1, <3>1 DEF ToSet
    <3>3. d.failures > 0 /\ d.failures \in 0..0
      BY <2>2, <3>1, <3>2 DEF RetriesFailed, Metric
    <3> QED
      BY <3>3
  <2>3. CASE FilterMetricsByPriority(PushMetricsToFront(metricsQueue, jobs[s].retry))
    <3>1. PushMetricsToFront(metricsQueue, jobs[s].retry) \in Seq(Metric)
      BY <2>1, PushIds
    <3> QED
      BY <2>3, <3>1, FilterPrefers
  <2> QED
    BY <2>2, <2>3 DEF PushMetricsForRetry
<1>2. TypeOK /\ RetriesFailed /\ [Next]_vars => [Prefers]_vars
  BY <1>1
<1> QED
  BY <1>2, InitTypeOK, TypeInductive, RetriesFailedInit, RetriesFailedInductive,
     PTL DEF Spec, FilterPrefersPriority

-----------------------------------------------------------------------------
(* The promise of MetricsDelivery. *)

(* An event that is refused has no copy.                                   *)
RefusedApart == accepted \intersect rejected = {}

PromiseInv == DupInv /\ RefusedApart

LEMMA RefusedInductive == RefusedApart /\ [Next]_vars => RefusedApart'
<1> SUFFICES ASSUME RefusedApart, [Next]_vars PROVE RefusedApart'
  OBVIOUS
<1>1. ASSUME NEW e \in Events, SubmitMetrics(e) PROVE RefusedApart'
  BY <1>1 DEF SubmitMetrics, Unsubmitted, RefusedApart
<1>2. ASSUME NEW e \in Events, SendMetricsDirectly(e) PROVE RefusedApart'
  BY <1>2 DEF SendMetricsDirectly, Unsubmitted, RefusedApart
<1>3. CASE UNCHANGED <<accepted, rejected>>
  BY <1>3 DEF RefusedApart
<1> QED
  BY <1>1, <1>2, <1>3 DEF Next, Client, Monitor, LocalJob, JobStep, vars, ghostVars,
     FlushMetrics, UpdateOfflineRecordingStatus, StartMetrics, ShutdownMetrics, Join,
     MonitorCheck, MonitorWakeUp, MonitorFlush, SendMetricsToServiceApiAsync,
     OnResponseReceived, PushMetricsForRetry, SendMetricsToFile, SubmitLocalMetricsAsync,
     AddOfflineRecord, RemoveLocalFile

(* With one copy of each event, the parts of EventStatus exclude each other. *)
LEMMA StatusOf ==
  ASSUME OneCopy, RefusedApart, NEW e
  PROVE  /\ (\E c \in {"queue", "sending", "events", "retry"} : \E k, m : In(c, k, m) /\ m.id = e)
              => EventStatus(e) = "held" /\ e \notin acked /\ e \notin DroppedIds /\ ~Recorded(e)
         /\ Recorded(e) => /\ e \in accepted /\ e \notin rejected
                           /\ e \notin acked /\ e \notin DroppedIds
         /\ e \notin accepted => /\ e \notin acked /\ e \notin DroppedIds /\ ~Recorded(e)
                                 /\ EventStatus(e) = IF e \in rejected THEN "rejected" ELSE "new"
<1>1. \A k, j, m, l, n, h : In(k, j, m) /\ In(l, n, h) /\ m.id = e /\ h.id = e
        => k = l /\ j = n /\ m = h
  BY DEF OneCopy, Unique, UniqueEvent
<1>2. \A c, k, m : In(c, k, m) => m.id \in accepted
  BY DEF OneCopy, Known
<1>3. ReadFromJson(e).id = e
  BY DEF ReadFromJson
<1>4. e \in acked => In("acked", 0, ReadFromJson(e))
  BY DEF In
<1>5. Recorded(e) => In("file", 0, ReadFromJson(e))
  BY DEF In, Recorded
<1>6. e \in DroppedIds => \E m : In("dropped", 0, m) /\ m.id = e
  BY DEF In, DroppedIds
<1>7. e \in accepted => e \notin rejected
  BY DEF RefusedApart
<1>8. e \notin accepted => e \notin acked /\ e \notin DroppedIds /\ ~Recorded(e)
  BY <1>2, <1>3, <1>4, <1>5, <1>6
<1>9. Recorded(e) => e \in accepted /\ e \notin acked /\ e \notin DroppedIds
  BY <1>1, <1>3, <1>4, <1>5, <1>6, <1>8
<1>10. ASSUME NEW c \in {"queue", "sending", "events", "retry"}, NEW k, NEW m,
              In(c, k, m), m.id = e
       PROVE  e \in accepted /\ e \notin acked /\ e \notin DroppedIds /\ ~Recorded(e)
  BY <1>1, <1>2, <1>3, <1>4, <1>5, <1>6, <1>10
<1> QED
  BY <1>7, <1>8, <1>9, <1>10 DEF EventStatus

(* The events of S go from one state to another, the others stay.          *)
Goes(S, from, to) ==
  /\ S \subseteq Events
  /\ \A e \in S : EventStatus(e) = from /\ EventStatus(e)' = to
  /\ \A e \in Events : e \notin S => EventStatus(e)' = EventStatus(e)

LEMMA GoesMoves ==
  ASSUME NEW S, NEW from, NEW to, Goes(S, from, to)
  PROVE  IF S = {} THEN DeliveryStatus' = DeliveryStatus ELSE Delivery!Move(S, from, to)
<1>1. /\ S \subseteq Events /\ \A e \in S : EventStatus(e) = from /\ EventStatus(e)' = to
      /\ \A e \in Events : e \notin S => EventStatus(e)' = EventStatus(e)
  BY DEF Goes
<1>2. \A e \in Events : DeliveryStatus[e] = EventStatus(e)
  BY DEF DeliveryStatus
<1>3. DeliveryStatus' = [e \in Events |-> EventStatus(e)']
  BY DEF DeliveryStatus
<1>4. CASE S = {}
  BY <1>1, <1>3, <1>4 DEF DeliveryStatus
<1>5. CASE S # {}
  <2>1. \A e \in S : DeliveryStatus[e] = from
    BY <1>1, <1>2
  <2>2. \A e \in Events : EventStatus(e)' = IF e \in S THEN to ELSE DeliveryStatus[e]
    BY <1>1, <1>2
  <2>3. DeliveryStatus' = [e \in Events |-> IF e \in S THEN to ELSE DeliveryStatus[e]]
    BY <1>3, <2>2
  <2> QED
    BY <1>5, <2>1, <2>3 DEF Delivery!Move
<1> QED
  BY <1>4, <1>5

(* The states of an event depend on these alone.                           *)
LEMMA StatusStays ==
  ASSUME UNCHANGED <<rejected, acked, dropped, accepted>>, NEW e,
         (~local.active /\ Recorded(e))' <=> (~local.active /\ Recorded(e))
  PROVE  EventStatus(e)' = EventStatus(e)
<1>1. DroppedIds' = DroppedIds
  BY DEF DroppedIds
<1> QED
  BY <1>1 DEF EventStatus

(* New events.                                                             *)
LEMMA SubmitDelivers ==
  ASSUME OneCopy, RefusedApart, NEW e \in Events, SubmitMetrics(e) \/ SendMetricsDirectly(e)
  PROVE  Delivery!Next
<1>1. e \notin accepted /\ e \notin rejected /\ UNCHANGED <<file, local, acked, dropped>>
  BY DEF SubmitMetrics, SendMetricsDirectly, Unsubmitted, fileVars
<1>2. DroppedIds' = DroppedIds /\ \A d : Recorded(d)' <=> Recorded(d)
  BY <1>1 DEF DroppedIds, Recorded, FileRecords
<1>3. EventStatus(e) = "new" /\ e \notin acked /\ e \notin DroppedIds /\ ~Recorded(e)
  BY <1>1, StatusOf
<1>4. CASE /\ e \notin ValidEvents
           /\ rejected' = rejected \union {e} /\ accepted' = accepted
  <2>1. EventStatus(e)' = "rejected" /\ \A d : d # e => EventStatus(d)' = EventStatus(d)
    BY <1>1, <1>2, <1>4 DEF EventStatus
  <2>2. Goes({e}, "new", "rejected")
    BY <1>3, <2>1 DEF Goes
  <2>3. Delivery!Reject(e)
    BY <1>4, <2>2, GoesMoves DEF Delivery!Reject
  <2> QED
    BY <2>3 DEF Delivery!Next
<1>5. CASE /\ e \in ValidEvents
           /\ rejected' = rejected /\ accepted' = accepted \union {e}
  <2>1. EventStatus(e)' = "held" /\ \A d : d # e => EventStatus(d)' = EventStatus(d)
    BY <1>1, <1>2, <1>3, <1>5 DEF EventStatus
  <2>2. Goes({e}, "new", "held")
    BY <1>3, <2>1 DEF Goes
  <2>3. Delivery!Accept(e)
    BY <1>5, <2>2, GoesMoves DEF Delivery!Accept
  <2> QED
    BY <2>3 DEF Delivery!Next
<1> QED
  BY <1>4, <1>5 DEF SubmitMetrics, SendMetricsDirectly

(* Ends.                                                                   *)
LEMMA HeldDrops ==
  ASSUME TypeOK, OneCopy, RefusedApart, NEW S, S \subseteq Events,
         UNCHANGED <<rejected, accepted, acked, file, local>>,
         DroppedIds' = DroppedIds \union S,
         \A e \in S : \E c \in {"queue", "sending", "events", "retry"} : \E k, m :
                         In(c, k, m) /\ m.id = e
  PROVE  Goes(S, "held", "dropped")
<1>1. \A e \in S : EventStatus(e) = "held" /\ e \notin acked /\ e \notin rejected
  BY StatusOf DEF EventStatus
<1>2. \A e : Recorded(e)' <=> Recorded(e)
  BY DEF Recorded, FileRecords
<1>3. \A e \in S : EventStatus(e)' = "dropped"
  BY <1>1 DEF EventStatus
<1>4. \A e : e \notin S => EventStatus(e)' = EventStatus(e)
  BY <1>2 DEF EventStatus
<1> QED
  BY <1>1, <1>3, <1>4 DEF Goes

LEMMA OnResponseDelivers ==
  ASSUME TypeOK, OneCopy, RefusedApart, NEW s \in Slots, OnResponseReceived(s)
  PROVE  Delivery!Next \/ DeliveryStatus' = DeliveryStatus
<1>1. PICK h, f :
        /\ h \in Metric
        /\ f = MarkFailedSubmission(h)
        /\ ToSet(jobs[s].events) = {h} \union ToSet(jobs'[s].events)
        /\ UNCHANGED <<file, local, accepted, rejected>>
        /\ \/ /\ acked' = IF jobs[s].kind = "api" THEN acked \union {h.id} ELSE acked
              /\ UNCHANGED dropped
           \/ /\ jobs[s].kind # "saved" /\ UNCHANGED acked
              /\ dropped' = dropped \union {f} \/ UNCHANGED dropped
  BY OnResponseTakes
<1>2. h.id \in Events /\ f.id = h.id
  BY <1>1, MarkFailedType DEF Metric
<1>3. jobs[s].kind # "saved" => In("events", s, h)
  BY <1>1 DEF In, UnsavedSlots
<1>4. jobs[s].kind # "saved" => EventStatus(h.id) = "held"
  BY <1>3, StatusOf
<1>5. \A e : Recorded(e)' <=> Recorded(e)
  BY <1>1 DEF Recorded, FileRecords
<1>6. CASE UNCHANGED <<acked, dropped>>
  <2>1. \A e : EventStatus(e)' = EventStatus(e)
    BY <1>1, <1>5, <1>6, StatusStays
  <2> QED
    BY <2>1 DEF DeliveryStatus
<1>7. CASE jobs[s].kind # "saved" /\ acked' = acked \union {h.id} /\ UNCHANGED dropped
  <2>1. DroppedIds' = DroppedIds
    BY <1>7 DEF DroppedIds
  <2>2. EventStatus(h.id)' = "sent"
    BY <1>1, <1>4, <1>7 DEF EventStatus
  <2>3. \A e : e # h.id => EventStatus(e)' = EventStatus(e)
    BY <1>1, <1>5, <1>7, <2>1 DEF EventStatus
  <2>4. Goes({h.id}, "held", "sent")
    BY <1>2, <1>4, <1>7, <2>2, <2>3 DEF Goes
  <2>5. Delivery!Send(h.id)
    BY <2>4, GoesMoves DEF Delivery!Send
  <2> QED
    BY <1>2, <2>5 DEF Delivery!Next
<1>8. CASE jobs[s].kind # "saved" /\ UNCHANGED acked /\ dropped' = dropped \union {f}
  <2>1. DroppedIds' = DroppedIds \union {h.id}
    BY <1>2, <1>8 DEF DroppedIds
  <2>2. Goes({h.id}, "held", "dropped")
    BY <1>1, <1>2, <1>3, <1>8, <2>1, HeldDrops
  <2>3. Delivery!Drop({h.id}) /\ {h.id} \in SUBSET Events
    BY <1>2, <2>2, GoesMoves DEF Delivery!Drop
  <2> QED
    BY <2>3 DEF Delivery!Next
<1> QED
  BY <1>1, <1>6, <1>7, <1>8

LEMMA PushForRetryDelivers ==
  ASSUME TypeOK, SavedRetryNothing, OneCopy, RefusedApart, NEW s \in Slots,
         PushMetricsForRetry(s)
  PROVE  Delivery!Next \/ DeliveryStatus' = DeliveryStatus
<1>1. PICK z : RetrySplits(s, z)
  BY RetrySplit
<1> DEFINE S == {m.id : m \in ToSet(z)}
<1>2. /\ z \in Seq(Metric) /\ dropped' = dropped \union ToSet(z)
      /\ ToSet(z) \subseteq ToSet(metricsQueue) \union ToSet(jobs[s].retry)
  BY <1>1 DEF RetrySplits, DropMetrics
<1>3. S \subseteq Events
  <2>1. ToSet(z) \subseteq Metric
    BY <1>2 DEF ToSet
  <2> QED
    BY <2>1 DEF Metric
<1>4. DroppedIds' = DroppedIds \union S
  BY <1>2 DEF DroppedIds
<1>5. \A m \in ToSet(jobs[s].retry) : In("retry", s, m)
  BY EmptySet DEF SavedRetryNothing, In, UnsavedSlots
<1>6. \A m \in ToSet(metricsQueue) : In("queue", 0, m)
  BY DEF In
<1>7. \A e \in S : \E c \in {"queue", "sending", "events", "retry"} : \E k, m :
        In(c, k, m) /\ m.id = e
  <2> TAKE e \in S
  <2>1. PICK m \in ToSet(z) : m.id = e
    OBVIOUS
  <2>2. In("queue", 0, m) \/ In("retry", s, m)
    BY <1>2, <1>5, <1>6
  <2> QED
    BY <2>1, <2>2
<1>8. UNCHANGED <<rejected, accepted, acked, file, local>>
  BY DEF PushMetricsForRetry, fileVars
<1> HIDE DEF S
<1>9. Goes(S, "held", "dropped")
  BY <1>3, <1>4, <1>7, <1>8, HeldDrops
<1>10. S # {} => Delivery!Drop(S)
  BY <1>9, GoesMoves DEF Delivery!Drop
<1> QED
  BY <1>3, <1>9, <1>10, GoesMoves DEF Delivery!Next

(* The file.                                                               *)
LEMMA SendMetricsToFileDelivers ==
  ASSUME TypeOK, OneCopy, RefusedApart, NEW s \in Slots, SendMetricsToFile(s)
  PROVE  Delivery!Next \/ DeliveryStatus' = DeliveryStatus
<1> DEFINE q == jobs[s].events
           ids == [i \in DOMAIN q |-> q[i].id]
<1>1. /\ q \in Seq(Metric) /\ jobs[s].kind = "file" /\ file.records \in Seq(Events)
      /\ ~local.active /\ local' = local
      /\ UNCHANGED <<rejected, accepted, acked, dropped>>
  BY DEF TypeOK, Job, SendMetricsToFile, ghostVars
<1>2. /\ \A e : Recorded(e) <=> e \in ToSet(file.records)
      /\ \A e : Recorded(e)' <=> e \in ToSet(file'.records)
  BY <1>1 DEF Recorded, FileRecords
<1>3. DroppedIds' = DroppedIds
  BY <1>1 DEF DroppedIds
<1>4. CASE UNCHANGED file
  <2>1. \A e : EventStatus(e)' = EventStatus(e)
    BY <1>1, <1>2, <1>4, StatusStays
  <2> QED
    BY <2>1 DEF DeliveryStatus
<1>5. CASE file' = [state |-> "valid", records |-> file.records \o ids]
  <2>1. ids \in Seq(Events) /\ Len(ids) = Len(q) /\ DOMAIN ids = DOMAIN q
    <3>1. \A i \in DOMAIN q : q[i] \in Metric
      BY <1>1
    <3>2. \A i \in DOMAIN q : q[i].id \in Events
      BY <3>1 DEF Metric
    <3>3. DOMAIN q = 1..Len(q) /\ Len(q) \in Nat
      BY <1>1
    <3> QED
      BY <3>2, <3>3, IsASeq
  <2> DEFINE S == {m.id : m \in ToSet(q)}
  <2>2. ToSet(ids) = S
    <3>1. \A i \in DOMAIN q : ids[i] = q[i].id
      OBVIOUS
    <3> HIDE DEF ids, q
    <3> QED
      BY <2>1, <3>1 DEF ToSet
  <2>3. ToSet(file'.records) = ToSet(file.records) \union S
    <3> DEFINE old == file.records
    <3>1. /\ Len(old) \in Nat /\ DOMAIN old = 1..Len(old) /\ Len(ids) \in Nat
          /\ DOMAIN ids = 1..Len(ids)
          /\ DOMAIN (old \o ids) = 1..(Len(old) + Len(ids))
          /\ \A i \in 1..Len(old) : (old \o ids)[i] = old[i]
          /\ \A i \in 1..Len(ids) : (old \o ids)[Len(old) + i] = ids[i]
      BY <1>1, <2>1, ConcatProperties
    <3> HIDE DEF old, ids, S
    <3>2. \A i \in DOMAIN (old \o ids) :
             \/ i \in DOMAIN old /\ (old \o ids)[i] = old[i]
             \/ i - Len(old) \in DOMAIN ids /\ (old \o ids)[i] = ids[i - Len(old)]
      BY <3>1
    <3>3. /\ \A i \in DOMAIN old : i \in DOMAIN (old \o ids) /\ (old \o ids)[i] = old[i]
          /\ \A i \in DOMAIN ids : Len(old) + i \in DOMAIN (old \o ids)
                                   /\ (old \o ids)[Len(old) + i] = ids[i]
      BY <3>1
    <3>4. ToSet(old \o ids) = ToSet(old) \union ToSet(ids)
      BY <3>2, <3>3 DEF ToSet
    <3>5. file'.records = old \o ids
      BY <1>5 DEF old
    <3> QED
      BY <2>2, <3>4, <3>5 DEF old
  <2>4. S \subseteq Events
    <3>1. ToSet(q) \subseteq Metric
      BY <1>1 DEF ToSet
    <3> QED
      BY <3>1 DEF Metric
  <2>5. \A e \in S : \E m : In("events", s, m) /\ m.id = e
    BY <1>1 DEF In, UnsavedSlots
  <2> HIDE DEF S
  <2>6. \A e \in S : EventStatus(e) = "held" /\ e \notin acked /\ e \notin DroppedIds
                     /\ e \notin rejected
    <3> TAKE e \in S
    <3>1. EventStatus(e) = "held" /\ e \notin acked /\ e \notin DroppedIds
      BY <2>5, StatusOf
    <3> QED
      BY <3>1 DEF EventStatus
  <2>7. \A e \in S : EventStatus(e)' = "recorded"
    BY <1>1, <1>2, <1>3, <2>3, <2>6 DEF EventStatus
  <2>8. \A e : e \notin S => EventStatus(e)' = EventStatus(e)
    BY <1>1, <1>2, <2>3, StatusStays
  <2>9. Goes(S, "held", "recorded")
    BY <2>4, <2>6, <2>7, <2>8 DEF Goes
  <2>10. S # {} => Delivery!Record(S)
    BY <2>9, GoesMoves DEF Delivery!Record
  <2> QED
    BY <2>4, <2>9, <2>10, GoesMoves DEF Delivery!Next
<1>6. CASE file'.records = <<>>
  <2> DEFINE S == {e \in Events : Recorded(e)}
  <2>1. \A e \in S : /\ e \in accepted /\ e \notin acked /\ e \notin DroppedIds
                     /\ e \notin rejected
    BY StatusOf
  <2>2. \A e \in S : EventStatus(e) = "recorded"
    BY <1>1, <2>1 DEF EventStatus
  <2>3. \A e : ~Recorded(e)'
    BY <1>2, <1>6, EmptySet
  <2>4. \A e \in S : EventStatus(e)' = "held"
    BY <1>1, <1>3, <2>1, <2>3 DEF EventStatus
  <2>5. \A e \in Events : e \notin S => EventStatus(e)' = EventStatus(e)
    BY <1>1, <2>3, StatusStays
  <2>6. Goes(S, "recorded", "held")
    BY <2>2, <2>4, <2>5 DEF Goes
  <2> HIDE DEF S
  <2>7. S # {} => Delivery!Resubmit(S)
    BY <2>6, GoesMoves DEF Delivery!Resubmit
  <2>8. S \subseteq Events
    BY <2>6 DEF Goes
  <2> QED
    BY <2>6, <2>7, <2>8, GoesMoves DEF Delivery!Next
<1>7. \/ UNCHANGED file
      \/ file' = [state |-> "valid", records |-> file.records \o ids]
      \/ file'.records = <<>>
  <2>1. \/ UNCHANGED file
        \/ file' = [state |-> "valid", records |-> file.records \o ids]
        \/ file' = [state |-> "corrupt", records |-> <<>>]
    BY DEF SendMetricsToFile
  <2>2. [state |-> "corrupt", records |-> <<>>].records = <<>>
    OBVIOUS
  <2> QED
    BY <2>1, <2>2
<1> QED
  BY <1>4, <1>5, <1>6, <1>7

(* SubmitLocalMetricsAsync takes the records the file holds back.          *)
LEMMA LocalDelivers ==
  ASSUME TypeOK, OneCopy, RefusedApart, LocalJob, "remove" \notin faultsSeen'
  PROVE  Delivery!Next \/ DeliveryStatus' = DeliveryStatus
<1>1. /\ local \in [active : BOOLEAN, records : Seq(Events)]
      /\ UNCHANGED <<rejected, accepted, acked, dropped>>
  BY DEF TypeOK, LocalJob, SubmitLocalMetricsAsync, AddOfflineRecord, RemoveLocalFile, ghostVars
<1>2. DroppedIds' = DroppedIds
  BY <1>1 DEF DroppedIds
<1>3. CASE UNCHANGED <<local, file>>
  <2>1. \A e : EventStatus(e)' = EventStatus(e)
    BY <1>1, <1>3, StatusStays DEF Recorded, FileRecords
  <2> QED
    BY <2>1 DEF DeliveryStatus
<1>4. CASE /\ ~local.active /\ local'.active
  <2> DEFINE S == {e \in Events : Recorded(e)}
  <2>1. \A e \in S : /\ e \in accepted /\ e \notin acked /\ e \notin DroppedIds
                     /\ e \notin rejected
    BY StatusOf
  <2>2. \A e \in S : EventStatus(e) = "recorded"
    BY <1>4, <2>1 DEF EventStatus
  <2>3. \A e \in S : EventStatus(e)' = "held"
    BY <1>1, <1>2, <1>4, <2>1 DEF EventStatus
  <2>4. \A e \in Events : e \notin S => EventStatus(e)' = EventStatus(e)
    BY <1>1, <1>4, StatusStays
  <2>5. Goes(S, "recorded", "held")
    BY <2>2, <2>3, <2>4 DEF Goes
  <2> HIDE DEF S
  <2>6. S # {} => Delivery!Resubmit(S)
    BY <2>5, GoesMoves DEF Delivery!Resubmit
  <2>7. S \subseteq Events
    BY <2>5 DEF Goes
  <2> QED
    BY <2>5, <2>6, <2>7, GoesMoves DEF Delivery!Next
<1>5. CASE /\ local.active /\ (local'.active \/ file'.records = <<>>)
  <2>1. \A e : ~(~local.active /\ Recorded(e))
    BY <1>5
  <2>2. \A e : ~(~local.active /\ Recorded(e))'
    BY <1>5, EmptySet DEF Recorded, FileRecords
  <2>3. \A e : EventStatus(e)' = EventStatus(e)
    BY <1>1, <2>1, <2>2, StatusStays
  <2> QED
    BY <2>3 DEF DeliveryStatus
<1>6. CASE SubmitLocalMetricsAsync
  BY <1>3, <1>4, <1>6 DEF SubmitLocalMetricsAsync
<1>7. CASE AddOfflineRecord
  <2>1. local.active /\ local'.active
    BY <1>1, <1>7 DEF AddOfflineRecord
  <2> QED
    BY <1>5, <2>1
<1>8. CASE RemoveLocalFile
  <2>1. local.active /\ file'.records = <<>>
    BY <1>8 DEF RemoveLocalFile, Fails
  <2> QED
    BY <1>5, <2>1
<1> QED
  BY <1>6, <1>7, <1>8 DEF LocalJob

(* The pipeline implements MetricsDelivery: whatever the queue, the        *)
(* batches, the retries and the file do to an event, it takes the steps of *)
(* the abstract specification, as long as no file was left behind.         *)
THEOREM DeliveryCorrect == Spec => ImplementsDelivery
<1>1. Init => Delivery!Init
  <2> SUFFICES ASSUME Init PROVE Delivery!Init
    OBVIOUS
  <2>1. accepted = {} /\ rejected = {} /\ acked = {} /\ DroppedIds = {} /\ FileRecords = <<>>
    BY DEF Init, DroppedIds, FileRecords
  <2>2. \A e : EventStatus(e) = "new"
    BY <2>1, EmptySet DEF EventStatus, Recorded
  <2> QED
    BY <2>2 DEF Delivery!Init, DeliveryStatus
<1>2. Init => PromiseInv
  BY DupInit DEF PromiseInv, Init, RefusedApart
<1>3. PromiseInv /\ [Next]_vars => PromiseInv'
  BY DupInductive, RefusedInductive DEF PromiseInv
<1>4. PromiseInv /\ [Next]_vars => ["remove" \notin faultsSeen' => Delivery!Next]_DeliveryStatus
  <2> SUFFICES ASSUME PromiseInv, [Next]_vars, "remove" \notin faultsSeen'
               PROVE  Delivery!Next \/ DeliveryStatus' = DeliveryStatus
    OBVIOUS
  <2>1. TypeOK /\ SavedRetryNothing /\ OneCopy /\ RefusedApart
    BY FaultsStay DEF PromiseInv, DupInv, LostInv
  <2>2. ASSUME NEW e \in Events, SubmitMetrics(e) \/ SendMetricsDirectly(e) PROVE Delivery!Next
    BY <2>1, <2>2, SubmitDelivers
  <2>3. ASSUME NEW s \in Slots, JobStep(s)
        PROVE  Delivery!Next \/ DeliveryStatus' = DeliveryStatus
    BY <2>1, <2>3, OnResponseDelivers, PushForRetryDelivers, SendMetricsToFileDelivers DEF JobStep
  <2>4. CASE LocalJob
    BY <2>1, <2>4, LocalDelivers
  <2>5. CASE UNCHANGED <<rejected, accepted, acked, dropped, file, local>>
    <3>1. \A e : EventStatus(e)' = EventStatus(e)
      BY <2>5, StatusStays DEF Recorded, FileRecords
    <3> QED
      BY <3>1 DEF DeliveryStatus
  <2> QED
    BY <2>2, <2>3, <2>4, <2>5 DEF Next, Client, Monitor, vars, ghostVars, fileVars,
       FlushMetrics, UpdateOfflineRecordingStatus, StartMetrics, ShutdownMetrics, Join,
       MonitorCheck, MonitorWakeUp, MonitorFlush, SendMetricsToServiceApiAsync
<1> QED
  BY <1>1, <1>2, <1>3, <1>4, PTL DEF Spec, ImplementsDelivery

-----------------------------------------------------------------------------
(* The size of a queue. *)

LEMMA LeastElement ==
  ASSUME NEW T \in SUBSET Nat, T # {}
  PROVE  \E x \in T : \A y \in T : x <= y
<1> DEFINE R == OpToRel(<, Nat)
<1>1. IsWellFoundedOn(R, Nat)
  BY NatLessThanWellFounded
<1>2. \A x, y \in Nat : x < y => <<x, y>> \in R
  BY DEF OpToRel
<1> HIDE DEF R
<1>3. PICK x \in T : \A y \in T : ~(<<y, x>> \in R)
  BY <1>1, WFMin
<1>4. \A y \in T : x \in Nat /\ y \in Nat /\ ~(y < x)
  BY <1>2, <1>3
<1>5. \A y \in T : x <= y
  BY <1>4
<1> QED
  BY <1>5

(* Induction, over a set of numbers and over the subsets of a finite set.  *)
LEMMA NumberInduction ==
  ASSUME NEW S, 0 \in S, \A n \in Nat : n \in S => n + 1 \in S
  PROVE  Nat \subseteq S
<1> SUFFICES ASSUME Nat \ S # {} PROVE FALSE
  OBVIOUS
<1>1. PICK x \in Nat \ S : \A y \in Nat \ S : x <= y
  BY LeastElement
<1>2. x # 0 /\ x - 1 \in Nat /\ x - 1 \in S
  BY <1>1
<1> QED
  BY <1>1, <1>2

LEMMA SubsetInduction ==
  ASSUME NEW D, IsFiniteSet(D), NEW T, {} \in T,
         \A s \in SUBSET D : s # {} /\ (\A x \in s : s \ {x} \in T) => s \in T
  PROVE  SUBSET D \subseteq T
<1> DEFINE S == {n \in Nat : \A s \in SUBSET D : Cardinality(s) = n => s \in T}
<1>1. \A s \in SUBSET D : IsFiniteSet(s) /\ Cardinality(s) \in Nat
  BY FS_Subset, FS_CardinalityType
<1>2. 0 \in S
  <2>1. \A s \in SUBSET D : Cardinality(s) = 0 => s = {}
    BY <1>1, FS_EmptySet
  <2> QED
    BY <2>1
<1>3. ASSUME NEW n \in Nat, n \in S PROVE n + 1 \in S
  <2>1. ASSUME NEW s \in SUBSET D, Cardinality(s) = n + 1 PROVE s \in T
    <3>1. s # {}
      <4>1. Cardinality({}) = 0
        BY FS_EmptySet
      <4> QED
        BY <2>1, <4>1
    <3>2. ASSUME NEW x \in s PROVE s \ {x} \in T
      <4>1. Cardinality(s \ {x}) = n
        BY <1>1, <2>1, FS_RemoveElement
      <4> QED
        BY <1>3, <4>1
    <3> QED
      BY <3>1, <3>2
  <2> QED
    BY <2>1
<1> HIDE DEF S
<1>4. Nat \subseteq S
  BY <1>2, <1>3, NumberInduction
<1> QED
  BY <1>1, <1>4 DEF S

(* f[s] is the size of the copies q has at s, summed as GetSizeInBytes does. *)
Sums(q, f) ==
  f = [s \in SUBSET DOMAIN q |->
         IF s = {} THEN 0
         ELSE LET x == CHOOSE y \in s : TRUE IN SizeOf[q[x].id] + f[s \ {x}]]

SumsUpTo(q, k, f) ==
  f = [s \in {t \in SUBSET DOMAIN q : Cardinality(t) <= k} |->
         IF s = {} THEN 0
         ELSE LET x == CHOOSE y \in s : TRUE IN SizeOf[q[x].id] + f[s \ {x}]]

LEMMA SumsExist ==
  ASSUME NEW q \in Seq(Metric)
  PROVE  \E f : Sums(q, f)
<1> DEFINE D == DOMAIN q
           S == {k \in Nat : \E f : SumsUpTo(q, k, f)}
           Up(k) == {t \in SUBSET D : Cardinality(t) <= k}
<1>1. /\ IsFiniteSet(D) /\ Cardinality(D) \in Nat
      /\ \A s \in SUBSET D : IsFiniteSet(s) /\ Cardinality(s) \in Nat /\ Cardinality(s) <= Cardinality(D)
      /\ \A s \in SUBSET D : Cardinality(s) = 0 <=> s = {}
  <2>1. D = 1..Len(q) /\ Len(q) \in Nat
    OBVIOUS
  <2>2. IsFiniteSet(D)
    BY <2>1, FS_Interval
  <2> QED
    BY <2>2, FS_Subset, FS_CardinalityType, FS_EmptySet
<1>2. 0 \in S
  <2> DEFINE f == [s \in {{}} |-> 0]
  <2>1. Up(0) = {{}}
    BY <1>1, FS_EmptySet
  <2>2. f = [s \in Up(0) |-> IF s = {} THEN 0
                             ELSE LET x == CHOOSE y \in s : TRUE IN SizeOf[q[x].id] + f[s \ {x}]]
    BY <2>1
  <2>3. SumsUpTo(q, 0, f)
    BY <2>2 DEF SumsUpTo
  <2> QED
    BY <2>3
<1>3. ASSUME NEW k \in Nat, k \in S PROVE k + 1 \in S
  <2>1. PICK f : SumsUpTo(q, k, f)
    BY <1>3
  <2> DEFINE g == [s \in Up(k + 1) |->
                     IF s = {} THEN 0
                     ELSE LET x == CHOOSE y \in s : TRUE IN SizeOf[q[x].id] + f[s \ {x}]]
  <2>2. \A s \in Up(k) : f[s] = g[s]
    <3>1. Up(k) \subseteq Up(k + 1)
      BY <1>1
    <3> QED
      BY <2>1, <3>1 DEF SumsUpTo
  <2>3. ASSUME NEW s \in Up(k + 1), s # {}, NEW x \in s PROVE s \ {x} \in Up(k)
    <3>1. Cardinality(s \ {x}) = Cardinality(s) - 1
      BY <1>1, FS_RemoveElement
    <3> QED
      BY <1>1, <3>1
  <2>4. \A s \in Up(k + 1) : s # {} =>
          LET x == CHOOSE y \in s : TRUE IN f[s \ {x}] = g[s \ {x}]
    <3> TAKE s \in Up(k + 1)
    <3> HAVE s # {}
    <3>1. PICK x : x = CHOOSE y \in s : TRUE
      OBVIOUS
    <3>2. x \in s
      BY <3>1
    <3>3. s \ {x} \in Up(k)
      BY <2>3, <3>2
    <3>4. f[s \ {x}] = g[s \ {x}]
      BY <2>2, <3>3
    <3> QED
      BY <3>1, <3>4
  <2>5. g = [s \in Up(k + 1) |->
               IF s = {} THEN 0
               ELSE LET x == CHOOSE y \in s : TRUE IN SizeOf[q[x].id] + g[s \ {x}]]
    <3>1. \A s \in Up(k + 1) :
            g[s] = IF s = {} THEN 0
                   ELSE LET x == CHOOSE y \in s : TRUE IN SizeOf[q[x].id] + g[s \ {x}]
      <4> TAKE s \in Up(k + 1)
      <4>1. g[s] = IF s = {} THEN 0
                   ELSE LET x == CHOOSE y \in s : TRUE IN SizeOf[q[x].id] + f[s \ {x}]
        OBVIOUS
      <4> HIDE DEF g
      <4> QED
        BY <2>4, <4>1
    <3>2. g = [s \in Up(k + 1) |-> g[s]]
      OBVIOUS
    <3> HIDE DEF g, Up
    <3> QED
      BY <3>1, <3>2, Zenon
  <2>6. SumsUpTo(q, k + 1, g)
    BY <2>5 DEF SumsUpTo
  <2> QED
    BY <2>6
<1> HIDE DEF S
<1>4. Nat \subseteq S
  BY <1>2, <1>3, NumberInduction
<1>5. PICK f : SumsUpTo(q, Cardinality(D), f)
  BY <1>1, <1>4 DEF S
<1>6. Up(Cardinality(D)) = SUBSET D
  BY <1>1
<1>7. Sums(q, f)
  BY <1>5, <1>6 DEF Sums, SumsUpTo
<1> QED
  BY <1>7

(* Any copy may be the one counted first.                                  *)
LEMMA SumsAny ==
  ASSUME NEW q \in Seq(Metric), NEW f, Sums(q, f)
  PROVE  \A s \in SUBSET DOMAIN q :
           /\ f[s] \in Nat
           /\ s = {} => f[s] = 0
           /\ \A x \in s : f[s] = SizeOf[q[x].id] + f[s \ {x}]
<1> DEFINE D == DOMAIN q
           w(x) == SizeOf[q[x].id]
           T == {s \in SUBSET D : \A x \in s : f[s] = w(x) + f[s \ {x}]}
<1>1. IsFiniteSet(D)
  <2>1. D = 1..Len(q) /\ Len(q) \in Nat
    OBVIOUS
  <2> QED
    BY <2>1, FS_Interval
<1>2. \A x \in D : w(x) \in Nat
  <2> TAKE x \in D
  <2>1. q[x] \in Metric
    OBVIOUS
  <2> QED
    BY <2>1, MetricsAssumption DEF Metric
<1>3. f[{}] = 0
  BY DEF Sums
<1>4. \A s \in SUBSET D : s # {} => \E x \in s : f[s] = w(x) + f[s \ {x}]
  <2> TAKE s \in SUBSET D
  <2> HAVE s # {}
  <2>1. PICK x : x = CHOOSE y \in s : TRUE
    OBVIOUS
  <2>2. x \in s
    BY <2>1
  <2>3. f[s] = w(x) + f[s \ {x}]
    BY <2>1 DEF Sums
  <2> QED
    BY <2>2, <2>3
<1>5. \A s \in SUBSET D : f[s] \in Nat
  <2> DEFINE N == {s \in SUBSET D : f[s] \in Nat}
  <2>1. {} \in N
    BY <1>3
  <2>2. \A s \in SUBSET D : s # {} /\ (\A x \in s : s \ {x} \in N) => s \in N
    <3> TAKE s \in SUBSET D
    <3> HAVE s # {} /\ \A x \in s : s \ {x} \in N
    <3>1. PICK x \in s : f[s] = w(x) + f[s \ {x}]
      BY <1>4
    <3>2. f[s \ {x}] \in Nat /\ w(x) \in Nat
      BY <1>2
    <3> QED
      BY <3>1, <3>2
  <2> HIDE DEF N, D
  <2>3. SUBSET D \subseteq N
    BY <1>1, <2>1, <2>2, SubsetInduction
  <2> QED
    BY <2>3 DEF N
<1>6. {} \in T
  OBVIOUS
<1>7. \A s \in SUBSET D : s # {} /\ (\A x \in s : s \ {x} \in T) => s \in T
  <2> TAKE s \in SUBSET D
  <2> HAVE s # {} /\ \A x \in s : s \ {x} \in T
  <2>1. PICK y \in s : f[s] = w(y) + f[s \ {y}]
    BY <1>4
  <2>2. ASSUME NEW x \in s PROVE f[s] = w(x) + f[s \ {x}]
    <3>1. CASE x = y
      BY <2>1, <3>1
    <3>2. CASE x # y
      <4>1. s \ {x} \in T /\ s \ {y} \in T
        OBVIOUS
      <4>2. y \in s \ {x} /\ x \in s \ {y} /\ (s \ {x}) \ {y} = (s \ {y}) \ {x}
        BY <3>2
      <4>3. PICK r : r = (s \ {x}) \ {y}
        OBVIOUS
      <4>4. f[s \ {x}] = w(y) + f[r] /\ f[s \ {y}] = w(x) + f[r]
        BY <4>1, <4>2, <4>3
      <4>5. f[r] \in Nat /\ w(x) \in Nat /\ w(y) \in Nat
        BY <1>2, <1>5, <4>3
      <4> QED
        BY <2>1, <4>4, <4>5
    <3> QED
      BY <3>1, <3>2
  <2> QED
    BY <2>2
<1> HIDE DEF T, D, w
<1>8. SUBSET D \subseteq T
  BY <1>1, <1>6, <1>7, SubsetInduction
<1> QED
  BY <1>3, <1>5, <1>8 DEF T, D, w

LEMMA SizeIsSum ==
  ASSUME NEW q \in Seq(Metric)
  PROVE  \E f : Sums(q, f) /\ GetSizeInBytes(q) = f[DOMAIN q]
<1> DEFINE f == CHOOSE g : Sums(q, g)
<1>1. Sums(q, f)
  BY SumsExist
<1>2. GetSizeInBytes(q) =
        (CHOOSE g : g = [s \in SUBSET DOMAIN q |->
           IF s = {} THEN 0
           ELSE LET x == CHOOSE y \in s : TRUE IN SizeOf[q[x].id] + g[s \ {x}]])[DOMAIN q]
  BY Zenon DEF GetSizeInBytes, FoldSeq, FoldFunction, FoldFunctionOnSet, MapThenFoldSet
<1>3. GetSizeInBytes(q) = f[DOMAIN q]
  BY <1>2 DEF Sums
<1> QED
  BY <1>1, <1>3

(* The last event adds its size to that of the others.                     *)
LEMMA SizeOfLast ==
  ASSUME NEW q \in Seq(Metric), q # <<>>
  PROVE  /\ GetSizeInBytes(q) \in Nat /\ GetSizeInBytes(SubSeq(q, 1, Len(q) - 1)) \in Nat
         /\ GetSizeInBytes(q) = SizeOf[q[Len(q)].id] + GetSizeInBytes(SubSeq(q, 1, Len(q) - 1))
         /\ SizeOf[q[Len(q)].id] \in Nat \ {0}
<1> DEFINE r == SubSeq(q, 1, Len(q) - 1)
           n == Len(q)
<1>1. n \in Nat /\ n >= 1 /\ n - 1 \in 0..n /\ DOMAIN q = 1..n /\ n \in DOMAIN q /\ q[n] \in Metric
  OBVIOUS
<1>2. /\ r \in Seq(Metric) /\ DOMAIN r = 1..(n - 1) /\ \A i \in 1..(n - 1) : r[i] = q[i]
  BY <1>1, SubSeqProperties, CutType
<1>3. SizeOf[q[n].id] \in Nat \ {0}
  BY <1>1, MetricsAssumption DEF Metric
<1>4. DOMAIN r = DOMAIN q \ {n} /\ \A i \in DOMAIN r : r[i] = q[i]
  BY <1>1, <1>2
<1>5. IsFiniteSet(DOMAIN r)
  BY <1>1, <1>2, FS_Interval
<1> HIDE DEF r, n
<1>6. PICK f : Sums(q, f) /\ GetSizeInBytes(q) = f[DOMAIN q]
  BY SizeIsSum
<1>7. PICK g : Sums(r, g) /\ GetSizeInBytes(r) = g[DOMAIN r]
  BY <1>2, SizeIsSum
<1>8. \A s \in SUBSET DOMAIN q :
        f[s] \in Nat /\ (s = {} => f[s] = 0) /\ \A x \in s : f[s] = SizeOf[q[x].id] + f[s \ {x}]
  BY <1>6, SumsAny
<1>9. \A s \in SUBSET DOMAIN r :
        g[s] \in Nat /\ (s = {} => g[s] = 0) /\ \A x \in s : g[s] = SizeOf[r[x].id] + g[s \ {x}]
  <2>1. r \in Seq(Metric) /\ Sums(r, g)
    BY <1>2, <1>7
  <2> QED
    BY <2>1, SumsAny
<1>10. g[DOMAIN r] = f[DOMAIN r]
  <2> DEFINE T == {s \in SUBSET DOMAIN r : g[s] = f[s]}
  <2>1. {} \in T
    BY <1>8, <1>9
  <2>2. \A s \in SUBSET DOMAIN r : s # {} /\ (\A x \in s : s \ {x} \in T) => s \in T
    <3> TAKE s \in SUBSET DOMAIN r
    <3> HAVE s # {} /\ \A x \in s : s \ {x} \in T
    <3>1. PICK x : x \in s
      OBVIOUS
    <3>2. g[s] = SizeOf[r[x].id] + g[s \ {x}]
      BY <1>9, <3>1
    <3>3. f[s] = SizeOf[q[x].id] + f[s \ {x}]
      BY <1>4, <1>8, <3>1
    <3>4. g[s \ {x}] = f[s \ {x}] /\ r[x] = q[x]
      BY <1>4, <3>1
    <3> QED
      BY <3>2, <3>3, <3>4
  <2> HIDE DEF T
  <2>3. SUBSET DOMAIN r \subseteq T
    BY <1>5, <2>1, <2>2, SubsetInduction
  <2>4. DOMAIN r \in T
    BY <2>3
  <2> QED
    BY <2>4 DEF T
<1>11. f[DOMAIN q] = SizeOf[q[n].id] + f[DOMAIN r] /\ f[DOMAIN q] \in Nat
  BY <1>1, <1>4, <1>8
<1>12. g[DOMAIN r] \in Nat
  BY <1>9
<1> QED
  BY <1>3, <1>6, <1>7, <1>10, <1>11, <1>12 DEF r, n

LEMMA FilterRespects ==
  ASSUME NEW q \in Seq(Metric), FilterMetricsByPriority(q), metricsQueue' # <<>>,
         MaxQueueSize > 0
  PROVE  GetSizeInBytes(SubSeq(metricsQueue', 1, Len(metricsQueue') - 1)) < MaxQueueSize
<1>1. CASE GetSizeInBytes(q) < MaxQueueSize /\ metricsQueue' = q
  BY <1>1, SizeOfLast, LimitsType
<1>2. ASSUME NEW p \in SortedOrders(q), NEW n \in 0..Len(q),
             FilterKeeps([i \in 1..Len(q) |-> q[p[i]]], n),
             metricsQueue' = SubSeq([i \in 1..Len(q) |-> q[p[i]]], 1, n)
      PROVE  GetSizeInBytes(SubSeq(metricsQueue', 1, Len(metricsQueue') - 1)) < MaxQueueSize
  <2> DEFINE s == [i \in 1..Len(q) |-> q[p[i]]]
  <2>1. s \in Seq(Metric) /\ n \in 0..Len(s)
    BY SortIds
  <2>2. FilterKeeps(s, n) /\ metricsQueue' = SubSeq(s, 1, n)
    BY <1>2
  <2> HIDE DEF s
  <2>3. SubSeq(s, 1, n) \in Seq(Metric) /\ Len(SubSeq(s, 1, n)) = n
        /\ \A i \in 1..n : SubSeq(s, 1, n)[i] = s[i]
    BY <2>1, CutType, SubSeqProperties
  <2>4. n \in Nat /\ n # 0 /\ n - 1 \in 0..(n - 1) /\ n - 1 \in 0..Len(s) /\ n - 1 \in 0..n
    BY <2>1, <2>2, <2>3
  <2>5. SubSeq(SubSeq(s, 1, n), 1, n - 1) = SubSeq(s, 1, n - 1)
    <3> DEFINE a == SubSeq(SubSeq(s, 1, n), 1, n - 1)
               b == SubSeq(s, 1, n - 1)
    <3>1. a \in Seq(Metric) /\ Len(a) = n - 1 /\ \A i \in 1..(n - 1) : a[i] = SubSeq(s, 1, n)[i]
      BY <2>3, <2>4, CutType, SubSeqProperties
    <3>2. b \in Seq(Metric) /\ Len(b) = n - 1 /\ \A i \in 1..(n - 1) : b[i] = s[i]
      BY <2>1, <2>4, CutType, SubSeqProperties
    <3> HIDE DEF a, b
    <3>3. \A i \in 1..(n - 1) : a[i] = b[i]
      <4> TAKE i \in 1..(n - 1)
      <4>1. i \in 1..n
        BY <2>4
      <4> QED
        BY <2>3, <3>1, <3>2, <4>1
    <3>4. a = b
      BY <3>1, <3>2, <3>3, SeqEqual
    <3> QED
      BY <3>4 DEF a, b
  <2>6. GetSizeInBytes(SubSeq(s, 1, n - 1)) < MaxQueueSize
    BY <2>2, <2>4 DEF FilterKeeps
  <2> QED
    BY <2>2, <2>3, <2>5, <2>6
<1> QED
  BY <1>1, <1>2 DEF FilterMetricsByPriority

(* However many events were submitted and pushed back before, after a      *)
(* response the queue is within its capacity but for its last event:       *)
(* RetryRespectsCapacity holds of every step.                              *)
THEOREM CapacityCorrect == Spec => RetryRespectsCapacity
<1> DEFINE Respects ==
      \A s \in Slots : PushMetricsForRetry(s) /\ metricsQueue' # <<>>
                         /\ MaxQueueSize > 0 /\ MaxRetries > 0 =>
        GetSizeInBytes(SubSeq(metricsQueue', 1, Len(metricsQueue') - 1)) < MaxQueueSize
<1>1. TypeOK => Respects
  <2> SUFFICES ASSUME TypeOK, NEW s \in Slots, PushMetricsForRetry(s), metricsQueue' # <<>>,
                      MaxQueueSize > 0, MaxRetries > 0
               PROVE  GetSizeInBytes(SubSeq(metricsQueue', 1, Len(metricsQueue') - 1)) < MaxQueueSize
    OBVIOUS
  <2>1. PushMetricsToFront(metricsQueue, jobs[s].retry) \in Seq(Metric)
    BY PushIds DEF TypeOK, Job
  <2>2. FilterMetricsByPriority(PushMetricsToFront(metricsQueue, jobs[s].retry))
    BY DEF PushMetricsForRetry
  <2> QED
    BY <2>1, <2>2, FilterRespects
<1>2. TypeOK /\ [Next]_vars => [Respects]_vars
  BY <1>1
<1> QED
  BY <1>2, TypeCorrect, PTL DEF Spec, RetryRespectsCapacity
=============================================================================
