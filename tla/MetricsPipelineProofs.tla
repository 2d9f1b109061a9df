------------------------ MODULE MetricsPipelineProofs ------------------------
(***************************************************************************)
(* Theorems about MetricsPipeline, for every set of events, every limit    *)
(* and every set of faults.                                                *)
(***************************************************************************)
EXTENDS MetricsPipeline, SequenceTheorems, TLAPS

-----------------------------------------------------------------------------
(* Sequences. *)

LEMMA AppendType ==
  ASSUME NEW S, NEW q \in Seq(S), NEW m \in S
  PROVE  Append(q, m) \in Seq(S)
  OBVIOUS

(* Both parts of a sequence cut at n are sequences. *)
LEMMA CutType ==
  ASSUME NEW S, NEW q \in Seq(S), NEW n \in 0..Len(q)
  PROVE  SubSeq(q, 1, n) \in Seq(S) /\ SubSeq(q, n + 1, Len(q)) \in Seq(S)
<1>1. \A i \in 1..n : q[i] \in S
  OBVIOUS
<1>2. \A i \in (n + 1)..Len(q) : q[i] \in S
  OBVIOUS
<1> QED
  BY <1>1, <1>2, SubSeqProperties

(* They hold what the sequence holds. *)
LEMMA CutIds ==
  ASSUME NEW q \in Seq(Metric), NEW n \in 0..Len(q)
  PROVE  Ids(q) = Ids(SubSeq(q, 1, n)) \union Ids(SubSeq(q, n + 1, Len(q)))
<1> DEFINE a == SubSeq(q, 1, n)
           b == SubSeq(q, n + 1, Len(q))
<1>1. Len(a) = n /\ DOMAIN a = 1..n /\ \A i \in 1..n : a[i] = q[i]
  BY SubSeqProperties, CutType
<1>2. /\ Len(b) = Len(q) - n /\ DOMAIN b = 1..(Len(q) - n)
      /\ \A i \in 1..(Len(q) - n) : b[i] = q[n + i]
  BY SubSeqProperties, CutType
<1>3. ASSUME NEW i \in DOMAIN q
      PROVE  q[i].id \in Ids(a) \union Ids(b)
  <2>1. CASE i <= n
    <3>1. i \in DOMAIN a /\ a[i] = q[i]
      BY <1>1, <2>1
    <3> QED
      BY <3>1 DEF Ids
  <2>2. CASE i > n
    <3>1. i - n \in DOMAIN b /\ b[i - n] = q[i]
      BY <1>2, <2>2
    <3> QED
      BY <3>1 DEF Ids
  <2> QED
    BY <2>1, <2>2
<1>4. \A i \in DOMAIN a : i \in DOMAIN q /\ a[i] = q[i]
  BY <1>1
<1>5. \A i \in DOMAIN b : n + i \in DOMAIN q /\ b[i] = q[n + i]
  BY <1>2
<1> QED
  BY <1>3, <1>4, <1>5 DEF Ids

LEMMA AppendIds ==
  ASSUME NEW q \in Seq(Metric), NEW m \in Metric
  PROVE  Ids(Append(q, m)) = Ids(q) \union {m.id}
<1>1. /\ Len(Append(q, m)) = Len(q) + 1
      /\ \A i \in 1..Len(q) : Append(q, m)[i] = q[i]
      /\ Append(q, m)[Len(q) + 1] = m
      /\ Append(q, m) \in Seq(Metric)
  OBVIOUS
<1>2. DOMAIN Append(q, m) = 1..(Len(q) + 1) /\ DOMAIN q = 1..Len(q)
  BY <1>1
<1>3. Len(q) + 1 \in DOMAIN Append(q, m) /\ \A i \in DOMAIN q : i \in DOMAIN Append(q, m)
  BY <1>2
<1>4. \A i \in DOMAIN Append(q, m) : i \in DOMAIN q \/ i = Len(q) + 1
  BY <1>2
<1> QED
  BY <1>1, <1>2, <1>3, <1>4 DEF Ids

LEMMA HeadTailIds ==
  ASSUME NEW q \in Seq(Metric), q # <<>>
  PROVE  /\ Head(q) \in Metric /\ Tail(q) \in Seq(Metric)
         /\ Ids(q) = {Head(q).id} \union Ids(Tail(q))
<1>1. /\ Head(q) = q[1] /\ Tail(q) = SubSeq(q, 2, Len(q)) /\ Len(q) >= 1
      /\ Head(q) \in Metric /\ Tail(q) \in Seq(Metric)
  OBVIOUS
<1>2. Ids(q) = Ids(SubSeq(q, 1, 1)) \union Ids(Tail(q))
  <2>1. 1 \in 0..Len(q) /\ 1 + 1 = 2
    BY <1>1
  <2>2. Ids(q) = Ids(SubSeq(q, 1, 1)) \union Ids(SubSeq(q, 1 + 1, Len(q)))
    BY <2>1, CutIds
  <2> QED
    BY <2>1, <2>2, <1>1
<1>3. DOMAIN SubSeq(q, 1, 1) = {1} /\ SubSeq(q, 1, 1)[1] = q[1]
  BY <1>1, SubSeqProperties
<1>4. Ids(SubSeq(q, 1, 1)) = {q[1].id}
  BY <1>3 DEF Ids
<1> QED
  BY <1>1, <1>2, <1>4

LEMMA ConcatIds ==
  ASSUME NEW q \in Seq(Metric), NEW r \in Seq(Metric)
  PROVE  q \o r \in Seq(Metric) /\ Ids(q \o r) = Ids(q) \union Ids(r)
<1> DEFINE c == q \o r
<1>1. /\ c \in Seq(Metric) /\ Len(c) = Len(q) + Len(r)
      /\ \A i \in 1..Len(q) : c[i] = q[i]
      /\ \A i \in 1..Len(r) : c[Len(q) + i] = r[i]
  BY ConcatProperties
<1>2. DOMAIN c = 1..(Len(q) + Len(r)) /\ DOMAIN q = 1..Len(q) /\ DOMAIN r = 1..Len(r)
  BY <1>1
<1> HIDE DEF c
<1>3. \A i \in DOMAIN q : i \in DOMAIN c /\ c[i] = q[i]
  BY <1>1, <1>2
<1>4. \A i \in DOMAIN r : Len(q) + i \in DOMAIN c /\ c[Len(q) + i] = r[i]
  BY <1>1, <1>2
<1>5. \A i \in DOMAIN c : i \in DOMAIN q \/ (i - Len(q) \in DOMAIN r /\ c[i] = r[i - Len(q)])
  BY <1>1, <1>2
<1>6. Ids(c) = Ids(q) \union Ids(r)
  BY <1>3, <1>4, <1>5 DEF Ids
<1> QED
  BY <1>1, <1>6 DEF c

LEMMA ReverseIds ==
  ASSUME NEW q \in Seq(Metric)
  PROVE  Reverse(q) \in Seq(Metric) /\ Ids(Reverse(q)) = Ids(q)
<1> DEFINE r == Reverse(q)
<1>1. /\ DOMAIN r = 1..Len(q) /\ DOMAIN q = 1..Len(q) /\ Len(q) \in Nat
      /\ \A i \in 1..Len(q) : r[i] = q[(Len(q) - i) + 1]
  BY DEF Reverse
<1>2. r \in Seq(Metric)
  BY <1>1, IsASeq DEF Reverse
<1> HIDE DEF r
<1>3. \A i \in DOMAIN r : (Len(q) - i) + 1 \in DOMAIN q /\ r[i] = q[(Len(q) - i) + 1]
  BY <1>1
<1>4. \A i \in DOMAIN q : (Len(q) - i) + 1 \in DOMAIN r /\ r[(Len(q) - i) + 1] = q[i]
  BY <1>1
<1>5. Ids(r) = Ids(q)
  BY <1>3, <1>4 DEF Ids
<1> QED
  BY <1>2, <1>5 DEF r

(* Retries pushed to the front join the queue, in whatever order.          *)
LEMMA PushIds ==
  ASSUME NEW q \in Seq(Metric), NEW front \in Seq(Metric)
  PROVE  /\ PushMetricsToFront(q, front) \in Seq(Metric)
         /\ Ids(PushMetricsToFront(q, front)) = Ids(q) \union Ids(front)
<1>1. CASE q = <<>>
  <2>1. Ids(q) = {}
    BY <1>1 DEF Ids
  <2> QED
    BY <1>1, <2>1 DEF PushMetricsToFront
<1>2. CASE q # <<>>
  BY <1>2, ReverseIds, ConcatIds DEF PushMetricsToFront
<1> QED
  BY <1>1, <1>2

(* Sorting a queue neither adds nor loses an event.                        *)
LEMMA SortIds ==
  ASSUME NEW q \in Seq(Metric), NEW p \in SortedOrders(q)
  PROVE  LET s == [i \in 1..Len(q) |-> q[p[i]]]
         IN  s \in Seq(Metric) /\ Len(s) = Len(q) /\ Ids(s) = Ids(q)
<1> DEFINE s == [i \in 1..Len(q) |-> q[p[i]]]
<1>1. /\ p \in [1..Len(q) -> 1..Len(q)]
      /\ \A j \in 1..Len(q) : \E i \in 1..Len(q) : p[i] = j
  BY DEF SortedOrders
<1>2. DOMAIN q = 1..Len(q) /\ Len(q) \in Nat /\ \A i \in 1..Len(q) : q[i] \in Metric
  OBVIOUS
<1>3. s \in Seq(Metric) /\ Len(s) = Len(q) /\ DOMAIN s = 1..Len(q)
  BY <1>1, <1>2, IsASeq
<1>4. Ids(s) = Ids(q)
  BY <1>1, <1>2, <1>3 DEF Ids
<1> QED
  BY <1>3, <1>4

-----------------------------------------------------------------------------
(* Type correctness. *)

LEMMA LimitsType ==
  MaxQueueSize \in Nat /\ MaxPayload \in Nat /\ MaxBatch \in Nat /\ MaxRetries \in Nat
<1>1. {MaxQueueSize, MaxPayload, MaxBatch, MaxRetries} \subseteq Nat
  BY MetricsAssumption
<1> QED
  BY <1>1

LEMMA StartJobType ==
  ASSUME jobs \in [Slots -> Job], NEW q \in Seq(Metric),
         NEW kind \in {"api", "file"}, StartJob(kind, q)
  PROVE  jobs' \in [Slots -> Job]
<1>1. PICK s \in Slots : jobs' = [jobs EXCEPT ![s] = [kind |-> kind, events |-> q, retry |-> <<>>]]
  BY DEF StartJob
<1>2. [kind |-> kind, events |-> q, retry |-> <<>>] \in Job
  BY DEF Job
<1> QED
  BY <1>1, <1>2

LEMMA MetricsEventType ==
  ASSUME NEW e \in Events
  PROVE  MetricsEvent(e) \in Metric /\ ReadFromJson(e) \in Metric
  BY MetricsAssumption, LimitsType DEF MetricsEvent, ReadFromJson, Metric

LEMMA SendMetricsAsyncType ==
  ASSUME TypeOK, NEW t \in Threads, NEW q \in Seq(Metric),
         NEW mutex \in Threads \union {Free}, SendMetricsAsync(t, q, mutex)
  PROVE  /\ sending' \in [Threads -> Seq(Metric)]
         /\ metricsMutex' \in Threads \union {Free}
         /\ jobs' \in [Slots -> Job]
  BY StartJobType DEF SendMetricsAsync, TypeOK

LEMMA FlushMetricsAsyncType ==
  ASSUME TypeOK, NEW t \in Threads, FlushMetricsAsync(t)
  PROVE  /\ metricsQueue' \in Seq(Metric)
         /\ sending' \in [Threads -> Seq(Metric)]
         /\ metricsMutex' \in Threads \union {Free}
         /\ jobs' \in [Slots -> Job]
<1>1. metricsQueue \in Seq(Metric) /\ t \in Threads \union {Free}
  BY DEF TypeOK
<1>2. CASE UNCHANGED <<queueVars, jobs>>
  BY <1>2 DEF TypeOK, queueVars
<1>3. CASE metricsQueue' = <<>> /\ SendMetricsAsync(t, metricsQueue, t)
  BY <1>1, <1>3, SendMetricsAsyncType
<1> QED
  BY <1>2, <1>3 DEF FlushMetricsAsync

LEMMA DropMetricsType ==
  ASSUME TypeOK, NEW q \in Seq(Metric), DropMetrics(q)
  PROVE  /\ stats' \in Stats
         /\ dropped' \subseteq Dropped
<1>1. Len(q) \in Nat /\ \A i \in DOMAIN q : q[i] \in Metric
  OBVIOUS
<1>2. Metric \subseteq Dropped
  BY LimitsType DEF Metric, Dropped
<1>3. ToSet(q) \subseteq Dropped
  BY <1>1, <1>2 DEF ToSet
<1>4. stats \in Stats /\ stats' = [stats EXCEPT !.numDropped = @ + Len(q)]
  BY DEF TypeOK, DropMetrics
<1>5. stats' \in Stats
  BY <1>1, <1>4 DEF Stats
<1> QED
  BY <1>3, <1>5 DEF TypeOK, DropMetrics

LEMMA FilterType ==
  ASSUME TypeOK, NEW q \in Seq(Metric), FilterMetricsByPriority(q)
  PROVE  /\ metricsQueue' \in Seq(Metric)
         /\ stats' \in Stats
         /\ dropped' \subseteq Dropped
<1>1. CASE metricsQueue' = q /\ UNCHANGED <<stats, dropped>>
  BY <1>1 DEF TypeOK
<1>2. ASSUME NEW p \in SortedOrders(q), NEW n \in 0..Len(q),
             metricsQueue' = SubSeq([i \in 1..Len(q) |-> q[p[i]]], 1, n),
             DropMetrics(SubSeq([i \in 1..Len(q) |-> q[p[i]]], n + 1,
                                Len([i \in 1..Len(q) |-> q[p[i]]])))
      PROVE  /\ metricsQueue' \in Seq(Metric)
             /\ stats' \in Stats
             /\ dropped' \subseteq Dropped
  <2> DEFINE s == [i \in 1..Len(q) |-> q[p[i]]]
  <2>1. s \in Seq(Metric) /\ n \in 0..Len(s)
    BY SortIds
  <2> HIDE DEF s
  <2>2. SubSeq(s, 1, n) \in Seq(Metric) /\ SubSeq(s, n + 1, Len(s)) \in Seq(Metric)
    BY <2>1, CutType
  <2>3. metricsQueue' = SubSeq(s, 1, n) /\ DropMetrics(SubSeq(s, n + 1, Len(s)))
    BY <1>2 DEF s
  <2> QED
    BY <2>2, <2>3, DropMetricsType
<1> QED
  BY <1>1, <1>2 DEF FilterMetricsByPriority

(* A copy that failed once more may wait for another try.                  *)
LEMMA MarkFailedType ==
  ASSUME NEW m \in Metric
  PROVE  /\ MarkFailedSubmission(m) \in Dropped
         /\ MarkFailedSubmission(m).failures = m.failures + 1
         /\ MarkFailedSubmission(m).id = m.id
         /\ m.failures + 1 <= MaxRetries => MarkFailedSubmission(m) \in Metric
<1>1. /\ m.id \in Events /\ m.failures \in 0..MaxRetries /\ m.priority \in Nat
      /\ m = [id |-> m.id, failures |-> m.failures, priority |-> m.priority]
  BY DEF Metric
<1>2. MarkFailedSubmission(m) =
        [id |-> m.id, failures |-> m.failures + 1, priority |-> m.priority]
  BY <1>1 DEF MarkFailedSubmission
<1> QED
  BY <1>1, <1>2, LimitsType DEF Metric, Dropped

(* A response moves the three counts together.                             *)
LEMMA OnResponseStats ==
  ASSUME TypeOK, NEW s \in Slots, OnResponseReceived(s)
  PROVE  /\ stats' \in Stats
         /\ StatsBalance => StatsBalance'
<1> DEFINE m == Head(jobs[s].events)
           f == MarkFailedSubmission(m)
<1>1. /\ stats \in Stats /\ stats.numEvents \in Int /\ stats.numErrors \in Int
      /\ stats.numSuccesses \in Int /\ stats.numDropped \in Int
  BY DEF TypeOK, Stats
<1>2. CountSuccess(m) \/ CountFailure(f)
  BY DEF OnResponseReceived
<1> HIDE DEF m, f
<1>3. CASE CountSuccess(m)
  <2> DEFINE a == IF m.failures = 0 THEN stats.numEvents + 1 ELSE stats.numEvents
             b == IF m.failures = 0 THEN stats.numErrors ELSE stats.numErrors - 1
             c == stats.numSuccesses + 1
  <2>1. a \in Int /\ b \in Int /\ c \in Int
        /\ a - stats.numEvents = 1 + (b - stats.numErrors)
    BY <1>1
  <2>2. stats' = [stats EXCEPT !.numEvents = a, !.numErrors = b, !.numSuccesses = c]
    BY <1>3 DEF CountSuccess
  <2> HIDE DEF a, b, c
  <2>3. stats' \in Stats /\ stats'.numEvents = a /\ stats'.numErrors = b
        /\ stats'.numSuccesses = c
    BY <1>1, <2>1, <2>2 DEF Stats
  <2> QED
    BY <1>1, <2>1, <2>3 DEF StatsBalance, c
<1>4. CASE CountFailure(f)
  <2> DEFINE a == IF f.failures = 1 THEN stats.numEvents + 1 ELSE stats.numEvents
             b == IF f.failures = 1 THEN stats.numErrors + 1 ELSE stats.numErrors
             c == IF MayRetry(f) THEN stats.numDropped ELSE stats.numDropped + 1
  <2>1. a \in Int /\ b \in Int /\ c \in Int
        /\ a - stats.numEvents = b - stats.numErrors
    BY <1>1
  <2>2. stats' = [stats EXCEPT !.numEvents = a, !.numErrors = b, !.numDropped = c]
    BY <1>4 DEF CountFailure
  <2> HIDE DEF a, b, c
  <2>3. stats' \in Stats /\ stats'.numEvents = a /\ stats'.numErrors = b
        /\ stats'.numSuccesses = stats.numSuccesses
    BY <1>1, <2>1, <2>2 DEF Stats
  <2> QED
    BY <1>1, <2>1, <2>3 DEF StatsBalance
<1> QED
  BY <1>2, <1>3, <1>4

LEMMA OnResponseType ==
  ASSUME TypeOK, NEW s \in Slots, OnResponseReceived(s)
  PROVE  TypeOK'
<1> DEFINE m == Head(jobs[s].events)
           rest == [jobs[s] EXCEPT !.events = Tail(@)]
           f == MarkFailedSubmission(m)
           retried == [rest EXCEPT !.retry = Append(@, f)]
<1>1. jobs[s] \in Job /\ jobs[s].events \in Seq(Metric) /\ jobs[s].events # <<>>
      /\ jobs[s].retry \in Seq(Metric)
  BY DEF TypeOK, Job, OnResponseReceived
<1>2. m \in Metric /\ Tail(jobs[s].events) \in Seq(Metric)
  BY <1>1, HeadTailIds
<1>3. rest \in Job /\ rest.retry = jobs[s].retry
  BY <1>1, <1>2 DEF Job
<1>4. f \in Dropped /\ (f.failures <= MaxRetries => f \in Metric)
      /\ m.id \in Events
  BY <1>2, MarkFailedType DEF Metric
<1>5. f.failures <= MaxRetries => retried \in Job
  <2>1. HAVE f.failures <= MaxRetries
  <2>2. Append(jobs[s].retry, f) \in Seq(Metric)
    BY <1>1, <1>4, <2>1
  <2> QED
    BY <1>3, <2>2 DEF Job
<1> HIDE DEF m, f, rest, retried
<1>6. stats' \in Stats
  BY OnResponseStats
<1>7. \/ /\ jobs' = [jobs EXCEPT ![s] = rest]
         /\ acked' \in {acked, acked \union {m.id}}
         /\ UNCHANGED dropped
      \/ /\ dropped' = dropped \union {f}
         /\ jobs' = [jobs EXCEPT ![s] = rest]
         /\ UNCHANGED acked
      \/ /\ f.failures <= MaxRetries
         /\ jobs' = [jobs EXCEPT ![s] = retried]
         /\ UNCHANGED <<acked, dropped>>
  BY DEF OnResponseReceived, MayRetry, m, f, rest, retried
<1>8. jobs' \in [Slots -> Job]
  <2>1. jobs \in [Slots -> Job]
    BY DEF TypeOK
  <2> QED
    BY <1>3, <1>5, <1>7, <2>1
<1>9. acked' \subseteq Events
  BY <1>4, <1>7 DEF TypeOK
<1>10. dropped' \subseteq Dropped
  BY <1>4, <1>7 DEF TypeOK
<1> QED
  BY <1>6, <1>8, <1>9, <1>10 DEF TypeOK, OnResponseReceived, queueVars, configVars,
     fileVars, monitorVars

LEMMA PushMetricsForRetryType ==
  ASSUME TypeOK, NEW s \in Slots, PushMetricsForRetry(s)
  PROVE  TypeOK'
<1>1. jobs[s].retry \in Seq(Metric) /\ metricsQueue \in Seq(Metric)
  BY DEF TypeOK, Job
<1>2. Idle \in Job
  BY DEF Idle, Job
<1>3. jobs' \in [Slots -> Job]
  BY <1>2 DEF TypeOK, PushMetricsForRetry
<1>4. /\ metricsQueue' \in Seq(Metric)
      /\ stats' \in Stats
      /\ dropped' \subseteq Dropped
  <2>1. CASE DropMetrics(jobs[s].retry) /\ UNCHANGED metricsQueue
    BY <1>1, <2>1, DropMetricsType
  <2>2. CASE FilterMetricsByPriority(PushMetricsToFront(metricsQueue, jobs[s].retry))
    BY <1>1, <2>2, PushIds, FilterType
  <2> QED
    BY <2>1, <2>2 DEF PushMetricsForRetry
<1> QED
  BY <1>3, <1>4 DEF TypeOK, PushMetricsForRetry, configVars, fileVars, monitorVars

LEMMA SendMetricsToFileType ==
  ASSUME TypeOK, NEW s \in Slots, SendMetricsToFile(s)
  PROVE  TypeOK'
<1> DEFINE q == jobs[s].events
           ids == [i \in DOMAIN q |-> q[i].id]
<1>1. q \in Seq(Metric) /\ jobs[s] \in Job
  BY DEF TypeOK, Job
<1>2. ids \in Seq(Events)
  <2>1. DOMAIN q = 1..Len(q) /\ Len(q) \in Nat /\ \A i \in 1..Len(q) : q[i] \in Metric
    BY <1>1
  <2>2. \A i \in 1..Len(q) : q[i].id \in Events
    BY <2>1 DEF Metric
  <2>3. ids \in [1..Len(q) -> Events]
    BY <2>1, <2>2
  <2> QED
    BY <2>1, <2>3
<1>3. file.records \in Seq(Events) /\ file.records \o ids \in Seq(Events)
  BY <1>2, ConcatProperties DEF TypeOK
<1>4. \A k \in {"saved", "failed"} : [jobs EXCEPT ![s].kind = k] \in [Slots -> Job]
  BY <1>1 DEF TypeOK, Job
<1> HIDE DEF q, ids
<1>5. jobs' \in [Slots -> Job] /\ faultsSeen' \subseteq Faults
  BY <1>4 DEF TypeOK, SendMetricsToFile, Fails
<1>6. file' \in [state : {"absent", "valid", "corrupt"}, records : Seq(Events)]
  <2>1. \/ UNCHANGED file
        \/ file' = [state |-> "valid", records |-> file.records \o ids]
        \/ file' = [state |-> "corrupt", records |-> <<>>]
    BY DEF SendMetricsToFile, q, ids
  <2>2. file \in [state : {"absent", "valid", "corrupt"}, records : Seq(Events)]
    BY DEF TypeOK
  <2>3. \A r \in Seq(Events), st \in {"valid", "corrupt"} :
          [state |-> st, records |-> r]
            \in [state : {"absent", "valid", "corrupt"}, records : Seq(Events)]
    OBVIOUS
  <2>4. <<>> \in Seq(Events)
    OBVIOUS
  <2> QED
    BY <1>3, <2>1, <2>2, <2>3, <2>4, Zenon
<1> QED
  BY <1>5, <1>6 DEF TypeOK, SendMetricsToFile, queueVars, configVars, monitorVars, ghostVars

LEMMA SendToServiceType ==
  ASSUME TypeOK, NEW t \in Threads, SendMetricsToServiceApiAsync(t)
  PROVE  TypeOK'
<1>1. PICK n \in 0..Len(sending[t]) :
        /\ IF n = 0 THEN UNCHANGED jobs ELSE StartJob("api", SubSeq(sending[t], 1, n))
        /\ sending' = [sending EXCEPT ![t] = SubSeq(@, n + 1, Len(@))]
        /\ metricsMutex' = IF metricsMutex = t /\ n = Len(sending[t])
                           THEN Free ELSE metricsMutex
  BY DEF SendMetricsToServiceApiAsync
<1>2. sending[t] \in Seq(Metric)
  BY DEF TypeOK
<1>3. /\ SubSeq(sending[t], 1, n) \in Seq(Metric)
      /\ SubSeq(sending[t], n + 1, Len(sending[t])) \in Seq(Metric)
  BY <1>2, CutType
<1>4. jobs' \in [Slots -> Job]
  BY <1>1, <1>3, StartJobType DEF TypeOK
<1>5. sending' \in [Threads -> Seq(Metric)] /\ metricsMutex' \in Threads \union {Free}
  BY <1>1, <1>3 DEF TypeOK
<1> QED
  BY <1>4, <1>5 DEF TypeOK, SendMetricsToServiceApiAsync, configVars, fileVars, monitorVars, ghostVars

LEMMA TypeInductive == TypeOK /\ [Next]_vars => TypeOK'
<1> SUFFICES ASSUME TypeOK, [Next]_vars PROVE TypeOK'
  OBVIOUS
<1> USE DEF queueVars, fileVars, monitorVars, ghostVars, configVars
<1>1. ASSUME NEW e \in Events, SubmitMetrics(e) PROVE TypeOK'
  <2>1. Append(metricsQueue, MetricsEvent(e)) \in Seq(Metric)
    BY MetricsEventType, AppendType DEF TypeOK
  <2>2. waitEvent' \in BOOLEAN
    BY <1>1 DEF SubmitMetrics, SignalWhenFull, TypeOK
  <2>3. metricsQueue' \in Seq(Metric)
    BY <1>1, <2>1 DEF SubmitMetrics, TypeOK
  <2>4. accepted' \subseteq Events /\ rejected' \subseteq Events
    BY <1>1 DEF SubmitMetrics, TypeOK
  <2>5. stats' \in Stats
    <3>1. UNCHANGED stats \/ stats' = [stats EXCEPT !.numDropped = @ + 1]
      BY <1>1 DEF SubmitMetrics
    <3>2. stats \in Stats
      BY DEF TypeOK
    <3> QED
      BY <3>1, <3>2 DEF Stats
  <2> QED
    BY <1>1, <2>2, <2>3, <2>4, <2>5 DEF SubmitMetrics, TypeOK
<1>2. ASSUME NEW e \in Events, SendMetricsDirectly(e) PROVE TypeOK'
  <2>1. <<MetricsEvent(e)>> \in Seq(Metric)
    BY MetricsEventType
  <2>2. /\ sending' \in [Threads -> Seq(Metric)]
        /\ metricsMutex' \in Threads \union {Free}
        /\ jobs' \in [Slots -> Job]
    BY <1>2, <2>1, SendMetricsAsyncType DEF SendMetricsDirectly, TypeOK, Threads
  <2> QED
    BY <1>2, <2>2 DEF SendMetricsDirectly, TypeOK
<1>3. ASSUME FlushMetrics PROVE TypeOK'
  BY <1>3, FlushMetricsAsyncType DEF FlushMetrics, TypeOK, Threads
<1>4. ASSUME NEW enable \in BOOLEAN, NEW submit \in BOOLEAN,
             UpdateOfflineRecordingStatus(enable, submit)
      PROVE  TypeOK'
  <2>1. toggles' \in Nat /\ localJobs' \in Nat
    BY <1>4 DEF UpdateOfflineRecordingStatus, TypeOK
  <2> QED
    BY <1>4, <2>1 DEF UpdateOfflineRecordingStatus, TypeOK
<1>5. CASE StartMetrics
  <2>1. starts' \in Nat
    BY <1>5 DEF StartMetrics, TypeOK
  <2> QED
    BY <1>5, <2>1 DEF StartMetrics, TypeOK
<1>6. CASE ShutdownMetrics
  BY <1>6 DEF ShutdownMetrics, TypeOK
<1>7. CASE Join
  BY <1>7 DEF Join, TypeOK
<1>8. CASE MonitorCheck
  BY <1>8 DEF MonitorCheck, TypeOK
<1>9. CASE MonitorWakeUp
  BY <1>9 DEF MonitorWakeUp, TypeOK
<1>10. CASE MonitorFlush
  BY <1>10, FlushMetricsAsyncType DEF MonitorFlush, TypeOK, Threads
<1>11. ASSUME NEW t \in Threads, SendMetricsToServiceApiAsync(t) PROVE TypeOK'
  BY <1>11, SendToServiceType
<1>12. ASSUME NEW s \in Slots, JobStep(s) PROVE TypeOK'
  BY <1>12, OnResponseType, PushMetricsForRetryType, SendMetricsToFileType DEF JobStep
<1>13. CASE SubmitLocalMetricsAsync
  <2>1. localJobs' \in Nat
    BY <1>13 DEF SubmitLocalMetricsAsync, TypeOK
  <2>2. faultsSeen' \subseteq Faults
    BY <1>13 DEF SubmitLocalMetricsAsync, Fails, TypeOK
  <2>3. local' \in [active : BOOLEAN, records : Seq(Events)]
    <3>1. file.records \in Seq(Events)
          /\ local \in [active : BOOLEAN, records : Seq(Events)]
      BY DEF TypeOK
    <3>2. UNCHANGED local \/ local' = [active |-> TRUE, records |-> file.records]
      BY <1>13 DEF SubmitLocalMetricsAsync
    <3>3. \A r \in Seq(Events) :
            [active |-> TRUE, records |-> r] \in [active : BOOLEAN, records : Seq(Events)]
      OBVIOUS
    <3> QED
      BY <3>1, <3>2, <3>3, Zenon
  <2> QED
    BY <1>13, <2>1, <2>2, <2>3 DEF SubmitLocalMetricsAsync, TypeOK
<1>14. CASE AddOfflineRecord
  <2>1. local.records \in Seq(Events) /\ local.records # <<>>
    BY <1>14 DEF AddOfflineRecord, TypeOK
  <2>2. Head(local.records) \in Events /\ Tail(local.records) \in Seq(Events)
    BY <2>1
  <2>3. Append(metricsQueue, ReadFromJson(Head(local.records))) \in Seq(Metric)
    BY <2>2, MetricsEventType, AppendType DEF TypeOK
  <2>4. waitEvent' \in BOOLEAN
    BY <1>14 DEF AddOfflineRecord, SignalWhenFull, TypeOK
  <2>5. local' \in [active : BOOLEAN, records : Seq(Events)]
    BY <1>14, <2>2 DEF AddOfflineRecord, TypeOK
  <2> QED
    BY <1>14, <2>3, <2>4, <2>5 DEF AddOfflineRecord, TypeOK
<1>15. CASE RemoveLocalFile
  BY <1>15 DEF RemoveLocalFile, Fails, TypeOK
<1>16. CASE UNCHANGED vars
  BY <1>16 DEF vars, TypeOK
<1> QED
  BY <1>1, <1>2, <1>3, <1>4, <1>5, <1>6, <1>7, <1>8, <1>9, <1>10, <1>11, <1>12,
     <1>13, <1>14, <1>15, <1>16 DEF Next, Client, Monitor, LocalJob

LEMMA InitTypeOK == Init => TypeOK
<1> SUFFICES ASSUME Init PROVE TypeOK
  OBVIOUS
<1>1. \A S : <<>> \in Seq(S)
  OBVIOUS
<1>2. Idle \in Job
  BY <1>1 DEF Idle, Job
<1>3. jobs \in [Slots -> Job]
  BY <1>2 DEF Init
<1>4. sending \in [Threads -> Seq(Metric)]
  BY <1>1 DEF Init
<1>5. stats \in Stats
  BY DEF Init, Stats
<1>6. file \in [state : {"absent", "valid", "corrupt"}, records : Seq(Events)]
      /\ local \in [active : BOOLEAN, records : Seq(Events)]
  BY <1>1 DEF Init
<1> QED
  BY <1>1, <1>3, <1>4, <1>5, <1>6 DEF Init, TypeOK

(* Every reachable state is well typed: in particular no event waits in    *)
(* the queue, a request or a retry with more failures than MaxRetries.     *)
THEOREM TypeCorrect == Spec => []TypeOK
  BY InitTypeOK, TypeInductive, PTL DEF Spec

-----------------------------------------------------------------------------
(* The statistics. *)

(* numEvents, numSuccesses and numErrors agree in every reachable state.   *)
THEOREM StatsCorrect == Spec => []StatsBalance
<1>1. Init => StatsBalance
  BY DEF Init, StatsBalance
<1>2. TypeOK /\ StatsBalance /\ [Next]_vars => StatsBalance'
  <2> SUFFICES ASSUME TypeOK, StatsBalance, [Next]_vars PROVE StatsBalance'
    OBVIOUS
  <2>1. stats \in Stats
    BY DEF TypeOK
  <2>2. CASE UNCHANGED stats
    BY <2>2 DEF StatsBalance
  <2>3. ASSUME NEW d, stats' = [stats EXCEPT !.numDropped = d] PROVE StatsBalance'
    BY <2>1, <2>3 DEF StatsBalance, Stats
  <2>4. ASSUME NEW s \in Slots, OnResponseReceived(s) PROVE StatsBalance'
    BY <2>4, OnResponseStats
  <2>5. ASSUME NEW s \in Slots, PushMetricsForRetry(s) PROVE StatsBalance'
    BY <2>2, <2>3, <2>5 DEF PushMetricsForRetry, FilterMetricsByPriority, DropMetrics
  <2>6. ASSUME NEW e \in Events, SubmitMetrics(e) PROVE StatsBalance'
    BY <2>2, <2>3, <2>6 DEF SubmitMetrics
  <2> QED
    BY <2>2, <2>4, <2>5, <2>6 DEF Next, Client, Monitor, LocalJob, JobStep, vars,
       SendMetricsDirectly, FlushMetrics, UpdateOfflineRecordingStatus, StartMetrics,
       ShutdownMetrics, Join, MonitorCheck, MonitorWakeUp, MonitorFlush,
       SendMetricsToServiceApiAsync, SendMetricsToFile, SubmitLocalMetricsAsync,
       AddOfflineRecord, RemoveLocalFile
<1> QED
  BY <1>1, <1>2, TypeCorrect, PTL DEF Spec

-----------------------------------------------------------------------------
(* No accepted event is lost. *)

InSending(e) == \E t \in Threads : e \in Ids(sending[t])
InJob(e)     == \E s \in Slots : HeldInJob(s, e)
Safe(e)      == Held(e) \/ Recorded(e) \/ e \in acked \/ e \in DroppedIds

(* A job for the file retries nothing before the file has been written, so *)
(* that the events it saves are all it holds.                              *)
FileJobsRetryNothing == \A s \in Slots : jobs[s].kind = "file" => jobs[s].retry = <<>>

(* The monitor begins no flush before the last one is sent.                *)
MonitorSendsInFlush == monitor \in {"off", "wait", "flush"} => sending["monitor"] = <<>>

LostInv == TypeOK /\ FileJobsRetryNothing /\ MonitorSendsInFlush /\ NoEventLost

LEMMA EmptyIds == Ids(<<>>) = {}
  BY DEF Ids

LEMMA HeldPlaces ==
  ASSUME NEW e
  PROVE  Held(e) <=> (e \in Ids(metricsQueue) \/ InSending(e) \/ InJob(e))
  BY DEF Held, InSending, InJob

(* A new job holds its events, and no slot in use is taken for it.         *)
LEMMA StartJobHolds ==
  ASSUME TypeOK, NEW q \in Seq(Metric), NEW kind \in {"api", "file"}, StartJob(kind, q),
         NEW e
  PROVE  /\ InJob(e) => InJob(e)'
         /\ e \in Ids(q) => InJob(e)'
<1>1. PICK s \in Slots :
        /\ jobs[s] = Idle
        /\ jobs' = [jobs EXCEPT ![s] = [kind |-> kind, events |-> q, retry |-> <<>>]]
  BY DEF StartJob
<1>2. jobs'[s] = [kind |-> kind, events |-> q, retry |-> <<>>]
      /\ \A r \in Slots : r # s => jobs'[r] = jobs[r]
  BY <1>1 DEF TypeOK
<1>3. ~HeldInJob(s, e)
  BY <1>1, EmptyIds DEF HeldInJob, Idle
<1>4. e \in Ids(q) => HeldInJob(s, e)'
  BY <1>2 DEF HeldInJob
<1>5. \A r \in Slots : r # s /\ HeldInJob(r, e) => HeldInJob(r, e)'
  BY <1>2 DEF HeldInJob
<1> QED
  BY <1>3, <1>4, <1>5 DEF InJob

LEMMA SendHolds ==
  ASSUME TypeOK, NEW t \in Threads, sending[t] = <<>>, NEW q \in Seq(Metric), NEW mutex,
         SendMetricsAsync(t, q, mutex), NEW e
  PROVE  /\ InSending(e) => InSending(e)'
         /\ InJob(e) => InJob(e)'
         /\ e \in Ids(q) => InSending(e)' \/ InJob(e)'
<1>1. CASE StartJob("file", q) /\ UNCHANGED sending
  <2>1. /\ InJob(e) => InJob(e)'
        /\ e \in Ids(q) => InJob(e)'
    BY <1>1, StartJobHolds
  <2>2. InSending(e) => InSending(e)'
    BY <1>1 DEF InSending
  <2> QED
    BY <2>1, <2>2
<1>2. CASE sending' = [sending EXCEPT ![t] = q] /\ UNCHANGED jobs
  <2>1. sending'[t] = q /\ \A u \in Threads : u # t => sending'[u] = sending[u]
    BY <1>2 DEF TypeOK
  <2>2. e \notin Ids(sending[t])
    BY EmptyIds
  <2>3. InSending(e) => InSending(e)'
    BY <2>1, <2>2 DEF InSending
  <2>4. e \in Ids(q) => InSending(e)'
    BY <2>1 DEF InSending
  <2>5. InJob(e) => InJob(e)'
    BY <1>2 DEF InJob, HeldInJob
  <2> QED
    BY <2>3, <2>4, <2>5
<1> QED
  BY <1>1, <1>2 DEF SendMetricsAsync

LEMMA FlushHolds ==
  ASSUME TypeOK, NEW t \in Threads, sending[t] = <<>>, FlushMetricsAsync(t), NEW e, Held(e)
  PROVE  Held(e)'
<1>1. metricsQueue \in Seq(Metric)
  BY DEF TypeOK
<1>2. CASE UNCHANGED <<queueVars, jobs>>
  BY <1>2 DEF queueVars, Held, HeldInJob
<1>3. CASE SendMetricsAsync(t, metricsQueue, t)
  <2>1. e \in Ids(metricsQueue) \/ InSending(e) \/ InJob(e)
    BY HeldPlaces
  <2>2. InSending(e)' \/ InJob(e)'
    BY <1>1, <1>3, <2>1, SendHolds
  <2> QED
    BY <2>2 DEF Held, InSending, InJob
<1> QED
  BY <1>2, <1>3 DEF FlushMetricsAsync

(* What is given up on is counted as dropped.                              *)
LEMMA DropHolds ==
  ASSUME TypeOK, NEW q \in Seq(Metric), DropMetrics(q)
  PROVE  DroppedIds' = DroppedIds \union Ids(q)
<1>1. ToSet(q) = {q[i] : i \in DOMAIN q}
  BY DEF ToSet
<1>2. dropped' = dropped \union ToSet(q)
  BY DEF DropMetrics
<1> QED
  BY <1>1, <1>2 DEF DroppedIds, Ids

LEMMA FilterHolds ==
  ASSUME TypeOK, NEW q \in Seq(Metric), FilterMetricsByPriority(q)
  PROVE  /\ Ids(q) \subseteq Ids(metricsQueue') \union DroppedIds'
         /\ DroppedIds \subseteq DroppedIds'
<1>1. CASE metricsQueue' = q /\ UNCHANGED dropped
  BY <1>1 DEF DroppedIds
<1>2. ASSUME NEW p \in SortedOrders(q), NEW n \in 0..Len(q),
             metricsQueue' = SubSeq([i \in 1..Len(q) |-> q[p[i]]], 1, n),
             DropMetrics(SubSeq([i \in 1..Len(q) |-> q[p[i]]], n + 1,
                                Len([i \in 1..Len(q) |-> q[p[i]]])))
      PROVE  /\ Ids(q) \subseteq Ids(metricsQueue') \union DroppedIds'
             /\ DroppedIds \subseteq DroppedIds'
  <2> DEFINE s == [i \in 1..Len(q) |-> q[p[i]]]
  <2>1. s \in Seq(Metric) /\ n \in 0..Len(s) /\ Ids(s) = Ids(q)
    BY SortIds
  <2> HIDE DEF s
  <2>2. metricsQueue' = SubSeq(s, 1, n) /\ DropMetrics(SubSeq(s, n + 1, Len(s)))
    BY <1>2 DEF s
  <2>3. SubSeq(s, n + 1, Len(s)) \in Seq(Metric)
    BY <2>1, CutType
  <2>4. DroppedIds' = DroppedIds \union Ids(SubSeq(s, n + 1, Len(s)))
    BY <2>2, <2>3, DropHolds
  <2>5. Ids(s) = Ids(SubSeq(s, 1, n)) \union Ids(SubSeq(s, n + 1, Len(s)))
    BY <2>1, CutIds
  <2> QED
    BY <2>1, <2>2, <2>4, <2>5
<1> QED
  BY <1>1, <1>2 DEF FilterMetricsByPriority

(* The event a response is about is acknowledged, dropped or retried.      *)
LEMMA OnResponseHolds ==
  ASSUME TypeOK, NEW s \in Slots, OnResponseReceived(s), NEW e, Safe(e)
  PROVE  Safe(e)'
<1> DEFINE m == Head(jobs[s].events)
           rest == [jobs[s] EXCEPT !.events = Tail(@)]
           f == MarkFailedSubmission(m)
           retried == [rest EXCEPT !.retry = Append(@, f)]
<1>1. /\ jobs[s] \in Job /\ jobs[s].events \in Seq(Metric) /\ jobs[s].events # <<>>
      /\ jobs[s].retry \in Seq(Metric)
  BY DEF TypeOK, Job, OnResponseReceived
<1>2. m \in Metric /\ Ids(jobs[s].events) = {m.id} \union Ids(Tail(jobs[s].events))
  BY <1>1, HeadTailIds
<1>3. f.id = m.id /\ (f.failures <= MaxRetries => f \in Metric)
  BY <1>2, MarkFailedType
<1>4. /\ rest.kind = jobs[s].kind /\ rest.events = Tail(jobs[s].events)
      /\ rest.retry = jobs[s].retry
  BY <1>1 DEF Job
<1>5. /\ retried.kind = jobs[s].kind /\ retried.events = Tail(jobs[s].events)
      /\ retried.retry = Append(jobs[s].retry, f)
  BY <1>1 DEF Job
<1>6. f.failures <= MaxRetries => Ids(retried.retry) = Ids(jobs[s].retry) \union {m.id}
  BY <1>1, <1>3, <1>5, AppendIds
<1> HIDE DEF m, f, rest, retried
<1>7. \/ /\ jobs' = [jobs EXCEPT ![s] = rest]
         /\ jobs[s].kind = "saved" \/ m.id \in acked'
      \/ /\ dropped' = dropped \union {f}
         /\ jobs' = [jobs EXCEPT ![s] = rest]
      \/ /\ f.failures <= MaxRetries
         /\ jobs' = [jobs EXCEPT ![s] = retried]
  BY DEF OnResponseReceived, MayRetry, m, f, rest, retried
<1>8. /\ acked \subseteq acked' /\ DroppedIds \subseteq DroppedIds'
      /\ UNCHANGED <<metricsQueue, sending, file, local>>
  BY DEF OnResponseReceived, DroppedIds, queueVars, fileVars
<1>9. \A r \in Slots : r # s => jobs'[r] = jobs[r]
  BY <1>7 DEF TypeOK
<1>10. CASE HeldInJob(s, e)
  <2>1. jobs[s].kind # "saved" /\ e \in {m.id} \union Ids(Tail(jobs[s].events)) \union Ids(jobs[s].retry)
    BY <1>2, <1>10 DEF HeldInJob
  <2>2. CASE jobs' = [jobs EXCEPT ![s] = rest] /\ m.id \in acked'
    <3>1. jobs'[s] = rest
      BY <2>2 DEF TypeOK
    <3>2. e = m.id \/ HeldInJob(s, e)'
      BY <1>4, <2>1, <3>1 DEF HeldInJob
    <3> QED
      BY <2>2, <3>2 DEF Safe, Held
  <2>3. CASE dropped' = dropped \union {f} /\ jobs' = [jobs EXCEPT ![s] = rest]
    <3>1. jobs'[s] = rest
      BY <2>3 DEF TypeOK
    <3>2. e = m.id \/ HeldInJob(s, e)'
      BY <1>4, <2>1, <3>1 DEF HeldInJob
    <3>3. m.id \in DroppedIds'
      BY <1>3, <2>3 DEF DroppedIds
    <3> QED
      BY <3>2, <3>3 DEF Safe, Held
  <2>4. CASE f.failures <= MaxRetries /\ jobs' = [jobs EXCEPT ![s] = retried]
    <3>1. jobs'[s] = retried
      BY <2>4 DEF TypeOK
    <3>2. HeldInJob(s, e)'
      BY <1>5, <1>6, <2>1, <2>4, <3>1 DEF HeldInJob
    <3> QED
      BY <3>2 DEF Safe, Held
  <2> QED
    BY <1>7, <2>1, <2>2, <2>3, <2>4
<1>11. CASE ~HeldInJob(s, e)
  <2>1. (\E r \in Slots : HeldInJob(r, e)) => \E r \in Slots : HeldInJob(r, e)'
    BY <1>9, <1>11 DEF HeldInJob
  <2>2. Recorded(e) => Recorded(e)'
    BY <1>8 DEF Recorded, FileRecords
  <2> QED
    BY <1>8, <2>1, <2>2 DEF Safe, Held
<1> QED
  BY <1>10, <1>11

(* What a job still had to retry is in the queue or given up on.           *)
LEMMA PushForRetryHolds ==
  ASSUME TypeOK, NEW s \in Slots, PushMetricsForRetry(s), NEW e, Safe(e)
  PROVE  Safe(e)'
<1>1. /\ jobs[s].retry \in Seq(Metric) /\ metricsQueue \in Seq(Metric)
      /\ jobs[s].events = <<>>
  BY DEF TypeOK, Job, PushMetricsForRetry
<1>2. /\ Ids(metricsQueue) \union Ids(jobs[s].retry) \subseteq Ids(metricsQueue') \union DroppedIds'
      /\ DroppedIds \subseteq DroppedIds'
  <2>1. CASE DropMetrics(jobs[s].retry) /\ UNCHANGED metricsQueue
    BY <1>1, <2>1, DropHolds
  <2>2. CASE FilterMetricsByPriority(PushMetricsToFront(metricsQueue, jobs[s].retry))
    <3>1. /\ PushMetricsToFront(metricsQueue, jobs[s].retry) \in Seq(Metric)
          /\ Ids(PushMetricsToFront(metricsQueue, jobs[s].retry))
               = Ids(metricsQueue) \union Ids(jobs[s].retry)
      BY <1>1, PushIds
    <3> QED
      BY <2>2, <3>1, FilterHolds
  <2> QED
    BY <2>1, <2>2 DEF PushMetricsForRetry
<1>3. /\ UNCHANGED <<sending, file, local, acked>>
      /\ \A r \in Slots : r # s => jobs'[r] = jobs[r]
  BY DEF PushMetricsForRetry, fileVars, TypeOK
<1>4. HeldInJob(s, e) => e \in Ids(jobs[s].retry)
  BY <1>1, EmptyIds DEF HeldInJob
<1>5. \A r \in Slots : r # s /\ HeldInJob(r, e) => HeldInJob(r, e)'
  BY <1>3 DEF HeldInJob
<1>6. Recorded(e) => Recorded(e)'
  BY <1>3 DEF Recorded, FileRecords
<1> QED
  BY <1>2, <1>3, <1>4, <1>5, <1>6 DEF Safe, Held

(* A saved batch is in the file, unless the write failed.                  *)
LEMMA SendMetricsToFileHolds ==
  ASSUME TypeOK, FileJobsRetryNothing, NEW s \in Slots, SendMetricsToFile(s),
         "write" \notin faultsSeen', NEW e, Safe(e)
  PROVE  Safe(e)'
<1> DEFINE q == jobs[s].events
           ids == [i \in DOMAIN q |-> q[i].id]
<1>1. /\ jobs[s] \in Job /\ q \in Seq(Metric) /\ jobs[s].kind = "file"
      /\ jobs[s].retry = <<>> /\ ~local.active
  BY DEF TypeOK, Job, SendMetricsToFile, FileJobsRetryNothing
<1>2. /\ UNCHANGED <<metricsQueue, sending, local, acked, dropped>>
      /\ \E k \in {"saved", "failed"} : jobs' = [jobs EXCEPT ![s].kind = k]
  BY DEF SendMetricsToFile, queueVars, ghostVars
<1>3. \A r \in Slots : r # s => jobs'[r] = jobs[r]
  BY <1>2 DEF TypeOK
<1>4. \A r \in Slots : r # s /\ HeldInJob(r, e) => HeldInJob(r, e)'
  BY <1>3 DEF HeldInJob
<1>5. CASE jobs' = [jobs EXCEPT ![s].kind = "failed"] /\ UNCHANGED file
  <2>1. /\ jobs'[s].kind = "failed" /\ jobs'[s].events = jobs[s].events
        /\ jobs'[s].retry = jobs[s].retry
    BY <1>1, <1>5 DEF TypeOK, Job
  <2>2. HeldInJob(s, e) => HeldInJob(s, e)'
    BY <2>1 DEF HeldInJob
  <2>3. Recorded(e) => Recorded(e)'
    BY <1>2, <1>5 DEF Recorded, FileRecords
  <2> QED
    BY <1>2, <1>4, <2>2, <2>3 DEF Safe, Held, DroppedIds
<1>6. CASE file' = [state |-> "valid", records |-> file.records \o ids]
  <2>1. DOMAIN q = 1..Len(q) /\ Len(q) \in Nat
    BY <1>1
  <2>2. ids \in Seq(Events) /\ file.records \in Seq(Events) /\ DOMAIN ids = DOMAIN q
    <3>1. \A i \in 1..Len(q) : q[i] \in Metric
      BY <1>1
    <3>2. \A i \in 1..Len(q) : q[i].id \in Events
      BY <3>1 DEF Metric
    <3>3. ids \in [1..Len(q) -> Events] /\ DOMAIN ids = DOMAIN q
      BY <2>1, <3>2
    <3>4. ids \in Seq(Events)
      BY <2>1, <3>3
    <3> QED
      BY <3>3, <3>4 DEF TypeOK
  <2> DEFINE c == file.records \o ids
  <2>3. /\ Len(c) = Len(file.records) + Len(ids)
        /\ \A i \in 1..Len(file.records) : c[i] = file.records[i]
        /\ \A i \in 1..Len(ids) : c[Len(file.records) + i] = ids[i]
        /\ c \in Seq(Events)
    BY <2>2, ConcatProperties
  <2>4. /\ DOMAIN c = 1..Len(c) /\ DOMAIN ids = 1..Len(ids)
        /\ DOMAIN file.records = 1..Len(file.records)
    BY <2>2, <2>3
  <2>5. \A i \in DOMAIN ids : ids[i] = q[i].id
    OBVIOUS
  <2> HIDE DEF c, ids
  <2>6. \A i \in DOMAIN file.records : i \in DOMAIN c
    BY <2>2, <2>3, <2>4
  <2>7. \A i \in DOMAIN ids : Len(file.records) + i \in DOMAIN c
    BY <2>2, <2>3, <2>4
  <2>8. ToSet(file.records) \subseteq ToSet(c)
    BY <2>3, <2>4, <2>6 DEF ToSet
  <2>9. Ids(q) \subseteq ToSet(c)
    BY <2>2, <2>3, <2>4, <2>5, <2>7 DEF ToSet, Ids
  <2>10. FileRecords' = c /\ FileRecords = file.records
    BY <1>1, <1>2, <1>6 DEF FileRecords, c
  <2>11. (HeldInJob(s, e) \/ Recorded(e)) => Recorded(e)'
    BY <1>1, <2>8, <2>9, <2>10, EmptyIds DEF HeldInJob, Recorded
  <2> QED
    BY <1>2, <1>4, <2>11 DEF Safe, Held, DroppedIds
<1>7. ~ (Fails("write"))
  BY DEF Fails
<1> QED
  BY <1>5, <1>6, <1>7 DEF SendMetricsToFile

LEMMA SendToServiceHolds ==
  ASSUME TypeOK, NEW t \in Threads, SendMetricsToServiceApiAsync(t), NEW e, Safe(e)
  PROVE  Safe(e)'
<1>1. PICK n \in 0..Len(sending[t]) :
        /\ IF n = 0 THEN UNCHANGED jobs ELSE StartJob("api", SubSeq(sending[t], 1, n))
        /\ sending' = [sending EXCEPT ![t] = SubSeq(@, n + 1, Len(@))]
  BY DEF SendMetricsToServiceApiAsync
<1> DEFINE a == SubSeq(sending[t], 1, n)
           b == SubSeq(sending[t], n + 1, Len(sending[t]))
<1>2. sending[t] \in Seq(Metric)
  BY DEF TypeOK
<1>3. a \in Seq(Metric) /\ Ids(sending[t]) = Ids(a) \union Ids(b)
  BY <1>2, CutType, CutIds
<1>4. sending'[t] = b /\ \A u \in Threads : u # t => sending'[u] = sending[u]
  BY <1>1 DEF TypeOK
<1>5. UNCHANGED <<metricsQueue, file, local, acked, dropped>>
  BY DEF SendMetricsToServiceApiAsync, fileVars, ghostVars
<1>6. /\ InJob(e) => InJob(e)'
      /\ e \in Ids(a) => InJob(e)'
  <2>1. CASE n = 0
    <3>1. a = <<>>
      BY <1>2, <2>1
    <3> QED
      BY <1>1, <2>1, <3>1, EmptyIds DEF InJob, HeldInJob
  <2>2. CASE n # 0
    <3>1. StartJob("api", a)
      BY <1>1, <2>2
    <3> HIDE DEF a
    <3> QED
      BY <1>3, <3>1, StartJobHolds
  <2> QED
    BY <2>1, <2>2
<1> HIDE DEF a, b
<1>7. InSending(e) => InSending(e)' \/ e \in Ids(a)
  BY <1>3, <1>4 DEF InSending
<1>8. Recorded(e) => Recorded(e)'
  BY <1>5 DEF Recorded, FileRecords
<1> QED
  BY <1>5, <1>6, <1>7, <1>8 DEF Safe, Held, InSending, InJob, DroppedIds

LEMMA AddOfflineRecordHolds ==
  ASSUME TypeOK, AddOfflineRecord, NEW e, Safe(e)
  PROVE  Safe(e)'
<1> DEFINE q == local.records
<1>1. q \in Seq(Events) /\ q # <<>> /\ local.active
  BY DEF AddOfflineRecord, TypeOK
<1>2. /\ Head(q) \in Events /\ Tail(q) \in Seq(Events)
      /\ Head(q) = q[1] /\ DOMAIN q = 1..Len(q) /\ Len(q) \in Nat /\ Len(q) >= 1
      /\ DOMAIN Tail(q) = 1..(Len(q) - 1) /\ \A i \in 1..(Len(q) - 1) : Tail(q)[i] = q[i + 1]
  BY <1>1
<1>3. local' = [local EXCEPT !.records = Tail(q)]
      /\ local \in [active : BOOLEAN, records : Seq(Events)]
  BY DEF AddOfflineRecord, TypeOK
<1>4. FileRecords = q /\ FileRecords' = Tail(q)
  BY <1>1, <1>3 DEF FileRecords
<1> HIDE DEF q
<1>5. ASSUME NEW i \in DOMAIN q PROVE q[i] = Head(q) \/ q[i] \in ToSet(Tail(q))
  <2>1. CASE i = 1
    BY <1>2, <2>1
  <2>2. CASE i # 1
    <3>1. i - 1 \in DOMAIN Tail(q) /\ Tail(q)[i - 1] = q[i]
      BY <1>2, <2>2
    <3> QED
      BY <3>1 DEF ToSet
  <2> QED
    BY <2>1, <2>2
<1>6. Recorded(e) => e = Head(q) \/ Recorded(e)'
  BY <1>4, <1>5 DEF Recorded, ToSet
<1>7. /\ metricsQueue \in Seq(Metric) /\ ReadFromJson(Head(q)) \in Metric
      /\ ReadFromJson(Head(q)).id = Head(q)
  BY <1>2, MetricsEventType DEF TypeOK, ReadFromJson
<1>8. Ids(metricsQueue') = Ids(metricsQueue) \union {Head(q)}
  BY <1>7, AppendIds DEF AddOfflineRecord, q
<1>9. UNCHANGED <<sending, jobs, acked, dropped>>
  BY DEF AddOfflineRecord, ghostVars
<1> QED
  BY <1>6, <1>8, <1>9 DEF Safe, Held, HeldInJob, DroppedIds

(* A file operation that failed is remembered.                             *)
LEMMA FaultsStay == TypeOK /\ [Next]_vars => faultsSeen \subseteq faultsSeen'
  BY DEF Next, Client, Monitor, LocalJob, JobStep, vars, fileVars, Fails, SubmitMetrics,
     SendMetricsDirectly, FlushMetrics, UpdateOfflineRecordingStatus, StartMetrics,
     ShutdownMetrics, Join, MonitorCheck, MonitorWakeUp, MonitorFlush,
     SendMetricsToServiceApiAsync, OnResponseReceived, PushMetricsForRetry,
     SendMetricsToFile, SubmitLocalMetricsAsync, AddOfflineRecord, RemoveLocalFile

(* A submission that returns true leaves its event in the queue.           *)
LEMMA SubmitHolds ==
  ASSUME TypeOK, NEW x \in Events, SubmitMetrics(x), NEW e
  PROVE  /\ Safe(e) => Safe(e)'
         /\ e = x /\ e \in accepted' => Safe(e)'
<1>1. MetricsEvent(x) \in Metric /\ MetricsEvent(x).id = x /\ metricsQueue \in Seq(Metric)
  BY MetricsEventType DEF MetricsEvent, TypeOK
<1>2. UNCHANGED <<sending, jobs, file, local, acked, dropped>>
  BY DEF SubmitMetrics, fileVars
<1>3. CASE metricsQueue' = metricsQueue /\ accepted' = accepted
  BY <1>2, <1>3 DEF Safe, Held, HeldInJob, Recorded, FileRecords, DroppedIds, SubmitMetrics,
     Unsubmitted
<1>4. CASE metricsQueue' = Append(metricsQueue, MetricsEvent(x))
  <2>1. Ids(metricsQueue') = Ids(metricsQueue) \union {x}
    BY <1>1, <1>4, AppendIds
  <2> QED
    BY <1>2, <2>1 DEF Safe, Held, HeldInJob, Recorded, FileRecords, DroppedIds
<1> QED
  BY <1>3, <1>4 DEF SubmitMetrics

LEMMA DirectlyHolds ==
  ASSUME TypeOK, NEW x \in Events, SendMetricsDirectly(x), NEW e
  PROVE  /\ Safe(e) => Safe(e)'
         /\ e = x => Safe(e)'
<1> DEFINE q == <<MetricsEvent(x)>>
<1>1. MetricsEvent(x) \in Metric /\ MetricsEvent(x).id = x
  BY MetricsEventType DEF MetricsEvent
<1>2. q \in Seq(Metric) /\ x \in Ids(q)
  BY <1>1 DEF Ids
<1>3. /\ SendMetricsAsync("client", q, metricsMutex) /\ sending["client"] = <<>>
      /\ UNCHANGED <<metricsQueue, file, local, acked, dropped>>
  BY DEF SendMetricsDirectly, fileVars
<1> HIDE DEF q
<1>4. /\ InSending(e) => InSending(e)'
      /\ InJob(e) => InJob(e)'
      /\ e \in Ids(q) => InSending(e)' \/ InJob(e)'
  BY <1>2, <1>3, SendHolds DEF Threads
<1>5. Recorded(e) => Recorded(e)'
  BY <1>3 DEF Recorded, FileRecords
<1> QED
  BY <1>2, <1>3, <1>4, <1>5 DEF Safe, Held, InSending, InJob, DroppedIds

(* The file is removed when all its records are in the queue.              *)
LEMMA LocalJobHolds ==
  ASSUME TypeOK, LocalJob, NEW e, Safe(e)
  PROVE  Safe(e)'
<1>1. local \in [active : BOOLEAN, records : Seq(Events)]
  BY DEF TypeOK
<1>2. CASE SubmitLocalMetricsAsync
  <2>1. FileRecords' = FileRecords
    BY <1>1, <1>2 DEF SubmitLocalMetricsAsync, FileRecords
  <2> QED
    BY <1>2, <2>1 DEF SubmitLocalMetricsAsync, queueVars, ghostVars, Safe, Held, HeldInJob,
       Recorded, DroppedIds
<1>3. CASE AddOfflineRecord
  BY <1>3, AddOfflineRecordHolds
<1>4. CASE RemoveLocalFile
  <2>1. ~Recorded(e)
    BY <1>4 DEF RemoveLocalFile, Recorded, FileRecords, ToSet
  <2> QED
    BY <1>4, <2>1 DEF RemoveLocalFile, queueVars, ghostVars, Safe, Held, HeldInJob, DroppedIds
<1> QED
  BY <1>2, <1>3, <1>4 DEF LocalJob

(* The strengthened invariant. Its parts say that nothing is overwritten: a *)
(* thread begins to send when it has nothing left to send, and a job that  *)
(* is over held nothing but what was saved.                                *)
LEMMA LostInductive == LostInv /\ [Next]_vars => LostInv'
<1> SUFFICES ASSUME LostInv, [Next]_vars PROVE LostInv'
  OBVIOUS
<1>1. /\ TypeOK /\ FileJobsRetryNothing /\ MonitorSendsInFlush /\ NoEventLost /\ TypeOK'
  BY TypeInductive DEF LostInv
<1>2. FileJobsRetryNothing'
  <2> SUFFICES ASSUME NEW s \in Slots, jobs'[s].kind = "file" PROVE jobs'[s].retry = <<>>
    BY DEF FileJobsRetryNothing
  <2>1. CASE jobs'[s] = jobs[s]
    BY <1>1, <2>1 DEF FileJobsRetryNothing
  <2>2. ASSUME NEW kind, NEW q, StartJob(kind, q) PROVE jobs'[s].retry = <<>>
    <3>1. PICK r \in Slots :
            jobs' = [jobs EXCEPT ![r] = [kind |-> kind, events |-> q, retry |-> <<>>]]
      BY <2>2 DEF StartJob
    <3> QED
      BY <1>1, <2>1, <3>1 DEF TypeOK
  <2>3. ASSUME NEW t, NEW q, NEW mutex, SendMetricsAsync(t, q, mutex)
        PROVE  jobs'[s].retry = <<>>
    BY <2>1, <2>2, <2>3 DEF SendMetricsAsync
  <2>4. ASSUME NEW t, FlushMetricsAsync(t) PROVE jobs'[s].retry = <<>>
    BY <2>1, <2>3, <2>4 DEF FlushMetricsAsync
  <2>5. ASSUME NEW r \in Slots, JobStep(r) PROVE jobs'[s].retry = <<>>
    <3>1. CASE r # s
      <4>1. jobs'[s] = jobs[s]
        BY <1>1, <2>5, <3>1 DEF JobStep, OnResponseReceived, PushMetricsForRetry,
           SendMetricsToFile, TypeOK
      <4> QED
        BY <2>1, <4>1
    <3>2. CASE r = s /\ PushMetricsForRetry(s)
      BY <1>1, <3>2 DEF PushMetricsForRetry, Idle, TypeOK
    <3>3. CASE r = s /\ SendMetricsToFile(s)
      <4>1. jobs'[s].kind \in {"saved", "failed"}
        BY <1>1, <3>3 DEF SendMetricsToFile, TypeOK, Job
      <4> QED
        BY <4>1
    <3>4. CASE r = s /\ OnResponseReceived(s)
      <4>1. jobs[s] \in Job /\ jobs[s].kind # "file"
        BY <1>1, <3>4 DEF OnResponseReceived, TypeOK
      <4>2. PICK j \in {[jobs[s] EXCEPT !.events = Tail(@)]} :
              \/ jobs' = [jobs EXCEPT ![s] = j]
              \/ \E z : jobs' = [jobs EXCEPT ![s] = [j EXCEPT !.retry = z]]
        BY <3>4 DEF OnResponseReceived
      <4>3. j.kind = jobs[s].kind /\ \A z : [j EXCEPT !.retry = z].kind = j.kind
        BY <4>1, <4>2 DEF Job
      <4>4. \A x : jobs' = [jobs EXCEPT ![s] = x] => jobs'[s] = x
        BY <1>1 DEF TypeOK
      <4>5. jobs'[s] = j \/ \E z : jobs'[s] = [j EXCEPT !.retry = z]
        BY <4>2, <4>4
      <4>6. jobs'[s].kind = jobs[s].kind
        BY <4>3, <4>5
      <4> QED
        BY <4>1, <4>6
    <3> QED
      BY <2>5, <3>1, <3>2, <3>3, <3>4 DEF JobStep
  <2>6. ASSUME NEW t \in Threads, SendMetricsToServiceApiAsync(t) PROVE jobs'[s].retry = <<>>
    BY <2>1, <2>2, <2>6 DEF SendMetricsToServiceApiAsync
  <2> QED
    BY <2>1, <2>3, <2>4, <2>5, <2>6 DEF Next, Client, Monitor, LocalJob, vars, SubmitMetrics,
       SendMetricsDirectly, FlushMetrics, UpdateOfflineRecordingStatus, StartMetrics,
       ShutdownMetrics, Join, MonitorCheck, MonitorWakeUp, MonitorFlush,
       SubmitLocalMetricsAsync, AddOfflineRecord, RemoveLocalFile
<1>3. MonitorSendsInFlush'
  <2>1. CASE sending'["monitor"] = sending["monitor"] /\ monitor' = monitor
    BY <1>1, <2>1 DEF MonitorSendsInFlush
  <2>2. ASSUME NEW q, NEW mutex, SendMetricsAsync("client", q, mutex)
        PROVE  sending'["monitor"] = sending["monitor"]
    BY <1>1, <2>2 DEF SendMetricsAsync, TypeOK, Threads
  <2>3. CASE \E e \in Events : SendMetricsDirectly(e)
    BY <2>1, <2>2, <2>3 DEF SendMetricsDirectly, monitorVars
  <2>4. CASE FlushMetrics
    BY <2>1, <2>2, <2>4 DEF FlushMetrics, FlushMetricsAsync, queueVars, monitorVars
  <2>5. ASSUME NEW t \in Threads, SendMetricsToServiceApiAsync(t) PROVE MonitorSendsInFlush'
    <3>1. /\ sending[t] # <<>> /\ monitor' = monitor
          /\ sending' = [sending EXCEPT ![t] = sending'[t]]
      BY <1>1, <2>5 DEF SendMetricsToServiceApiAsync, monitorVars, TypeOK
    <3>2. CASE t = "monitor"
      BY <1>1, <3>1, <3>2 DEF MonitorSendsInFlush
    <3>3. CASE t # "monitor"
      BY <1>1, <2>1, <3>1, <3>3 DEF TypeOK, Threads
    <3> QED
      BY <3>2, <3>3
  <2>6. CASE StartMetrics \/ MonitorFlush
    BY <2>6 DEF StartMetrics, MonitorFlush, MonitorSendsInFlush
  <2>7. CASE MonitorCheck \/ MonitorWakeUp
    BY <1>1, <2>7 DEF MonitorCheck, MonitorWakeUp, MonitorSendsInFlush, queueVars
  <2> QED
    BY <2>1, <2>3, <2>4, <2>5, <2>6, <2>7 DEF Next, Client, Monitor, LocalJob, JobStep, vars,
       queueVars, monitorVars, SubmitMetrics, UpdateOfflineRecordingStatus, ShutdownMetrics,
       Join, OnResponseReceived, PushMetricsForRetry, SendMetricsToFile,
       SubmitLocalMetricsAsync, AddOfflineRecord, RemoveLocalFile
<1>4. ASSUME "write" \notin faultsSeen', NEW e \in accepted', e \in accepted PROVE Safe(e)'
  <2>1. "write" \notin faultsSeen
    BY <1>1, <1>4, FaultsStay
  <2>2. Safe(e)
    BY <1>1, <1>4, <2>1 DEF NoEventLost, Safe
  <2>3. CASE UNCHANGED <<metricsQueue, sending, jobs, file, local, acked, dropped>>
    BY <2>2, <2>3 DEF Safe, Held, HeldInJob, Recorded, FileRecords, DroppedIds
  <2>4. ASSUME NEW x \in Events, SubmitMetrics(x) PROVE Safe(e)'
    BY <1>1, <2>2, <2>3, <2>4, SubmitHolds
  <2>5. ASSUME NEW x \in Events, SendMetricsDirectly(x) PROVE Safe(e)'
    BY <1>1, <2>2, <2>5, DirectlyHolds
  <2>6. ASSUME NEW t \in Threads, sending[t] = <<>>, FlushMetricsAsync(t),
               UNCHANGED <<file, local, acked, dropped>>
        PROVE  Safe(e)'
    <3>1. Held(e) => Held(e)'
      BY <1>1, <2>6, FlushHolds
    <3> QED
      BY <2>2, <2>6, <3>1 DEF Safe, Recorded, FileRecords, DroppedIds
  <2>7. CASE FlushMetrics
    BY <2>6, <2>7 DEF FlushMetrics, Threads, fileVars, ghostVars
  <2>8. CASE MonitorFlush
    BY <1>1, <2>6, <2>8 DEF MonitorFlush, MonitorSendsInFlush, Threads, fileVars, ghostVars
  <2>9. ASSUME NEW t \in Threads, SendMetricsToServiceApiAsync(t) PROVE Safe(e)'
    BY <1>1, <2>2, <2>9, SendToServiceHolds
  <2>10. ASSUME NEW s \in Slots, JobStep(s) PROVE Safe(e)'
    <3>1. CASE OnResponseReceived(s)
      BY <1>1, <2>2, <3>1, OnResponseHolds
    <3>2. CASE PushMetricsForRetry(s)
      BY <1>1, <2>2, <3>2, PushForRetryHolds
    <3>3. CASE SendMetricsToFile(s)
      BY <1>1, <1>4, <2>2, <3>3, SendMetricsToFileHolds
    <3> QED
      BY <2>10, <3>1, <3>2, <3>3 DEF JobStep
  <2>11. CASE LocalJob
    BY <1>1, <2>2, <2>11, LocalJobHolds
  <2> QED
    BY <2>3, <2>4, <2>5, <2>7, <2>8, <2>9, <2>10, <2>11 DEF Next, Client, Monitor, vars,
       queueVars, fileVars, monitorVars, ghostVars, UpdateOfflineRecordingStatus,
       StartMetrics, ShutdownMetrics, Join, MonitorCheck, MonitorWakeUp
<1>5. ASSUME NEW e \in accepted', e \notin accepted PROVE Safe(e)'
  <2>1. ASSUME NEW x \in Events, SubmitMetrics(x) PROVE Safe(e)'
    BY <1>1, <1>5, <2>1, SubmitHolds DEF SubmitMetrics
  <2>2. ASSUME NEW x \in Events, SendMetricsDirectly(x) PROVE Safe(e)'
    BY <1>1, <1>5, <2>2, DirectlyHolds DEF SendMetricsDirectly
  <2> QED
    BY <1>5, <2>1, <2>2 DEF Next, Client, Monitor, LocalJob, JobStep, vars, ghostVars,
       FlushMetrics, UpdateOfflineRecordingStatus, StartMetrics, ShutdownMetrics, Join,
       MonitorCheck, MonitorWakeUp, MonitorFlush, SendMetricsToServiceApiAsync,
       OnResponseReceived, PushMetricsForRetry, SendMetricsToFile, SubmitLocalMetricsAsync,
       AddOfflineRecord, RemoveLocalFile
<1>6. NoEventLost'
  BY <1>4, <1>5 DEF NoEventLost, Safe
<1> QED
  BY <1>1, <1>2, <1>3, <1>6 DEF LostInv

(* An event whose submission returned true is buffered, in a request, in   *)
(* the file, acknowledged or dropped, whatever the number of events, jobs  *)
(* and retries: NoEventLost holds in every reachable state.                *)
THEOREM NothingLost == Spec => []NoEventLost
<1>1. Init => LostInv
  <2> SUFFICES ASSUME Init PROVE LostInv
    OBVIOUS
  <2>1. TypeOK
    BY InitTypeOK
  <2>2. FileJobsRetryNothing
    BY DEF Init, FileJobsRetryNothing, Idle
  <2>3. MonitorSendsInFlush
    BY DEF Init, MonitorSendsInFlush, Threads
  <2>4. NoEventLost
    BY DEF Init, NoEventLost
  <2> QED
    BY <2>1, <2>2, <2>3, <2>4 DEF LostInv
<1>2. LostInv => NoEventLost
  BY DEF LostInv
<1> QED
  BY <1>1, <1>2, LostInductive, PTL DEF Spec
=============================================================================
