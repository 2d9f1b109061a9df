--------------------------- MODULE MetricsPipeline ---------------------------
(***************************************************************************)
(* The AWSMetrics gem: MetricsManager, the MetricsQueue it buffers events  *)
(* in, the monitor thread that flushes the queue, the jobs that send       *)
(* batches to the service API or to the local file, the retry of failed    *)
(* events, and the resubmission of events recorded off line.               *)
(*                                                                         *)
(* Threads: the client (callers of AWSMetricsRequestBus, whose mutex       *)
(* serialises them), the owner that starts and shuts down the manager, the *)
(* monitor thread, and one worker per job.                                 *)
(***************************************************************************)
EXTENDS Integers, FiniteSets, Sequences, SequencesExt

CONSTANTS
  Events,        \* metrics events an application may submit, each once
  ValidEvents,   \* those ValidateAgainstSchema accepts
  Priority,      \* Priority[e]: 0 is the highest
  SizeOf,        \* SizeOf[e]: bytes of the event serialised to JSON
  MaxQueueSize,  \* ClientConfiguration::GetMaxQueueSizeInBytes
  MaxPayload,    \* AwsMetricsMaxRestApiPayloadSizeInMb * MbToBytes
  MaxBatch,      \* AwsMetricsMaxKinesisBatchedRecordCount
  MaxRetries,    \* ClientConfiguration::GetMaxNumRetries
  Faults,        \* the file operations that may fail
  MaxJobs,       \* bound: requests in flight at once
  MaxToggles,    \* bound: calls of UpdateOfflineRecordingStatus
  MaxStarts      \* bound: calls of StartMetrics that start a monitor

ASSUME MetricsAssumption ==
  /\ ValidEvents \subseteq Events
  /\ Priority \in [Events -> Nat]
  /\ SizeOf \in [Events -> Nat \ {0}]
  /\ {MaxQueueSize, MaxPayload, MaxBatch, MaxRetries} \subseteq Nat
  /\ Faults \subseteq {"read", "open", "write", "remove"}
  /\ {MaxJobs, MaxToggles, MaxStarts} \subseteq Nat

VARIABLES
  metricsQueue,   \* m_metricsQueue: the buffered events
  metricsMutex,   \* the thread inside the sending loop of FlushMetricsAsync
  sending,        \* sending[t]: what the sending loop of thread t has not popped
  jobs,           \* the requests in flight
  offline,        \* ClientConfiguration::m_offlineRecordingEnabled
  file,           \* the local metrics file
  local,          \* the job of SubmitLocalMetricsAsync that holds the file mutex
  localJobs,      \* jobs of SubmitLocalMetricsAsync that have not started
  monitor,        \* where the monitor thread is
  terminated,     \* m_monitorTerminated
  waitEvent,      \* m_waitEvent, a binary semaphore
  owner,          \* "joining" inside ShutdownMetrics
  stats,          \* m_globalStats
  accepted,       \* events whose submission returned true
  rejected,       \* events whose submission returned false
  acked,          \* events the service acknowledged
  dropped,        \* event copies given up on
  faultsSeen,     \* file operations that have failed so far
  toggles,        \* calls of UpdateOfflineRecordingStatus so far
  starts          \* monitors started so far

queueVars   == <<metricsQueue, metricsMutex, sending>>
fileVars    == <<file, local, localJobs, faultsSeen>>
monitorVars == <<monitor, terminated, waitEvent, owner, starts>>
ghostVars   == <<accepted, rejected, acked, dropped>>
configVars  == <<offline, toggles>>
vars == <<queueVars, jobs, configVars, fileVars, monitorVars, stats, ghostVars>>

Threads == {"client", "monitor"}
Free    == "free"
Slots   == 1..MaxJobs

-----------------------------------------------------------------------------
(* A MetricsEvent in memory: how often sending it failed, and its priority. *)
Metric == [id : Events, failures : 0..MaxRetries, priority : Nat]

MetricsEvent(e) == [id |-> e, failures |-> 0, priority |-> Priority[e]]

(* ReadFromJson restores the attributes; the other members are the defaults. *)
ReadFromJson(e) == [id |-> e, failures |-> 0, priority |-> 0]

(* Mutant: a failed copy is marked twice. *)
MarkFailedTwice(m) == [m EXCEPT !.failures = @ + 2]

MarkFailedSubmission(m) == [m EXCEPT !.failures = @ + 1]

(* Mutant: one retry more than GetMaxNumRetries. *)
MayRetryOnceMore(m) == m.failures <= MaxRetries + 1

MayRetry(m) == m.failures <= MaxRetries

GetSizeInBytes(q) == FoldSeq(LAMBDA m, n : SizeOf[m.id] + n, 0, q)

Ids(q) == {q[i].id : i \in DOMAIN q}

(* n is how many events PopBufferedEventsByServiceLimits takes from q: the *)
(* longest prefix within both limits.                                      *)
FitsLimits(q, n) == n <= MaxBatch /\ GetSizeInBytes(SubSeq(q, 1, n)) <= MaxPayload

PopBufferedEventsByServiceLimits(q, n) ==
  /\ n \in 0..Len(q)
  /\ \A k \in 1..n : FitsLimits(q, k)
  /\ n < Len(q) => ~FitsLimits(q, n + 1)

(* front_inserter pushes one element at a time, each before the last. *)
PushMetricsToFront(q, front) ==
  IF q = <<>> THEN front ELSE Reverse(front) \o q

(* Mutant: the lowest priority first. *)
SortsAscending(q, i, j) == q[i].priority > q[j].priority \/ (q[i].priority = q[j].priority /\ i > j)

(* Higher priority first; of equal priority, the newer first. *)
SortsBefore(q, i, j) ==
  \/ q[i].priority < q[j].priority
  \/ q[i].priority = q[j].priority /\ i > j

(* The orders stable_sort may put q in: exactly one, SortsBefore is total. *)
SortedOrders(q) ==
  {p \in [1..Len(q) -> 1..Len(q)] :
     /\ \A j \in 1..Len(q) : \E i \in 1..Len(q) : p[i] = j
     /\ \A i, j \in 1..Len(q) : i < j => SortsBefore(q, p[i], p[j])}

(* Mutant: the size test is off by one. *)
FilterKeepsOneMore(s, kept) ==
  /\ kept \in 0..Len(s)
  /\ \A k \in 0..(kept - 1) : GetSizeInBytes(SubSeq(s, 1, k)) <= MaxQueueSize
  /\ kept < Len(s) => GetSizeInBytes(SubSeq(s, 1, kept)) > MaxQueueSize

(* kept events of the sorted queue s stay: the size test comes before each *)
(* event is added, so the last one may exceed the capacity.                *)
FilterKeeps(s, kept) ==
  /\ kept \in 0..Len(s)
  /\ \A k \in 0..(kept - 1) : GetSizeInBytes(SubSeq(s, 1, k)) < MaxQueueSize
  /\ kept < Len(s) => GetSizeInBytes(SubSeq(s, 1, kept)) >= MaxQueueSize

-----------------------------------------------------------------------------
(* Requests. "api": PostMetricsEventsRequestJob, each of whose events the   *)
(* service accepts or not; "file": a job that has not run SendMetricsToFile *)
(* yet; "saved" and "failed": the outcome it returned.  events are those    *)
(* OnResponseReceived has not handled, retry those it will push back.       *)
Idle == [kind |-> "idle", events |-> <<>>, retry |-> <<>>]

Job == [kind : {"idle", "api", "file", "saved", "failed"},
        events : Seq(Metric), retry : Seq(Metric)]

StartJob(kind, q) ==
  \E s \in Slots :
    /\ jobs[s] = Idle
    /\ \A r \in Slots : r < s => jobs[r] # Idle
    /\ jobs' = [jobs EXCEPT ![s] = [kind |-> kind, events |-> q, retry |-> <<>>]]

Init ==
  /\ metricsQueue = <<>> /\ metricsMutex = Free
  /\ sending = [t \in Threads |-> <<>>]
  /\ jobs = [s \in Slots |-> Idle]
  /\ offline \in BOOLEAN /\ toggles = 0
  /\ file = [state |-> "absent", records |-> <<>>]
  /\ local = [active |-> FALSE, records |-> <<>>] /\ localJobs = 0
  /\ faultsSeen = {}
  /\ monitor = "off" /\ terminated = TRUE /\ waitEvent = FALSE
  /\ owner = "idle" /\ starts = 0
  /\ stats = [numEvents |-> 0, numErrors |-> 0, numSuccesses |-> 0, numDropped |-> 0]
  /\ accepted = {} /\ rejected = {} /\ acked = {} /\ dropped = {}

-----------------------------------------------------------------------------
(* The client. *)

Unsubmitted == Events \ (accepted \union rejected)

SignalWhenFull(q) ==
  waitEvent' = (waitEvent \/ GetSizeInBytes(q) >= MaxQueueSize)

SubmitMetrics(e) ==
  /\ e \in Unsubmitted /\ sending["client"] = <<>>
  /\ \/ /\ e \notin ValidEvents
        /\ rejected' = rejected \union {e}
        /\ stats' = [stats EXCEPT !.numDropped = @ + 1]
        /\ UNCHANGED <<metricsQueue, waitEvent, accepted>>
     \/ /\ e \in ValidEvents /\ metricsMutex = Free
        /\ metricsQueue' = Append(metricsQueue, MetricsEvent(e))
        /\ SignalWhenFull(metricsQueue')
        /\ accepted' = accepted \union {e}
        /\ UNCHANGED <<rejected, stats>>
  /\ UNCHANGED <<metricsMutex, sending, jobs, configVars, fileVars, monitor,
                 terminated, owner, starts, acked, dropped>>

(* SendMetricsAsync of a queue: one job for the file, or the popping loop. *)
SendMetricsAsync(t, q, mutex) ==
  \/ /\ offline
     /\ StartJob("file", q)
     /\ UNCHANGED <<sending, metricsMutex>>
  \/ /\ ~offline
     /\ sending' = [sending EXCEPT ![t] = q]
     /\ metricsMutex' = mutex
     /\ UNCHANGED jobs

(* SendMetricsAsync of attributes: SubmitMetrics without buffering. *)
SendMetricsDirectly(e) ==
  /\ e \in Unsubmitted /\ e \in ValidEvents /\ sending["client"] = <<>>
  /\ accepted' = accepted \union {e}
  /\ SendMetricsAsync("client", <<MetricsEvent(e)>>, metricsMutex)
  /\ UNCHANGED <<metricsQueue, configVars, fileVars, monitorVars, stats,
                 rejected, acked, dropped>>

(* Mutant: the flushed events stay in the queue. *)
FlushKeepsQueue(t) ==
  /\ metricsMutex = Free
  /\ \/ /\ metricsQueue = <<>>
        /\ UNCHANGED <<queueVars, jobs>>
     \/ /\ metricsQueue # <<>>
        /\ SendMetricsAsync(t, metricsQueue, t)
        /\ UNCHANGED metricsQueue

FlushMetricsAsync(t) ==
  /\ metricsMutex = Free
  /\ \/ /\ metricsQueue = <<>>
        /\ UNCHANGED <<queueVars, jobs>>
     \/ /\ metricsQueue # <<>>
        /\ metricsQueue' = <<>>
        /\ SendMetricsAsync(t, metricsQueue, t)

FlushMetrics ==
  /\ sending["client"] = <<>>
  /\ FlushMetricsAsync("client")
  /\ UNCHANGED <<configVars, fileVars, monitorVars, stats, ghostVars>>

(* One turn of the loop of SendMetricsAsync. A turn that pops nothing,      *)
(* because the first event alone is above the limit, posts a request        *)
(* without records: its job and the empty answer change nothing here and    *)
(* are left out.                                                           *)
SendMetricsToServiceApiAsync(t) ==
  /\ sending[t] # <<>>
  /\ \E n \in 0..Len(sending[t]) :
       /\ PopBufferedEventsByServiceLimits(sending[t], n)
       /\ IF n = 0 THEN UNCHANGED jobs ELSE StartJob("api", SubSeq(sending[t], 1, n))
       /\ sending' = [sending EXCEPT ![t] = SubSeq(@, n + 1, Len(@))]
       /\ metricsMutex' = IF metricsMutex = t /\ n = Len(sending[t])
                          THEN Free ELSE metricsMutex
  /\ UNCHANGED <<metricsQueue, configVars, fileVars, monitorVars, stats, ghostVars>>

-----------------------------------------------------------------------------
(* Responses. *)

(* Mutant: a retry that succeeds stays an error. *)
CountSuccessKeepsError(m) ==
  stats' = [stats EXCEPT !.numEvents    = IF m.failures = 0 THEN @ + 1 ELSE @,
                         !.numSuccesses = @ + 1]

(* The counts of the loop of OnResponseReceived. *)
CountSuccess(m) ==
  stats' = [stats EXCEPT !.numEvents    = IF m.failures = 0 THEN @ + 1 ELSE @,
                         !.numErrors    = IF m.failures = 0 THEN @ ELSE @ - 1,
                         !.numSuccesses = @ + 1]

CountFailure(m) ==
  stats' = [stats EXCEPT !.numEvents  = IF m.failures = 1 THEN @ + 1 ELSE @,
                         !.numErrors  = IF m.failures = 1 THEN @ + 1 ELSE @,
                         !.numDropped = IF MayRetry(m) THEN @ ELSE @ + 1]

(* One turn of that loop. *)
OnResponseReceived(s) ==
  /\ jobs[s].kind \in {"api", "saved", "failed"} /\ jobs[s].events # <<>>
  /\ LET m == Head(jobs[s].events)
         failed == MarkFailedSubmission(m)
         rest == [jobs[s] EXCEPT !.events = Tail(@)]
     IN \/ /\ jobs[s].kind # "failed"
           /\ CountSuccess(m)
           /\ jobs' = [jobs EXCEPT ![s] = rest]
           /\ acked' = IF jobs[s].kind = "api" THEN acked \union {m.id} ELSE acked
           /\ UNCHANGED dropped
        \/ /\ jobs[s].kind # "saved"
           /\ CountFailure(failed)
           /\ \/ /\ ~MayRetry(failed)
                 /\ dropped' = dropped \union {failed}
                 /\ jobs' = [jobs EXCEPT ![s] = rest]
              \/ /\ MayRetry(failed)
                 /\ jobs' = [jobs EXCEPT ![s] = [rest EXCEPT !.retry = Append(@, failed)]]
                 /\ UNCHANGED dropped
           /\ UNCHANGED acked
  /\ UNCHANGED <<queueVars, configVars, fileVars, monitorVars, accepted, rejected>>

(* Mutant: the events the filter removes are not counted. *)
DropUncounted(q) ==
  /\ dropped' = dropped \union ToSet(q)
  /\ UNCHANGED stats

(* Metrics the queue gives up on when it is at capacity. *)
DropMetrics(q) ==
  /\ stats' = [stats EXCEPT !.numDropped = @ + Len(q)]
  /\ dropped' = dropped \union ToSet(q)

FilterMetricsByPriority(q) ==
  \/ /\ GetSizeInBytes(q) < MaxQueueSize
     /\ metricsQueue' = q
     /\ UNCHANGED <<stats, dropped>>
  \/ /\ GetSizeInBytes(q) >= MaxQueueSize
     /\ \E p \in SortedOrders(q), n \in 0..Len(q) :
          LET s == [i \in 1..Len(q) |-> q[p[i]]]
          IN  /\ FilterKeeps(s, n)
              /\ metricsQueue' = SubSeq(s, 1, n)
              /\ DropMetrics(SubSeq(s, n + 1, Len(s)))

(* The end of OnResponseReceived: the job is over once this returns. *)
PushMetricsForRetry(s) ==
  /\ jobs[s].kind \in {"api", "saved", "failed"} /\ jobs[s].events = <<>>
  /\ jobs' = [jobs EXCEPT ![s] = Idle]
  /\ \/ /\ MaxRetries = 0
        /\ DropMetrics(jobs[s].retry)
        /\ UNCHANGED metricsQueue
     \/ /\ MaxRetries > 0 /\ metricsMutex = Free
        /\ FilterMetricsByPriority(PushMetricsToFront(metricsQueue, jobs[s].retry))
  /\ UNCHANGED <<metricsMutex, sending, configVars, fileVars, monitorVars,
                 accepted, rejected, acked>>

-----------------------------------------------------------------------------
(* The local metrics file. *)

Fails(op) == op \in Faults /\ faultsSeen' = faultsSeen \union {op}

(* The job of SendMetricsToLocalFileAsync, in one step of the file mutex.  *)
(* The outcome of Write is not looked at: a file it fails on is truncated  *)
(* and cannot be parsed, and the job reports success.                      *)
SendMetricsToFile(s) ==
  /\ jobs[s].kind = "file" /\ ~local.active
  /\ \/ /\ jobs' = [jobs EXCEPT ![s].kind = "failed"]
        /\ \/ file.state = "corrupt" /\ UNCHANGED faultsSeen
           \/ file.state = "valid" /\ Fails("read")
           \/ file.state # "corrupt" /\ Fails("open")
        /\ UNCHANGED file
     \/ /\ file.state # "corrupt"
        /\ jobs' = [jobs EXCEPT ![s].kind = "saved"]
        /\ \/ /\ file' = [state |-> "valid",
                          records |-> file.records \o
                            [i \in DOMAIN jobs[s].events |-> jobs[s].events[i].id]]
              /\ UNCHANGED faultsSeen
           \/ /\ Fails("write")
              /\ file' = [state |-> "corrupt", records |-> <<>>]
  /\ UNCHANGED <<queueVars, configVars, local, localJobs, monitorVars, stats, ghostVars>>

(* The console command EnableOfflineRecording. *)
UpdateOfflineRecordingStatus(enable, submitLocalMetrics) ==
  /\ toggles < MaxToggles
  /\ toggles' = toggles + 1
  /\ offline' = enable
  /\ localJobs' = IF ~enable /\ submitLocalMetrics THEN localJobs + 1 ELSE localJobs
  /\ UNCHANGED <<queueVars, jobs, file, local, faultsSeen, monitorVars, stats, ghostVars>>

(* The job of SubmitLocalMetricsAsync takes the file mutex and reads. *)
SubmitLocalMetricsAsync ==
  /\ localJobs > 0 /\ ~local.active
  /\ localJobs' = localJobs - 1
  /\ \/ /\ \/ file.state # "valid" /\ UNCHANGED faultsSeen
           \/ file.state = "valid" /\ Fails("read")
        /\ UNCHANGED local
     \/ /\ file.state = "valid"
        /\ local' = [active |-> TRUE, records |-> file.records]
        /\ UNCHANGED faultsSeen
  /\ UNCHANGED <<queueVars, jobs, configVars, file, monitorVars, stats, ghostVars>>

(* Its loop locks the metrics mutex for each record. *)
AddOfflineRecord ==
  /\ local.active /\ local.records # <<>> /\ metricsMutex = Free
  /\ metricsQueue' = Append(metricsQueue, ReadFromJson(Head(local.records)))
  /\ SignalWhenFull(metricsQueue')
  /\ local' = [local EXCEPT !.records = Tail(@)]
  /\ UNCHANGED <<metricsMutex, sending, jobs, configVars, file, localJobs, faultsSeen,
                 monitor, terminated, owner, starts, stats, ghostVars>>

(* Mutants: the file is removed while its records are still being added, or *)
(* is left there.                                                           *)
RemoveTooEarly ==
  /\ local.active
  /\ local' = [active |-> FALSE, records |-> <<>>]
  /\ file' = [state |-> "absent", records |-> <<>>]
  /\ UNCHANGED <<queueVars, jobs, configVars, localJobs, faultsSeen, monitorVars, stats, ghostVars>>

NeverRemoved ==
  /\ local.active /\ local.records = <<>>
  /\ local' = [active |-> FALSE, records |-> <<>>]
  /\ UNCHANGED <<file, queueVars, jobs, configVars, localJobs, faultsSeen, monitorVars, stats,
                 ghostVars>>

RemoveLocalFile ==
  /\ local.active /\ local.records = <<>>
  /\ local' = [active |-> FALSE, records |-> <<>>]
  /\ \/ /\ file' = [state |-> "absent", records |-> <<>>]
        /\ UNCHANGED faultsSeen
     \/ Fails("remove") /\ UNCHANGED file
  /\ UNCHANGED <<queueVars, jobs, configVars, localJobs, monitorVars, stats, ghostVars>>

-----------------------------------------------------------------------------
(* The monitor thread and the owner of the manager. *)

(* A second StartMetrics while the monitor runs returns at once. *)
StartMetrics ==
  /\ owner = "idle" /\ terminated /\ starts < MaxStarts
  /\ starts' = starts + 1
  /\ terminated' = FALSE
  /\ monitor' = "check"
  /\ UNCHANGED <<queueVars, jobs, configVars, fileVars, waitEvent, owner, stats, ghostVars>>

(* Mutant: the monitor is joined before it is told to stop. *)
JoinBeforeSignal ==
  /\ owner = "idle" /\ ~terminated
  /\ owner' = "joining"
  /\ UNCHANGED <<queueVars, jobs, configVars, fileVars, monitor, terminated, waitEvent, starts,
                 stats, ghostVars>>

ShutdownMetrics ==
  /\ owner = "idle" /\ ~terminated
  /\ terminated' = TRUE
  /\ waitEvent' = TRUE
  /\ owner' = "joining"
  /\ UNCHANGED <<queueVars, jobs, configVars, fileVars, monitor, starts, stats, ghostVars>>

Join ==
  /\ owner = "joining" /\ monitor = "off"
  /\ owner' = "idle"
  /\ UNCHANGED <<queueVars, jobs, configVars, fileVars, monitor, terminated, waitEvent,
                 starts, stats, ghostVars>>

(* The condition of the loop of MonitorMetricsQueue, once the flush of the *)
(* turn before has returned.                                               *)
MonitorCheck ==
  /\ monitor = "check" /\ sending["monitor"] = <<>>
  /\ monitor' = IF terminated THEN "off" ELSE "wait"
  /\ UNCHANGED <<queueVars, jobs, configVars, fileVars, terminated, waitEvent, owner,
                 starts, stats, ghostVars>>

(* Mutant: the wait has no timeout. *)
WaitWithoutTimeout ==
  /\ monitor = "wait" /\ waitEvent
  /\ waitEvent' = FALSE
  /\ monitor' = "flush"
  /\ UNCHANGED <<queueVars, jobs, configVars, fileVars, terminated, owner, starts,
                 stats, ghostVars>>

(* try_acquire_for returns with the permit, or without one at the timeout. *)
MonitorWakeUp ==
  /\ monitor = "wait"
  /\ waitEvent' = FALSE
  /\ monitor' = "flush"
  /\ UNCHANGED <<queueVars, jobs, configVars, fileVars, terminated, owner, starts,
                 stats, ghostVars>>

MonitorFlush ==
  /\ monitor = "flush"
  /\ FlushMetricsAsync("monitor")
  /\ monitor' = "check"
  /\ UNCHANGED <<configVars, fileVars, terminated, waitEvent, owner, starts, stats, ghostVars>>

-----------------------------------------------------------------------------
Client ==
  \/ \E e \in Events : SubmitMetrics(e) \/ SendMetricsDirectly(e)
  \/ FlushMetrics
  \/ \E enable, submit \in BOOLEAN : UpdateOfflineRecordingStatus(enable, submit)

Monitor == MonitorCheck \/ MonitorWakeUp \/ MonitorFlush

JobStep(s) == OnResponseReceived(s) \/ PushMetricsForRetry(s) \/ SendMetricsToFile(s)

LocalJob == SubmitLocalMetricsAsync \/ AddOfflineRecord \/ RemoveLocalFile

Next ==
  \/ Client
  \/ StartMetrics \/ ShutdownMetrics \/ Join
  \/ Monitor
  \/ \E t \in Threads : SendMetricsToServiceApiAsync(t)
  \/ \E s \in Slots : JobStep(s)
  \/ LocalJob

Spec == Init /\ [][Next]_vars

(* Threads and jobs that can run do run, a request is answered or times     *)
(* out, a wait on the semaphore times out.  Nothing makes a client submit,  *)
(* flush or toggle, or the owner start or shut down.                        *)
Fairness ==
  /\ WF_vars(Join)
  /\ WF_vars(Monitor)
  /\ \A t \in Threads : WF_vars(SendMetricsToServiceApiAsync(t))
  /\ \A s \in Slots : WF_vars(JobStep(s))
  /\ WF_vars(LocalJob)

FairSpec == Spec /\ Fairness

-----------------------------------------------------------------------------
(* Properties. *)

Stats == [numEvents : Int, numErrors : Int, numSuccesses : Int, numDropped : Int]

(* A copy given up on: its count of failures may have passed MaxRetries.    *)
Dropped == [id : Events, failures : Nat, priority : Nat]

(* Every variable holds a value the code can give it; in particular no event *)
(* waits in memory with more failures than the retries it is allowed.       *)
TypeOK ==
  /\ metricsQueue \in Seq(Metric)
  /\ metricsMutex \in Threads \union {Free}
  /\ sending \in [Threads -> Seq(Metric)]
  /\ jobs \in [Slots -> Job]
  /\ offline \in BOOLEAN /\ toggles \in Nat
  /\ file \in [state : {"absent", "valid", "corrupt"}, records : Seq(Events)]
  /\ local \in [active : BOOLEAN, records : Seq(Events)] /\ localJobs \in Nat
  /\ faultsSeen \subseteq Faults
  /\ monitor \in {"off", "check", "wait", "flush"}
  /\ terminated \in BOOLEAN /\ waitEvent \in BOOLEAN
  /\ owner \in {"idle", "joining"} /\ starts \in Nat
  /\ stats \in Stats
  /\ accepted \subseteq Events /\ rejected \subseteq Events /\ acked \subseteq Events
  /\ dropped \subseteq Dropped

DroppedIds == {d.id : d \in dropped}

FileRecords == IF local.active THEN local.records ELSE file.records

(* A saved batch is in the file; what is left of its job only counts.       *)
HeldInJob(s, e) ==
  jobs[s].kind # "saved" /\ e \in Ids(jobs[s].events) \union Ids(jobs[s].retry)

Held(e) ==
  \/ e \in Ids(metricsQueue)
  \/ \E t \in Threads : e \in Ids(sending[t])
  \/ \E s \in Slots : HeldInJob(s, e)

Recorded(e) == e \in ToSet(FileRecords)

(* An event whose submission returned true is never lost: it is buffered,   *)
(* in a request, in the file, acknowledged or counted as dropped, whatever  *)
(* the threads do; the one exception is a Write that failed unnoticed.      *)
NoEventLost ==
  "write" \notin faultsSeen =>
    \A e \in accepted : Held(e) \/ Recorded(e) \/ e \in acked \/ e \in DroppedIds

(* The copies of events in memory, each with where it waits.               *)
CopiesAt(place, q) ==
  {[place |-> place, at |-> i, id |-> q[i].id, failures |-> q[i].failures] : i \in DOMAIN q}

JobCopies(s) ==
  CopiesAt(<<"events", s>>, jobs[s].events) \union CopiesAt(<<"retry", s>>, jobs[s].retry)

MemoryCopies(slots) ==
  CopiesAt(<<"queue", 0>>, metricsQueue)
    \union (UNION {CopiesAt(<<"sending", t>>, sending[t]) : t \in Threads})
    \union (UNION {JobCopies(s) : s \in slots})

UnsavedSlots == {s \in Slots : jobs[s].kind # "saved"}

(* Copies of e that are still to be sent, are in the file, or have an end.  *)
TotalCopies(e) ==
  Cardinality({c \in MemoryCopies(UnsavedSlots) : c.id = e})
  + Cardinality({i \in DOMAIN FileRecords : FileRecords[i] = e})
  + (IF e \in acked THEN 1 ELSE 0) + Cardinality({d \in dropped : d.id = e})

(* Nor is it ever in two of these places, so that no event is sent, counted *)
(* or recorded twice; the one exception is a file Remove left behind.       *)
NoEventDuplicated ==
  "remove" \notin faultsSeen => \A e \in Events : TotalCopies(e) <= 1

(* GlobalStatistics, as DumpStats prints it: every event sent has ended in a *)
(* success or is an error, over retries and offline round trips.            *)
StatsBalance == stats.numEvents = stats.numSuccesses + stats.numErrors

(* numErrors counts the events that have failed and not succeeded since: the *)
(* copies waiting for a retry and those dropped after a failure. It cannot  *)
(* pass below zero, where the uint32 counter would wrap.                    *)
ErrorsAccountedFor ==
  "remove" \notin faultsSeen =>
    stats.numErrors = Cardinality({c \in MemoryCopies(Slots) : c.failures > 0})
                        + Cardinality({d \in dropped : d.failures > 0})

(* numDropped counts each event refused or given up on once, whichever of   *)
(* the four places in the code gave it up.                                  *)
DroppedAccountedFor ==
  "remove" \notin faultsSeen =>
    stats.numDropped = Cardinality(rejected) + Cardinality(dropped)

(* What the priority filter removes is never preferred to what it keeps: no *)
(* event is dropped while one of lower priority stays in the queue, though  *)
(* the queue mixes retries, new events and records resubmitted from disk.   *)
FilterPrefersPriority ==
  [][\A s \in Slots : PushMetricsForRetry(s) =>
       \A d \in dropped' \ dropped :
         \A i \in DOMAIN metricsQueue' :
           metricsQueue'[i].priority <= d.priority]_vars

(* After a response the queue exceeds its capacity by less than one event,  *)
(* however many events were submitted and pushed back before.  Without      *)
(* retries a response leaves the queue as it is, however full.              *)
RetryRespectsCapacity ==
  [][\A s \in Slots : PushMetricsForRetry(s) /\ metricsQueue' # <<>>
                        /\ MaxQueueSize > 0 /\ MaxRetries > 0 =>
       GetSizeInBytes(SubSeq(metricsQueue', 1, Len(metricsQueue') - 1)) < MaxQueueSize]_vars

(* The promise of MetricsDelivery, event by event.                         *)
EventStatus(e) ==
  IF e \in rejected THEN "rejected"
  ELSE IF e \in acked THEN "sent"
  ELSE IF e \in DroppedIds THEN "dropped"
  ELSE IF ~local.active /\ Recorded(e) THEN "recorded"
  ELSE IF e \in accepted THEN "held" ELSE "new"

DeliveryStatus == [e \in Events |-> EventStatus(e)]

Delivery == INSTANCE MetricsDelivery WITH status <- DeliveryStatus

(* The pipeline implements that promise: an event never leaves the states   *)
(* sent and dropped, and reaches them from memory only.  A file that could  *)
(* not be removed gives its events back a second time.  (flushes, responses *)
(* and the resubmission job)                                                *)
ImplementsDelivery ==
  /\ Delivery!Init
  /\ []["remove" \notin faultsSeen' => Delivery!Next]_DeliveryStatus

(* While the monitor runs, every accepted event is acknowledged, dropped or *)
(* recorded: none waits for ever behind a wake-up, a lock or a full queue.  *)
EveryEventSettles ==
  \A e \in ValidEvents :
    Held(e) ~> (e \in acked \/ e \in DroppedIds \/ Recorded(e) \/ terminated)

(* ShutdownMetrics returns: the monitor sees the flag and leaves its loop.  *)
ShutdownReturns == (owner = "joining") ~> (owner = "idle")

(* The comment in PushMetricsForRetry: "Push failed events to the front of  *)
(* the queue and reserve the order."                                        *)
RetryKeepsOrder ==
  [][\A s \in Slots : PushMetricsForRetry(s) /\ Len(metricsQueue') = Len(metricsQueue) + Len(jobs[s].retry)
       => IsPrefix(jobs[s].retry, metricsQueue')]_vars

(* The comment in SendMetricsAsync: "Make one or more service API requests  *)
(* to send all the buffered metrics."                                       *)
AllBufferedMetricsSent == \A t \in Threads : (sending[t] # <<>>) ~> (sending[t] = <<>>)
=============================================================================
