# Formal models of the O3DE cloud gems

The repository is a set of gems (plug-ins) of the Open 3D Engine, written in C++
with Python tools. Each gem is a *system component* the engine activates and
deactivates, which answers calls on an event bus (EBus) and works through
threads, jobs or callbacks. This directory holds TLA+ models of their core, the
TLC instances that check them and TLAPS proofs about them.

Contents: [the system](#1-the-system) · [what is modelled](#2-the-modules) ·
[what the runs show](#3-the-runs) · [what is proved](#4-the-theorems) ·
[findings](#5-findings) · [what is not modelled](#6-not-modelled) ·
[plan](#7-plan)

## 1. The system

### 1.1 Components

**AWSMetrics** (`src/Gems/AWSMetrics/Code`). An application submits metrics
events; `MetricsManager` buffers them in a `MetricsQueue` and a monitor thread
flushes the queue when it is full or a period has passed. A flush splits the
buffer by the payload and record limits of the service and makes one job per
batch, which sends it to the service API or, off line, appends it to a local
file. Failed events are pushed to the front of the queue up to a number of
retries; the queue is then cut to its capacity by priority. Going on line may
resubmit the file.
State: the queue and its mutex, the file and its mutex, the monitor thread with
a binary semaphore and a stop flag, jobs in flight, atomic counters, the offline
setting.
Hard: the client, the monitor, the owner and one thread per job interleave;
responses are partial; file operations fail; the setting changes between two
steps. Correct when no accepted event is lost or doubled, the counters add up,
the filter never prefers the lower priority, every event settles and shutdown
returns.

**HttpRequestor** (`src/Gems/HttpRequestor/Code`). `Manager` keeps two queues of
requests (JSON and text) under one mutex; a worker thread swaps both out,
makes each request and calls its callback, on the worker thread. Callbacks may
add requests. The component makes a manager when it is activated and destroys it,
joining the worker, when it is deactivated.
State: queues, mutex and condition variable, run flag, thread.
Hard: lost wake-ups, callers inside callbacks, stopping. Correct when no request
is slept on, answers come in order and once, a deactivation returns.

**Twitch** (`src/Gems/Twitch/Code`). Every call on `TwitchRequestBus` is handed a
receipt; `TwitchREST` turns it into one request over HttpRequestor, or two (the
channel first), and each answer into a notification with that receipt. The
notifications are queued and delivered at the next system tick.
State: the cached user id, token and application id, the receipt counter, the requests inside
HttpRequestor, the event queue.
Hard: identity checked on the main thread and read again on the worker, over a bus without a mutex; both
gems come and go; two hops. Correct when each receipt has one fate and is reported, and requests carry
what their operation needs.

**AWSClientAuth** (`src/Gems/AWSClientAuth/Code`). Authentication providers
(Cognito IDP, Login with Amazon, Google; the latter two ask HttpRequestor with a
device code) yield tokens; `AWSCognitoAuthorizationController` hears of them on the
notification bus, keeps them as logins of a *persistent identity provider*, obtains
an identity id and credentials from Cognito by jobs, and serves credentials from two
caching providers (authenticated, anonymous). `AWSCognitoUserManagementController`
makes stateless sign-up requests.
State: logins and identity id under the identity provider's mutex, cached credentials
with an expiry under each caching provider's mutex, tokens per provider.
Hard: a sign-out or reset while a job asks for credentials; a refresh answered after a
sign-out; the mutex released between test and use. Correct when credentials belong to
the current logins and every request is answered once.

**AWSCore** (`src/Gems/AWSCore/Code`). *Resource mappings*:
`AWSResourceMappingManager` is NotLoaded, Ready or Error, loads a JSON file when
activated or told to reload, and serves look-ups under the bus mutex. *Credential
handlers*: a bus ordered CVar, Cognito, Default; the first with credentials wins,
and the default handler walks environment, profile and instance metadata. *Attribution*
(editor): consent, a delay between two sends, a settings file saved by jobs. *Jobs*:
`HttpRequestJob`, `ServiceJob`, `AwsApiJobConfig` wrap one request and one callback.
*Script behaviours*: one request each.
Hard: saves that overlap; the delay's arithmetic when the clock goes back; look-ups
between the steps of a reload.

**Resource mapping tool** (`src/Gems/AWSCore/Code/Tools/ResourceMappingTool`). A Qt application
in Python. The *view-and-edit page* lists the config files of a directory, shows the
mappings of the selected one in a table, lets the user edit, add and delete rows, and saves
the table. The *import page* lists typed resources or CloudFormation stacks from AWS in a tree and
appends the selected ones to that table. Listings, of files or of AWS, are `FunctionWorker`s on a
pool of one thread; their signals are delivered by the Qt event loop.
State: the directory, the list and the selection, the JSON that was read, the rows, what is shown
and enabled; the tree and the type box; the pool's queue, its worker, the posted signals; the files.
Hard: searches that overlap, fail, or end on another page or for another directory; an index or a
directory read twice; another program that writes the files; a save that fails half-way. Correct when
a row shown as saved is in the file, a save stores the table, the list catches up with the
directory, the tree shows what AWS has, and loading ends.

**AWSGameLift** (`src/Gems/AWSGameLift/Code`). *Server*: the manager keeps connected
players under a mutex and answers the SDK's callbacks (start session, update session,
process terminate, health) on SDK threads, with backfill requests. *Client*: session
requests, each validated, made by a job or inline and broadcast as one completion; the
*ticket tracker* polls a matchmaking ticket on its own thread until it completes,
fails or is stopped.
Hard: a player that leaves and rejoins while being validated; stopping the tracker
from its own notification; a new ticket while the old one ends. Correct when GameLift's active
player sessions and the registered players agree, the tracker keeps one thread per ticket and its
period, and its calls return.

**Metastream** (`src/Gems/Metastream/Code`). The game writes values into documents of a
`DataCache`; an HTTP server serves them as JSON; the gem starts and stops the server.
Hard: a document written after the lock that found it was released, while the cache is
cleared; a server that failed to start.

**AWSNativeSDKInit**: a flag and two calls that start and stop the AWS SDK; the first
`HttpRequestor::Manager` or AWSCore to find it off owns it.
**Umbra**: occlusion culling by the Umbra library.
**Deployment** (`cdk`, `cdkv1`, `cdv1` directories): declarations of cloud resources.

### 1.2 Interactions

    game / scripts ──TwitchRequestBus──▶ Twitch ──HttpRequestorRequestBus──▶ HttpRequestor
          ▲                                 │  ▲                                  │
          └──TwitchNotifyBus (queued)───────┘  └────────callback (worker)─────────┘
    game ──AWSMetricsRequestBus──▶ AWSMetrics ──ServiceJob──▶ AWSCore ──▶ service API
    AWSClientAuth ──credentials──▶ AWSCore handlers ──▶ every AWS request
    AWSClientAuth (LWA, Google) ──HttpRequestorRequestBus──▶ HttpRequestor
    AWSGameLift client ──ticket──▶ GameLift ──session──▶ client ──network──▶ AWSGameLift server
    AWSGameLift ──▶ AWSCore handlers, GameLift SDK (callback threads)
    mapping tool: page ──start──▶ pool thread ──signals──▶ event loop ──▶ page
                  import page ──add_import_resources_sender──▶ view-and-edit table

## 2. The modules

| module | models | extends / instances |
|---|---|---|
| `MetricsPipeline` | the AWSMetrics gem | instances `MetricsDelivery` |
| `MetricsDelivery` | abstract: the life of one event | – |
| `MetricsPipelineProofs` | theorems about `MetricsPipeline`: types, nothing lost | `MetricsPipeline`, TLAPS |
| `MetricsDeliveryProofs` | theorems about `MetricsPipeline`: copies, counts, filter, capacity, refinement | `MetricsPipelineProofs` |
| `HttpRequestManager` | the HttpRequestor gem | instances `HttpService` |
| `HttpService` | abstract: requests in order, answered at most once | – |
| `HttpRequestManagerProofs` | theorems about `HttpRequestManager` | `HttpRequestManager`, TLAPS |
| `Twitch` | the Twitch gem | instances `HttpService` for the gem it calls |
| `TwitchProofs` | theorems about `Twitch` | `Twitch`, TLAPS |
| `FunctionWorkers` | the mapping tool's pool of one thread and its posted signals | – |
| `ViewEdit` | the view-and-edit page, its models and the config files | extends `FunctionWorkers` |
| `ImportResources` | the import page, its tree and the requests to AWS | extends `FunctionWorkers` |
| `ResourceMappingTool` | both pages over one pool and one event loop | extends `ViewEdit`, `ImportResources` |
| `ViewEditProofs` | theorems about `ViewEdit` alone | `ViewEdit`, TLAPS |
| `ResourceMappingToolProofs` | theorems about both pages together | `ResourceMappingTool`, `ViewEditProofs` |
| `TicketTracker` | the AWSGameLift client's ticket tracker | – |
| `GameLiftServer` | the AWSGameLift server's connected players | – |
| `GameLiftMatch` | tracker, GameLift, network and server together | extends `TicketTracker`, `GameLiftServer` |
| `TicketTrackerProofs`, `GameLiftServerProofs` | theorems about `GameLiftMatch` | `GameLiftMatch`, TLAPS |
| `MCMetrics`, `MCHttp`, `MCTwitch`, `MCViewEdit`, `MCResourceMappingTool`, `MCGameLift` | small instances for TLC | the module they name (`MCGameLift`: `GameLiftMatch`) |

`HttpService` joins two components: `HttpRequestManager` is shown to implement it and
`Twitch` is built on it, so what holds of Twitch over the abstract service holds over
the manager.

Definitions keep the names of the code. Operators whose comment begins with
"Mutant:" are plausible bugs, used to show that a property depends on the
definition beneath them; nothing else uses them.

### 2.1 MetricsPipeline

* *Threads.* `client` stands for the callers of `AWSMetricsRequestBus` (its mutex
  serialises them); `monitor` for the monitor thread; the owner starts and shuts
  down; a slot of `jobs` is one job and its worker.
* *State.* `metricsQueue` is `m_metricsQueue`; `metricsMutex` who is inside the
  sending loop of a flush, the only place that holds the mutex over several steps;
  `sending[t]` the local queue of `SendMetricsAsync`; `file` the local file and
  `local` the resubmission job that holds the file's mutex; `waitEvent` the
  semaphore. A metric has an id, a failure count and a priority. `accepted`,
  `rejected`, `acked`, `dropped` are history.
* *Actions.* A critical section is one action. A flush is `FlushMetricsAsync`
  followed by one `SendMetricsToServiceApiAsync` per batch; off line it is one job.
  `OnResponseReceived` lets the service accept any subset of the batch, and `PushMetricsForRetry`
  is a later action, for the lock is not held in between. `SendMetricsToFile`,
  `SubmitLocalMetricsAsync`, `AddOfflineRecord` and `RemoveLocalFile` may each fail
  where the code tests for failure; a failed `Write` is not tested for, and leaves
  a corrupt file.
* *Data.* `ReadFromJson` restores the attributes only: an event that went through the
  file has no failures and the default priority. The order of `std::stable_sort` is that of
  the comparator, which is total here (equal priorities: later index first).
* *Not in it.* The byte counter, the request counter and the notifications, which no
  guard reads. The counters of the statistics are separate atomics in the code; a turn of the
  loop that updates two of them is one step here. With `MaxRetries` 0 the retry list is
  always empty, because an event has failed at least once before the comparison.

### 2.2 HttpRequestManager

The worker's loop is split where another thread can see the difference: the test of the
predicate (`DecideToWait`), falling asleep (`Block`), the swap, each request and the
return from its callback. The mutex is a variable only while the worker holds it
between two steps. `AddRequest` is a push under the mutex and a notification after it.
`Deactivate` disconnects; the destructor is three steps: clear the flag, notify, join.
`SpuriousWakeUp` is the condition variable's. The queues the destructor destroys become
`abandoned`.

### 2.3 Twitch

Each public operation is a `Call(op, arg)`: the receipt, the checks of `Check` and one
request or a notification. They differ in the checks and in the hops, so sets of operations
(`NeedsUserID`, `Unchecked`, `OneHop`, `TwoHops`) carry the difference. A request has its receipt,
the user its URL names and its two headers, `Authorization` and `Client-ID`; the three operations
that use `GetClientIDHeader` (`ClientIDOnly`) have no `Authorization`. A first hop's
callback reads the user, the token and the application id again in three steps (`BuildBaseURL`,
`AddOAuthtHeader`, `AddClientIDHeader`) and then sends the second request (`SendSecondHop`), since
the main thread may change any of them meanwhile. Neither bus has a mutex: each of these reads, and each
addition to the event queue, is an atomic step of the model, which says nothing of a run in which one of them
tears. `AnswerRequest` reports an error or a success at
will. Both gems deactivate and activate; a request made while HttpRequestor is away reaches
nobody (`lost`).

### 2.4 The resource mapping tool

* *Threads.* The main thread runs the user's actions and delivers signals, one at a time; a
  worker is begun, reads, and posts `result` (or `error`, which nobody is connected to) and then
  `finished`. `runQueue`, `running` and `posted` are the pool's queue, its one thread and the
  event queue; a step of the user may fall between any two of theirs.
* *ViewEdit.* `disk` is what the directories hold; a file is absent, not JSON, or JSON with
  a default owner and mappings. The schema accepts it (`Accepted`) when it is *sound*, not *flawed* (an entry or the version
  incomplete, which a save replaces), and its default owner is well-formed, neither malformed nor missing, which a
  save keeps as it was read. `configDir`, `configFiles`, `selected`, `jsonSource`, `rows`,
  `view`, `enabled` and `notice` are the controller's, the models' and the page's attributes.
  `OpenFileDialog` changes the directory at once and starts the search; `ListConfigFilesCallback` fills the combo
  box, and a single file selects itself and loads; `SaveChanges` validates, compares and writes, whole or
  half-way; without a default to take it raises a `KeyError` and changes nothing. An edit may empty a cell. The account id and the region of a row are treated alike and are one *owner*.
* *ImportResources.* `tree`, `typeIndex`, `hasChild`, `mainView` are the page's. The index of the type box is
  read when a request begins and again when its answer arrives, as in the code; `LoadResource`
  puts children below the last root whichever search added it.
* *Composition.* `ResourceMappingTool` shows one page at a time, while the searches of both go on; an
  import appends to the other page's rows before it leaves.
* *History.* `listedDir`, `unheard`, `disturbed`, `crossed` serve the properties only.

### 2.5 The GameLift client and server

* *Tracker.* `call` is the call that owns the mutexes (the bus has a recursive one, so that calls through it,
  and `DeactivateTracker`'s disconnection, exclude each other); it is split at the join. `permit` is the
  binary semaphore. `thread.place` follows `ProcessPolling`: the test, the request, the handlers of a
  notification, those of the last one, the timed wait. `m_status` is read without the mutex, at the
  test. `thread.asks` is a handler that called `StartPolling` and waits.
* *Server.* A validation is the registration under the mutex, GameLift's answer, and the
  undoing of the registration on a refusal; a leave is the removal under the mutex and the call to GameLift. Any
  number of threads, any session with any connection. Either call may fail, also after GameLift has done what it
  was asked.
* *External.* GameLift places tickets, reserves, accepts, expires and removes player sessions; the network
  opens and ends connections. `GameLiftMatch` says no more of them than the code relies on.

## 3. The runs

| run | instance | what it shows |
|---|---|---|
| `metrics_offline` | 2 events and an invalid one, room for 1, every file operation may fail, one toggle of the setting, no monitor | no event lost, duplicated or dropped uncounted; implements `MetricsDelivery` unless a file is not removed |
| `metrics_progress` | 3 events of two priorities, room for 2, monitor, on line | counters, filter, capacity, liveness; implements `MetricsDelivery` |
| `metrics_retry_order` | 3 events, room for 4 | violation: retries reversed |
| `metrics_oversized` | an event above the payload limit | violation: the loop never ends |
| `http_requests` | 2 JSON and 1 text request, 2 activations | no request slept on, `HttpService`, all answered |
| `http_stop` | 1 and 1, 1 activation | violation: the join never returns |
| `twitch_receipts` | 4 operations, of each kind of check, hop and header, 3 receipts, one deactivation of each gem | one fate per receipt, credentials, one application id, order, reporting |
| `twitch_needless` | 2 receipts | violation: a needless update goes on |
| `gamelift_match` | 2 tickets and their sessions, 2 connections, 2 server threads, 3 calls of the game or a handler | tracker and thread agree, polls keep their period, nothing runs after a deactivation, players and sessions agree, calls over the bus return |
| `mapping_edit` | 2 directories in 7 variants: of 2 files, one with a refused entry or not JSON; or of 1, one flawed, with a malformed or without a default, not JSON, or absent. 2 keys, 3 rows, 3 edits, 1 search, 1 change by another program | saved rows are in the file, a save stores the table |
| `mapping_tool` | 2 directories, 2 searches of files, 2 of AWS, 2 visits of the import page; a function, buckets in and out of the region, a nested, an incomplete stack | the list catches up, the tree is faithful, imports add once and no stacks unless crossed, loading ends |
| `mapping_rejected` | as `mapping_edit` with 1 edit and nobody else | violation: a rejected file's page is enabled again |

**Bounds.** `MaxJobs` (3 or 4) limits requests in flight: one more than the events that can be in
flight, so that an empty or an offline job fits beside them. `MaxToggles`, `MaxStarts`, `MaxActivations`,
`MaxStops`, `MaxReceipts` count the calls the game or the engine may make. Each is
enough for its hazard: losing or doubling an event takes two events (one in the file,
one on its way) and one change of the setting; the filter needs more events than room and
two priorities; a stale batch or queue needs two activations; two hops overtaken by an
identity change and another call need three receipts. `MaxQueueSize` is below the number of
events, so that the filter really cuts; `MaxRetries` 1 has events that are retried, succeed
and fail for good. `MaxEdits`, `MaxSearches`, `MaxOutside`, `MaxImportSearches`, `MaxVisits` and `MaxCalls`
count what the user, other programs or the game do, `MaxRows` the rows. A stale row or a lost edit takes one search,
one foreign write and two edits; a third lets a row be added, named and given a type, and so be saved; two searches beside those exceed the time of a run, so
searches that overlap are `mapping_tool`'s, where two of each kind meet over two visits. Three calls are
a start, its end and a start again, with a handler's call or a deactivation in one of the places; two threads
and two connections let a leave and a rejoin cross a validation. The theorems of section 4 have no such bounds.

**Symmetry** is not used: events differ in priority and size.

**Fairness.** The monitor, the jobs, the sending loops, the worker, the destructor
and the system tick get weak fairness: they are threads of a preemptive scheduler or the
engine's main loop, and each waits only on a mutex whose holder has fairness itself, or with a
time limit. A request to a service is answered or times out. The mapping tool's pool thread and event loop, and the tracker's thread and calls,
get it too: a request to AWS ends, a timed wait is over, a handler returns. Callers get none: the game need
not call, nor any gem come or go. A spurious wake-up is never owed.

**Deadlock** is checked for the metrics pipeline, whose calls can always be made. The
HttpRequestor and Twitch instances may stop: after the last activation the component
is inactive, and after the last receipt the game has nothing left to do. The mapping tool's and GameLift's instances stop when their bounds are used
up, and may stop because nobody has to act.

**Exceptions in the properties.** Each has been checked to be needed: without it TLC finds a
counterexample. `NoEventLost` excepts a `Write` that failed, which the code
does not notice, and the `remove` fault is excepted where a file that could not be removed
is read again; TLC shows these to be the only exceptions needed. `OneFatePerReceipt` excepts
the needless update, which is a finding of its own. `RequestsCarryCredentials` holds until Twitch is
deactivated: from then on the worker reads an empty identity from a bus without a handler. For the same reason
`OneApplicationID` lets a request carry none, though two never carry different ones.
`ImplementsDelivery` excepts steps after a `Remove` failed. `SuccessRowsStored` excepts
*disturbed* files, changed by another program or a failed write since they were read, and files that cannot be
read: when the page of one is enabled all the same (the finding of `mapping_rejected`), a save compares the table with the
JSON of the file selected before, and where they are equal writes nothing and marks its rows as saved. It says
that the file is accepted when it is read again, but for one whose own default is malformed: the page of such a file is enabled in the same
way, and a save marks the rows, writes them and keeps the default, so that the file is refused again. `ImportedOnce` excepts stacks
in a tree that is *crossed* and has no children: a search of stacks the user left behind may list them into the next visit, and when a
typed search is chosen then they are roots like others; `TreeFaithful` a tree that is *crossed*, filled while the type or the page changed;
`IdleListingCurrent` and `ListingCatchesUp` a search that raised (*unheard*).
`RetryRespectsCapacity` says nothing of a `MaxRetries` of 0, with which a response pushes nothing and does not cut
the queue (TLC: 3 events, room for 1). `SessionsAgree` excepts *stray*
sessions: a leave crossed their validation, or the server did not learn of an acceptance or removal.
`CallsReturn` excepts a `StopPolling` on the bus while a handler of the thread it joins waits (*Deadlocked*).

## 4. The theorems

Every safety invariant and every action property of a passing run, and both refinements, have a theorem. The proofs
hold for every set of events, requests, files or resources and every value of the bounds. Per component, the
property and what had to be added to make it inductive:

**AWSMetrics** (`MetricsPipelineProofs`, `MetricsDeliveryProofs`)

* `TypeCorrect`: `TypeOK` is inductive as it stands: an event whose failures pass the limit is dropped in
  the step that counts them. `StatsCorrect` (`StatsBalance`): every event counted as sent is counted as a success
  or an error.
* `NothingLost` (`NoEventLost`). One lemma per operation says where the events it takes from a place are
  afterwards: a new job gets a free slot, a cut of the queue is kept or dropped, the file holds what a saved job
  held, a record is in the queue before the file goes. Two facts are added, both about something that could be
  overwritten: a job for the file has nothing to retry before the file is written (`FileJobsRetryNothing`), and
  the monitor begins a flush with nothing left to send from the last one (`MonitorSendsInFlush`).
* `NothingDuplicated` (`NoEventDuplicated`). The property counts copies; the invariant `DupInv` says instead that the
  contents of any two places are apart and none holds an event twice (`OneCopy`), and that what is in the file
  has nothing to retry as well. Cardinalities come in at the end only, by a bijection (`OneCopyCounts`). A file that
  could not be removed breaks it, so it is an invariant until `remove` fails.
* `DroppedCorrect` (`DroppedAccountedFor`) and `ErrorsCorrect` (`ErrorsAccountedFor`) follow from it: what a step
  drops or counts as failed has not been counted before, because there was one copy. `DropInv` and `ErrorInv` add the
  equality itself to `DupInv`.
* `FilterCorrect` (`FilterPrefersPriority`): from the order the comparator sorts into. `RetriesFailed` is added: what a
  job pushes back has failed at least once, so that no step but the cut of the queue drops anything then.
* `CapacityCorrect` (`RetryRespectsCapacity`): the filter tests the size before it adds an event, so the queue without
  its last event is below the capacity. The code counts the size event by event; the model folds it over the
  positions of the queue, and that the fold is independent of their order goes by induction over the
  subsets of the positions (`SumsAny`).
* `DeliveryCorrect` (`ImplementsDelivery`): each step of the pipeline is, for each event, a step of `MetricsDelivery`
  or a stutter. `PromiseInv` is `DupInv` and that a refused event has no copy.

**HttpRequestor** (`HttpRequestManagerProofs`)

* `TypeCorrect`, which includes that the worker holds the mutex exactly from testing the predicate to falling asleep.
* `NeverSleptOn` (`NoRequestSleptOn`). It rests on that fact: a push between the two is impossible, and a later one has
  still to notify.
* `ServiceImplemented` (`ImplementsService`). The refinement concatenates the batch being handled with the queue;
  the invariant says that a request is in one place only, that the batches are empty unless the worker is
  handling them, and that a caller adds only requests not yet added.

**Twitch** (`TwitchProofs`)

* `TypeCorrect`.
* `CarryCorrect` (`RequestsCarryCredentials`). The callback between two hops reads the identity again, so the invariant
  (`Credentials`) is about the cache: as long as a first hop is pending or its callback runs, the token is not empty,
  nor the user where the call needs one, although either may be replaced meanwhile. It claims no token of the three
  operations that send the Client-ID only.
* `ApplicationIDCorrect` (`OneApplicationID`). The invariant (`Identified`) adds that an id in a request or in the callback
  is the one the component has, which is never replaced, so that a first hop with an id finds it again at the second.
* `FateCorrect` (`OneFatePerReceipt`). The property is inductive with the types: how often a receipt is
  reported, pending, in the callback, lost and abandoned adds up to one, and each step moves it from one place to another.
  A needless update, the finding, is apart.
* `OrderCorrect` (`AnswersInOrder`). Answers of one hop that were reported are older than the pending requests of one
  hop (`AnsweredFirst`), and these wait in the order of their calls (`PendingOrdered`).

**Resource mapping tool** (`ViewEditProofs`, `ResourceMappingToolProofs`)

* `TypeCorrect`, `SuccessRowsCorrect` (`SuccessRowsStored`) of the page alone, for files with any default, well-formed or not. The invariant `PageInv` adds that the JSON
  in memory is the selected file's, unless disturbed (`SourceMatches`), and that saved rows have keys of their own
  (`KeysDistinct`): without the second a save could mark two rows of which the file keeps one.
* `WriteCorrect` (`WriteStoresTable`): only a write changes both the file and the JSON, and a table of valid
  rows has as many keys as rows.
* `ToolSuccessRows`, `ToolWriteStores`: the same of the whole tool, where an import appends rows and the pool runs requests
  to AWS between the searches. The page's lemmas carry over because they ask of the pool's signals only that a
  *list* has names.
* `ToolIdleListingCurrent` (`IdleListingCurrent`). The invariant (`ListingInv`) follows the search of the directory
  chosen last: it is the last listing in the pool's queue, or else the one that runs, or else the last whose result
  is posted, or its list is shown. It needs the order of one pool thread and one event queue, which nothing else in the
  tool enforces.
* `ToolImportTypes` (`ImportTypeOK`), `ToolTreeFaithful` (`TreeFaithful`). `TreeInv` says that unless the tree is
  *crossed* nothing under way, queued, running or posted, is of another page, kind or type than what is shown, and
  that each answer is what AWS has. The loops that fill the tree (`Loaded`, `LoadedStacks`, `Passing`) are shown by
  induction to put below each stack what passes the filter, once.
* `ToolImportedOnce` (`ImportedOnce`): the types of `TreeInv` make the resources of the selected nodes a finite set of
  what can be in a row, without stacks where the tree has children, nor, unless it is crossed, where it has none (`NoStackListed`); it is added to the rows in some order, each once.

**AWSGameLift** (`TicketTrackerProofs`, `GameLiftServerProofs`)

* `MatchTrackerTypeOK`, `MatchRunningIsTracked`, `MatchPollsKeepPeriod`, `MatchQuietOnceDeactivated`. The invariant adds what the
  owner of the mutex has established (`CallInv`): during a start the bus is connected, no thread is in its loop and the
  semaphore is released, so that the acquire before the new thread takes the only permit; during a stop the tracker is
  idle. They are proved of the tracker alone and carried to the composition by `MatchImplementsTracker`.
* `MatchSessionsAgree` (`SessionsAgree`). The invariant tells apart the connections whose validation is under way from
  those that *play*: a registration being validated is its validation's own (`OwnRegistration`,
  `NoOtherValidation`); an active session has one player, in play or leaving (`OnePlayer`, `ActiveHasPlayer`). GameLift's
  accepting a reserved session once turns the first into the second.

**Assumptions.** The named ones of the modules (`MetricsAssumption`, `HttpAssumption`, `ViewEditAssumption`,
`TrackerAssumption`, ...), which TLC evaluates on every instance, and the library's theorems about sequences and finite
sets. Two say something of AWS. `ImportAssumption`: its answers are sequences of resources; a stack does not repeat a resource
it *names* (the physical ids of a stack are distinct; those not created yet have none, may be many, and the tool skips
them); no resource of a stack has the type the tool gives its own rows of stacks, since CloudFormation spells it
with a capital F. `ToolAssumption`: what can be imported can be in a row of the table.

**Induction.** The library's induction theorems take an operator as a parameter, which the provers cannot instantiate.
`NumberInduction` is proved here in a form about sets of numbers, from the existence of minimal elements, and
serves every loop. The loops that fill the tree are recursive functions in the model, not `SelectSeq` or `FoldLeft`,
which the provers cannot open.

**Model-checked only** is liveness (`EveryEventSettles`, `ShutdownReturns`, `EveryRequestAnswered`, `EveryReceiptReported`,
`ListingCatchesUp`, `LoadingEnds`, `CallsReturn`), which is out of the prover's reach. The runs that expect a violation
are counterexamples, and need no proof.

## 5. Findings

* `PushMetricsToFront` reverses the events it pushes to a queue that is not empty, where the
  comment at its call promises to keep the order (`metrics_retry_order`). The tests count
  the events only.
* An event above the payload limit makes `SendMetricsAsync` loop for ever, under the queue's
  mutex (`metrics_oversized`).
* `~Manager` may lose its own notification and never return (`http_stop`).
* `UpdateChannel` with nothing to update is reported and made all the same
  (`twitch_needless`).
* In the mapping tool, `finished` enables the page that the `result` of the same search disabled because
  the directory's only file is invalid (`mapping_rejected`).

Each is listed in `PROJECT.json` with its lines.

## 6. Not modelled

* Pure conversion and look-up: attributes, JSON, schema validation, URLs, configuration
  files. The models take their results as constants or choices.
* Undefined behaviour of memory: callbacks into a destroyed object; what comes of the unsynchronised accesses to Twitch's
  identity and event queue, which are listed as a hazard.
* The posts of a flush that pops nothing (an event above the payload limit): requests without records, whose jobs and
  empty answers change nothing the model has.
* The end of the process and the AWS services themselves, beyond what they may answer.
* Umbra, the deployment stacks, reflection: no concurrent or lasting state of this code's
  own, or state of a library.
* Of the resource mapping tool: its start (arguments, configuration, the error page, one pass with
  nothing beside it), quitting, the filter text, which hides rows and changes none, texts and layout.
* Of AWSGameLift: the game session's own life and backfill, which touch no player; the client's one-shot
  requests; a `StopPolling` from the tracker's own handler, a thread joining itself; callers of the tracker through
  `AZ::Interface`, where it registers too, which do not hold the bus's mutex: one that waits for `m_trackerMutex` while a
  deactivation holds it could start a thread afterwards. `QuietOnceDeactivated` and `CallsReturn` hold over the bus.
* Most lines of Python in the repository are data: two generated Qt resource files
  (`ResourceMappingTool/style/*_resources.py`) are 191 of its 204 thousand, and much of the rest are the
  declarations of the deployment stacks, in three copies. There is no behaviour in them to model; the Python
  with behaviour is the resource mapping tool, and the rest of the system is C++.
* The components of the plan below, until their modules exist. `PROJECT.json` lists every
  component with its status and every known hazard with the properties that cover it.

## 7. Plan

In order of what a failure would cost:

1. `ClientAuthorization`: logins, identity and cached credentials of AWSClientAuth, with AWSCore's ordered
   credential handlers. Abstract: credentials handed out belong to the logins of
   the time. Run: two logins, two concurrent jobs, reset, sign-out, a late refresh.
2. `Metastream`: the cache with two threads and clear, and the server's start and stop over it.
3. `ResourceMapping` and `Attribution`: load and reload under look-ups; consent, delay
   and overlapping saves of the settings file.
4. `AWSNativeSDKInit` with two managers and AWSCore as its users.
5. A restart over the local file for `MetricsPipeline`.

With each module come the theorems of its safety properties. Left in the modules there are: the
composition of Twitch with `HttpRequestManager` itself, which holds so far by substituting one module for the
other's abstract service.
