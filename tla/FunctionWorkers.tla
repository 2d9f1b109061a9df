--------------------------- MODULE FunctionWorkers ---------------------------
(***************************************************************************)
(* The resource mapping tool's background work: ThreadManager's pool, which *)
(* setup limits to one thread, runs FunctionWorkers in the order they were  *)
(* started, and the signals a worker emits wait in the main thread's event  *)
(* queue, since their receivers live on that thread.                        *)
(*                                                                         *)
(* A worker is [kind, arg]; what it has read so far is kept beside it.      *)
(***************************************************************************)
EXTENDS Naturals, Sequences

VARIABLES
  runQueue,   \* workers the pool has been given and not begun
  running,    \* the pool's thread: <<>>, or the worker it runs and what it read
  posted      \* signals emitted and not yet delivered on the main thread

workerVars == <<runQueue, running, posted>>

WorkersInit == runQueue = <<>> /\ running = <<>> /\ posted = <<>>

(* ThreadManager.start *)
Start(worker) == runQueue' = Append(runQueue, worker)

(* Mutant: the worker started last goes first. *)
BeginNewest(worker, read) ==
  /\ running = <<>>
  /\ runQueue # <<>>
  /\ worker = runQueue[Len(runQueue)]
  /\ running' = <<worker, read>>
  /\ runQueue' = SubSeq(runQueue, 1, Len(runQueue) - 1)
  /\ UNCHANGED posted

(* The thread takes the next worker, whose function begins by reading.      *)
Begin(worker, read) ==
  /\ running = <<>>
  /\ runQueue # <<>>
  /\ worker = Head(runQueue)
  /\ running' = <<worker, read>>
  /\ runQueue' = Tail(runQueue)
  /\ UNCHANGED posted

Signal(name, worker, value) == [signal |-> name, worker |-> worker, value |-> value]

(* FunctionWorker.run once its function is over: a value is emitted as the  *)
(* result, an exception as an error that no controller listens to; finished *)
(* follows either.                                                          *)
Outcome(worker, value) ==
  <<Signal("result", worker, value), Signal("finished", worker, <<>>)>>
(* Mutant: finished belongs to the branch without an exception. *)
RaisedUnfinished(worker) == <<>>
Raised(worker) == <<Signal("finished", worker, <<>>)>>

Emit(signals) ==
  /\ posted' = posted \o signals
  /\ running' = <<>>
  /\ UNCHANGED runQueue

(* The main thread's event loop delivers the oldest signal.                 *)
Deliver(name, kinds) ==
  /\ posted # <<>>
  /\ Head(posted).signal = name
  /\ Head(posted).worker.kind \in kinds
  /\ posted' = Tail(posted)

Delivered == Head(posted)

Idle == runQueue = <<>> /\ running = <<>> /\ posted = <<>>
=============================================================================
