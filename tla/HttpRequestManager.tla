------------------------- MODULE HttpRequestManager -------------------------
(***************************************************************************)
(* The HttpRequestor gem: HttpRequestorSystemComponent and the Manager it  *)
(* owns, whose worker thread takes both queues at once under the mutex,    *)
(* makes the requests of the batch and calls their callbacks.              *)
(*                                                                         *)
(* Callers: the main thread, which also activates and deactivates the      *)
(* component, and the worker thread itself, from inside a callback.        *)
(***************************************************************************)
EXTENDS Integers, Sequences, SequencesExt

CONSTANTS
  JsonRequests,    \* requests made with AddRequest*
  TextRequests,    \* requests made with AddTextRequest*
  MaxActivations   \* bound: activations of the component

ASSUME HttpAssumption ==
  /\ JsonRequests \intersect TextRequests = {}
  /\ MaxActivations \in Nat

VARIABLES
  requestsToHandle,      \* m_requestsToHandle
  textRequestsToHandle,  \* m_textRequestsToHandle
  requestMutex,          \* whether the worker holds m_requestMutex
  runThread,             \* m_runThread
  thread,                \* where the worker thread is
  batch,                 \* HandleRequestBatch: the swapped queue, still to handle
  textBatch,             \* HandleRequestBatch: likewise, of text requests
  adding,                \* adding[c]: how far caller c is in AddRequest
  component,             \* how far Activate and Deactivate are
  activations,           \* activations so far
  answers,               \* the calls of callbacks: request and outcome
  added,                 \* the requests pushed to a queue
  abandoned              \* the requests dropped with their Manager

queueVars     == <<requestsToHandle, textRequestsToHandle>>
workerVars    == <<thread, batch, textBatch>>
componentVars == <<component, activations>>
ghostVars     == <<answers, added, abandoned>>
vars == <<queueVars, requestMutex, runThread, workerVars, adding, componentVars, ghostVars>>

Requests == JsonRequests \union TextRequests
Callers  == {"main", "worker"}

(* What MakeRequest comes back with, and what the callback is told of it.  *)
Responses == {"none", "refused", "malformed", "ok"}

Outcome(r, response) ==
  CASE response = "none"                            -> "internal_error"
    [] response = "refused"                         -> "refused"
    [] response = "malformed" /\ r \in JsonRequests -> "internal_error"
    [] OTHER                                        -> "ok"

NotAdding == [stage |-> "idle", request |-> "none"]

Init ==
  /\ requestsToHandle = <<>> /\ textRequestsToHandle = <<>>
  /\ requestMutex = "free" /\ runThread = FALSE
  /\ thread = "none" /\ batch = <<>> /\ textBatch = <<>>
  /\ adding = [c \in Callers |-> NotAdding]
  /\ component = "inactive" /\ activations = 0
  /\ answers = <<>> /\ added = {} /\ abandoned = {}

-----------------------------------------------------------------------------
(* Callers. *)

(* The bus delivers the call and the component has a manager. *)
CallAddRequest(c, r) ==
  /\ component = "active" /\ adding[c].stage = "idle"
  /\ c = "worker" => thread = "callback"
  /\ r \notin added /\ \A d \in Callers : adding[d].request # r
  /\ adding' = [adding EXCEPT ![c] = [stage |-> "called", request |-> r]]
  /\ UNCHANGED <<queueVars, requestMutex, runThread, workerVars, componentVars, ghostVars>>

(* AddRequest and AddTextRequest push under the lock ... *)
PushRequest(c) ==
  /\ adding[c].stage = "called" /\ requestMutex = "free"
  /\ \/ /\ adding[c].request \in JsonRequests
        /\ requestsToHandle' = Append(requestsToHandle, adding[c].request)
        /\ UNCHANGED textRequestsToHandle
     \/ /\ adding[c].request \in TextRequests
        /\ textRequestsToHandle' = Append(textRequestsToHandle, adding[c].request)
        /\ UNCHANGED requestsToHandle
  /\ adding' = [adding EXCEPT ![c].stage = "pushed"]
  /\ added' = added \union {adding[c].request}
  /\ UNCHANGED <<requestMutex, runThread, workerVars, componentVars, answers, abandoned>>

(* Mutant: nobody is waiting when the notification comes. *)
NotifyNobody == UNCHANGED thread

NotifyAll == thread' = IF thread = "wait" THEN "lock" ELSE thread

(* ... and notify after they released it. *)
NotifyRequest(c) ==
  /\ adding[c].stage = "pushed"
  /\ NotifyAll
  /\ adding' = [adding EXCEPT ![c] = NotAdding]
  /\ UNCHANGED <<queueVars, requestMutex, runThread, batch, textBatch, componentVars, ghostVars>>

-----------------------------------------------------------------------------
(* The worker thread. *)

(* The loop of ThreadFunction. *)
CheckRunThread ==
  /\ thread = "check"
  /\ thread' = IF runThread THEN "lock" ELSE "exited"
  /\ UNCHANGED <<queueVars, requestMutex, runThread, batch, textBatch, adding, componentVars,
                 ghostVars>>

LockRequestMutex ==
  /\ thread = "lock" /\ requestMutex = "free"
  /\ requestMutex' = "worker"
  /\ thread' = "test"
  /\ UNCHANGED <<queueVars, runThread, batch, textBatch, adding, componentVars, ghostVars>>

(* Mutant: the predicate of the wait forgets the text requests. *)
MustWakeUpForJson == ~runThread \/ requestsToHandle # <<>>

MustWakeUp == ~runThread \/ requestsToHandle # <<>> \/ textRequestsToHandle # <<>>

(* Mutant: lock.unlock() is missing, and the batch is handled under the lock. *)
SwapWithoutUnlock ==
  /\ thread = "test" /\ MustWakeUp
  /\ batch' = requestsToHandle /\ textBatch' = textRequestsToHandle
  /\ requestsToHandle' = <<>> /\ textRequestsToHandle' = <<>>
  /\ thread' = "handle"
  /\ UNCHANGED <<requestMutex, runThread, adding, componentVars, ghostVars>>

(* The predicate holds: the queues are swapped and the lock released.      *)
SwapQueues ==
  /\ thread = "test" /\ MustWakeUp
  /\ batch' = requestsToHandle /\ textBatch' = textRequestsToHandle
  /\ requestsToHandle' = <<>> /\ textRequestsToHandle' = <<>>
  /\ requestMutex' = "free"
  /\ thread' = "handle"
  /\ UNCHANGED <<runThread, adding, componentVars, ghostVars>>

(* It does not: the wait will release the lock, in a step of its own.      *)
DecideToWait ==
  /\ thread = "test" /\ ~MustWakeUp
  /\ thread' = "block"
  /\ UNCHANGED <<queueVars, requestMutex, runThread, batch, textBatch, adding, componentVars,
                 ghostVars>>

Block ==
  /\ thread = "block"
  /\ requestMutex' = "free"
  /\ thread' = "wait"
  /\ UNCHANGED <<queueVars, runThread, batch, textBatch, adding, componentVars, ghostVars>>

SpuriousWakeUp ==
  /\ thread = "wait"
  /\ thread' = "lock"
  /\ UNCHANGED <<queueVars, requestMutex, runThread, batch, textBatch, adding, componentVars,
                 ghostVars>>

CallBack(r) ==
  /\ \E response \in Responses :
       answers' = Append(answers, [request |-> r, outcome |-> Outcome(r, response)])
  /\ thread' = "callback"

(* Mutant: the request handled is not popped before the next. *)
HandleWithoutPop ==
  /\ thread = "handle" /\ batch # <<>>
  /\ CallBack(Head(batch))
  /\ UNCHANGED <<batch, queueVars, requestMutex, runThread, textBatch, adding, componentVars,
                 added, abandoned>>

HandleRequest ==
  /\ thread = "handle" /\ batch # <<>>
  /\ CallBack(Head(batch))
  /\ batch' = Tail(batch)
  /\ UNCHANGED <<queueVars, requestMutex, runThread, textBatch, adding, componentVars, added,
                 abandoned>>

HandleTextRequest ==
  /\ thread = "handle" /\ batch = <<>> /\ textBatch # <<>>
  /\ CallBack(Head(textBatch))
  /\ textBatch' = Tail(textBatch)
  /\ UNCHANGED <<queueVars, requestMutex, runThread, batch, adding, componentVars, added,
                 abandoned>>

CallbackReturns ==
  /\ thread = "callback" /\ adding["worker"].stage = "idle"
  /\ thread' = "handle"
  /\ UNCHANGED <<queueVars, requestMutex, runThread, batch, textBatch, adding, componentVars,
                 ghostVars>>

BatchDone ==
  /\ thread = "handle" /\ batch = <<>> /\ textBatch = <<>>
  /\ thread' = "check"
  /\ UNCHANGED <<queueVars, requestMutex, runThread, batch, textBatch, adding, componentVars,
                 ghostVars>>

-----------------------------------------------------------------------------
(* The component. *)

Activate ==
  /\ component = "inactive" /\ activations < MaxActivations
  /\ component' = "active" /\ activations' = activations + 1
  /\ runThread' = TRUE
  /\ thread' = "check"
  /\ UNCHANGED <<queueVars, requestMutex, batch, textBatch, adding, ghostVars>>

(* Deactivate disconnects the bus and destroys the manager, whose          *)
(* destructor clears the flag, notifies and joins, without the mutex.      *)
Deactivate ==
  /\ component = "active" /\ adding["main"].stage = "idle"
  /\ component' = "disconnected"
  /\ UNCHANGED <<queueVars, requestMutex, runThread, workerVars, adding, activations, ghostVars>>

ClearRunThread ==
  /\ component = "disconnected"
  /\ component' = "stopping"
  /\ runThread' = FALSE
  /\ UNCHANGED <<queueVars, requestMutex, workerVars, adding, activations, ghostVars>>

NotifyStop ==
  /\ component = "stopping"
  /\ component' = "joining"
  /\ NotifyAll
  /\ UNCHANGED <<queueVars, requestMutex, runThread, batch, textBatch, adding, activations,
                 ghostVars>>

Join ==
  /\ component = "joining" /\ thread = "exited"
  /\ component' = "inactive"
  /\ thread' = "none"
  /\ requestsToHandle' = <<>> /\ textRequestsToHandle' = <<>>
  /\ abandoned' = abandoned \union ToSet(requestsToHandle) \union ToSet(textRequestsToHandle)
  /\ UNCHANGED <<requestMutex, runThread, batch, textBatch, adding, activations, answers, added>>

-----------------------------------------------------------------------------
Caller(c) == PushRequest(c) \/ NotifyRequest(c)

Worker ==
  \/ CheckRunThread \/ LockRequestMutex \/ SwapQueues \/ DecideToWait \/ Block
  \/ HandleRequest \/ HandleTextRequest \/ CallbackReturns \/ BatchDone

Destructor == ClearRunThread \/ NotifyStop \/ Join

Next ==
  \/ \E c \in Callers, r \in Requests : CallAddRequest(c, r)
  \/ \E c \in Callers : Caller(c)
  \/ Worker \/ SpuriousWakeUp
  \/ Activate \/ Deactivate \/ Destructor

Spec == Init /\ [][Next]_vars

(* Threads run; a request is answered or times out. No wake-up is spurious *)
(* by obligation, and nothing makes the main thread call or deactivate.    *)
Fairness ==
  /\ \A c \in Callers : WF_vars(Caller(c))
  /\ WF_vars(Worker)
  /\ WF_vars(Destructor)

FairSpec == Spec /\ Fairness

-----------------------------------------------------------------------------
(* Properties. *)

Answered == {answers[i].request : i \in DOMAIN answers}

Adding == [stage : {"idle", "called", "pushed"}, request : Requests \union {"none"}]

(* The queues hold requests of their kind; the worker holds the mutex from *)
(* its test of the predicate to the swap or the wait, and never while it   *)
(* makes requests and calls back; a caller past its first stage has a      *)
(* request.                                                                *)
TypeOK ==
  /\ requestsToHandle \in Seq(JsonRequests) /\ textRequestsToHandle \in Seq(TextRequests)
  /\ requestMutex = IF thread \in {"test", "block"} THEN "worker" ELSE "free"
  /\ runThread \in BOOLEAN
  /\ thread \in {"none", "check", "lock", "test", "block", "wait", "handle", "callback", "exited"}
  /\ batch \in Seq(JsonRequests) /\ textBatch \in Seq(TextRequests)
  /\ adding \in [Callers -> Adding]
  /\ \A c \in Callers : adding[c].stage # "idle" => adding[c].request \in Requests
  /\ component \in {"inactive", "active", "disconnected", "stopping", "joining"}
  /\ activations \in Nat
  /\ answers \in Seq([request : Requests, outcome : {"internal_error", "refused", "ok"}])
  /\ added \subseteq Requests /\ abandoned \subseteq Requests

(* The worker never sleeps on work: while it waits with a request queued,  *)
(* some caller is past its push and still has to notify it.                *)
NoRequestSleptOn ==
  thread = "wait" /\ (requestsToHandle # <<>> \/ textRequestsToHandle # <<>>)
    => \E c \in Callers : adding[c].stage = "pushed"

Pending(k) ==
  IF k = "json" THEN batch \o requestsToHandle ELSE textBatch \o textRequestsToHandle

AnsweredInOrder == [i \in DOMAIN answers |-> answers[i].request]

(* The gem implements HttpService: order and single answers, whatever the  *)
(* worker swaps and whoever adds meanwhile, over activations.              *)
Service == INSTANCE HttpService WITH
  pending  <- [k \in {"json", "text"} |-> Pending(k)],
  answered <- AnsweredInOrder

ImplementsService == Service!Spec

(* A request added is answered unless the component is deactivated.        *)
EveryRequestAnswered ==
  \A r \in Requests : (r \in added \ abandoned) ~> (r \in Answered \/ component # "active")

(* HttpRequestManager.h of m_runThread: "Run flag used to signal the worker *)
(* thread": once Deactivate began, the worker gets the signal and the join  *)
(* returns.                                                                 *)
DeactivateReturns == (component = "disconnected") ~> (component = "inactive")
=============================================================================
