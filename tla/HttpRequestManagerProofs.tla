---------------------- MODULE HttpRequestManagerProofs ----------------------
(***************************************************************************)
(* Theorems about HttpRequestManager, for every set of requests and every  *)
(* number of activations: the worker does not sleep on work, and the gem   *)
(* keeps the promise of HttpService.                                       *)
(***************************************************************************)
EXTENDS HttpRequestManager, SequenceTheorems, TLAPS

Answers(S) == Seq([request : S, outcome : {"internal_error", "refused", "ok"}])

(* The inductive invariant: where requests are, and what the worker can be *)
(* holding.                                                                *)
Placed ==
  /\ batch \in Seq(added) /\ requestsToHandle \in Seq(added)
  /\ textBatch \in Seq(added) /\ textRequestsToHandle \in Seq(added)
  /\ answers \in Answers(added)
  /\ abandoned \subseteq added

(* A request on its way to a queue is in none, and not on its way twice.   *)
OnItsWay ==
  \A c \in Callers : adding[c].stage = "called" =>
    /\ adding[c].request \notin added
    /\ \A d \in Callers \ {c} :
         adding[d].stage = "called" => adding[d].request # adding[c].request

WorkerState ==
  /\ thread \notin {"handle", "callback"} => batch = <<>> /\ textBatch = <<>>
  /\ thread = "block" => requestsToHandle = <<>> /\ textRequestsToHandle = <<>>
  /\ component = "inactive" => thread = "none"

IInv == TypeOK /\ Placed /\ OnItsWay /\ WorkerState /\ NoRequestSleptOn

-----------------------------------------------------------------------------
(* Sequences. *)

LEMMA TailOfConcat ==
  ASSUME NEW S, NEW s \in Seq(S), NEW t \in Seq(S), s # <<>>
  PROVE  /\ s \o t # <<>>
         /\ Head(s \o t) = Head(s)
         /\ Tail(s \o t) = Tail(s) \o t
<1>1. /\ s \o t \in Seq(S) /\ Len(s \o t) = Len(s) + Len(t) /\ Len(s) \in Nat \ {0}
      /\ Len(t) \in Nat
      /\ \A i \in 1..(Len(s) + Len(t)) :
           (s \o t)[i] = IF i <= Len(s) THEN s[i] ELSE t[i - Len(s)]
  BY ConcatProperties, EmptySeq, LenProperties
<1>2. s \o t # <<>> /\ Head(s \o t) = Head(s)
  BY <1>1
<1>3. /\ Tail(s) \in Seq(S) /\ Len(Tail(s)) = Len(s) - 1
      /\ \A i \in 1..(Len(s) - 1) : Tail(s)[i] = s[i + 1]
  BY HeadTailProperties
<1>4. /\ Tail(s \o t) \in Seq(S) /\ Len(Tail(s \o t)) = Len(s) + Len(t) - 1
      /\ \A i \in 1..(Len(s) + Len(t) - 1) : Tail(s \o t)[i] = (s \o t)[i + 1]
  BY <1>1, <1>2, HeadTailProperties
<1>5. /\ Tail(s) \o t \in Seq(S) /\ Len(Tail(s) \o t) = Len(s) - 1 + Len(t)
      /\ \A i \in 1..(Len(s) - 1 + Len(t)) :
           (Tail(s) \o t)[i] = IF i <= Len(s) - 1 THEN Tail(s)[i] ELSE t[i - (Len(s) - 1)]
  BY <1>3, ConcatProperties
<1>6. \A i \in 1..(Len(s) + Len(t) - 1) : Tail(s \o t)[i] = (Tail(s) \o t)[i]
  BY <1>1, <1>3, <1>4, <1>5
<1>7. Tail(s \o t) = Tail(s) \o t
  BY <1>1, <1>4, <1>5, <1>6, SeqEqual
<1> QED
  BY <1>2, <1>7

LEMMA ConcatAppend ==
  ASSUME NEW S, NEW s \in Seq(S), NEW t \in Seq(S), NEW x \in S
  PROVE  s \o Append(t, x) = Append(s \o t, x)
<1>1. Append(t, x) = t \o <<x>> /\ s \o t \in Seq(S) /\ <<x>> \in Seq(S)
  BY AppendIsConcat, ConcatProperties
<1>2. Append(s \o t, x) = (s \o t) \o <<x>>
  BY <1>1, AppendIsConcat
<1> QED
  BY <1>1, <1>2, ConcatAssociative

(* Adding requests leaves what was placed in its place.                    *)
LEMMA PlacedMonotonic ==
  ASSUME NEW S, NEW T, S \subseteq T
  PROVE  Seq(S) \subseteq Seq(T) /\ Answers(S) \subseteq Answers(T)
<1>1. \A A, B : A \subseteq B => Seq(A) \subseteq Seq(B)
  BY SeqMonotonic
<1>2. [request : S, outcome : {"internal_error", "refused", "ok"}]
        \subseteq [request : T, outcome : {"internal_error", "refused", "ok"}]
  OBVIOUS
<1> QED
  BY <1>1, <1>2 DEF Answers

-----------------------------------------------------------------------------
(* The inductive invariant. *)

LEMMA TypeInductive == TypeOK /\ WorkerState /\ [Next]_vars => TypeOK'
<1> SUFFICES ASSUME TypeOK, WorkerState, [Next]_vars PROVE TypeOK'
  OBVIOUS
<1> USE DEF queueVars, workerVars, componentVars, ghostVars
<1>1. ASSUME NEW c \in Callers, NEW r \in Requests, CallAddRequest(c, r) PROVE TypeOK'
  <2>1. adding' = [adding EXCEPT ![c] = [stage |-> "called", request |-> r]]
        /\ adding \in [Callers -> Adding]
    BY <1>1 DEF CallAddRequest, TypeOK
  <2>2. [stage |-> "called", request |-> r] \in Adding
    BY DEF Adding
  <2>3. adding' \in [Callers -> Adding]
    BY <2>1, <2>2
  <2>4. \A d \in Callers : adding'[d].stage # "idle" => adding'[d].request \in Requests
    BY <2>1 DEF TypeOK
  <2> QED
    BY <1>1, <2>3, <2>4 DEF CallAddRequest, TypeOK
<1>2. ASSUME NEW c \in Callers, PushRequest(c) PROVE TypeOK'
  <2>1. adding[c] \in Adding /\ adding[c].request \in Requests
    BY <1>2 DEF PushRequest, TypeOK
  <2>2. adding' \in [Callers -> Adding]
    BY <1>2, <2>1 DEF PushRequest, TypeOK, Adding
  <2>3. \A d \in Callers : adding'[d].request = adding[d].request
                          /\ (d # c => adding'[d] = adding[d])
    BY <1>2, <2>1 DEF PushRequest, TypeOK, Adding
  <2>4. \A d \in Callers : adding'[d].stage # "idle" => adding'[d].request \in Requests
    BY <2>1, <2>3 DEF TypeOK
  <2>5. requestsToHandle' \in Seq(JsonRequests) /\ textRequestsToHandle' \in Seq(TextRequests)
    <3>1. requestsToHandle \in Seq(JsonRequests) /\ textRequestsToHandle \in Seq(TextRequests)
      BY DEF TypeOK
    <3>2. \/ /\ adding[c].request \in JsonRequests
             /\ requestsToHandle' = Append(requestsToHandle, adding[c].request)
             /\ UNCHANGED textRequestsToHandle
          \/ /\ adding[c].request \in TextRequests
             /\ textRequestsToHandle' = Append(textRequestsToHandle, adding[c].request)
             /\ UNCHANGED requestsToHandle
      BY <1>2 DEF PushRequest
    <3>3. CASE /\ adding[c].request \in TextRequests
               /\ textRequestsToHandle' = Append(textRequestsToHandle, adding[c].request)
               /\ UNCHANGED requestsToHandle
      BY <3>1, <3>3
    <3>4. CASE /\ adding[c].request \in JsonRequests
               /\ requestsToHandle' = Append(requestsToHandle, adding[c].request)
               /\ UNCHANGED textRequestsToHandle
      BY <3>1, <3>4
    <3> QED
      BY <3>2, <3>3, <3>4
  <2>6. added' \subseteq Requests
    BY <1>2, <2>1 DEF PushRequest, TypeOK
  <2> QED
    BY <1>2, <2>2, <2>4, <2>5, <2>6 DEF PushRequest, TypeOK
<1>3. ASSUME NEW c \in Callers, NotifyRequest(c) PROVE TypeOK'
  <2>1. NotAdding \in Adding
    BY DEF NotAdding, Adding
  <2>2. adding' \in [Callers -> Adding]
    BY <1>3, <2>1 DEF NotifyRequest, TypeOK
  <2>3. \A d \in Callers : adding'[d].stage # "idle" => adding'[d].request \in Requests
    BY <1>3 DEF NotifyRequest, TypeOK, NotAdding
  <2> QED
    BY <1>3, <2>2, <2>3 DEF NotifyRequest, NotifyAll, TypeOK
<1>4. ASSUME NEW r \in Requests, CallBack(r) 
      PROVE  /\ answers' \in Seq([request : Requests, outcome : {"internal_error", "refused", "ok"}])
             /\ thread' = "callback"
  <2>1. PICK response \in Responses :
          answers' = Append(answers, [request |-> r, outcome |-> Outcome(r, response)])
    BY <1>4 DEF CallBack
  <2>2. Outcome(r, response) \in {"internal_error", "refused", "ok"}
    BY DEF Outcome
  <2> QED
    BY <1>4, <2>1, <2>2, AppendProperties DEF CallBack, TypeOK
<1>5. CASE HandleRequest
  <2>1. Head(batch) \in JsonRequests /\ Tail(batch) \in Seq(JsonRequests)
    BY <1>5, HeadTailProperties DEF HandleRequest, TypeOK
  <2> QED
    BY <1>4, <1>5, <2>1 DEF HandleRequest, TypeOK, Requests
<1>6. CASE HandleTextRequest
  <2>1. Head(textBatch) \in TextRequests /\ Tail(textBatch) \in Seq(TextRequests)
    BY <1>6, HeadTailProperties DEF HandleTextRequest, TypeOK
  <2> QED
    BY <1>4, <1>6, <2>1 DEF HandleTextRequest, TypeOK, Requests
<1>7. CASE CheckRunThread \/ LockRequestMutex \/ DecideToWait \/ Block \/ SpuriousWakeUp
           \/ CallbackReturns \/ BatchDone
  BY <1>7 DEF CheckRunThread, LockRequestMutex, DecideToWait, Block, SpuriousWakeUp,
     CallbackReturns, BatchDone, TypeOK
<1>8. CASE SwapQueues
  <2>1. <<>> \in Seq(JsonRequests) /\ <<>> \in Seq(TextRequests)
    OBVIOUS
  <2> QED
    BY <1>8, <2>1 DEF SwapQueues, TypeOK
<1>9. CASE Activate
  <2>1. activations' \in Nat
    BY <1>9 DEF Activate, TypeOK
  <2>2. requestMutex = "free"
    BY <1>9 DEF Activate, TypeOK, WorkerState
  <2> QED
    BY <1>9, <2>1, <2>2 DEF Activate, TypeOK
<1>10. CASE Deactivate \/ ClearRunThread \/ NotifyStop
  BY <1>10 DEF Deactivate, ClearRunThread, NotifyStop, NotifyAll, TypeOK
<1>11. CASE Join
  <2>1. requestsToHandle' \in Seq(JsonRequests) /\ textRequestsToHandle' \in Seq(TextRequests)
    BY <1>11 DEF Join
  <2>2. ToSet(requestsToHandle) \subseteq Requests /\ ToSet(textRequestsToHandle) \subseteq Requests
    BY DEF TypeOK, ToSet, Requests
  <2> QED
    BY <1>11, <2>1, <2>2 DEF Join, TypeOK
<1>12. CASE UNCHANGED vars
  BY <1>12 DEF vars, TypeOK
<1> QED
  BY <1>1, <1>2, <1>3, <1>5, <1>6, <1>7, <1>8, <1>9, <1>10, <1>11, <1>12
     DEF Next, Caller, Worker, Destructor
LEMMA PlacedInductive == TypeOK /\ Placed /\ [Next]_vars => Placed'
<1> SUFFICES ASSUME TypeOK, Placed, [Next]_vars PROVE Placed'
  OBVIOUS
<1> USE DEF queueVars, workerVars, componentVars, ghostVars
<1>1. CASE UNCHANGED <<queueVars, batch, textBatch, ghostVars>>
  BY <1>1 DEF Placed
<1>2. ASSUME NEW c \in Callers, PushRequest(c) PROVE Placed'
  <2>1. added \subseteq added' /\ adding[c].request \in added'
    BY <1>2 DEF PushRequest
  <2>2. Seq(added) \subseteq Seq(added') /\ Answers(added) \subseteq Answers(added')
    BY <2>1, PlacedMonotonic
  <2>3. requestsToHandle' \in Seq(added') /\ textRequestsToHandle' \in Seq(added')
    <3>1. requestsToHandle \in Seq(added') /\ textRequestsToHandle \in Seq(added')
      BY <2>2 DEF Placed
    <3>2. /\ requestsToHandle' \in {requestsToHandle,
                                    Append(requestsToHandle, adding[c].request)}
          /\ textRequestsToHandle' \in {textRequestsToHandle,
                                        Append(textRequestsToHandle, adding[c].request)}
      BY <1>2 DEF PushRequest
    <3>3. \A q \in Seq(added') : Append(q, adding[c].request) \in Seq(added')
      BY <2>1, AppendProperties
    <3> QED
      BY <3>1, <3>2, <3>3
  <2> QED
    BY <1>2, <2>1, <2>2, <2>3 DEF PushRequest, Placed
<1>3. ASSUME NEW r \in added, CallBack(r), UNCHANGED added
      PROVE  answers' \in Answers(added')
  <2>1. PICK response \in Responses :
          answers' = Append(answers, [request |-> r, outcome |-> Outcome(r, response)])
    BY <1>3 DEF CallBack
  <2>2. Outcome(r, response) \in {"internal_error", "refused", "ok"}
    BY DEF Outcome
  <2> QED
    BY <1>3, <2>1, <2>2, AppendProperties DEF Placed, Answers
<1>4. CASE HandleRequest
  <2>1. Head(batch) \in added /\ Tail(batch) \in Seq(added)
    BY <1>4, HeadTailProperties DEF HandleRequest, Placed
  <2>2. answers' \in Answers(added')
    BY <1>3, <1>4, <2>1 DEF HandleRequest
  <2> QED
    BY <1>4, <2>1, <2>2 DEF HandleRequest, Placed
<1>5. CASE HandleTextRequest
  <2>1. Head(textBatch) \in added /\ Tail(textBatch) \in Seq(added)
    BY <1>5, HeadTailProperties DEF HandleTextRequest, Placed
  <2>2. answers' \in Answers(added')
    BY <1>3, <1>5, <2>1 DEF HandleTextRequest
  <2> QED
    BY <1>5, <2>1, <2>2 DEF HandleTextRequest, Placed
<1>6. CASE SwapQueues
  <2>1. <<>> \in Seq(added)
    OBVIOUS
  <2> QED
    BY <1>6, <2>1 DEF SwapQueues, Placed
<1>7. CASE Join
  <2>1. <<>> \in Seq(added)
    OBVIOUS
  <2>2. ToSet(requestsToHandle) \subseteq added /\ ToSet(textRequestsToHandle) \subseteq added
    BY DEF Placed, ToSet
  <2> QED
    BY <1>7, <2>1, <2>2 DEF Join, Placed
<1> QED
  BY <1>1, <1>2, <1>4, <1>5, <1>6, <1>7 DEF Next, Caller, Worker, Destructor, vars,
     CallAddRequest, NotifyRequest, CheckRunThread, LockRequestMutex, DecideToWait, Block,
     SpuriousWakeUp, CallbackReturns, BatchDone, Activate, Deactivate, ClearRunThread, NotifyStop

LEMMA OnItsWayInductive == TypeOK /\ OnItsWay /\ [Next]_vars => OnItsWay'
<1> SUFFICES ASSUME TypeOK, OnItsWay, [Next]_vars PROVE OnItsWay'
  OBVIOUS
<1> USE DEF queueVars, workerVars, componentVars, ghostVars
<1>1. CASE UNCHANGED <<adding, added>>
  BY <1>1 DEF OnItsWay
<1>2. ASSUME NEW c \in Callers, NEW r \in Requests, CallAddRequest(c, r) PROVE OnItsWay'
  <2>1. /\ adding'[c] = [stage |-> "called", request |-> r]
        /\ \A d \in Callers \ {c} : adding'[d] = adding[d]
        /\ UNCHANGED added
        /\ r \notin added /\ \A d \in Callers : adding[d].request # r
    BY <1>2 DEF CallAddRequest, TypeOK
  <2> QED
    BY <2>1 DEF OnItsWay
<1>3. ASSUME NEW c \in Callers, PushRequest(c) PROVE OnItsWay'
  <2>1. /\ adding'[c].stage = "pushed" /\ adding'[c].request = adding[c].request
        /\ \A d \in Callers \ {c} : adding'[d] = adding[d]
        /\ added' = added \union {adding[c].request}
        /\ adding[c].stage = "called"
    BY <1>3 DEF PushRequest, TypeOK, Adding
  <2> QED
    BY <2>1 DEF OnItsWay
<1>4. ASSUME NEW c \in Callers, NotifyRequest(c) PROVE OnItsWay'
  <2>1. /\ adding'[c] = NotAdding
        /\ \A d \in Callers \ {c} : adding'[d] = adding[d]
        /\ UNCHANGED added
    BY <1>4 DEF NotifyRequest, TypeOK
  <2>2. ASSUME NEW d \in Callers, adding'[d].stage = "called"
        PROVE  /\ adding'[d].request \notin added'
               /\ \A x \in Callers \ {d} :
                    adding'[x].stage = "called" => adding'[x].request # adding'[d].request
    <3>1. d # c /\ adding[d].stage = "called" /\ adding'[d] = adding[d]
      BY <2>1, <2>2 DEF NotAdding
    <3> QED
      BY <2>1, <3>1 DEF OnItsWay, NotAdding
  <2> QED
    BY <2>2 DEF OnItsWay
<1> QED
  BY <1>1, <1>2, <1>3, <1>4 DEF Next, Caller, Worker, Destructor, vars,
     CheckRunThread, LockRequestMutex, SwapQueues, DecideToWait, Block, SpuriousWakeUp,
     HandleRequest, HandleTextRequest, CallbackReturns, BatchDone, Activate, Deactivate,
     ClearRunThread, NotifyStop, Join

LEMMA WorkerInductive ==
  TypeOK /\ WorkerState /\ NoRequestSleptOn /\ [Next]_vars => WorkerState' /\ NoRequestSleptOn'
<1> SUFFICES ASSUME TypeOK, WorkerState, NoRequestSleptOn, [Next]_vars
             PROVE  WorkerState' /\ NoRequestSleptOn'
  OBVIOUS
<1> USE DEF queueVars, workerVars, componentVars, ghostVars, WorkerState, NoRequestSleptOn
<1>1. ASSUME NEW c \in Callers, NEW r \in Requests, CallAddRequest(c, r)
      PROVE  WorkerState' /\ NoRequestSleptOn'
  <2>1. \A d \in Callers : adding[d].stage = "pushed" => adding'[d] = adding[d]
    BY <1>1 DEF CallAddRequest, TypeOK
  <2> QED
    BY <1>1, <2>1 DEF CallAddRequest
<1>2. ASSUME NEW c \in Callers, PushRequest(c) PROVE WorkerState' /\ NoRequestSleptOn'
  <2>1. adding'[c].stage = "pushed"
    BY <1>2 DEF PushRequest, TypeOK, Adding
  <2>2. thread \notin {"test", "block"}
    BY <1>2 DEF PushRequest, TypeOK
  <2> QED
    BY <1>2, <2>1, <2>2 DEF PushRequest
<1>3. ASSUME NEW c \in Callers, NotifyRequest(c) PROVE WorkerState' /\ NoRequestSleptOn'
  BY <1>3 DEF NotifyRequest, NotifyAll, TypeOK
<1>4. CASE CheckRunThread
  BY <1>4 DEF CheckRunThread, TypeOK
<1>5. CASE LockRequestMutex
  BY <1>5 DEF LockRequestMutex, TypeOK
<1>6. CASE SwapQueues
  BY <1>6 DEF SwapQueues, TypeOK
<1>7. CASE DecideToWait
  BY <1>7 DEF DecideToWait, MustWakeUp, TypeOK
<1>8. CASE Block
  BY <1>8 DEF Block, TypeOK
<1>9. CASE SpuriousWakeUp
  BY <1>9 DEF SpuriousWakeUp, TypeOK
<1>10. CASE HandleRequest
  BY <1>10 DEF HandleRequest, CallBack, TypeOK
<1>11. CASE HandleTextRequest
  BY <1>11 DEF HandleTextRequest, CallBack, TypeOK
<1>12. CASE CallbackReturns \/ BatchDone
  BY <1>12 DEF CallbackReturns, BatchDone, TypeOK
<1>13. CASE Activate
  BY <1>13 DEF Activate, TypeOK
<1>14. CASE Deactivate \/ ClearRunThread
  BY <1>14 DEF Deactivate, ClearRunThread, TypeOK
<1>15. CASE NotifyStop
  BY <1>15 DEF NotifyStop, NotifyAll, TypeOK
<1>16. CASE Join
  BY <1>16 DEF Join, TypeOK
<1>17. CASE UNCHANGED vars
  BY <1>17 DEF vars
<1> QED
  BY <1>1, <1>2, <1>3, <1>4, <1>5, <1>6, <1>7, <1>8, <1>9, <1>10, <1>11, <1>12, <1>13,
     <1>14, <1>15, <1>16, <1>17 DEF Next, Caller, Worker, Destructor

LEMMA InitInvariant == Init => IInv
<1> SUFFICES ASSUME Init PROVE IInv
  OBVIOUS
<1>1. \A S : <<>> \in Seq(S)
  OBVIOUS
<1>2. NotAdding \in Adding
  BY DEF NotAdding, Adding
<1>3. TypeOK
  BY <1>1, <1>2 DEF Init, TypeOK, NotAdding
<1>4. Placed
  BY <1>1 DEF Init, Placed, Answers
<1>5. OnItsWay /\ WorkerState /\ NoRequestSleptOn
  BY DEF Init, OnItsWay, WorkerState, NoRequestSleptOn, NotAdding
<1> QED
  BY <1>3, <1>4, <1>5 DEF IInv

LEMMA Invariance == Spec => []IInv
<1>1. IInv /\ [Next]_vars => IInv'
  BY TypeInductive, PlacedInductive, OnItsWayInductive, WorkerInductive DEF IInv
<1> QED
  BY InitInvariant, <1>1, PTL DEF Spec

(* The queues only ever hold requests of their own kind, and a caller that *)
(* entered AddRequest carries one.                                         *)
THEOREM TypeCorrect == Spec => []TypeOK
<1>1. IInv => TypeOK
  BY DEF IInv
<1> QED
  BY <1>1, Invariance, PTL

(* No wake-up for a request is lost: a worker asleep on a queued request   *)
(* has a notification coming.                                              *)
THEOREM NeverSleptOn == Spec => []NoRequestSleptOn
<1>1. IInv => NoRequestSleptOn
  BY DEF IInv
<1> QED
  BY <1>1, Invariance, PTL


-----------------------------------------------------------------------------
(* The gem implements HttpService. *)

(* A callback called for request r appends r to what was answered.         *)
LEMMA CallBackAnswers ==
  ASSUME TypeOK, NEW r \in Requests, CallBack(r)
  PROVE  AnsweredInOrder' = Append(AnsweredInOrder, r)
<1>1. PICK response \in Responses :
        answers' = Append(answers, [request |-> r, outcome |-> Outcome(r, response)])
  BY DEF CallBack
<1> DEFINE a == [request |-> r, outcome |-> Outcome(r, response)]
           n == Len(answers)
<1>2. a \in [request : Requests, outcome : {"internal_error", "refused", "ok"}] /\ a.request = r
  BY DEF Outcome
<1> HIDE DEF a
<1>3. /\ answers \in Answers(Requests) /\ n \in Nat /\ DOMAIN answers = 1..n
      /\ \A i \in 1..n : answers[i].request \in Requests
  <2>1. answers \in Answers(Requests)
    BY DEF TypeOK, Answers
  <2>2. \A i \in 1..n :
          answers[i] \in [request : Requests, outcome : {"internal_error", "refused", "ok"}]
    BY <2>1, ElementOfSeq DEF Answers
  <2> QED
    BY <2>1, <2>2, LenProperties DEF Answers
<1>4. /\ answers' \in Answers(Requests) /\ Len(answers') = n + 1 /\ answers'[n + 1] = a
      /\ \A i \in 1..n : answers'[i] = answers[i]
  BY <1>1, <1>2, <1>3, AppendProperties DEF Answers, a
<1>5. /\ AnsweredInOrder \in Seq(Requests) /\ Len(AnsweredInOrder) = n
      /\ \A i \in 1..n : AnsweredInOrder[i] = answers[i].request
  BY <1>3 DEF AnsweredInOrder
<1>6. /\ DOMAIN answers' = 1..(n + 1)
      /\ \A i \in 1..(n + 1) : answers'[i].request = IF i = n + 1 THEN r ELSE answers[i].request
  BY <1>2, <1>3, <1>4 DEF Answers
<1>7. /\ AnsweredInOrder' \in Seq(Requests) /\ Len(AnsweredInOrder') = n + 1
      /\ \A i \in 1..(n + 1) : AnsweredInOrder'[i] = IF i = n + 1 THEN r ELSE answers[i].request
  BY <1>3, <1>6 DEF AnsweredInOrder
<1>8. /\ Append(AnsweredInOrder, r) \in Seq(Requests) /\ Len(Append(AnsweredInOrder, r)) = n + 1
      /\ \A i \in 1..n : Append(AnsweredInOrder, r)[i] = answers[i].request
      /\ Append(AnsweredInOrder, r)[n + 1] = r
  BY <1>5, AppendProperties
<1>9. \A i \in 1..(n + 1) : AnsweredInOrder'[i] = Append(AnsweredInOrder, r)[i]
  BY <1>3, <1>7, <1>8
<1> QED
  BY <1>7, <1>8, <1>9, SeqEqual

LEMMA AnsweredWereAdded ==
  ASSUME Placed
  PROVE  AnsweredInOrder \in Seq(added) /\ \A k \in {"json", "text"} : Pending(k) \in Seq(added)
<1>1. AnsweredInOrder \in Seq(added)
  <2>1. DOMAIN answers = 1..Len(answers) /\ Len(answers) \in Nat
    BY LenProperties DEF Placed, Answers
  <2>2. \A i \in 1..Len(answers) :
          answers[i] \in [request : added, outcome : {"internal_error", "refused", "ok"}]
    BY ElementOfSeq DEF Placed, Answers
  <2>3. AnsweredInOrder \in [1..Len(answers) -> added]
    BY <2>1, <2>2 DEF AnsweredInOrder
  <2> QED
    BY <2>1, <2>3
<1> QED
  BY <1>1, ConcatProperties DEF Placed, Pending

LEMMA PushAdds ==
  ASSUME IInv, NEW c \in Callers, PushRequest(c)
  PROVE  Service!Next
<1>1. PICK r \in Requests : r = adding[c].request
  BY DEF IInv, TypeOK, PushRequest
<1>2. r \notin added /\ UNCHANGED <<batch, textBatch, answers, abandoned>>
  BY <1>1 DEF IInv, OnItsWay, PushRequest, workerVars
<1>3. /\ batch \in Seq(Requests) /\ requestsToHandle \in Seq(Requests)
      /\ textBatch \in Seq(Requests) /\ textRequestsToHandle \in Seq(Requests)
  BY SeqMonotonic DEF IInv, TypeOK, Placed
<1>4. \A k \in {"json", "text"} :
        r \notin Service!Elements(Pending(k)) \union Service!Elements(AnsweredInOrder)
                 \union abandoned
  BY <1>2, AnsweredWereAdded DEF Service!Elements, IInv, Placed
<1>5. UNCHANGED AnsweredInOrder
  BY <1>2 DEF AnsweredInOrder
<1>6. CASE /\ r \in JsonRequests
           /\ requestsToHandle' = Append(requestsToHandle, r) /\ UNCHANGED textRequestsToHandle
  <2>1. Pending("json")' = Append(Pending("json"), r) /\ Pending("text")' = Pending("text")
    BY <1>2, <1>3, <1>6, ConcatAppend DEF Pending
  <2>2. Service!Add("json", r)
    BY <1>2, <1>4, <1>5, <2>1 DEF Service!Add
  <2> QED
    BY <1>6, <2>2 DEF Service!Next, Service!Kinds, Service!OfKind
<1>7. CASE /\ r \in TextRequests
           /\ textRequestsToHandle' = Append(textRequestsToHandle, r) /\ UNCHANGED requestsToHandle
  <2>1. Pending("text")' = Append(Pending("text"), r) /\ Pending("json")' = Pending("json")
    BY <1>2, <1>3, <1>7, ConcatAppend DEF Pending
  <2>2. Service!Add("text", r)
    BY <1>2, <1>4, <1>5, <2>1 DEF Service!Add
  <2> QED
    BY <1>7, <2>2 DEF Service!Next, Service!Kinds, Service!OfKind
<1> QED
  BY <1>1, <1>6, <1>7 DEF PushRequest

LEMMA HandleAnswers ==
  ASSUME IInv, HandleRequest \/ HandleTextRequest
  PROVE  Service!Next
<1>1. CASE HandleRequest
  <2>1. Pending("json") # <<>> /\ Head(Pending("json")) = Head(batch)
        /\ Tail(Pending("json")) = Tail(batch) \o requestsToHandle
    BY <1>1, TailOfConcat DEF HandleRequest, IInv, Placed, Pending
  <2>2. Pending("json")' = Tail(Pending("json")) /\ Pending("text")' = Pending("text")
    BY <1>1, <2>1 DEF HandleRequest, Pending, queueVars
  <2>3. AnsweredInOrder' = Append(AnsweredInOrder, Head(Pending("json")))
    BY <1>1, <2>1, CallBackAnswers, HeadTailProperties DEF HandleRequest, IInv, TypeOK, Requests
  <2>4. Service!Answer("json")
    BY <1>1, <2>1, <2>2, <2>3 DEF Service!Answer, HandleRequest
  <2> QED
    BY <2>4 DEF Service!Next, Service!Kinds
<1>2. CASE HandleTextRequest
  <2>1. Pending("text") # <<>> /\ Head(Pending("text")) = Head(textBatch)
        /\ Tail(Pending("text")) = Tail(textBatch) \o textRequestsToHandle
    BY <1>2, TailOfConcat DEF HandleTextRequest, IInv, Placed, Pending
  <2>2. Pending("text")' = Tail(Pending("text")) /\ Pending("json")' = Pending("json")
    BY <1>2, <2>1 DEF HandleTextRequest, Pending, queueVars
  <2>3. AnsweredInOrder' = Append(AnsweredInOrder, Head(Pending("text")))
    BY <1>2, <2>1, CallBackAnswers, HeadTailProperties DEF HandleTextRequest, IInv, TypeOK, Requests
  <2>4. Service!Answer("text")
    BY <1>2, <2>1, <2>2, <2>3 DEF Service!Answer, HandleTextRequest
  <2> QED
    BY <2>4 DEF Service!Next, Service!Kinds
<1> QED
  BY <1>1, <1>2

LEMMA JoinAbandons ==
  ASSUME IInv, Join
  PROVE  Service!Next
<1>1. batch = <<>> /\ textBatch = <<>> /\ UNCHANGED <<batch, textBatch, answers>>
      /\ requestsToHandle' = <<>> /\ textRequestsToHandle' = <<>>
  BY DEF Join, IInv, WorkerState
<1>2. Pending("json") = requestsToHandle /\ Pending("text") = textRequestsToHandle
  BY <1>1, ConcatEmptySeq DEF Pending, IInv, Placed
<1>3. Pending("json")' = <<>> /\ Pending("text")' = <<>>
  BY <1>1, ConcatEmptySeq DEF Pending
<1>4. abandoned' = abandoned \union UNION {Service!Elements(Pending(k)) : k \in Service!Kinds}
  BY <1>2 DEF Join, ToSet, Service!Elements, Service!Kinds
<1>5. UNCHANGED AnsweredInOrder
  BY <1>1 DEF AnsweredInOrder
<1>6. Service!Abandon
  BY <1>2, <1>3, <1>4, <1>5 DEF Service!Abandon, Service!Elements, Service!Kinds
<1> QED
  BY <1>6 DEF Service!Next

(* Every step of the threads is a step of HttpService or leaves it alone:  *)
(* requests of a kind are answered once each, in the order of their        *)
(* arrival, across any number of batches and activations.                  *)
THEOREM ServiceImplemented == Spec => ImplementsService
<1>1. Init => Service!Init
  BY ConcatEmptySeq DEF Init, Service!Init, Service!Kinds, Pending, AnsweredInOrder
<1>2. IInv /\ [Next]_vars => [Service!Next]_(Service!vars)
  <2> SUFFICES ASSUME IInv, [Next]_vars PROVE [Service!Next]_(Service!vars)
    OBVIOUS
  <2>1. ASSUME NEW c \in Callers, PushRequest(c) PROVE Service!Next
    BY <2>1, PushAdds
  <2>2. CASE HandleRequest \/ HandleTextRequest
    BY <2>2, HandleAnswers
  <2>3. CASE Join
    BY <2>3, JoinAbandons
  <2>4. CASE SwapQueues
    <3>1. batch = <<>> /\ textBatch = <<>>
      BY <2>4 DEF SwapQueues, IInv, WorkerState
    <3>2. Pending("json")' = Pending("json") /\ Pending("text")' = Pending("text")
      BY <2>4, <3>1, ConcatEmptySeq DEF SwapQueues, Pending, IInv, Placed
    <3> QED
      BY <2>4, <3>2 DEF SwapQueues, ghostVars, AnsweredInOrder, Service!vars
  <2>5. CASE UNCHANGED <<queueVars, batch, textBatch, answers, abandoned>>
    BY <2>5 DEF queueVars, Pending, AnsweredInOrder, Service!vars
  <2> QED
    BY <2>1, <2>2, <2>3, <2>4, <2>5 DEF Next, Caller, Worker, Destructor, vars, queueVars,
       workerVars, componentVars, ghostVars,
       CallAddRequest, NotifyRequest, CheckRunThread, LockRequestMutex, DecideToWait, Block,
       SpuriousWakeUp, CallbackReturns, BatchDone, Activate, Deactivate, ClearRunThread, NotifyStop
<1> QED
  BY <1>1, <1>2, Invariance, PTL DEF Spec, ImplementsService, Service!Spec
=============================================================================
