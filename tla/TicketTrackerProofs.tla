------------------------- MODULE TicketTrackerProofs -------------------------
(***************************************************************************)
(* Proofs about the ticket tracker, inside the composition with GameLift,   *)
(* the network and the server: RunningIsTracked, PollsKeepPeriod and        *)
(* QuietOnceDeactivated hold for any tickets and any number of calls.       *)
(***************************************************************************)
EXTENDS GameLiftMatch, TLAPS

(* What the owner of m_trackerMutex has established.  While StartPolling    *)
(* runs, the bus is connected and no thread is in its loop; its semaphore   *)
(* is released.  While StopPolling runs the tracker is idle, which is what  *)
(* keeps the thread it joins from being taken for one that is tracked.      *)
CallInv ==
  /\ call # NoCall => call.op \in {"start", "stop"} /\ status = "Idle"
  /\ call.op = "start" =>
       /\ active /\ permit = 1
       /\ thread.place \in {"returned", "none"}
       /\ call.joined => thread = NoThread

TrackerInv ==
  /\ TrackerTypeOK
  /\ CallInv
  /\ RunningIsTracked
  /\ PollsKeepPeriod
  /\ QuietOnceDeactivated

-----------------------------------------------------------------------------
(* The tracker starts idle, with no thread and nothing released. *)
LEMMA InitTracker == TrackerInit => TrackerInv
BY TrackerAssumption
   DEF TrackerInit, TrackerInv, TrackerTypeOK, CallInv, RunningIsTracked, PollsKeepPeriod,
       QuietOnceDeactivated, NoThread, Thread, NoCall, Live, InLoop, Places

(* Every call of the game or of a handler keeps the invariant, as it begins. *)
LEMMA CallsKeepInv == TrackerInv /\ GameStep => TrackerInv'
<1> USE TrackerAssumption
    DEF TrackerInv, TrackerTypeOK, CallInv, RunningIsTracked, PollsKeepPeriod,
        QuietOnceDeactivated, NoThread, Thread, NoCall, Live, InLoop, Places, Call
<1> SUFFICES ASSUME TrackerInv, GameStep PROVE TrackerInv'
  OBVIOUS
<1>1. CASE StartPollingRefused
  BY <1>1 DEF StartPollingRefused
<1>2. CASE \E ticket \in Tickets : StartPolling(ticket)
  BY <1>2 DEF StartPolling
<1>3. CASE \E disconnects \in BOOLEAN : StopPolling(disconnects)
  BY <1>3 DEF StopPolling
<1>4. CASE ActivateTracker
  BY <1>4 DEF ActivateTracker
<1>5. CASE HandlerStartPolling
  <2>1. thread # NoThread /\ call.op # "start" /\ (call = NoCall => active)
    BY <1>5 DEF HandlerStartPolling
  <2>2. thread' = [thread EXCEPT !.asks = TRUE] /\ thread'.place = thread.place
    BY <1>5 DEF HandlerStartPolling
  <2>3. calls' \in 0 .. MaxCalls
    BY <1>5 DEF HandlerStartPolling
  <2>4. thread' \in [place : Places, ticket : Tickets \union {NoTicket}, asks : BOOLEAN]
    BY <2>2
  <2>. QED
    BY <1>5, <2>1, <2>2, <2>3, <2>4 DEF HandlerStartPolling
<1>. QED
  BY <1>1, <1>2, <1>3, <1>4, <1>5 DEF GameStep

(* The join takes the thread away, and the new thread starts with the       *)
(* semaphore acquired.                                                      *)
LEMMA JoinKeepsInv == TrackerInv /\ CallStep => TrackerInv'
<1> USE TrackerAssumption
    DEF TrackerInv, TrackerTypeOK, CallInv, RunningIsTracked, PollsKeepPeriod,
        QuietOnceDeactivated, NoThread, Thread, NoCall, Live, InLoop, Places
<1> SUFFICES ASSUME TrackerInv, CallStep PROVE TrackerInv'
  OBVIOUS
<1>1. CASE Join
  <2>1. CASE call.op = "stop"
    BY <1>1, <2>1 DEF Join, Joinable
  <2>2. CASE call.op # "stop"
    BY <1>1, <2>2 DEF Join, Joinable
  <2>. QED
    BY <2>1, <2>2
<1>2. CASE CreateThread
  BY <1>2 DEF CreateThread
<1>. QED
  BY <1>1, <1>2 DEF CallStep

(* What the thread does by itself: only a wait takes the semaphore, and     *)
(* only the thread that ends makes the tracker idle.                        *)
LEMMA ThreadKeepsInv == TrackerInv /\ (ThreadStep \/ Answered) => TrackerInv'
<1> USE TrackerAssumption
    DEF TrackerInv, TrackerTypeOK, CallInv, RunningIsTracked, PollsKeepPeriod,
        QuietOnceDeactivated, NoThread, Thread, NoCall, Live, InLoop, Places, At, GoTo
<1> SUFFICES ASSUME TrackerInv, ThreadStep \/ Answered PROVE TrackerInv'
  OBVIOUS
<1>1. CASE TestStatus
  BY <1>1 DEF TestStatus
<1>2. CASE HandlersReturn
  BY <1>2 DEF HandlersReturn
<1>3. CASE Conclude
  BY <1>3 DEF Conclude
<1>4. CASE Wait
  BY <1>4 DEF Wait
<1>5. CASE HandlerStartRefused
  <2>1. thread # NoThread /\ (call = NoCall => active)
    BY <1>5 DEF HandlerStartRefused
  <2>2. call.op = "start" => active /\ call # NoCall
    OBVIOUS
  <2>3. call.op # "start"
    BY <1>5, <2>2 DEF HandlerStartRefused
  <2>4. thread' = [thread EXCEPT !.asks = FALSE] /\ thread'.place = thread.place
    BY <1>5 DEF HandlerStartRefused
  <2>5. thread' \in [place : Places, ticket : Tickets \union {NoTicket}, asks : BOOLEAN]
    BY <2>4
  <2>. QED
    BY <1>5, <2>1, <2>3, <2>4, <2>5 DEF HandlerStartRefused
<1>6. CASE Answered
  BY <1>6 DEF Answered, TicketEnds, TicketNotified, TicketProcessing
<1>. QED
  BY <1>1, <1>2, <1>3, <1>4, <1>5, <1>6 DEF ThreadStep

LEMMA TrackerKeepsInv == TrackerInv /\ [TrackerNext]_trackerVars => TrackerInv'
<1> SUFFICES ASSUME TrackerInv, [TrackerNext]_trackerVars PROVE TrackerInv'
  OBVIOUS
<1>1. CASE TrackerNext
  BY <1>1, CallsKeepInv, JoinKeepsInv, ThreadKeepsInv DEF TrackerNext
<1>2. CASE UNCHANGED trackerVars
  BY <1>2 DEF trackerVars, TrackerInv, TrackerTypeOK, CallInv, RunningIsTracked,
              PollsKeepPeriod, QuietOnceDeactivated
<1>. QED
  BY <1>1, <1>2

-----------------------------------------------------------------------------
(* The composition implements the tracker by itself: GameLift, the network  *)
(* and the server leave it alone, and every answer of GameLift is one the   *)
(* tracker expects at any time.  (ProcessPolling)                           *)
THEOREM MatchImplementsTracker == MatchSpec => TrackerSpec
<1>1. MatchInit => TrackerInit
  BY DEF MatchInit
<1>2. [MatchNext]_gameLiftVars => [TrackerNext]_trackerVars
  <2> SUFFICES ASSUME [MatchNext]_gameLiftVars PROVE [TrackerNext]_trackerVars
    OBVIOUS
  <2>1. CASE TrackerStep
    BY <2>1 DEF TrackerStep, TrackerNext
  <2>2. CASE DescribeMatchmaking
    BY <2>2 DEF DescribeMatchmaking, TrackerNext, Answered
  <2>3. CASE \E t \in Tickets : MatchFound(t) \/ MatchFailed(t)
    BY <2>3 DEF MatchFound, MatchFailed
  <2>4. CASE \E s \in PlayerSessions :
               ReservationExpires(s) /\ UNCHANGED <<matchVars, trackerVars>>
    BY <2>4
  <2>5. CASE \E w \in ServerThreads :
               \/ \E c \in Connections, s \in PlayerSessions : Connect(w, c, s)
               \/ \E c \in Connections : Disconnect(w, c)
               \/ ManagerStep(w) /\ UNCHANGED <<matchVars, trackerVars>>
    BY <2>5 DEF Connect, Disconnect
  <2>6. CASE UNCHANGED gameLiftVars
    BY <2>6 DEF gameLiftVars
  <2>. QED
    BY <2>1, <2>2, <2>3, <2>4, <2>5, <2>6 DEF MatchNext
<1>. QED
  BY <1>1, <1>2, PTL DEF MatchSpec, TrackerSpec

LEMMA MatchKeepsTracker == MatchSpec => []TrackerInv
<1>1. TrackerSpec => []TrackerInv
  BY InitTracker, TrackerKeepsInv, PTL DEF TrackerSpec
<1>. QED
  BY <1>1, MatchImplementsTracker, PTL

(* Every variable of the tracker has the values the code can give it: the   *)
(* semaphore is released at most once.                                      *)
THEOREM MatchTrackerTypeOK == MatchSpec => []TrackerTypeOK
BY MatchKeepsTracker, PTL DEF TrackerInv

(* Between two calls the tracker is running exactly if a thread follows its *)
(* ticket: StartPolling neither refuses for a thread that is gone nor       *)
(* starts a second one.                                                     *)
THEOREM MatchRunningIsTracked == MatchSpec => []RunningIsTracked
BY MatchKeepsTracker, PTL DEF TrackerInv

(* No thread finds the semaphore released by an earlier call: its polls     *)
(* keep their period until a StopPolling ends it.                           *)
THEOREM MatchPollsKeepPeriod == MatchSpec => []PollsKeepPeriod
BY MatchKeepsTracker, PTL DEF TrackerInv

(* A deactivated tracker has no thread left.                                *)
THEOREM MatchQuietOnceDeactivated == MatchSpec => []QuietOnceDeactivated
BY MatchKeepsTracker, PTL DEF TrackerInv
=============================================================================
