----------------------------- MODULE TicketTracker -----------------------------
(***************************************************************************)
(* AWSGameLiftClientLocalTicketTracker: a thread asks GameLift for the       *)
(* state of one matchmaking ticket, period by period, until the ticket ends *)
(* or the game stops it.                                                   *)
(*                                                                         *)
(* The game's threads call StartPolling and StopPolling over the bus, whose *)
(* recursive mutex they hold as well as m_trackerMutex, from beginning to   *)
(* end: a call that waits has done nothing yet, at most one is under way,   *)
(* and none arrives once DeactivateTracker has left the bus.  Handlers of   *)
(* the tracker's notifications run on its thread and may call too.          *)
(*                                                                         *)
(* Left out: callers through AZ::Interface, where the tracker registers too *)
(* (AWSGameLiftClientLocalTicketTracker.cpp:33), who hold m_trackerMutex    *)
(* only, and may wait for it while a deactivation goes on; and a            *)
(* StopPolling from a handler, where the thread joins itself.  What is      *)
(* shown below holds without them.                                         *)
(***************************************************************************)
EXTENDS Naturals

CONSTANTS
  Tickets,    \* matchmaking ticket ids
  NoTicket,   \* none of them
  MaxCalls    \* bound on the calls of the game and of its handlers

ASSUME TrackerAssumption == NoTicket \notin Tickets /\ MaxCalls \in Nat

VARIABLES
  active,     \* connected to its bus: between ActivateTracker and DeactivateTracker
  status,     \* m_status
  permit,     \* m_waitEvent, a binary semaphore
  thread,     \* m_trackerThread: where it is, its ticket, and whether a handler
              \* it runs waits for the mutexes
  call,       \* the call that holds m_trackerMutex
  calls       \* how many calls were made

trackerVars == <<active, status, permit, thread, call, calls>>

(* The thread's places: the loop's test, the request, the handlers of a     *)
(* notification, those of the last one, the timed wait; returned, but still *)
(* joinable; or no thread.                                                 *)
InLoop == {"test", "describe", "notify", "wait"}
Live == InLoop \union {"conclude"}
Places == Live \union {"returned", "none"}

Thread(place, ticket) == [place |-> place, ticket |-> ticket, asks |-> FALSE]
NoThread == Thread("none", NoTicket)
NoCall == [op |-> "none", ticket |-> NoTicket, joined |-> FALSE]

TrackerInit ==
  /\ active = TRUE /\ status = "Idle" /\ permit = 0
  /\ thread = NoThread /\ call = NoCall /\ calls = 0

GoTo(place) == thread' = [thread EXCEPT !.place = place]

Call == call = NoCall /\ calls < MaxCalls /\ calls' = calls + 1

-----------------------------------------------------------------------------
(* StartPolling returns at once while a ticket is tracked.                  *)
StartPollingRefused ==
  /\ Call
  /\ active /\ status = "Running"
  /\ UNCHANGED <<active, status, permit, thread, call>>

(* Mutant: the semaphore is not released. *)
StartPollingUnreleased(ticket) ==
  /\ Call
  /\ active /\ status # "Running"
  /\ call' = [op |-> "start", ticket |-> ticket, joined |-> FALSE]
  /\ UNCHANGED <<active, status, permit, thread>>

(* Otherwise it releases the semaphore, joins the last thread ...           *)
StartPolling(ticket) ==
  /\ Call
  /\ active /\ status # "Running"
  /\ permit' = 1
  /\ call' = [op |-> "start", ticket |-> ticket, joined |-> FALSE]
  /\ UNCHANGED <<active, status, thread>>

(* Mutant: the semaphore counts. *)
StopPollingCounted(disconnects) ==
  /\ Call
  /\ active /\ active' = ~disconnects
  /\ status' = "Idle"
  /\ permit' = permit + 1
  /\ call' = [op |-> "stop", ticket |-> NoTicket, joined |-> FALSE]
  /\ UNCHANGED thread

(* Mutant: the thread is left to itself. *)
StopPollingDetached(disconnects) ==
  /\ Call
  /\ active /\ active' = ~disconnects
  /\ status' = "Idle"
  /\ permit' = 1
  /\ call' = NoCall
  /\ UNCHANGED thread

(* StopPolling, which DeactivateTracker calls after it has left the bus.    *)
StopPolling(disconnects) ==
  /\ Call
  /\ active /\ active' = ~disconnects
  /\ status' = "Idle"
  /\ permit' = 1
  /\ call' = [op |-> "stop", ticket |-> NoTicket, joined |-> FALSE]
  /\ UNCHANGED thread

Joinable == thread.place # "none"

(* join, for either call.                                                   *)
Join ==
  /\ call # NoCall /\ ~call.joined
  /\ Joinable => thread.place = "returned"
  /\ thread' = NoThread
  /\ call' = IF call.op = "stop" THEN NoCall ELSE [call EXCEPT !.joined = TRUE]
  /\ UNCHANGED <<active, status, permit, calls>>

(* Mutant: the semaphore is left released. *)
CreateThreadWithPermit ==
  /\ call.op = "start" /\ call.joined
  /\ status' = "Running"
  /\ thread' = Thread("test", call.ticket)
  /\ call' = NoCall
  /\ UNCHANGED <<active, permit, calls>>

(* ... and acquires the semaphore before it starts the new one.             *)
CreateThread ==
  /\ call.op = "start" /\ call.joined
  /\ permit = 1
  /\ permit' = 0
  /\ status' = "Running"
  /\ thread' = Thread("test", call.ticket)
  /\ call' = NoCall
  /\ UNCHANGED <<active, calls>>

ActivateTracker ==
  /\ Call
  /\ ~active
  /\ active' = TRUE
  /\ UNCHANGED <<status, permit, thread, call>>

-----------------------------------------------------------------------------
(* ProcessPolling *)
At(place) == thread.place = place /\ UNCHANGED <<active, call, calls>>

TestStatus ==
  /\ At("test")
  /\ GoTo(IF status = "Running" THEN "describe" ELSE "returned")
  /\ UNCHANGED <<status, permit>>

(* The ticket is complete, and the player joined to the match, or it timed  *)
(* out, failed or was cancelled.                                            *)
TicketEnds == At("describe") /\ GoTo("conclude") /\ UNCHANGED <<status, permit>>

(* It requires acceptance, or the request failed: a notification each.      *)
TicketNotified == At("describe") /\ GoTo("notify") /\ UNCHANGED <<status, permit>>

TicketProcessing == At("describe") /\ GoTo("wait") /\ UNCHANGED <<status, permit>>

HandlersReturn ==
  /\ At("notify") /\ ~thread.asks
  /\ GoTo("wait")
  /\ UNCHANGED <<status, permit>>

(* Mutant: the thread ends without saying so. *)
ConcludeStillRunning ==
  /\ At("conclude") /\ ~thread.asks
  /\ GoTo("returned")
  /\ UNCHANGED <<status, permit>>

(* Only after the handlers of OnMatchComplete or OnMatchFailure.            *)
Conclude ==
  /\ At("conclude") /\ ~thread.asks
  /\ status' = "Idle"
  /\ GoTo("returned")
  /\ UNCHANGED permit

(* try_acquire_for: released, or the period is over.                        *)
Wait ==
  /\ At("wait")
  /\ GoTo("test")
  /\ permit' = 0
  /\ UNCHANGED status

(* A handler calls StartPolling and waits for the mutexes; once it has them *)
(* the ticket it runs for is still tracked, or nobody is on the bus, and    *)
(* nothing happens.                                                         *)
HandlerStartPolling ==
  /\ active
  /\ thread.place \in {"notify", "conclude"} /\ ~thread.asks
  /\ calls < MaxCalls /\ calls' = calls + 1
  /\ thread' = [thread EXCEPT !.asks = TRUE]
  /\ UNCHANGED <<active, status, permit, call>>

HandlerStartRefused ==
  /\ thread.asks
  /\ (call = NoCall /\ status = "Running") \/ ~active
  /\ thread' = [thread EXCEPT !.asks = FALSE]
  /\ UNCHANGED <<active, status, permit, call, calls>>

-----------------------------------------------------------------------------
GameStep ==
  \/ StartPollingRefused
  \/ \E ticket \in Tickets : StartPolling(ticket)
  \/ \E disconnects \in BOOLEAN : StopPolling(disconnects)
  \/ ActivateTracker
  \/ HandlerStartPolling

CallStep == Join \/ CreateThread
ThreadStep == TestStatus \/ HandlersReturn \/ Conclude \/ Wait \/ HandlerStartRefused
Answered == TicketEnds \/ TicketNotified \/ TicketProcessing

TrackerNext == GameStep \/ CallStep \/ ThreadStep \/ Answered

TrackerSpec == TrackerInit /\ [][TrackerNext]_trackerVars

-----------------------------------------------------------------------------
(* Every variable keeps its type. *)
TrackerTypeOK ==
  /\ active \in BOOLEAN
  /\ status \in {"Idle", "Running"}
  /\ permit \in {0, 1}
  /\ thread \in [place : Places, ticket : Tickets \union {NoTicket}, asks : BOOLEAN]
  /\ call \in [op : {"none", "start", "stop"}, ticket : Tickets \union {NoTicket},
               joined : BOOLEAN]
  /\ calls \in 0 .. MaxCalls

(* Between two calls the tracker runs exactly if its thread still has a     *)
(* ticket to follow: StartPolling neither refuses a ticket for a thread     *)
(* that is gone, nor starts one beside another.  (m_status and              *)
(* m_trackerThread, under the mutex and outside of it)                      *)
RunningIsTracked == call = NoCall => (status = "Running" <=> thread.place \in Live)

(* A thread in its loop finds the semaphore released only when it is being  *)
(* stopped, so that no poll is made before its period is over, whatever     *)
(* calls and threads came before.  (the release and acquire of StartPolling) *)
PollsKeepPeriod == (thread.place \in InLoop /\ permit = 1) => call.op = "stop"

(* Once a deactivation has returned there is no thread that could ask       *)
(* GameLift or notify anyone, whatever calls over the bus crossed it: there *)
(* may be no client to ask then.  (DeactivateTracker)                       *)
QuietOnceDeactivated == (~active /\ call = NoCall) => thread = NoThread

(* A call over the bus returns in the end, except a StopPolling while a     *)
(* handler on the thread it joins waits for the mutex; a deactivation       *)
(* always does.  (acquire does not block; join)                             *)
Deadlocked == thread.asks /\ call.op = "stop" /\ active
CallsReturn == call # NoCall ~> (call = NoCall \/ Deadlocked)
=============================================================================
