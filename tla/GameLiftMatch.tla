----------------------------- MODULE GameLiftMatch -----------------------------
(***************************************************************************)
(* A client's ticket tracker and the manager of the server its match is     *)
(* placed on, joined by GameLift and the network.  The player session of a  *)
(* ticket has the ticket's name.                                            *)
(***************************************************************************)
EXTENDS TicketTracker, GameLiftServer

VARIABLES
  ticketStatus,   \* tickets at GameLift
  joining         \* sessions the client has connected with

matchVars == <<ticketStatus, joining>>
gameLiftVars == <<trackerVars, serverVars, matchVars>>

ASSUME MatchAssumption == PlayerSessions = Tickets

MatchInit ==
  /\ TrackerInit /\ ServerInit
  /\ ticketStatus = [t \in Tickets |-> "queued"]
  /\ joining = {}

-----------------------------------------------------------------------------
(* GameLift: a ticket is processed until it ends, and a place reserved when *)
(* a match was found.                                                       *)
MatchFound(t) ==
  /\ ticketStatus[t] = "queued"
  /\ ticketStatus' = [ticketStatus EXCEPT ![t] = "completed"]
  /\ Reserve(t)
  /\ UNCHANGED <<connectedPlayers, serving, stray, joining, trackerVars>>

MatchFailed(t) ==
  /\ ticketStatus[t] = "queued"
  /\ ticketStatus' = [ticketStatus EXCEPT ![t] = "failed"]
  /\ UNCHANGED <<joining, serverVars, trackerVars>>

(* DescribeMatchmaking: RequestPlayerJoinMatch connects with the session of *)
(* the player, unless the match names none for it or connecting fails.      *)
DescribeMatchmaking ==
  /\ thread.place = "describe"
  /\ \/ /\ ticketStatus[thread.ticket] = "completed"
        /\ TicketEnds
        /\ joining' \in {joining, joining \union {thread.ticket}}
     \/ /\ ticketStatus[thread.ticket] = "failed"
        /\ TicketEnds
        /\ UNCHANGED joining
     \/ /\ ticketStatus[thread.ticket] = "queued"
        /\ TicketProcessing
        /\ UNCHANGED joining
     \/ TicketNotified /\ UNCHANGED joining
  /\ UNCHANGED <<ticketStatus, serverVars>>

(* The network opens a connection, whose session is validated; a session    *)
(* may be presented any number of times.                                    *)
Connect(w, c, s) ==
  /\ s \in joining
  /\ ValidatePlayerJoinSession(w, c, s)
  /\ UNCHANGED <<matchVars, trackerVars>>

Disconnect(w, c) ==
  HandlePlayerLeaveSession(w, c) /\ UNCHANGED <<matchVars, trackerVars>>

TrackerStep == (GameStep \/ CallStep \/ ThreadStep) /\ UNCHANGED <<matchVars, serverVars>>

MatchNext ==
  \/ TrackerStep
  \/ DescribeMatchmaking
  \/ \E t \in Tickets : MatchFound(t) \/ MatchFailed(t)
  \/ \E s \in PlayerSessions : ReservationExpires(s) /\ UNCHANGED <<matchVars, trackerVars>>
  \/ \E w \in ServerThreads :
       \/ \E c \in Connections, s \in PlayerSessions : Connect(w, c, s)
       \/ \E c \in Connections : Disconnect(w, c)
       \/ ManagerStep(w) /\ UNCHANGED <<matchVars, trackerVars>>

MatchSpec == MatchInit /\ [][MatchNext]_gameLiftVars

(* The threads run: a request is answered or fails, handlers return.        *)
FairMatchSpec ==
  /\ MatchSpec
  /\ WF_gameLiftVars(CallStep /\ UNCHANGED <<matchVars, serverVars>>)
  /\ WF_gameLiftVars(ThreadStep /\ UNCHANGED <<matchVars, serverVars>>)
  /\ WF_gameLiftVars(DescribeMatchmaking)
=============================================================================
