---------------------------- MODULE GameLiftServer ----------------------------
(***************************************************************************)
(* AWSGameLiftServerManager's connected players: a connection is registered *)
(* under the mutex, its player session accepted by GameLift without it, and *)
(* the registration undone when GameLift refuses.                           *)
(***************************************************************************)
EXTENDS FiniteSets

CONSTANTS
  Connections,      \* player connection ids, which the network uses again
  PlayerSessions,   \* player session ids
  NoSession,        \* not registered
  ServerThreads     \* threads that call the manager

ASSUME ServerAssumption == NoSession \notin PlayerSessions

VARIABLES
  connectedPlayers,   \* m_connectedPlayers
  sessionStatus,      \* player sessions at GameLift
  serving,            \* what each thread does inside the manager
  stray               \* history: sessions that a leave crossed while they were
                      \* validated, and those whose removal, or whose acceptance by
              \* GameLift, the server did not learn of

serverVars == <<connectedPlayers, sessionStatus, serving, stray>>

Serving(op, connection, session) == [op |-> op, connection |-> connection, session |-> session]
Free == [op |-> "free"]

ServerInit ==
  /\ connectedPlayers = [c \in Connections |-> NoSession]
  /\ sessionStatus = [s \in PlayerSessions |-> "none"]
  /\ serving = [w \in ServerThreads |-> Free]
  /\ stray = {}

Calls(op, c) == {w \in ServerThreads : serving[w].op = op /\ serving[w].connection = c}
Validating(c) == Calls("accept", c) \union Calls("undo", c)

Serve(w, call) == serving' = [serving EXCEPT ![w] = call]

(* AddConnectedPlayer, of ValidatePlayerJoinSession, which refuses a        *)
(* connection that is registered.                                           *)
ValidatePlayerJoinSession(w, c, s) ==
  /\ serving[w] = Free
  /\ connectedPlayers[c] = NoSession
  /\ connectedPlayers' = [connectedPlayers EXCEPT ![c] = s]
  /\ Serve(w, Serving("accept", c, s))
  /\ stray' = IF Validating(c) = {} THEN stray ELSE stray \union {s}
  /\ UNCHANGED sessionStatus

(* AcceptPlayerSession: GameLift accepts a reserved session, once.          *)
PlayerSessionAccepted(w) ==
  /\ serving[w].op = "accept"
  /\ sessionStatus[serving[w].session] = "reserved"
  /\ sessionStatus' = [sessionStatus EXCEPT ![serving[w].session] = "active"]
  /\ Serve(w, Free)
  /\ UNCHANGED <<connectedPlayers, stray>>

(* It refuses any other; the call may fail, even after GameLift accepted.   *)
PlayerSessionRefused(w) ==
  /\ serving[w].op = "accept"
  /\ Serve(w, [serving[w] EXCEPT !.op = "undo"])
  /\ \/ UNCHANGED <<sessionStatus, stray>>
     \/ /\ sessionStatus[serving[w].session] = "reserved"
        /\ sessionStatus' = [sessionStatus EXCEPT ![serving[w].session] = "active"]
        /\ stray' = stray \union {serving[w].session}
  /\ UNCHANGED connectedPlayers

(* Mutant: the registration stays. *)
KeepConnectedPlayer(w) ==
  /\ serving[w].op = "undo"
  /\ Serve(w, Free)
  /\ UNCHANGED <<connectedPlayers, sessionStatus, stray>>

(* RemoveConnectedPlayer of whatever is registered under the connection.    *)
RemoveConnectedPlayer(w) ==
  /\ serving[w].op = "undo"
  /\ connectedPlayers' = [connectedPlayers EXCEPT ![serving[w].connection] = NoSession]
  /\ Serve(w, Free)
  /\ UNCHANGED <<sessionStatus, stray>>

(* HandlePlayerLeaveSession: nothing for an unknown connection.             *)
HandlePlayerLeaveSession(w, c) ==
  /\ serving[w] = Free
  /\ connectedPlayers[c] # NoSession
  /\ connectedPlayers' = [connectedPlayers EXCEPT ![c] = NoSession]
  /\ Serve(w, Serving("remove", c, connectedPlayers[c]))
  /\ stray' = IF Validating(c) = {} THEN stray
              ELSE stray \union {connectedPlayers[c]} \union {serving[v].session : v \in Validating(c)}
  /\ UNCHANGED sessionStatus

(* RemovePlayerSession, whose failure is only reported.                     *)
PlayerSessionRemoved(w) ==
  /\ serving[w].op = "remove"
  /\ sessionStatus' = [sessionStatus EXCEPT ![serving[w].session] =
                         IF @ = "active" THEN "completed" ELSE @]
  /\ Serve(w, Free)
  /\ UNCHANGED <<connectedPlayers, stray>>

PlayerSessionNotRemoved(w) ==
  /\ serving[w].op = "remove"
  /\ stray' = stray \union {serving[w].session}
  /\ Serve(w, Free)
  /\ UNCHANGED <<connectedPlayers, sessionStatus>>

(* GameLift reserves a place for a player and gives it up after a minute.   *)
Reserve(s) ==
  /\ sessionStatus[s] = "none"
  /\ sessionStatus' = [sessionStatus EXCEPT ![s] = "reserved"]

ReservationExpires(s) ==
  /\ sessionStatus[s] = "reserved"
  /\ sessionStatus' = [sessionStatus EXCEPT ![s] = "timedout"]
  /\ UNCHANGED <<connectedPlayers, serving, stray>>

ManagerStep(w) ==
  \/ PlayerSessionAccepted(w) \/ PlayerSessionRefused(w) \/ RemoveConnectedPlayer(w)
  \/ PlayerSessionRemoved(w) \/ PlayerSessionNotRemoved(w)

(* With no call under way, GameLift counts a session as active exactly if   *)
(* its player is registered, and under one connection only, unless a leave  *)
(* crossed its validation or an answer of GameLift got lost.  Two connections may *)
(* present one session, and one connection another after it left.           *)
(* (ValidatePlayerJoinSession, HandlePlayerLeaveSession)                    *)
SessionsAgree ==
  (\A w \in ServerThreads : serving[w] = Free) =>
    \A s \in PlayerSessions \ stray :
      LET registered == {c \in Connections : connectedPlayers[c] = s}
      IN Cardinality(registered) = (IF sessionStatus[s] = "active" THEN 1 ELSE 0)
=============================================================================
