------------------------- MODULE GameLiftServerProofs -------------------------
(***************************************************************************)
(* Proof that the server's registered players and the player sessions GameLift *)
(* counts as active agree (SessionsAgree), for any number of connections,   *)
(* sessions and threads.                                                   *)
(***************************************************************************)
EXTENDS GameLiftMatch, FiniteSetTheorems, TLAPS

Request == [op : {"accept", "undo", "remove"}, connection : Connections, session : PlayerSessions]

ServerTypeOK ==
  /\ connectedPlayers \in [Connections -> PlayerSessions \union {NoSession}]
  /\ sessionStatus \in [PlayerSessions -> {"none", "reserved", "active", "completed", "timedout"}]
  /\ serving \in [ServerThreads -> {Free} \union Request]

(* Thread w has registered c and not yet learned, or not yet undone, what    *)
(* GameLift says of s; thread w takes s from GameLift after its player left. *)
Validates(w, c, s) ==
  /\ serving[w].op \in {"accept", "undo"}
  /\ serving[w].connection = c /\ serving[w].session = s
Removes(w, s) == serving[w].op = "remove" /\ serving[w].session = s

(* The connections whose player plays in s.                                 *)
Plays(c, s) == connectedPlayers[c] = s /\ \A w \in ServerThreads : ~Validates(w, c, s)

(* A registration that is being validated stays that validation's own.      *)
OwnRegistration ==
  \A w \in ServerThreads, c \in Connections, s \in PlayerSessions \ stray :
    Validates(w, c, s) =>
      /\ connectedPlayers[c] = s
      /\ \A v \in ServerThreads : Validates(v, c, s) => v = w
NoOtherValidation ==
  \A w \in ServerThreads, c \in Connections, s \in PlayerSessions \ stray, r \in PlayerSessions :
    connectedPlayers[c] = s /\ Validates(w, c, r) => r = s

(* An active session has one player: in play, or leaving.                   *)
OnePlayer ==
  \A s \in PlayerSessions \ stray :
    /\ \A c, d \in Connections : Plays(c, s) /\ Plays(d, s) => c = d
    /\ \A w, v \in ServerThreads : Removes(w, s) /\ Removes(v, s) => w = v
    /\ \A c \in Connections, w \in ServerThreads : ~(Plays(c, s) /\ Removes(w, s))
ActiveHasPlayer ==
  \A s \in PlayerSessions \ stray :
    sessionStatus[s] = "active" <=>
      (\E c \in Connections : Plays(c, s)) \/ (\E w \in ServerThreads : Removes(w, s))

ServerInv ==
  ServerTypeOK /\ OwnRegistration /\ NoOtherValidation /\ OnePlayer /\ ActiveHasPlayer

-----------------------------------------------------------------------------
(* Nothing is registered at first. *)
LEMMA InitServer == MatchInit => ServerInv
BY ServerAssumption
   DEF MatchInit, ServerInit, ServerInv, ServerTypeOK, OwnRegistration, NoOtherValidation,
       OnePlayer, ActiveHasPlayer, Validates, Removes, Plays, Free

(* A validation begins on a connection with nothing registered: the session *)
(* is that thread's until GameLift answers, or it is stray from the start.  *)
LEMMA ValidateKeepsInv ==
  ASSUME NEW w \in ServerThreads, NEW c \in Connections, NEW s \in PlayerSessions, ServerInv, ValidatePlayerJoinSession(w, c, s)
  PROVE  ServerInv'
<1> USE ServerAssumption
    DEF ValidatePlayerJoinSession, Serve, Serving, Free, Request, Validates, Removes, Plays, Validating, Calls
<1>1. ServerTypeOK'
  BY DEF ServerInv, ServerTypeOK
<1>2. OwnRegistration'
  BY DEF ServerInv, ServerTypeOK, OwnRegistration, NoOtherValidation
<1>3. NoOtherValidation'
  BY DEF ServerInv, ServerTypeOK, OwnRegistration, NoOtherValidation
<1>4. OnePlayer'
  BY DEF ServerInv, ServerTypeOK, OwnRegistration, NoOtherValidation, OnePlayer, ActiveHasPlayer
<1>5. ActiveHasPlayer'
  BY DEF ServerInv, ServerTypeOK, OwnRegistration, NoOtherValidation, OnePlayer, ActiveHasPlayer
<1>. QED
  BY <1>1, <1>2, <1>3, <1>4, <1>5 DEF ServerInv

(* GameLift accepts a reserved session once, so no connection played in it: *)
(* the one that is registered is now its only player.                       *)
LEMMA AcceptedKeepsInv ==
  ASSUME NEW w \in ServerThreads, ServerInv, PlayerSessionAccepted(w)
  PROVE  ServerInv'
<1> USE ServerAssumption
    DEF PlayerSessionAccepted, Serve, Serving, Free, Request, Validates, Removes, Plays, Validating, Calls
<1>1. ServerTypeOK'
  BY DEF ServerInv, ServerTypeOK
<1>2. OwnRegistration'
  BY DEF ServerInv, ServerTypeOK, OwnRegistration, NoOtherValidation
<1>3. NoOtherValidation'
  BY DEF ServerInv, ServerTypeOK, OwnRegistration, NoOtherValidation
<1>4. OnePlayer'
  BY DEF ServerInv, ServerTypeOK, OwnRegistration, NoOtherValidation, OnePlayer, ActiveHasPlayer
<1>5. ActiveHasPlayer'
  BY DEF ServerInv, ServerTypeOK, OwnRegistration, NoOtherValidation, OnePlayer, ActiveHasPlayer
<1>. QED
  BY <1>1, <1>2, <1>3, <1>4, <1>5 DEF ServerInv

(* A refusal leaves the registration to be undone; one that GameLift had    *)
(* accepted is stray.                                                       *)
LEMMA RefusedKeepsInv ==
  ASSUME NEW w \in ServerThreads, ServerInv, PlayerSessionRefused(w)
  PROVE  ServerInv'
<1> USE ServerAssumption
    DEF PlayerSessionRefused, Serve, Serving, Free, Request, Validates, Removes, Plays, Validating, Calls
<1>1. ServerTypeOK'
  BY DEF ServerInv, ServerTypeOK
<1>2. OwnRegistration'
  BY DEF ServerInv, ServerTypeOK, OwnRegistration, NoOtherValidation
<1>3. NoOtherValidation'
  BY DEF ServerInv, ServerTypeOK, OwnRegistration, NoOtherValidation
<1>4. OnePlayer'
  BY DEF ServerInv, ServerTypeOK, OwnRegistration, NoOtherValidation, OnePlayer, ActiveHasPlayer
<1>5. ActiveHasPlayer'
  BY DEF ServerInv, ServerTypeOK, OwnRegistration, NoOtherValidation, OnePlayer, ActiveHasPlayer
<1>. QED
  BY <1>1, <1>2, <1>3, <1>4, <1>5 DEF ServerInv

(* What the undo takes away is its own registration, or a stray session's.  *)
LEMMA UndoKeepsInv ==
  ASSUME NEW w \in ServerThreads, ServerInv, RemoveConnectedPlayer(w)
  PROVE  ServerInv'
<1> USE ServerAssumption
    DEF RemoveConnectedPlayer, Serve, Serving, Free, Request, Validates, Removes, Plays, Validating, Calls
<1>1. ServerTypeOK'
  BY DEF ServerInv, ServerTypeOK
<1>2. OwnRegistration'
  BY DEF ServerInv, ServerTypeOK, OwnRegistration, NoOtherValidation
<1>3. NoOtherValidation'
  BY DEF ServerInv, ServerTypeOK, OwnRegistration, NoOtherValidation
<1>4. OnePlayer'
  BY DEF ServerInv, ServerTypeOK, OwnRegistration, NoOtherValidation, OnePlayer, ActiveHasPlayer
<1>5. ActiveHasPlayer'
  BY DEF ServerInv, ServerTypeOK, OwnRegistration, NoOtherValidation, OnePlayer, ActiveHasPlayer
<1>. QED
  BY <1>1, <1>2, <1>3, <1>4, <1>5 DEF ServerInv

(* The player of an active session leaves, and its thread has to remove it; *)
(* one that is still validated is stray.                                    *)
LEMMA LeaveKeepsInv ==
  ASSUME NEW w \in ServerThreads, NEW c \in Connections, ServerInv, HandlePlayerLeaveSession(w, c)
  PROVE  ServerInv'
<1> USE ServerAssumption
    DEF HandlePlayerLeaveSession, Serve, Serving, Free, Request, Validates, Removes, Plays, Validating, Calls
<1>1. ServerTypeOK'
  BY DEF ServerInv, ServerTypeOK
<1>2. OwnRegistration'
  BY DEF ServerInv, ServerTypeOK, OwnRegistration, NoOtherValidation
<1>3. NoOtherValidation'
  BY DEF ServerInv, ServerTypeOK, OwnRegistration, NoOtherValidation
<1>4. OnePlayer'
  BY DEF ServerInv, ServerTypeOK, OwnRegistration, NoOtherValidation, OnePlayer, ActiveHasPlayer
<1>5. ActiveHasPlayer'
  BY DEF ServerInv, ServerTypeOK, OwnRegistration, NoOtherValidation, OnePlayer, ActiveHasPlayer
<1>. QED
  BY <1>1, <1>2, <1>3, <1>4, <1>5 DEF ServerInv

(* The removed session had no other player.                                 *)
LEMMA RemovedKeepsInv ==
  ASSUME NEW w \in ServerThreads, ServerInv, PlayerSessionRemoved(w)
  PROVE  ServerInv'
<1> USE ServerAssumption
    DEF PlayerSessionRemoved, Serve, Serving, Free, Request, Validates, Removes, Plays, Validating, Calls
<1>1. ServerTypeOK'
  BY DEF ServerInv, ServerTypeOK
<1>2. OwnRegistration'
  BY DEF ServerInv, ServerTypeOK, OwnRegistration, NoOtherValidation
<1>3. NoOtherValidation'
  BY DEF ServerInv, ServerTypeOK, OwnRegistration, NoOtherValidation
<1>4. OnePlayer'
  BY DEF ServerInv, ServerTypeOK, OwnRegistration, NoOtherValidation, OnePlayer, ActiveHasPlayer
<1>5. ActiveHasPlayer'
  BY DEF ServerInv, ServerTypeOK, OwnRegistration, NoOtherValidation, OnePlayer, ActiveHasPlayer
<1>. QED
  BY <1>1, <1>2, <1>3, <1>4, <1>5 DEF ServerInv

(* A session that was not removed is stray.                                 *)
LEMMA NotRemovedKeepsInv ==
  ASSUME NEW w \in ServerThreads, ServerInv, PlayerSessionNotRemoved(w)
  PROVE  ServerInv'
<1> USE ServerAssumption
    DEF PlayerSessionNotRemoved, Serve, Serving, Free, Request, Validates, Removes, Plays, Validating, Calls
<1>1. ServerTypeOK'
  BY DEF ServerInv, ServerTypeOK
<1>2. OwnRegistration'
  BY DEF ServerInv, ServerTypeOK, OwnRegistration, NoOtherValidation
<1>3. NoOtherValidation'
  BY DEF ServerInv, ServerTypeOK, OwnRegistration, NoOtherValidation
<1>4. OnePlayer'
  BY DEF ServerInv, ServerTypeOK, OwnRegistration, NoOtherValidation, OnePlayer, ActiveHasPlayer
<1>5. ActiveHasPlayer'
  BY DEF ServerInv, ServerTypeOK, OwnRegistration, NoOtherValidation, OnePlayer, ActiveHasPlayer
<1>. QED
  BY <1>1, <1>2, <1>3, <1>4, <1>5 DEF ServerInv

(* GameLift gives up reserved sessions, never active ones.                  *)
LEMMA ExpiresKeepsInv ==
  ASSUME NEW s \in PlayerSessions, ServerInv, ReservationExpires(s)
  PROVE  ServerInv'
<1> USE ServerAssumption
    DEF ReservationExpires, Serve, Serving, Free, Request, Validates, Removes, Plays, Validating, Calls
<1>1. ServerTypeOK'
  BY DEF ServerInv, ServerTypeOK
<1>2. OwnRegistration'
  BY DEF ServerInv, ServerTypeOK, OwnRegistration, NoOtherValidation
<1>3. NoOtherValidation'
  BY DEF ServerInv, ServerTypeOK, OwnRegistration, NoOtherValidation
<1>4. OnePlayer'
  BY DEF ServerInv, ServerTypeOK, OwnRegistration, NoOtherValidation, OnePlayer, ActiveHasPlayer
<1>5. ActiveHasPlayer'
  BY DEF ServerInv, ServerTypeOK, OwnRegistration, NoOtherValidation, OnePlayer, ActiveHasPlayer
<1>. QED
  BY <1>1, <1>2, <1>3, <1>4, <1>5 DEF ServerInv

(* A session GameLift reserves has no player yet.                           *)
LEMMA ReserveKeepsInv ==
  ASSUME NEW s \in PlayerSessions, ServerInv, Reserve(s) /\ UNCHANGED <<connectedPlayers, serving, stray>>
  PROVE  ServerInv'
<1> USE ServerAssumption
    DEF Reserve, Serve, Serving, Free, Request, Validates, Removes, Plays, Validating, Calls
<1>1. ServerTypeOK'
  BY DEF ServerInv, ServerTypeOK
<1>2. OwnRegistration'
  BY DEF ServerInv, ServerTypeOK, OwnRegistration, NoOtherValidation
<1>3. NoOtherValidation'
  BY DEF ServerInv, ServerTypeOK, OwnRegistration, NoOtherValidation
<1>4. OnePlayer'
  BY DEF ServerInv, ServerTypeOK, OwnRegistration, NoOtherValidation, OnePlayer, ActiveHasPlayer
<1>5. ActiveHasPlayer'
  BY DEF ServerInv, ServerTypeOK, OwnRegistration, NoOtherValidation, OnePlayer, ActiveHasPlayer
<1>. QED
  BY <1>1, <1>2, <1>3, <1>4, <1>5 DEF ServerInv

-----------------------------------------------------------------------------
(* Every step of the composition.                                           *)
LEMMA MatchKeepsServer == ServerInv /\ [MatchNext]_gameLiftVars => ServerInv'
<1> SUFFICES ASSUME ServerInv, [MatchNext]_gameLiftVars PROVE ServerInv'
  OBVIOUS
<1>1. CASE UNCHANGED serverVars
  BY <1>1 DEF serverVars, ServerInv, ServerTypeOK, OwnRegistration, NoOtherValidation,
              OnePlayer, ActiveHasPlayer, Validates, Removes, Plays
<1>2. CASE \E t \in Tickets : MatchFound(t)
  BY <1>2, ReserveKeepsInv, MatchAssumption DEF MatchFound
<1>3. CASE \E s \in PlayerSessions : ReservationExpires(s)
  BY <1>3, ExpiresKeepsInv
<1>4. CASE \E w \in ServerThreads, c \in Connections, s \in PlayerSessions : Connect(w, c, s)
  BY <1>4, ValidateKeepsInv DEF Connect
<1>5. CASE \E w \in ServerThreads, c \in Connections : Disconnect(w, c)
  BY <1>5, LeaveKeepsInv DEF Disconnect
<1>6. CASE \E w \in ServerThreads : ManagerStep(w)
  BY <1>6, AcceptedKeepsInv, RefusedKeepsInv, UndoKeepsInv, RemovedKeepsInv, NotRemovedKeepsInv
     DEF ManagerStep
<1>7. TrackerStep \/ DescribeMatchmaking \/ (\E t \in Tickets : MatchFailed(t))
         \/ UNCHANGED gameLiftVars => UNCHANGED serverVars
  BY DEF TrackerStep, DescribeMatchmaking, MatchFailed, gameLiftVars
<1>. QED
  BY <1>1, <1>2, <1>3, <1>4, <1>5, <1>6, <1>7 DEF MatchNext

(* With no call under way the connections registered for a session are those *)
(* that play in it.                                                         *)
LEMMA InvImpliesAgree == ServerInv => SessionsAgree
<1> SUFFICES ASSUME ServerInv, \A w \in ServerThreads : serving[w] = Free,
                    NEW s \in PlayerSessions \ stray
             PROVE  Cardinality({c \in Connections : connectedPlayers[c] = s})
                      = (IF sessionStatus[s] = "active" THEN 1 ELSE 0)
  BY DEF SessionsAgree
<1> DEFINE registered == {c \in Connections : connectedPlayers[c] = s}
<1>1. \A c \in Connections : Plays(c, s) <=> c \in registered
  BY DEF Plays, Validates, Free
<1>2. ~\E w \in ServerThreads : Removes(w, s)
  BY DEF Removes, Free
<1>3. CASE sessionStatus[s] = "active"
  <2>1. PICK c \in Connections : Plays(c, s)
    BY <1>2, <1>3 DEF ServerInv, ActiveHasPlayer
  <2>2. registered = {c}
    BY <1>1, <2>1 DEF ServerInv, OnePlayer
  <2>. QED
    BY <1>3, <2>2, FS_Singleton
<1>4. CASE sessionStatus[s] # "active"
  <2>1. registered = {}
    BY <1>1, <1>4 DEF ServerInv, ActiveHasPlayer
  <2>. QED
    BY <1>4, <2>1, FS_EmptySet
<1>. QED
  BY <1>3, <1>4

(* Whatever the interleaving of joins, leaves, refusals and reused          *)
(* connections: with no call under way, a session GameLift counts as active *)
(* has exactly one registered connection, and any other none.               *)
(* (ValidatePlayerJoinSession, HandlePlayerLeaveSession)                    *)
THEOREM MatchSessionsAgree == MatchSpec => []SessionsAgree
<1>1. MatchSpec => []ServerInv
  BY InitServer, MatchKeepsServer, PTL DEF MatchSpec
<1>. QED
  BY <1>1, InvImpliesAgree, PTL
=============================================================================
