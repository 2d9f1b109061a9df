-------------------------------- MODULE Twitch --------------------------------
(***************************************************************************)
(* The Twitch gem: TwitchSystemComponent, which hands out a receipt for    *)
(* every call and checks it, and TwitchREST, which turns it into one or    *)
(* two HTTP requests and the answer into a notification with that receipt. *)
(*                                                                         *)
(* The requests go to the HttpRequestor gem, of which this module uses     *)
(* what HttpService promises.  The main thread calls and is notified; the  *)
(* callbacks run on the worker thread of that gem, one at a time.          *)
(*                                                                         *)
(* Neither bus of this gem declares a mutex (TwitchBus.h): the worker reads *)
(* the identity, and adds to the event queue, with no synchronisation with *)
(* the main thread, which writes the one and adds to and empties the other. *)
(* Each such access is one atomic step here, so all that is shown below    *)
(* holds of the runs in which those accesses happen not to tear.           *)
(***************************************************************************)
EXTENDS Integers, Sequences, SequencesExt, FiniteSetsExt

CONSTANTS
  Operations,     \* the operations the game calls
  Users, Tokens,  \* valid user ids and OAuth tokens
  ApplicationIDs, \* valid application ids
  TwitchREST,     \* whether Init allocates m_twitchREST
  MaxReceipts,    \* bound: receipts handed out
  MaxStops        \* bound: deactivations of each of the two gems

FriendOperations ==
  {"ResetFriendsNotificationCount", "GetFriendNotificationCount", "GetFriendRecommendations",
   "GetFriends", "GetFriendStatus", "AcceptFriendRequest", "GetFriendRequests",
   "CreateFriendRequest", "DeclineFriendRequest"}

PresenceOperations ==
  {"GetPresenceStatusofFriends", "GetPresenceSettings", "UpdatePresenceSettings"}

ChannelLists ==
  {"GetChannelEditors", "GetChannelFollowers", "GetChannelTeams", "GetChannelSubscribers"}

ChannelOperations ==
  {"CheckChannelSubscriptionbyUser", "GetChannelVideos", "StartChannelCommercial",
   "ResetChannelStreamKey"}

(* The operations that make one request. *)
OneHop ==
  FriendOperations \union PresenceOperations \union ChannelLists \union ChannelOperations
  \union {"GetUser", "GetChannel", "GetChannelbyID"}

(* Those that ask for the channel of the user first. *)
TwoHops == {"UpdatePresenceStatus", "UpdateChannel"}

(* Those that need a user id and not only a token. *)
NeedsUserID ==
  {"AcceptFriendRequest", "GetFriendRequests", "CreateFriendRequest", "DeclineFriendRequest",
   "UpdatePresenceStatus", "GetPresenceStatusofFriends", "GetPresenceSettings",
   "UpdatePresenceSettings"}

(* Those without an argument that is checked. *)
Unchecked ==
  {"GetUser", "GetFriendRequests", "GetPresenceStatusofFriends", "GetPresenceSettings",
   "UpdatePresenceSettings", "GetChannel"}

(* Those whose request has the header of GetClientIDHeader, without a token. *)
ClientIDOnly == {"GetChannelbyID", "GetChannelFollowers", "GetChannelTeams"}

(* A user id, token, application id or user of a URL that is not there. *)
Empty == ""

(* The token of a request without an Authorization header. *)
NoHeader == "none"

ASSUME TwitchAssumption ==
  /\ Operations \subseteq OneHop \union TwoHops
  /\ {Empty, NoHeader} \intersect (Users \union Tokens \union ApplicationIDs) = {}
  /\ TwitchREST \in BOOLEAN
  /\ {MaxReceipts, MaxStops} \subseteq Nat

VARIABLES
  connected,         \* whether the component handles TwitchRequestBus and the system tick
  applicationID,     \* m_applicationID
  cachedClientID,    \* m_cachedClientID
  cachedOAuthToken,  \* m_cachedOAuthToken
  receiptCounter,    \* m_receiptCounter
  calls,             \* calls[r]: the call that receipt r was handed out for
  httpConnected,     \* whether HttpRequestor handles its bus
  httpPending, httpAnswered, httpAbandoned,   \* the state of HttpService
  callback,          \* the callback of a first hop: its request and what it has read
  lost,              \* receipts whose request found no HttpRequestor
  notifications,     \* the event queue of TwitchNotifyBus
  delivered,         \* the notifications the game has got
  stops              \* stops[g]: deactivations of gem g

httpVars == <<httpPending, httpAnswered, httpAbandoned>>
identityVars == <<applicationID, cachedClientID, cachedOAuthToken>>
receiptVars == <<receiptCounter, calls>>
vars == <<connected, identityVars, receiptVars, httpConnected, httpVars, callback, lost,
          notifications, delivered, stops>>

Gems == {"twitch", "http"}

(* A request: whose it is, the user its URL names, and its Authorization    *)
(* and Client-ID headers.                                                  *)
Request ==
  [receipt : 1..MaxReceipts, hop : {"channel", "last"}, user : Users \union {Empty, "other"},
   token : Tokens \union {Empty, NoHeader}, clientID : ApplicationIDs \union {Empty}]

ResultCodes == {"Success", "InvalidParam", "TwitchRESTError", "TwitchChannelNoUpdatesToMake"}

Notification ==
  [receipt : 1..MaxReceipts, rc : ResultCodes, from : {"main", "worker"}]

Http == INSTANCE HttpService WITH
  JsonRequests <- Request, TextRequests <- {},
  pending <- httpPending, answered <- httpAnswered, abandoned <- httpAbandoned

(* The callback that begins a second request: what it does next, and what   *)
(* it has read of the component.                                           *)
Callback ==
  [stage : {"none", "url", "token", "clientID", "send"}, receipt : 0..MaxReceipts,
   user : Users \union {Empty, "other"}, token : Tokens \union {Empty},
   clientID : ApplicationIDs \union {Empty}]

BeginCallback(stage, r, user) ==
  [stage |-> stage, receipt |-> r, user |-> user, token |-> Empty, clientID |-> Empty]

NoCallback == BeginCallback("none", 0, Empty)

Init ==
  /\ connected = TRUE
  /\ applicationID = Empty /\ cachedClientID = Empty /\ cachedOAuthToken = Empty
  /\ receiptCounter = 0 /\ calls = <<>>
  /\ httpConnected = TRUE /\ Http!Init
  /\ callback = NoCallback /\ lost = {}
  /\ notifications = <<>> /\ delivered = <<>>
  /\ stops = [g \in Gems |-> 0]

-----------------------------------------------------------------------------
(* The calls of the game. *)

(* GetReceipt, for a call with argument arg. *)
GetReceipt(op, arg) ==
  /\ connected /\ receiptCounter < MaxReceipts
  /\ receiptCounter' = receiptCounter + 1
  /\ calls' = Append(calls, [op |-> op, arg |-> arg])

(* Mutant: the event queue is a stack. *)
QueueBroadcastFirst(r, rc, from) ==
  notifications' = <<[receipt |-> r, rc |-> rc, from |-> from]>> \o notifications

QueueBroadcast(r, rc, from) ==
  notifications' = Append(notifications, [receipt |-> r, rc |-> rc, from |-> from])

(* Mutant: an id that was set is replaced, and by nothing if it is invalid. *)
ReplaceApplicationID(id) ==
  /\ connected
  /\ applicationID' = IF id \in ApplicationIDs THEN id ELSE Empty
  /\ UNCHANGED <<connected, cachedClientID, cachedOAuthToken, receiptVars, httpConnected, httpVars,
                 callback, lost, notifications, delivered, stops>>

(* It gives no receipt and is checked by no call. *)
SetApplicationID(id) ==
  /\ connected
  /\ applicationID' = IF applicationID = Empty /\ id \in ApplicationIDs THEN id ELSE applicationID
  /\ UNCHANGED <<connected, cachedClientID, cachedOAuthToken, receiptVars, httpConnected, httpVars,
                 callback, lost, notifications, delivered, stops>>

SetUserID(id) ==
  /\ GetReceipt("SetUserID", IF id \in Users THEN "valid" ELSE "invalid")
  /\ cachedClientID' = IF id \in Users THEN id ELSE cachedClientID
  /\ QueueBroadcast(receiptCounter', IF id \in Users THEN "Success" ELSE "InvalidParam", "main")
  /\ UNCHANGED <<connected, applicationID, cachedOAuthToken, httpConnected, httpVars, callback,
                 lost, delivered, stops>>

SetOAuthToken(token) ==
  /\ GetReceipt("SetOAuthToken", IF token \in Tokens THEN "valid" ELSE "invalid")
  /\ cachedOAuthToken' = IF token \in Tokens THEN token ELSE cachedOAuthToken
  /\ QueueBroadcast(receiptCounter', IF token \in Tokens THEN "Success" ELSE "InvalidParam", "main")
  /\ UNCHANGED <<connected, applicationID, cachedClientID, httpConnected, httpVars, callback, lost,
                 delivered, stops>>

(* RequestUserID and RequestOAuthToken. *)
RequestIdentity ==
  /\ \E op \in {"RequestUserID", "RequestOAuthToken"} : GetReceipt(op, "valid")
  /\ QueueBroadcast(receiptCounter', "Success", "main")
  /\ UNCHANGED <<connected, identityVars, httpConnected, httpVars, callback, lost, delivered,
                 stops>>

(* Mutant: the token is not looked at. *)
CheckOnlyUser(op, arg) ==
  IF ~TwitchREST \/ (cachedClientID = Empty /\ op \in NeedsUserID) THEN "TwitchRESTError"
  ELSE IF arg = "invalid" /\ op # "UpdateChannel" THEN "InvalidParam" ELSE "Success"

Check(op, arg) ==
  IF \/ cachedOAuthToken = Empty \/ ~TwitchREST
     \/ cachedClientID = Empty /\ op \in NeedsUserID
  THEN "TwitchRESTError"
  ELSE IF arg = "invalid" /\ op # "UpdateChannel" THEN "InvalidParam" ELSE "Success"

(* Broadcast on the bus of HttpRequestor: nobody may be there. *)
AddHTTPRequest(request) ==
  \/ /\ httpConnected
     /\ Http!Add("json", request)
     /\ UNCHANGED lost
  \/ /\ ~httpConnected
     /\ lost' = lost \union {request.receipt}
     /\ UNCHANGED httpVars

(* The user the URL of the first request of op names: BuildBaseURL looks    *)
(* the user up when the caller names none; channels are not under a user.  *)
URLUsers(op) ==
  CASE op \in NeedsUserID \ TwoHops -> {cachedClientID}
    [] op = "GetFriendStatus"       -> {cachedClientID, "other"}
    [] OTHER                        -> {"other"}

(* The Authorization header of the first request of op. *)
OAuthHeader(op) == IF op \in ClientIDOnly THEN NoHeader ELSE cachedOAuthToken

(* Every other operation. An UpdateChannel with nothing to update is told   *)
(* so and goes on.                                                         *)
Call(op, arg) ==
  /\ op \in Unchecked => arg = "valid"
  /\ GetReceipt(op, arg)
  /\ \/ /\ Check(op, arg) # "Success"
        /\ QueueBroadcast(receiptCounter', Check(op, arg), "main")
        /\ UNCHANGED <<httpVars, lost>>
     \/ /\ Check(op, arg) = "Success"
        /\ IF arg = "invalid"
           THEN QueueBroadcast(receiptCounter', "TwitchChannelNoUpdatesToMake", "main")
           ELSE UNCHANGED notifications
        /\ \E user \in URLUsers(op) :
             AddHTTPRequest([receipt |-> receiptCounter',
                             hop |-> IF op \in TwoHops THEN "channel" ELSE "last",
                             user |-> user, token |-> OAuthHeader(op),
                             clientID |-> applicationID])
  /\ UNCHANGED <<connected, identityVars, httpConnected, callback, delivered, stops>>

(* FlushEvents, with what ExecuteQueuedEvents does: the queue is emptied.   *)
OnSystemTick ==
  /\ connected /\ TwitchREST /\ notifications # <<>>
  /\ delivered' = delivered \o notifications
  /\ notifications' = <<>>
  /\ UNCHANGED <<connected, identityVars, receiptVars, httpConnected, httpVars, callback, lost,
                 stops>>

-----------------------------------------------------------------------------
(* The worker thread of HttpRequestor. *)

(* Mutant: the answer to the first hop is reported as well. *)
AnswerEveryHop ==
  /\ callback = NoCallback /\ Http!Answer("json")
  /\ LET request == Head(httpPending["json"])
     IN  /\ \E rc \in {"Success", "TwitchRESTError"} : QueueBroadcast(request.receipt, rc, "worker")
         /\ callback' = IF request.hop = "last" THEN callback
                        ELSE BeginCallback("url", request.receipt, "other")
  /\ UNCHANGED <<connected, identityVars, receiptVars, httpConnected, lost, delivered, stops>>

(* Mutant: an error answer is not reported. *)
AnswerOnlySuccess ==
  /\ callback = NoCallback /\ Http!Answer("json")
  /\ LET request == Head(httpPending["json"])
     IN \/ /\ request.hop = "last"
           /\ QueueBroadcast(request.receipt, "Success", "worker") \/ UNCHANGED notifications
           /\ UNCHANGED callback
        \/ /\ request.hop = "channel"
           /\ callback' = BeginCallback("url", request.receipt, "other")
           /\ UNCHANGED notifications
  /\ UNCHANGED <<connected, identityVars, receiptVars, httpConnected, lost, delivered, stops>>

(* The callback of a request. That of a first hop begins the next request,  *)
(* whatever the answer was.                                                *)
AnswerRequest ==
  /\ callback = NoCallback /\ Http!Answer("json")
  /\ LET request == Head(httpPending["json"])
     IN \/ /\ request.hop = "last"
           /\ \E rc \in {"Success", "TwitchRESTError"} :
                QueueBroadcast(request.receipt, rc, "worker")
           /\ UNCHANGED callback
        \/ /\ request.hop = "channel"
           /\ callback' = BeginCallback("url", request.receipt, "other")
           /\ UNCHANGED notifications
  /\ UNCHANGED <<connected, identityVars, receiptVars, httpConnected, lost, delivered, stops>>

(* GetUserID of the bus, and nothing when no component is connected.        *)
BuildBaseURL ==
  /\ callback.stage = "url"
  /\ callback' =
       [callback EXCEPT
          !.stage = "token",
          !.user  = IF calls[callback.receipt].op = "UpdateChannel" THEN @
                    ELSE IF connected THEN cachedClientID ELSE Empty]
  /\ UNCHANGED <<connected, identityVars, receiptVars, httpConnected, httpVars, lost,
                 notifications, delivered, stops>>

(* The two reads of GetDefaultHeaders, likewise over the bus.               *)
AddOAuthtHeader ==
  /\ callback.stage = "token"
  /\ callback' = [callback EXCEPT !.stage = "clientID",
                                 !.token = IF connected THEN cachedOAuthToken ELSE Empty]
  /\ UNCHANGED <<connected, identityVars, receiptVars, httpConnected, httpVars, lost,
                 notifications, delivered, stops>>

AddClientIDHeader ==
  /\ callback.stage = "clientID"
  /\ callback' = [callback EXCEPT !.stage = "send",
                                 !.clientID = IF connected THEN applicationID ELSE Empty]
  /\ UNCHANGED <<connected, identityVars, receiptVars, httpConnected, httpVars, lost,
                 notifications, delivered, stops>>

(* The request of the callback, with the receipt r. *)
SecondRequest(r) ==
  [receipt |-> r, hop |-> "last", user |-> callback.user, token |-> callback.token,
   clientID |-> callback.clientID]

(* Mutant: the second request has the receipt of the first, gcReceipt. *)
SendWithChannelReceipt ==
  /\ callback.stage = "send"
  /\ AddHTTPRequest(SecondRequest(0))
  /\ callback' = NoCallback
  /\ UNCHANGED <<connected, identityVars, receiptVars, httpConnected, notifications, delivered,
                 stops>>

SendSecondHop ==
  /\ callback.stage = "send"
  /\ AddHTTPRequest(SecondRequest(callback.receipt))
  /\ callback' = NoCallback
  /\ UNCHANGED <<connected, identityVars, receiptVars, httpConnected, notifications, delivered,
                 stops>>

-----------------------------------------------------------------------------
(* The gems come and go. *)

Activate ==
  /\ ~connected /\ connected' = TRUE
  /\ UNCHANGED <<identityVars, receiptVars, httpConnected, httpVars, callback, lost,
                 notifications, delivered, stops>>

Deactivate ==
  /\ connected /\ stops["twitch"] < MaxStops
  /\ connected' = FALSE
  /\ stops' = [stops EXCEPT !["twitch"] = @ + 1]
  /\ UNCHANGED <<identityVars, receiptVars, httpConnected, httpVars, callback, lost,
                 notifications, delivered>>

(* HttpRequestor leaves its bus; its worker finishes what it has begun, and *)
(* what is left is abandoned.                                              *)
HttpDeactivate ==
  /\ httpConnected /\ stops["http"] < MaxStops
  /\ httpConnected' = FALSE
  /\ stops' = [stops EXCEPT !["http"] = @ + 1]
  /\ UNCHANGED <<connected, identityVars, receiptVars, httpVars, callback, lost, notifications,
                 delivered>>

HttpAbandon ==
  /\ ~httpConnected /\ callback = NoCallback /\ httpPending["json"] # <<>>
  /\ Http!Abandon
  /\ UNCHANGED <<connected, identityVars, receiptVars, httpConnected, callback, lost,
                 notifications, delivered, stops>>

HttpActivate ==
  /\ ~httpConnected /\ callback = NoCallback /\ httpPending["json"] = <<>>
  /\ httpConnected' = TRUE
  /\ UNCHANGED <<connected, identityVars, receiptVars, httpVars, callback, lost, notifications,
                 delivered, stops>>

-----------------------------------------------------------------------------
Game ==
  \/ \E id \in ApplicationIDs \union {"invalid"} : SetApplicationID(id)
  \/ \E id \in Users \union {"invalid"} : SetUserID(id)
  \/ \E token \in Tokens \union {"invalid"} : SetOAuthToken(token)
  \/ RequestIdentity
  \/ \E op \in Operations, arg \in {"valid", "invalid"} : Call(op, arg)

Worker ==
  AnswerRequest \/ BuildBaseURL \/ AddOAuthtHeader \/ AddClientIDHeader \/ SendSecondHop

Next ==
  \/ Game \/ OnSystemTick
  \/ Worker
  \/ Activate \/ Deactivate \/ HttpActivate \/ HttpDeactivate \/ HttpAbandon

Spec == Init /\ [][Next]_vars

(* The system ticks, the worker runs and a request is answered or times     *)
(* out; the game need not call and no gem need come or go.                 *)
Fairness ==
  /\ WF_vars(OnSystemTick)
  /\ WF_vars(Worker)
  /\ WF_vars(HttpAbandon)

FairSpec == Spec /\ Fairness

-----------------------------------------------------------------------------
(* Properties. *)

Receipts == 1..receiptCounter

(* Every variable has the values the code can give it; in particular the    *)
(* requests pending at HttpRequestor are of receipts already handed out.    *)
TypeOK ==
  /\ connected \in BOOLEAN /\ httpConnected \in BOOLEAN
  /\ applicationID \in ApplicationIDs \union {Empty}
  /\ cachedClientID \in Users \union {Empty} /\ cachedOAuthToken \in Tokens \union {Empty}
  /\ receiptCounter \in 0..MaxReceipts /\ Len(calls) = receiptCounter
  /\ httpPending["text"] = <<>>
  /\ \A request \in ToSet(httpPending["json"]) \union ToSet(httpAnswered) \union httpAbandoned :
       request \in Request /\ request.receipt \in Receipts
  /\ callback \in Callback
  /\ callback.stage # "none" => callback.receipt \in Receipts
  /\ lost \subseteq Receipts
  /\ \A n \in ToSet(notifications) \union ToSet(delivered) :
       n \in Notification /\ n.receipt \in Receipts
  /\ stops \in [Gems -> 0..MaxStops]

Occurrences(s, r) == Quantify(DOMAIN s, LAMBDA i : s[i].receipt = r)

(* Where receipt r can be: reported or about to be, in a request, in the    *)
(* callback between two requests, or never to be answered.                 *)
Fates(r) ==
  Occurrences(delivered \o notifications, r)
  + Occurrences(httpPending["json"], r)
  + (IF callback.stage # "none" /\ callback.receipt = r THEN 1 ELSE 0)
  + (IF r \in lost THEN 1 ELSE 0)
  + Cardinality({request \in httpAbandoned : request.receipt = r})

Needless(r) == calls[r].op = "UpdateChannel" /\ calls[r].arg = "invalid"

(* Every receipt handed out has exactly one fate: over two hops, errors,    *)
(* abandoned requests and gems that come and go, the game is told of each  *)
(* call once or never, and a call it has been told of is not still under   *)
(* way. An update of nothing is the exception.                             *)
OneFatePerReceipt == \A r \in Receipts : ~Needless(r) => Fates(r) = 1

(* No request ever leaves without the credentials of its operation: what    *)
(* the check of the first hop found on the main thread is still there when *)
(* the worker makes the second, as long as the component has not been      *)
(* deactivated.  Three lists of a channel carry no token, as GetClientIDHeader *)
(* has it. (GetFriendStatus may name an empty user: that is not checked.)  *)
RequestsCarryCredentials ==
  stops["twitch"] = 0 =>
    \A request \in ToSet(httpPending["json"]) \union ToSet(httpAnswered) :
      /\ IF calls[request.receipt].op \in ClientIDOnly THEN request.token = NoHeader
         ELSE request.token \in Tokens
      /\ calls[request.receipt].op # "GetFriendStatus" => request.user # Empty

(* The application id "CAN ONLY BE SET ONCE": two requests that carry one   *)
(* carry the same, whichever thread read it, and once the first of two     *)
(* hops has it so has the second, unless the component was deactivated.    *)
(* Nothing checks that it is set: requests may leave with none.            *)
OneApplicationID ==
  LET requests == ToSet(httpPending["json"]) \union ToSet(httpAnswered)
  IN  \A first, second \in requests :
        first.clientID # Empty =>
          \/ second.clientID = first.clientID
          \/ /\ second.clientID = Empty
             /\ stops["twitch"] = 0 => ~(first.hop = "channel" /\ first.receipt = second.receipt)

(* Answers reach the game in the order of its calls, for those answered by  *)
(* the service in one hop: the two gems and the event queue together keep  *)
(* the order.                                                              *)
AnswersInOrder ==
  LET all == delivered \o notifications
      OneHopAnswer(i) == all[i].from = "worker" /\ calls[all[i].receipt].op \in OneHop
  IN  \A i, j \in DOMAIN all :
        i < j /\ OneHopAnswer(i) /\ OneHopAnswer(j) => all[i].receipt < all[j].receipt

NeverAnswered(r) == r \in lost \/ \E request \in httpAbandoned : request.receipt = r

(* Every receipt is reported to the game, unless HttpRequestor was gone or  *)
(* the component is deactivated.                                           *)
EveryReceiptReported ==
  \A r \in 1..MaxReceipts :
    (r <= receiptCounter)
      ~> (Occurrences(delivered, r) > 0 \/ NeverAnswered(r) \/ ~connected)

(* TwitchREST.cpp of UpdateChannel: "sanity check here, at least once of    *)
(* these must be set to update": a call without any is refused, and its    *)
(* receipt is reported as such only.                                       *)
NeedlessUpdateRefused ==
  \A i, j \in DOMAIN delivered :
    delivered[i].receipt = delivered[j].receipt => delivered[i].rc = delivered[j].rc
=============================================================================
