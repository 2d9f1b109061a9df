----------------------------- MODULE TwitchProofs -----------------------------
(***************************************************************************)
(* Proofs about the Twitch gem, for any operations, users, tokens, number  *)
(* of calls and number of deactivations.                                   *)
(***************************************************************************)
EXTENDS Twitch, SequenceTheorems, FiniteSetTheorems, TLAPS

-----------------------------------------------------------------------------
(* Sequences: what they hold after an Append, a Tail and a concatenation.  *)

LEMMA AppendElements ==
  ASSUME NEW S, NEW s \in Seq(S), NEW x \in S
  PROVE  /\ Append(s, x) \in Seq(S) /\ Len(Append(s, x)) = Len(s) + 1
         /\ DOMAIN Append(s, x) = 1..(Len(s) + 1) /\ DOMAIN s = 1..Len(s) /\ Len(s) \in Nat
         /\ \A i \in DOMAIN s : Append(s, x)[i] = s[i]
         /\ Append(s, x)[Len(s) + 1] = x
         /\ ToSet(Append(s, x)) = ToSet(s) \union {x}
<1> DEFINE a == Append(s, x)
<1>1. /\ a \in Seq(S) /\ Len(a) = Len(s) + 1 /\ Len(s) \in Nat
      /\ DOMAIN a = 1..(Len(s) + 1) /\ DOMAIN s = 1..Len(s)
      /\ \A i \in 1..Len(s) : a[i] = s[i]
      /\ a[Len(s) + 1] = x
  BY AppendProperties
<1> HIDE DEF a
<1>2. \A i \in DOMAIN a : i \in DOMAIN s \/ i = Len(s) + 1
  BY <1>1
<1>3. Len(s) + 1 \in DOMAIN a /\ \A i \in DOMAIN s : i \in DOMAIN a
  BY <1>1
<1>4. ToSet(a) = ToSet(s) \union {x}
  BY <1>1, <1>2, <1>3 DEF ToSet
<1>. QED
  BY <1>1, <1>4 DEF a

LEMMA TailElements ==
  ASSUME NEW S, NEW s \in Seq(S), s # <<>>
  PROVE  /\ Head(s) \in S /\ Head(s) = s[1] /\ Tail(s) \in Seq(S)
         /\ Len(s) \in Nat /\ Len(s) > 0 /\ Len(Tail(s)) = Len(s) - 1
         /\ DOMAIN s = 1..Len(s) /\ DOMAIN Tail(s) = 1..(Len(s) - 1)
         /\ \A i \in DOMAIN Tail(s) : i + 1 \in DOMAIN s /\ Tail(s)[i] = s[i + 1]
         /\ ToSet(s) = ToSet(Tail(s)) \union {Head(s)}
<1> DEFINE t == Tail(s)
<1>1. /\ Head(s) \in S /\ Head(s) = s[1] /\ t \in Seq(S)
      /\ Len(s) \in Nat /\ Len(s) > 0 /\ Len(t) = Len(s) - 1
      /\ DOMAIN s = 1..Len(s) /\ DOMAIN t = 1..(Len(s) - 1)
      /\ \A i \in DOMAIN t : t[i] = s[i + 1]
  BY HeadTailProperties
<1> HIDE DEF t
<1>2. \A i \in DOMAIN t : i + 1 \in DOMAIN s
  BY <1>1
<1>3. 1 \in DOMAIN s /\ \A i \in DOMAIN s : i = 1 \/ (i - 1 \in DOMAIN t /\ t[i - 1] = s[i])
  BY <1>1
<1>4. ToSet(s) = ToSet(t) \union {Head(s)}
  BY <1>1, <1>2, <1>3 DEF ToSet
<1>. QED
  BY <1>1, <1>2, <1>4 DEF t

LEMMA ConcatElements ==
  ASSUME NEW S, NEW s \in Seq(S), NEW t \in Seq(S)
  PROVE  s \o t \in Seq(S) /\ ToSet(s \o t) = ToSet(s) \union ToSet(t)
<1> DEFINE c == s \o t
<1>1. /\ c \in Seq(S) /\ DOMAIN c = 1..(Len(s) + Len(t))
      /\ DOMAIN s = 1..Len(s) /\ DOMAIN t = 1..Len(t) /\ Len(s) \in Nat /\ Len(t) \in Nat
      /\ \A i \in 1..Len(s) : c[i] = s[i]
      /\ \A i \in 1..Len(t) : c[Len(s) + i] = t[i]
  BY ConcatProperties
<1> HIDE DEF c
<1>2. \A i \in DOMAIN s : i \in DOMAIN c /\ c[i] = s[i]
  BY <1>1
<1>3. \A i \in DOMAIN t : Len(s) + i \in DOMAIN c /\ c[Len(s) + i] = t[i]
  BY <1>1
<1>4. \A i \in DOMAIN c : i \in DOMAIN s \/ (i - Len(s) \in DOMAIN t /\ c[i] = t[i - Len(s)])
  BY <1>1
<1>5. ToSet(c) = ToSet(s) \union ToSet(t)
  BY <1>2, <1>3, <1>4 DEF ToSet
<1>. QED
  BY <1>1, <1>5 DEF c

LEMMA ElementsType ==
  ASSUME NEW S, NEW s \in Seq(S)
  PROVE  ToSet(s) \subseteq S
BY LenProperties DEF ToSet

(* An event added to the queue comes after all that was reported before.   *)
LEMMA ConcatAppend ==
  ASSUME NEW S, NEW s \in Seq(S), NEW t \in Seq(S), NEW x \in S
  PROVE  s \o Append(t, x) = Append(s \o t, x)
<1>1. Append(t, x) = t \o <<x>> /\ <<x>> \in Seq(S)
  BY AppendIsConcat
<1>2. s \o t \in Seq(S)
  BY ConcatProperties
<1>3. Append(s \o t, x) = (s \o t) \o <<x>>
  BY <1>2, AppendIsConcat
<1>. QED
  BY <1>1, <1>3, ConcatAssociative

(* How often a receipt occurs.                                             *)
LEMMA OccurrencesNat ==
  ASSUME NEW S, NEW s \in Seq(S), NEW r
  PROVE  /\ Occurrences(s, r) \in Nat
         /\ Occurrences(s, r) = 0 <=> \A x \in ToSet(s) : x.receipt # r
<1> DEFINE D == {i \in DOMAIN s : s[i].receipt = r}
<1>1. DOMAIN s = 1..Len(s) /\ Len(s) \in Nat
  BY LenProperties
<1>2. IsFiniteSet(D)
  <2>1. IsFiniteSet(1..Len(s))
    BY <1>1, FS_Interval
  <2>. QED
    BY <1>1, <2>1, FS_Subset
<1>3. Cardinality(D) \in Nat /\ (Cardinality(D) = 0 <=> D = {})
  BY <1>2, FS_CardinalityType, FS_EmptySet
<1>4. Occurrences(s, r) = Cardinality(D)
  BY DEF Occurrences, Quantify
<1>5. D = {} <=> \A x \in ToSet(s) : x.receipt # r
  BY DEF ToSet
<1>. QED
  BY <1>3, <1>4, <1>5

LEMMA OccurrencesAppend ==
  ASSUME NEW S, NEW s \in Seq(S), NEW x \in S, NEW r
  PROVE  Occurrences(Append(s, x), r)
           = Occurrences(s, r) + (IF x.receipt = r THEN 1 ELSE 0)
<1> DEFINE a == Append(s, x)
           D == {i \in DOMAIN s : s[i].receipt = r}
           E == {i \in DOMAIN a : a[i].receipt = r}
<1>1. /\ DOMAIN a = 1..(Len(s) + 1) /\ DOMAIN s = 1..Len(s) /\ Len(s) \in Nat
      /\ \A i \in DOMAIN s : a[i] = s[i]
      /\ a[Len(s) + 1] = x
  BY AppendElements
<1> HIDE DEF a
<1>2. IsFiniteSet(D)
  <2>1. IsFiniteSet(1..Len(s)) /\ D \subseteq 1..Len(s)
    BY <1>1, FS_Interval
  <2>. QED
    BY <2>1, FS_Subset
<1>3. Cardinality(D) \in Nat
  BY <1>2, FS_CardinalityType
<1>7. Occurrences(s, r) = Cardinality(D) /\ Occurrences(a, r) = Cardinality(E)
  BY DEF Occurrences, Quantify
<1>4. CASE x.receipt = r
  <2>1. E = D \union {Len(s) + 1} /\ Len(s) + 1 \notin D
    BY <1>1, <1>4
  <2>2. Cardinality(E) = Cardinality(D) + 1
    BY <1>2, <2>1, FS_AddElement
  <2>. QED
    BY <1>4, <1>7, <2>2 DEF a
<1>5. CASE x.receipt # r
  <2>1. E = D
    BY <1>1, <1>5
  <2> HIDE DEF D, E
  <2>. QED
    BY <1>3, <1>5, <1>7, <2>1 DEF a
<1>. QED
  BY <1>4, <1>5

LEMMA OccurrencesTail ==
  ASSUME NEW S, NEW s \in Seq(S), s # <<>>, NEW r
  PROVE  Occurrences(s, r)
           = Occurrences(Tail(s), r) + (IF Head(s).receipt = r THEN 1 ELSE 0)
<1> DEFINE t == Tail(s)
           T == {i \in DOMAIN t : t[i].receipt = r}
           D == {i \in DOMAIN s : s[i].receipt = r}
           E == {i \in D : i > 1}
<1>1. /\ DOMAIN s = 1..Len(s) /\ DOMAIN t = 1..(Len(s) - 1) /\ Len(s) \in Nat /\ Len(s) > 0
      /\ \A i \in DOMAIN t : i + 1 \in DOMAIN s /\ t[i] = s[i + 1]
      /\ Head(s) = s[1]
  BY TailElements
<1> HIDE DEF t
<1>2. IsFiniteSet(D) /\ IsFiniteSet(E) /\ IsFiniteSet(T)
  <2>1. IsFiniteSet(1..Len(s)) /\ D \subseteq 1..Len(s) /\ E \subseteq 1..Len(s)
    BY <1>1, FS_Interval
  <2>2. T \subseteq 1..Len(s)
    BY <1>1
  <2>. QED
    BY <2>1, <2>2, FS_Subset
<1>3. Cardinality(T) = Cardinality(E)
  <2> DEFINE f == [i \in T |-> i + 1]
  <2>1. \A i \in T : i + 1 \in E
    BY <1>1
  <2>2. \A j \in E : j - 1 \in T /\ (j - 1) + 1 = j
    BY <1>1
  <2>3. \A i, j \in T : i + 1 = j + 1 => i = j
    BY <1>1
  <2>4. f \in Bijection(T, E)
    BY <2>1, <2>2, <2>3 DEF Bijection, Injection, Surjection, IsInjective
  <2>5. ExistsBijection(T, E)
    BY <2>4 DEF ExistsBijection
  <2>. QED
    BY <1>2, <2>5, FS_Bijection
<1>4. Cardinality(E) \in Nat
  BY <1>2, FS_CardinalityType
<1>7. Occurrences(s, r) = Cardinality(D) /\ Occurrences(t, r) = Cardinality(T)
  BY DEF Occurrences, Quantify
<1>5. CASE Head(s).receipt = r
  <2>1. D = E \union {1} /\ 1 \notin E
    BY <1>1, <1>5
  <2>2. Cardinality(D) = Cardinality(E) + 1
    BY <1>2, <2>1, FS_AddElement
  <2>. QED
    BY <1>3, <1>5, <1>7, <2>2 DEF t
<1>6. CASE Head(s).receipt # r
  <2>1. D = E
    BY <1>1, <1>6
  <2> HIDE DEF D, E, T
  <2>. QED
    BY <1>3, <1>4, <1>6, <1>7, <2>1 DEF t
<1>. QED
  BY <1>5, <1>6
-----------------------------------------------------------------------------
(* The values of the variables, and that no request names a receipt which   *)
(* was not handed out.                                                      *)

CallOps ==
  OneHop \union TwoHops
  \union {"SetUserID", "SetOAuthToken", "RequestUserID", "RequestOAuthToken"}

CallRecord == [op : CallOps, arg : {"valid", "invalid"}]

(* TypeOK with the sequences typed as sequences. *)
Types ==
  /\ connected \in BOOLEAN /\ httpConnected \in BOOLEAN
  /\ applicationID \in ApplicationIDs \union {Empty}
  /\ cachedClientID \in Users \union {Empty} /\ cachedOAuthToken \in Tokens \union {Empty}
  /\ receiptCounter \in 0..MaxReceipts
  /\ calls \in Seq(CallRecord) /\ Len(calls) = receiptCounter
  /\ httpPending \in [{"json", "text"} -> Seq(Request)] /\ httpPending["text"] = <<>>
  /\ httpAnswered \in Seq(Request) /\ httpAbandoned \subseteq Request
  /\ \A request \in ToSet(httpPending["json"]) \union ToSet(httpAnswered) \union httpAbandoned :
       request.receipt \in Receipts
  /\ callback \in Callback /\ (callback.stage # "none" => callback.receipt \in Receipts)
  /\ lost \subseteq Receipts
  /\ notifications \in Seq(Notification) /\ delivered \in Seq(Notification)
  /\ \A n \in ToSet(notifications) \union ToSet(delivered) : n.receipt \in Receipts
  /\ stops \in [Gems -> 0..MaxStops]

LEMMA BoundsNat == MaxReceipts \in Nat /\ MaxStops \in Nat
BY TwitchAssumption

LEMMA TypesImplyTypeOK == Types => TypeOK
<1> SUFFICES ASSUME Types PROVE TypeOK
  OBVIOUS
<1>0. httpPending["json"] \in Seq(Request)
  BY DEF Types
<1>1. \A request \in ToSet(httpPending["json"]) \union ToSet(httpAnswered) : request \in Request
  BY <1>0, ElementsType DEF Types
<1>2. \A n \in ToSet(notifications) \union ToSet(delivered) : n \in Notification
  BY ElementsType DEF Types
<1>. QED
  BY <1>1, <1>2 DEF Types, TypeOK

LEMMA InitTypes == Init => Types
<1> SUFFICES ASSUME Init PROVE Types
  OBVIOUS
<1>1. receiptCounter \in 0..MaxReceipts /\ stops \in [Gems -> 0..MaxStops]
  BY BoundsNat DEF Init
<1>2. httpPending \in [{"json", "text"} -> Seq(Request)] /\ httpPending["json"] = <<>>
      /\ httpPending["text"] = <<>>
  BY DEF Init, Http!Init, Http!Kinds
<1>3. ToSet(<<>>) = {}
  BY DEF ToSet
<1>4. callback \in Callback /\ callback.stage = "none"
  BY BoundsNat DEF Init, NoCallback, BeginCallback, Callback
<1>. QED
  BY <1>1, <1>2, <1>3, <1>4 DEF Init, Http!Init, Types

(* A call is given the next receipt. *)
LEMMA GetReceiptTypes ==
  ASSUME Types, NEW op \in CallOps, NEW arg \in {"valid", "invalid"}, GetReceipt(op, arg)
  PROVE  /\ receiptCounter' \in 0..MaxReceipts /\ receiptCounter' = receiptCounter + 1
         /\ calls' \in Seq(CallRecord) /\ Len(calls') = receiptCounter'
         /\ \A r \in Receipts : r \in Receipts' /\ calls'[r] = calls[r]
         /\ receiptCounter' \in Receipts' /\ receiptCounter' \in 1..MaxReceipts
         /\ receiptCounter' \notin Receipts
         /\ calls'[receiptCounter'] = [op |-> op, arg |-> arg]
<1>1. [op |-> op, arg |-> arg] \in CallRecord
  BY DEF CallRecord
<1>2. receiptCounter \in Nat /\ MaxReceipts \in Nat /\ receiptCounter < MaxReceipts
  BY BoundsNat DEF Types, GetReceipt
<1>3. /\ receiptCounter' = receiptCounter + 1 /\ calls' = Append(calls, [op |-> op, arg |-> arg])
      /\ calls \in Seq(CallRecord) /\ Len(calls) = receiptCounter
  BY DEF Types, GetReceipt
<1>4. /\ calls' \in Seq(CallRecord) /\ Len(calls') = Len(calls) + 1 /\ DOMAIN calls = 1..Len(calls)
      /\ \A i \in DOMAIN calls : calls'[i] = calls[i]
      /\ calls'[Len(calls) + 1] = [op |-> op, arg |-> arg]
  BY <1>1, <1>3, AppendElements
<1>. QED
  BY <1>2, <1>3, <1>4 DEF Receipts

(* What the event queue holds after a broadcast. *)
LEMMA BroadcastTypes ==
  ASSUME Types, NEW r \in 1..MaxReceipts, NEW rc \in ResultCodes, NEW from \in {"main", "worker"},
         QueueBroadcast(r, rc, from)
  PROVE  /\ notifications' \in Seq(Notification)
         /\ \E n \in Notification :
              /\ n = [receipt |-> r, rc |-> rc, from |-> from]
              /\ notifications' = Append(notifications, n)
              /\ ToSet(notifications') = ToSet(notifications) \union {n}
              /\ delivered \o notifications' = Append(delivered \o notifications, n)
<1> DEFINE n == [receipt |-> r, rc |-> rc, from |-> from]
<1>1. n \in Notification /\ notifications' = Append(notifications, n)
  BY DEF Notification, QueueBroadcast
<1>2. notifications \in Seq(Notification) /\ delivered \in Seq(Notification)
  BY DEF Types
<1> HIDE DEF n
<1>3. notifications' \in Seq(Notification) /\ ToSet(notifications') = ToSet(notifications) \union {n}
  BY <1>1, <1>2, AppendElements
<1>4. delivered \o notifications' = Append(delivered \o notifications, n)
  BY <1>1, <1>2, ConcatAppend
<1>. QED
  BY <1>1, <1>3, <1>4 DEF n

(* A request goes to HttpRequestor, or is lost when it is not there. *)
LEMMA RequestTypes ==
  ASSUME Types, NEW request \in Request, AddHTTPRequest(request)
  PROVE  \/ /\ httpConnected
            /\ httpPending' \in [{"json", "text"} -> Seq(Request)] /\ httpPending'["text"] = <<>>
            /\ httpPending'["json"] = Append(httpPending["json"], request)
            /\ ToSet(httpPending'["json"]) = ToSet(httpPending["json"]) \union {request}
            /\ httpAnswered' = httpAnswered /\ httpAbandoned' = httpAbandoned /\ lost' = lost
         \/ /\ ~httpConnected /\ UNCHANGED httpVars
            /\ lost' = lost \union {request.receipt}
<1>1. CASE httpConnected
  <2>1. /\ httpPending' = [httpPending EXCEPT !["json"] = Append(@, request)]
        /\ httpAnswered' = httpAnswered /\ httpAbandoned' = httpAbandoned /\ lost' = lost
    BY <1>1 DEF AddHTTPRequest, Http!Add
  <2>2. httpPending["json"] \in Seq(Request) /\ httpPending \in [{"json", "text"} -> Seq(Request)]
        /\ httpPending["text"] = <<>>
    BY DEF Types
  <2>3. /\ Append(httpPending["json"], request) \in Seq(Request)
        /\ ToSet(Append(httpPending["json"], request)) = ToSet(httpPending["json"]) \union {request}
    BY <2>2, AppendElements
  <2>. QED
    BY <1>1, <2>1, <2>2, <2>3
<1>2. CASE ~httpConnected
  BY <1>2 DEF AddHTTPRequest
<1>. QED
  BY <1>1, <1>2

(* The worker takes the first request. *)
LEMMA AnswerTypes ==
  ASSUME Types, Http!Answer("json")
  PROVE  /\ httpPending["json"] # <<>> /\ httpPending["json"] \in Seq(Request)
         /\ Head(httpPending["json"]) \in Request
         /\ Head(httpPending["json"]) \in ToSet(httpPending["json"])
         /\ httpPending' \in [{"json", "text"} -> Seq(Request)] /\ httpPending'["text"] = <<>>
         /\ httpPending'["json"] = Tail(httpPending["json"])
         /\ ToSet(httpPending["json"])
               = ToSet(httpPending'["json"]) \union {Head(httpPending["json"])}
         /\ httpAnswered' \in Seq(Request)
         /\ ToSet(httpAnswered') = ToSet(httpAnswered) \union {Head(httpPending["json"])}
         /\ httpAbandoned' = httpAbandoned
<1>1. /\ httpPending' = [httpPending EXCEPT !["json"] = Tail(@)]
      /\ httpAnswered' = Append(httpAnswered, Head(httpPending["json"]))
      /\ httpAbandoned' = httpAbandoned /\ httpPending["json"] # <<>>
  BY DEF Http!Answer
<1>2. httpPending["json"] \in Seq(Request) /\ httpPending \in [{"json", "text"} -> Seq(Request)]
      /\ httpPending["text"] = <<>> /\ httpAnswered \in Seq(Request)
  BY DEF Types
<1>3. /\ Head(httpPending["json"]) \in Request /\ Tail(httpPending["json"]) \in Seq(Request)
      /\ ToSet(httpPending["json"])
            = ToSet(Tail(httpPending["json"])) \union {Head(httpPending["json"])}
  BY <1>1, <1>2, TailElements
<1>4. /\ httpAnswered' \in Seq(Request)
      /\ ToSet(httpAnswered') = ToSet(httpAnswered) \union {Head(httpPending["json"])}
  BY <1>1, <1>2, <1>3, AppendElements
<1>. QED
  BY <1>1, <1>2, <1>3, <1>4

(* The answers of the main thread, and the calls that only change the       *)
(* identity.                                                               *)
LEMMA AnsweredCallTypes ==
  ASSUME Types, NEW op \in CallOps, NEW arg \in {"valid", "invalid"}, GetReceipt(op, arg),
         NEW rc \in ResultCodes, QueueBroadcast(receiptCounter', rc, "main"),
         cachedClientID' \in Users \union {Empty}, cachedOAuthToken' \in Tokens \union {Empty},
         UNCHANGED <<connected, applicationID, httpConnected, httpVars, callback, lost, delivered, stops>>
  PROVE  Types'
<1>1. /\ receiptCounter' \in 0..MaxReceipts /\ calls' \in Seq(CallRecord)
      /\ Len(calls') = receiptCounter'
      /\ Receipts \subseteq Receipts' /\ receiptCounter' \in Receipts'
      /\ receiptCounter' \in 1..MaxReceipts
  BY GetReceiptTypes
<1>2. /\ notifications' \in Seq(Notification)
      /\ \E n : /\ n.receipt = receiptCounter'
               /\ ToSet(notifications') = ToSet(notifications) \union {n}
  BY <1>1, BroadcastTypes
<1>. QED
  BY <1>1, <1>2 DEF Types, httpVars

LEMMA CallTypes ==
  ASSUME Types, NEW op \in Operations, NEW arg \in {"valid", "invalid"}, Call(op, arg)
  PROVE  Types'
<1>0. op \in CallOps
  BY TwitchAssumption DEF CallOps
<1>1. GetReceipt(op, arg) /\ UNCHANGED <<connected, identityVars, httpConnected, callback, delivered, stops>>
  BY DEF Call
<1>2. /\ receiptCounter' \in 0..MaxReceipts /\ calls' \in Seq(CallRecord)
      /\ Len(calls') = receiptCounter'
      /\ Receipts \subseteq Receipts' /\ receiptCounter' \in Receipts'
      /\ receiptCounter' \in 1..MaxReceipts
  BY <1>0, <1>1, GetReceiptTypes
<1>3. CASE /\ Check(op, arg) # "Success"
           /\ QueueBroadcast(receiptCounter', Check(op, arg), "main")
           /\ UNCHANGED <<httpVars, lost>>
  <2>1. Check(op, arg) \in ResultCodes
    BY DEF Check, ResultCodes
  <2>. QED
    BY <1>0, <1>1, <1>3, <2>1, AnsweredCallTypes DEF Types, identityVars
<1>4. ASSUME NEW user \in URLUsers(op), NEW hop \in {"channel", "last"},
             AddHTTPRequest([receipt |-> receiptCounter', hop |-> hop, user |-> user,
                             token |-> OAuthHeader(op), clientID |-> applicationID]),
             \/ QueueBroadcast(receiptCounter', "TwitchChannelNoUpdatesToMake", "main")
             \/ UNCHANGED notifications
      PROVE  Types'
  <2> DEFINE request == [receipt |-> receiptCounter', hop |-> hop, user |-> user,
                         token |-> OAuthHeader(op), clientID |-> applicationID]
  <2>1. request \in Request /\ request.receipt = receiptCounter'
    BY <1>2 DEF URLUsers, OAuthHeader, Types, Request
  <2>2. AddHTTPRequest(request)
    BY <1>4
  <2> HIDE DEF request
  <2>3. \/ /\ httpPending' \in [{"json", "text"} -> Seq(Request)] /\ httpPending'["text"] = <<>>
           /\ ToSet(httpPending'["json"]) = ToSet(httpPending["json"]) \union {request}
           /\ httpAnswered' = httpAnswered /\ httpAbandoned' = httpAbandoned /\ lost' = lost
        \/ UNCHANGED httpVars /\ lost' = lost \union {request.receipt}
    BY <2>1, <2>2, RequestTypes
  <2>4. /\ notifications' \in Seq(Notification)
        /\ \/ notifications' = notifications
           \/ \E n : /\ n.receipt = receiptCounter'
                    /\ ToSet(notifications') = ToSet(notifications) \union {n}
    <3>1. "TwitchChannelNoUpdatesToMake" \in ResultCodes
      BY DEF ResultCodes
    <3>2. CASE QueueBroadcast(receiptCounter', "TwitchChannelNoUpdatesToMake", "main")
      BY <1>2, <3>1, <3>2, BroadcastTypes
    <3>3. CASE UNCHANGED notifications
      BY <3>3 DEF Types
    <3>. QED
      BY <1>4, <3>2, <3>3
  <2>. QED
    BY <1>1, <1>2, <2>1, <2>3, <2>4 DEF Types, httpVars, identityVars
<1>. QED
  BY <1>3, <1>4 DEF Call

LEMMA SetApplicationTypes ==
  ASSUME Types, NEW id, SetApplicationID(id)
  PROVE  /\ Types'
         /\ UNCHANGED <<connected, cachedClientID, cachedOAuthToken, receiptVars, httpVars, callback,
                        lost, notifications, delivered, stops>>
         /\ applicationID # Empty => applicationID' = applicationID
<1>1. applicationID' \in ApplicationIDs \union {Empty}
  BY DEF SetApplicationID, Types
<1>2. UNCHANGED <<connected, cachedClientID, cachedOAuthToken, receiptVars, httpConnected, httpVars,
                  callback, lost, notifications, delivered, stops>>
  BY DEF SetApplicationID
<1>3. applicationID # Empty => applicationID' = applicationID
  BY DEF SetApplicationID
<1>. QED
  BY <1>1, <1>2, <1>3 DEF Types, receiptVars, httpVars, Receipts

LEMMA GameTypes ==
  ASSUME Types, Game
  PROVE  Types'
<1>0. {"Success", "InvalidParam"} \subseteq ResultCodes
      /\ {"SetUserID", "SetOAuthToken", "RequestUserID", "RequestOAuthToken"} \subseteq CallOps
  BY DEF ResultCodes, CallOps
<1>1. ASSUME NEW id \in Users \union {"invalid"}, SetUserID(id) PROVE Types'
  BY <1>0, <1>1, AnsweredCallTypes DEF SetUserID, Types
<1>2. ASSUME NEW token \in Tokens \union {"invalid"}, SetOAuthToken(token) PROVE Types'
  BY <1>0, <1>2, AnsweredCallTypes DEF SetOAuthToken, Types
<1>3. CASE RequestIdentity
  BY <1>0, <1>3, AnsweredCallTypes DEF RequestIdentity, Types, identityVars
<1>4. ASSUME NEW id \in ApplicationIDs \union {"invalid"}, SetApplicationID(id) PROVE Types'
  BY <1>4, SetApplicationTypes
<1>. QED
  BY <1>1, <1>2, <1>3, <1>4, CallTypes DEF Game

(* What the callback reads for the headers changes nothing else. *)
LEMMA HeaderReads ==
  ASSUME Types, AddOAuthtHeader \/ AddClientIDHeader
  PROVE  /\ Types'
         /\ callback.stage \in {"token", "clientID"} /\ callback'.stage \in {"clientID", "send"}
         /\ callback'.receipt = callback.receipt /\ callback'.user = callback.user
         /\ UNCHANGED <<connected, identityVars, receiptVars, httpVars, lost, notifications,
                        delivered, stops>>
<1>1. /\ callback \in Callback /\ callback.stage \in {"token", "clientID"}
      /\ callback.receipt \in Receipts
  BY DEF AddOAuthtHeader, AddClientIDHeader, Types
<1>2. UNCHANGED <<connected, identityVars, receiptVars, httpConnected, httpVars, lost, notifications,
                  delivered, stops>>
  BY DEF AddOAuthtHeader, AddClientIDHeader
<1>3. /\ callback' \in Callback /\ callback'.stage \in {"clientID", "send"}
      /\ callback'.receipt = callback.receipt /\ callback'.user = callback.user
  <2>1. CASE AddOAuthtHeader
    BY <1>1, <2>1 DEF AddOAuthtHeader, Types, Callback
  <2>2. CASE AddClientIDHeader
    BY <1>1, <2>2 DEF AddClientIDHeader, Types, Callback
  <2>. QED
    BY <2>1, <2>2
<1>4. Types'
  BY <1>1, <1>2, <1>3 DEF Types, identityVars, receiptVars, httpVars, Receipts
<1>. QED
  BY <1>1, <1>2, <1>3, <1>4

LEMMA WorkerTypes ==
  ASSUME Types, Worker
  PROVE  Types'
<1>1. CASE AnswerRequest
  <2> DEFINE request == Head(httpPending["json"])
  <2>0. Http!Answer("json")
    BY <1>1 DEF AnswerRequest
  <2>1. /\ request \in Request /\ request \in ToSet(httpPending["json"])
        /\ httpPending' \in [{"json", "text"} -> Seq(Request)] /\ httpPending'["text"] = <<>>
        /\ ToSet(httpPending["json"]) = ToSet(httpPending'["json"]) \union {request}
        /\ httpAnswered' \in Seq(Request)
        /\ ToSet(httpAnswered') = ToSet(httpAnswered) \union {request}
        /\ httpAbandoned' = httpAbandoned
    BY <2>0, AnswerTypes
  <2>2. \/ /\ \E rc \in {"Success", "TwitchRESTError"} :
                 QueueBroadcast(request.receipt, rc, "worker")
           /\ UNCHANGED callback
        \/ /\ callback' = BeginCallback("url", request.receipt, "other")
           /\ UNCHANGED notifications
    BY <1>1 DEF AnswerRequest
  <2> HIDE DEF request
  <2>3. request.receipt \in Receipts /\ request.receipt \in 1..MaxReceipts
    BY <2>1 DEF Types, Request
  <2>4. \/ /\ notifications' \in Seq(Notification)
           /\ \E n : /\ n.receipt = request.receipt
                    /\ ToSet(notifications') = ToSet(notifications) \union {n}
           /\ UNCHANGED callback
        \/ /\ callback' \in Callback /\ callback'.receipt \in Receipts
           /\ UNCHANGED notifications
    BY <2>2, <2>3, BroadcastTypes, BoundsNat DEF BeginCallback, Callback, ResultCodes
  <2>5. UNCHANGED <<connected, identityVars, receiptVars, httpConnected, lost, delivered, stops>>
    BY <1>1 DEF AnswerRequest
  <2>. QED
    BY <2>1, <2>3, <2>4, <2>5 DEF Types, identityVars, receiptVars, Receipts
<1>2. CASE BuildBaseURL
  <2>1. /\ callback.stage = "url" /\ callback \in Callback /\ callback.receipt \in Receipts
    BY <1>2 DEF BuildBaseURL, Types
  <2>2. \E user \in Users \union {Empty, "other"} :
          callback' = [callback EXCEPT !.stage = "token", !.user = user]
    BY <1>2, <2>1 DEF BuildBaseURL, Types, Callback
  <2>3. callback' \in Callback /\ callback'.receipt \in Receipts
    BY <2>1, <2>2 DEF Callback
  <2>. QED
    BY <1>2, <2>3 DEF BuildBaseURL, Types, identityVars, receiptVars, httpVars, Receipts
<1>3. CASE SendSecondHop
  <2> DEFINE request == SecondRequest(callback.receipt)
  <2>1. callback \in Callback /\ callback.receipt \in Receipts
    BY <1>3 DEF SendSecondHop, Types
  <2>2. receiptCounter \in 0..MaxReceipts
    BY DEF Types
  <2>3. request \in Request /\ request.receipt \in Receipts
    BY <2>1, <2>2, BoundsNat DEF SecondRequest, Types, Request, Callback, Receipts
  <2>4. AddHTTPRequest(request)
    BY <1>3 DEF SendSecondHop
  <2> HIDE DEF request
  <2>5. \/ /\ httpPending' \in [{"json", "text"} -> Seq(Request)] /\ httpPending'["text"] = <<>>
           /\ ToSet(httpPending'["json"]) = ToSet(httpPending["json"]) \union {request}
           /\ httpAnswered' = httpAnswered /\ httpAbandoned' = httpAbandoned /\ lost' = lost
        \/ UNCHANGED httpVars /\ lost' = lost \union {request.receipt}
    BY <2>3, <2>4, RequestTypes
  <2>6. callback' \in Callback /\ callback'.stage = "none"
    BY <1>3, BoundsNat DEF SendSecondHop, NoCallback, BeginCallback, Callback
  <2>7. UNCHANGED <<connected, identityVars, receiptVars, httpConnected, notifications, delivered,
                    stops>>
    BY <1>3 DEF SendSecondHop
  <2>. QED
    BY <2>3, <2>5, <2>6, <2>7 DEF Types, identityVars, receiptVars, httpVars, Receipts
<1>4. CASE AddOAuthtHeader \/ AddClientIDHeader
  BY <1>4, HeaderReads
<1>. QED
  BY <1>1, <1>2, <1>3, <1>4 DEF Worker

LEMMA TickTypes ==
  ASSUME Types, OnSystemTick
  PROVE  /\ Types'
         /\ delivered' \o notifications' = delivered \o notifications
<1>1. /\ delivered' = delivered \o notifications /\ notifications' = <<>>
      /\ UNCHANGED <<connected, identityVars, receiptVars, httpConnected, httpVars, callback, lost,
                     stops>>
      /\ notifications \in Seq(Notification) /\ delivered \in Seq(Notification)
  BY DEF OnSystemTick, Types
<1>0. ToSet(<<>>) = {}
  BY DEF ToSet
<1>2. delivered' \in Seq(Notification) /\ notifications' \in Seq(Notification)
      /\ ToSet(delivered') = ToSet(delivered) \union ToSet(notifications)
      /\ ToSet(notifications') = {}
  BY <1>0, <1>1, ConcatElements
<1>3. delivered' \o notifications' = delivered \o notifications
  BY <1>1, <1>2, ConcatEmptySeq
<1>4. Types'
  BY <1>1, <1>2 DEF Types, identityVars, receiptVars, httpVars, Receipts
<1>. QED
  BY <1>3, <1>4

(* What an abandoned queue leaves. *)
LEMMA AbandonTypes ==
  ASSUME Types, HttpAbandon
  PROVE  /\ Types'
         /\ httpPending'["json"] = <<>> /\ httpAnswered' = httpAnswered
         /\ httpAbandoned' = httpAbandoned \union ToSet(httpPending["json"])
<1>1. /\ httpPending' = [k \in {"json", "text"} |-> <<>>]
      /\ httpAnswered' = httpAnswered
      /\ httpAbandoned' = httpAbandoned \union UNION {Http!Elements(httpPending[k]) : k \in {"json", "text"}}
      /\ UNCHANGED <<connected, identityVars, receiptVars, httpConnected, callback, lost,
                     notifications, delivered, stops>>
  BY DEF HttpAbandon, Http!Abandon, Http!Kinds
<1>2. httpPending["text"] = <<>> /\ httpPending["json"] \in Seq(Request)
  BY DEF Types
<1>3. Http!Elements(httpPending["text"]) = {}
      /\ Http!Elements(httpPending["json"]) = ToSet(httpPending["json"])
  BY <1>2 DEF Http!Elements, ToSet
<1>4. httpAbandoned' = httpAbandoned \union ToSet(httpPending["json"])
  BY <1>1, <1>3
<1>5. httpPending' \in [{"json", "text"} -> Seq(Request)] /\ httpPending'["json"] = <<>>
      /\ httpPending'["text"] = <<>>
  BY <1>1
<1>6. ToSet(httpPending["json"]) \subseteq Request
  BY <1>2, ElementsType
<1>7. ToSet(<<>>) = {}
  BY DEF ToSet
<1>8. Types'
  BY <1>1, <1>4, <1>5, <1>6, <1>7 DEF Types, identityVars, receiptVars, Receipts
<1>. QED
  BY <1>1, <1>4, <1>5, <1>8

(* The gems come and go. *)
LEMMA GemTypes ==
  ASSUME Types, Activate \/ Deactivate \/ HttpActivate \/ HttpDeactivate
  PROVE  /\ Types'
         /\ UNCHANGED <<identityVars, receiptVars, httpVars, callback, lost, notifications, delivered>>
<1>1. UNCHANGED <<identityVars, receiptVars, httpVars, callback, lost, notifications, delivered>>
  BY DEF Activate, Deactivate, HttpActivate, HttpDeactivate
<1>2. connected' \in BOOLEAN /\ httpConnected' \in BOOLEAN
  BY DEF Activate, Deactivate, HttpActivate, HttpDeactivate, Types
<1>3. stops' \in [Gems -> 0..MaxStops]
  BY BoundsNat DEF Activate, Deactivate, HttpActivate, HttpDeactivate, Types, Gems
<1>. QED
  BY <1>1, <1>2, <1>3 DEF Types, identityVars, receiptVars, httpVars, Receipts

LEMMA NextTypes == Types /\ [Next]_vars => Types'
<1> SUFFICES ASSUME Types, [Next]_vars PROVE Types'
  OBVIOUS
<1>1. CASE UNCHANGED vars
  BY <1>1 DEF vars, Types, identityVars, receiptVars, httpVars, Receipts
<1>. QED
  BY <1>1, GameTypes, WorkerTypes, TickTypes, AbandonTypes, GemTypes DEF Next

(* The requests under way, the queued and the delivered notifications are   *)
(* of calls that were made, and every variable has the values the code can *)
(* give it.  (AddHTTPRequest, ExecuteQueuedEvents)                          *)
THEOREM TypeCorrect == Spec => []TypeOK
<1>1. Spec => []Types
  BY InitTypes, NextTypes, PTL DEF Spec
<1>. QED
  BY <1>1, TypesImplyTypeOK, PTL

-----------------------------------------------------------------------------
(* What a step can be, for the three invariants below.                      *)

Json == httpPending["json"]

Reported == delivered \o notifications

(* A call answered at once, by n. *)
AnsweredCall(op, arg, n) ==
  /\ GetReceipt(op, arg)
  /\ n.receipt = receiptCounter' /\ n.from = "main"
  /\ delivered' \o notifications' = Append(Reported, n)
  /\ cachedClientID # Empty => cachedClientID' # Empty
  /\ cachedOAuthToken # Empty => cachedOAuthToken' # Empty
  /\ UNCHANGED <<connected, applicationID, httpVars, callback, lost, stops>>

(* A call that begins a request, and may be told of a needless update. *)
RequestedCall(op, arg, request) ==
  /\ GetReceipt(op, arg) /\ Check(op, arg) = "Success"
  /\ request.receipt = receiptCounter' /\ request.token = OAuthHeader(op)
  /\ request.clientID = applicationID
  /\ request.hop = IF op \in TwoHops THEN "channel" ELSE "last"
  /\ request.user \in URLUsers(op)
  /\ AddHTTPRequest(request)
  /\ IF arg = "invalid"
     THEN /\ op = "UpdateChannel"
          /\ \E n \in Notification : /\ n.receipt = receiptCounter' /\ n.from = "main"
                                    /\ delivered' \o notifications' = Append(Reported, n)
     ELSE delivered' \o notifications' = Reported
  /\ UNCHANGED <<connected, identityVars, callback, stops>>

(* Ticks, gems that come and go, and an application id that is set move no  *)
(* request and report nothing new.                                         *)
Quiet ==
  /\ UNCHANGED <<receiptVars, httpVars, callback, lost, cachedClientID, cachedOAuthToken>>
  /\ applicationID # Empty => applicationID' = applicationID
  /\ delivered' \o notifications' = Reported
  /\ stops'["twitch"] = 0 => stops["twitch"] = 0 /\ (connected => connected')

LEMMA SetsAnswer ==
  ASSUME Types, NEW op \in CallOps, NEW arg \in {"valid", "invalid"}, GetReceipt(op, arg),
         NEW rc \in ResultCodes, QueueBroadcast(receiptCounter', rc, "main"),
         cachedClientID # Empty => cachedClientID' # Empty,
         cachedOAuthToken # Empty => cachedOAuthToken' # Empty,
         UNCHANGED <<connected, applicationID, httpVars, callback, lost, delivered, stops>>
  PROVE  \E n \in Notification : AnsweredCall(op, arg, n)
<1>1. receiptCounter' \in 1..MaxReceipts
  BY GetReceiptTypes
<1>2. PICK n \in Notification :
        /\ n = [receipt |-> receiptCounter', rc |-> rc, from |-> "main"]
        /\ delivered \o notifications' = Append(delivered \o notifications, n)
  BY <1>1, BroadcastTypes
<1>. QED
  BY <1>2 DEF AnsweredCall, Reported

LEMMA GameSteps ==
  ASSUME Types, Game
  PROVE  \/ \E op \in CallOps, arg \in {"valid", "invalid"}, n \in Notification :
              AnsweredCall(op, arg, n)
         \/ \E op \in Operations, arg \in {"valid", "invalid"}, request \in Request :
              RequestedCall(op, arg, request)
         \/ \E id \in ApplicationIDs \union {"invalid"} : SetApplicationID(id)
<1>0. /\ {"Success", "InvalidParam"} \subseteq ResultCodes
      /\ {"SetUserID", "SetOAuthToken", "RequestUserID", "RequestOAuthToken"} \subseteq CallOps
      /\ Operations \subseteq CallOps /\ Empty \notin Users \union Tokens
  BY TwitchAssumption DEF ResultCodes, CallOps
<1>1. ASSUME NEW id \in Users \union {"invalid"}, SetUserID(id)
      PROVE  \E op \in CallOps, arg \in {"valid", "invalid"}, n \in Notification :
               AnsweredCall(op, arg, n)
  <2>1. \E n \in Notification :
          AnsweredCall("SetUserID", IF id \in Users THEN "valid" ELSE "invalid", n)
    BY <1>0, <1>1, SetsAnswer DEF SetUserID
  <2>. QED
    BY <1>0, <2>1
<1>2. ASSUME NEW token \in Tokens \union {"invalid"}, SetOAuthToken(token)
      PROVE  \E op \in CallOps, arg \in {"valid", "invalid"}, n \in Notification :
               AnsweredCall(op, arg, n)
  <2>1. \E n \in Notification :
          AnsweredCall("SetOAuthToken", IF token \in Tokens THEN "valid" ELSE "invalid", n)
    BY <1>0, <1>2, SetsAnswer DEF SetOAuthToken
  <2>. QED
    BY <1>0, <2>1
<1>3. ASSUME RequestIdentity
      PROVE  \E op \in CallOps, arg \in {"valid", "invalid"}, n \in Notification :
               AnsweredCall(op, arg, n)
  <2>1. \E op \in {"RequestUserID", "RequestOAuthToken"} :
          \E n \in Notification : AnsweredCall(op, "valid", n)
    BY <1>0, <1>3, SetsAnswer DEF RequestIdentity, identityVars
  <2>. QED
    BY <1>0, <2>1
<1>4. ASSUME NEW op \in Operations, NEW arg \in {"valid", "invalid"}, Call(op, arg)
      PROVE  \/ \E n \in Notification : AnsweredCall(op, arg, n)
             \/ \E request \in Request : RequestedCall(op, arg, request)
  <2>0. GetReceipt(op, arg)
        /\ UNCHANGED <<connected, identityVars, httpConnected, callback, delivered, stops>>
    BY <1>4 DEF Call
  <2>1. receiptCounter' \in 1..MaxReceipts
    BY <1>0, <2>0, GetReceiptTypes
  <2>2. CASE /\ Check(op, arg) # "Success"
             /\ QueueBroadcast(receiptCounter', Check(op, arg), "main")
             /\ UNCHANGED <<httpVars, lost>>
    <3>1. Check(op, arg) \in ResultCodes
      BY DEF Check, ResultCodes
    <3>. QED
      BY <1>0, <2>0, <2>2, <3>1, SetsAnswer DEF identityVars
  <2>3. ASSUME Check(op, arg) = "Success", NEW user \in URLUsers(op),
               AddHTTPRequest([receipt |-> receiptCounter',
                               hop |-> IF op \in TwoHops THEN "channel" ELSE "last",
                               user |-> user, token |-> OAuthHeader(op),
                               clientID |-> applicationID]),
               IF arg = "invalid"
               THEN QueueBroadcast(receiptCounter', "TwitchChannelNoUpdatesToMake", "main")
               ELSE UNCHANGED notifications
        PROVE  \E request \in Request : RequestedCall(op, arg, request)
    <3> DEFINE request == [receipt |-> receiptCounter',
                           hop |-> IF op \in TwoHops THEN "channel" ELSE "last",
                           user |-> user, token |-> OAuthHeader(op),
                           clientID |-> applicationID]
    <3>1. request \in Request
      BY <2>1, <2>3 DEF URLUsers, OAuthHeader, Types, Request
    <3>2. /\ request.receipt = receiptCounter' /\ request.token = OAuthHeader(op)
          /\ request.clientID = applicationID
          /\ request.hop = IF op \in TwoHops THEN "channel" ELSE "last"
          /\ request.user \in URLUsers(op) /\ AddHTTPRequest(request)
      BY <2>3
    <3> HIDE DEF request
    <3>3. arg = "invalid" => op = "UpdateChannel"
      BY <2>3 DEF Check
    <3>4. IF arg = "invalid"
          THEN \E n \in Notification : /\ n.receipt = receiptCounter' /\ n.from = "main"
                                      /\ delivered' \o notifications' = Append(Reported, n)
          ELSE delivered' \o notifications' = Reported
      <4>1. CASE arg = "invalid"
        <5>1. "TwitchChannelNoUpdatesToMake" \in ResultCodes
          BY DEF ResultCodes
        <5>2. PICK n \in Notification :
                /\ n = [receipt |-> receiptCounter', rc |-> "TwitchChannelNoUpdatesToMake",
                        from |-> "main"]
                /\ delivered \o notifications' = Append(delivered \o notifications, n)
          BY <2>1, <2>3, <4>1, <5>1, BroadcastTypes
        <5>3. n.receipt = receiptCounter' /\ n.from = "main"
          BY <5>2
        <5>. QED
          BY <2>0, <4>1, <5>2, <5>3 DEF Reported
      <4>2. CASE arg # "invalid"
        BY <2>0, <2>3, <4>2 DEF Reported
      <4>. QED
        BY <4>1, <4>2
    <3>5. RequestedCall(op, arg, request)
      BY <2>0, <2>3, <3>2, <3>3, <3>4 DEF RequestedCall
    <3>. QED
      BY <3>1, <3>5
  <2>. QED
    BY <1>4, <2>2, <2>3 DEF Call
<1>. QED
  BY <1>0, <1>1, <1>2, <1>3, <1>4 DEF Game

LEMMA RequestedReceipt ==
  ASSUME Types, NEW op \in Operations, NEW arg \in {"valid", "invalid"}, NEW request,
         RequestedCall(op, arg, request)
  PROVE  /\ \A r \in Receipts : r \in Receipts' /\ calls'[r] = calls[r]
         /\ request.receipt \in Receipts' /\ request.receipt \notin Receipts
         /\ Receipts' = Receipts \union {request.receipt}
         /\ \A r \in Receipts : r < request.receipt
         /\ calls'[request.receipt].op = op /\ calls'[request.receipt].arg = arg
<1>1. op \in CallOps /\ GetReceipt(op, arg) /\ request.receipt = receiptCounter'
  BY TwitchAssumption DEF CallOps, RequestedCall
<1>2. /\ \A r \in Receipts : r \in Receipts' /\ calls'[r] = calls[r]
      /\ receiptCounter' \in Receipts' /\ receiptCounter' \notin Receipts
      /\ calls'[receiptCounter'] = [op |-> op, arg |-> arg]
      /\ receiptCounter' = receiptCounter + 1
  BY <1>1, GetReceiptTypes
<1>3. receiptCounter \in Nat
  BY BoundsNat DEF Types
<1>4. Receipts' = Receipts \union {receiptCounter'} /\ \A r \in Receipts : r < receiptCounter'
  BY <1>2, <1>3 DEF Receipts
<1>. QED
  BY <1>1, <1>2, <1>4

LEMMA AnsweredReceipt ==
  ASSUME Types, NEW op \in CallOps, NEW arg \in {"valid", "invalid"}, NEW n,
         AnsweredCall(op, arg, n)
  PROVE  /\ \A r \in Receipts : r \in Receipts' /\ calls'[r] = calls[r]
         /\ n.receipt \in Receipts' /\ n.receipt \notin Receipts
         /\ Receipts' = Receipts \union {n.receipt}
<1>1. GetReceipt(op, arg) /\ n.receipt = receiptCounter'
  BY DEF AnsweredCall
<1>2. /\ \A r \in Receipts : r \in Receipts' /\ calls'[r] = calls[r]
      /\ receiptCounter' \in Receipts' /\ receiptCounter' \notin Receipts
      /\ receiptCounter' = receiptCounter + 1
  BY <1>1, GetReceiptTypes
<1>3. receiptCounter \in Nat
  BY BoundsNat DEF Types
<1>4. Receipts' = Receipts \union {receiptCounter'}
  BY <1>2, <1>3 DEF Receipts
<1>. QED
  BY <1>1, <1>2, <1>4

LEMMA Steps ==
  ASSUME Types, [Next]_vars
  PROVE  \/ \E op \in CallOps, arg \in {"valid", "invalid"}, n \in Notification :
              AnsweredCall(op, arg, n)
         \/ \E op \in Operations, arg \in {"valid", "invalid"}, request \in Request :
              RequestedCall(op, arg, request)
         \/ AnswerRequest \/ BuildBaseURL \/ (AddOAuthtHeader \/ AddClientIDHeader)
         \/ SendSecondHop \/ HttpAbandon \/ Quiet
<1>1. ASSUME UNCHANGED vars PROVE Quiet
  BY <1>1 DEF vars, Quiet, Reported, receiptVars, httpVars, identityVars
<1>2. ASSUME OnSystemTick PROVE Quiet
  <2>1. UNCHANGED <<connected, identityVars, receiptVars, httpConnected, httpVars, callback, lost,
                    stops>>
    BY <1>2 DEF OnSystemTick
  <2>. QED
    BY <1>2, <2>1, TickTypes DEF Quiet, Reported, identityVars
<1>3. ASSUME Activate \/ Deactivate \/ HttpActivate \/ HttpDeactivate PROVE Quiet
  <2>1. UNCHANGED <<identityVars, receiptVars, httpVars, callback, lost, notifications, delivered>>
    BY <1>3, GemTypes
  <2>2. stops'["twitch"] = 0 => stops["twitch"] = 0 /\ (connected => connected')
    BY <1>3 DEF Activate, Deactivate, HttpActivate, HttpDeactivate, Types, Gems
  <2>. QED
    BY <2>1, <2>2 DEF Quiet, Reported, identityVars
<1>4. ASSUME NEW id \in ApplicationIDs \union {"invalid"}, SetApplicationID(id) PROVE Quiet
  BY <1>4, SetApplicationTypes DEF Quiet, Reported
<1>. QED
  BY <1>1, <1>2, <1>3, <1>4, GameSteps DEF Next, Worker

-----------------------------------------------------------------------------
(* The first of two requests is of an operation that makes two, and so is   *)
(* the one the callback between them will make.                             *)
Hops ==
  /\ \A request \in ToSet(Json) : request.hop = "channel" => calls[request.receipt].op \in TwoHops
  /\ callback.stage # "none" => calls[callback.receipt].op \in TwoHops

LEMMA InitHops == Init => Hops
<1>1. Init => Json = <<>> /\ callback.stage = "none"
  BY DEF Init, Http!Init, Http!Kinds, Json, NoCallback, BeginCallback
<1>. QED
  BY <1>1 DEF Hops, ToSet

LEMMA NextHops ==
  ASSUME Types, Hops, [Next]_vars
  PROVE  Hops'
<1>0. /\ \A request \in ToSet(Json) : request.receipt \in Receipts
      /\ callback.stage # "none" => callback.receipt \in Receipts
      /\ Operations \subseteq CallOps
  BY TwitchAssumption DEF Types, Json, CallOps
<1>1. ASSUME NEW op \in CallOps, NEW arg \in {"valid", "invalid"}, NEW n, AnsweredCall(op, arg, n)
      PROVE  Hops'
  <2>1. \A r \in Receipts : calls'[r] = calls[r]
    BY <1>1, GetReceiptTypes DEF AnsweredCall
  <2>. QED
    BY <1>0, <1>1, <2>1 DEF AnsweredCall, Hops, Json, httpVars
<1>2. ASSUME NEW op \in Operations, NEW arg \in {"valid", "invalid"}, NEW request \in Request,
             RequestedCall(op, arg, request)
      PROVE  Hops'
  <2>1. /\ \A r \in Receipts : calls'[r] = calls[r]
        /\ calls'[request.receipt].op = op
    BY <1>2, RequestedReceipt
  <2>2. ToSet(Json') \subseteq ToSet(Json) \union {request}
    BY <1>2, RequestTypes DEF RequestedCall, Json, httpVars
  <2>. QED
    BY <1>0, <1>2, <2>1, <2>2 DEF RequestedCall, Hops
<1>3. CASE AnswerRequest
  <2>1. ToSet(Json') \subseteq ToSet(Json) /\ Head(Json) \in ToSet(Json)
    BY <1>3, AnswerTypes DEF AnswerRequest, Json
  <2>2. \/ UNCHANGED callback
        \/ Head(Json).hop = "channel" /\ callback'.receipt = Head(Json).receipt
    BY <1>3 DEF AnswerRequest, Json, BeginCallback
  <2>3. UNCHANGED calls
    BY <1>3 DEF AnswerRequest, receiptVars
  <2>. QED
    BY <2>1, <2>2, <2>3 DEF Hops
<1>4. CASE BuildBaseURL
  <2>1. UNCHANGED <<calls, httpPending>> /\ callback.stage = "url"
    BY <1>4 DEF BuildBaseURL, receiptVars, httpVars
  <2>2. callback'.receipt = callback.receipt
    BY <1>4 DEF BuildBaseURL, Types, Callback
  <2>. QED
    BY <2>1, <2>2 DEF Hops, Json
<1>5. CASE SendSecondHop
  <2> DEFINE request == SecondRequest(callback.receipt)
  <2>1. request.hop = "last" /\ request \in Request
    <3>1. callback \in Callback /\ callback.receipt \in 1..MaxReceipts
      BY <1>5, BoundsNat DEF SendSecondHop, Types, Callback, Receipts
    <3>. QED
      BY <3>1 DEF SecondRequest, Types, Request, Callback
  <2>2. AddHTTPRequest(request) /\ UNCHANGED calls /\ callback'.stage = "none"
    BY <1>5 DEF SendSecondHop, receiptVars, NoCallback, BeginCallback
  <2> HIDE DEF request
  <2>3. ToSet(Json') \subseteq ToSet(Json) \union {request}
    BY <2>1, <2>2, RequestTypes DEF Json, httpVars
  <2>. QED
    BY <2>1, <2>2, <2>3 DEF Hops
<1>6. CASE HttpAbandon
  <2>1. Json' = <<>> /\ UNCHANGED <<calls, callback>>
    BY <1>6, AbandonTypes DEF HttpAbandon, receiptVars, Json
  <2>. QED
    BY <2>1 DEF Hops, ToSet
<1>7. CASE Quiet
  BY <1>7 DEF Quiet, Hops, Json, receiptVars, httpVars
<1>8. CASE AddOAuthtHeader \/ AddClientIDHeader
  BY <1>8, HeaderReads DEF Hops, Json, receiptVars, httpVars
<1>. QED
  BY <1>1, <1>2, <1>3, <1>4, <1>5, <1>6, <1>7, <1>8, Steps

-----------------------------------------------------------------------------
(* What a call needed is still there when its second request is made.       *)

HasCredentials(r) ==
  cachedOAuthToken # Empty /\ (calls[r].op \in NeedsUserID => cachedClientID # Empty)

Carries(request) ==
  /\ IF calls[request.receipt].op \in ClientIDOnly THEN request.token = NoHeader
     ELSE request.token \in Tokens
  /\ calls[request.receipt].op # "GetFriendStatus" => request.user # Empty

Credentials ==
  stops["twitch"] = 0 =>
    /\ connected
    /\ \A request \in ToSet(Json) \union ToSet(httpAnswered) : Carries(request)
    /\ \A request \in ToSet(Json) : request.hop = "channel" => HasCredentials(request.receipt)
    /\ callback.stage # "none" => HasCredentials(callback.receipt) /\ callback.user # Empty
    /\ callback.stage \in {"clientID", "send"} => callback.token \in Tokens

LEMMA OtherNotEmpty == "other" # Empty
BY Zenon DEF Empty

LEMMA InitCredentials == Init => Credentials
<1>1. Init => Json = <<>> /\ httpAnswered = <<>> /\ callback.stage = "none" /\ connected
  BY DEF Init, Http!Init, Http!Kinds, Json, NoCallback, BeginCallback
<1>. QED
  BY <1>1 DEF Credentials, ToSet

(* The check of a call is enough for its first request, and says what its   *)
(* second will need.                                                        *)
LEMMA CheckedCarries ==
  ASSUME Types, NEW op \in Operations, NEW arg, Check(op, arg) = "Success"
  PROVE  /\ cachedOAuthToken # Empty /\ (op \in NeedsUserID => cachedClientID # Empty)
         /\ IF op \in ClientIDOnly THEN OAuthHeader(op) = NoHeader ELSE OAuthHeader(op) \in Tokens
         /\ \A user \in URLUsers(op) : op # "GetFriendStatus" => user # Empty
<1>1. cachedOAuthToken # Empty /\ (op \in NeedsUserID => cachedClientID # Empty)
  BY DEF Check
<1>2. IF op \in ClientIDOnly THEN OAuthHeader(op) = NoHeader ELSE OAuthHeader(op) \in Tokens
  BY <1>1 DEF OAuthHeader, Types
<1>. QED
  BY <1>1, <1>2, OtherNotEmpty DEF URLUsers

LEMMA NextCredentials ==
  ASSUME Types, Hops, Credentials, [Next]_vars
  PROVE  Credentials'
<1>0. /\ \A request \in ToSet(Json) \union ToSet(httpAnswered) : request.receipt \in Receipts
      /\ callback.stage # "none" => callback.receipt \in Receipts
      /\ Operations \subseteq CallOps
  BY TwitchAssumption DEF Types, Json, CallOps
<1>1. ASSUME NEW op \in CallOps, NEW arg \in {"valid", "invalid"}, NEW n, AnsweredCall(op, arg, n)
      PROVE  Credentials'
  <2>1. \A r \in Receipts : calls'[r] = calls[r]
    BY <1>1, GetReceiptTypes DEF AnsweredCall
  <2>2. UNCHANGED <<connected, httpPending, httpAnswered, callback, stops>>
        /\ (cachedClientID # Empty => cachedClientID' # Empty)
        /\ (cachedOAuthToken # Empty => cachedOAuthToken' # Empty)
    BY <1>1 DEF AnsweredCall, httpVars
  <2>. QED
    BY <1>0, <2>1, <2>2 DEF Credentials, HasCredentials, Carries, Json
<1>2. ASSUME NEW op \in Operations, NEW arg \in {"valid", "invalid"}, NEW request \in Request,
             RequestedCall(op, arg, request)
      PROVE  Credentials'
  <2>1. /\ \A r \in Receipts : calls'[r] = calls[r]
        /\ calls'[request.receipt].op = op
    BY <1>2, RequestedReceipt
  <2>2. ToSet(Json') \subseteq ToSet(Json) \union {request} /\ httpAnswered' = httpAnswered
    BY <1>2, RequestTypes DEF RequestedCall, Json, httpVars
  <2>3. UNCHANGED <<connected, cachedClientID, cachedOAuthToken, callback, stops>>
    BY <1>2 DEF RequestedCall, identityVars
  <2>4. Carries(request)' /\ HasCredentials(request.receipt)'
    BY <1>2, <2>1, <2>3, CheckedCarries DEF RequestedCall, Carries, HasCredentials
  <2>. QED
    BY <1>0, <2>1, <2>2, <2>3, <2>4 DEF Credentials, HasCredentials, Carries
<1>3. CASE AnswerRequest
  <2>1. /\ ToSet(Json') \subseteq ToSet(Json) /\ Head(Json) \in ToSet(Json)
        /\ ToSet(httpAnswered') = ToSet(httpAnswered) \union {Head(Json)}
    BY <1>3, AnswerTypes DEF AnswerRequest, Json
  <2>2. \/ UNCHANGED callback
        \/ /\ Head(Json).hop = "channel" /\ callback'.receipt = Head(Json).receipt
           /\ callback'.user = "other" /\ callback'.stage = "url"
    BY <1>3 DEF AnswerRequest, Json, BeginCallback
  <2>3. UNCHANGED <<connected, cachedClientID, cachedOAuthToken, calls, stops>>
    BY <1>3 DEF AnswerRequest, receiptVars, identityVars
  <2>. QED
    BY <2>1, <2>2, <2>3, OtherNotEmpty DEF Credentials, HasCredentials, Carries
<1>4. CASE BuildBaseURL
  <2>1. UNCHANGED <<connected, cachedClientID, cachedOAuthToken, calls, httpPending, httpAnswered,
                    stops>>
        /\ callback.stage = "url" /\ callback \in Callback
    BY <1>4 DEF BuildBaseURL, receiptVars, httpVars, identityVars, Types
  <2>2. /\ callback'.receipt = callback.receipt /\ callback'.stage = "token"
        /\ callback'.user = IF calls[callback.receipt].op = "UpdateChannel" THEN callback.user
                            ELSE IF connected THEN cachedClientID ELSE Empty
    BY <1>4, <2>1 DEF BuildBaseURL, Callback
  <2>3. calls[callback.receipt].op = "UpdateChannel" \/ calls[callback.receipt].op \in NeedsUserID
    BY <2>1 DEF Hops, TwoHops, NeedsUserID
  <2>. QED
    BY <2>1, <2>2, <2>3 DEF Credentials, HasCredentials, Carries, Json
<1>5. CASE SendSecondHop
  <2> DEFINE request == SecondRequest(callback.receipt)
  <2>1. /\ request.hop = "last" /\ request \in Request /\ request.user = callback.user
        /\ request.token = callback.token /\ request.receipt = callback.receipt
    <3>1. callback \in Callback /\ callback.receipt \in 1..MaxReceipts
      BY <1>5, BoundsNat DEF SendSecondHop, Types, Callback, Receipts
    <3>. QED
      BY <3>1 DEF SecondRequest, Types, Request, Callback
  <2>2. AddHTTPRequest(request) /\ callback.stage = "send" /\ callback'.stage = "none"
        /\ UNCHANGED <<connected, cachedClientID, cachedOAuthToken, calls, stops>>
    BY <1>5 DEF SendSecondHop, receiptVars, identityVars, NoCallback, BeginCallback
  <2> HIDE DEF request
  <2>3. ToSet(Json') \subseteq ToSet(Json) \union {request} /\ httpAnswered' = httpAnswered
    BY <2>1, <2>2, RequestTypes DEF Json, httpVars
  <2>4. stops["twitch"] = 0 => Carries(request)
    <3>1. calls[request.receipt].op \notin ClientIDOnly
      BY <2>1, <2>2 DEF Hops, TwoHops, ClientIDOnly
    <3>. QED
      BY <2>1, <2>2, <3>1 DEF Credentials, Carries
  <2>. QED
    BY <2>1, <2>2, <2>3, <2>4 DEF Credentials, HasCredentials, Carries
<1>6. CASE HttpAbandon
  <2>1. Json' = <<>> /\ httpAnswered' = httpAnswered
        /\ UNCHANGED <<connected, cachedClientID, cachedOAuthToken, calls, callback, stops>>
    BY <1>6, AbandonTypes DEF HttpAbandon, receiptVars, identityVars, Json
  <2>2. ToSet(Json') = {}
    BY <2>1 DEF ToSet
  <2>. QED
    BY <2>1, <2>2 DEF Credentials, HasCredentials, Carries
<1>7. CASE Quiet
  BY <1>7 DEF Quiet, Credentials, HasCredentials, Carries, Json, receiptVars, httpVars, identityVars
<1>8. CASE AddOAuthtHeader
  <2>1. /\ callback.stage = "token" /\ callback \in Callback
        /\ UNCHANGED <<connected, cachedClientID, cachedOAuthToken, calls, httpPending,
                       httpAnswered, stops>>
    BY <1>8 DEF AddOAuthtHeader, receiptVars, httpVars, identityVars, Types
  <2>2. /\ callback'.receipt = callback.receipt /\ callback'.user = callback.user
        /\ callback'.token = IF connected THEN cachedOAuthToken ELSE Empty
    BY <1>8, <2>1 DEF AddOAuthtHeader, Callback
  <2>3. cachedOAuthToken # Empty => cachedOAuthToken \in Tokens
    BY DEF Types
  <2>. QED
    BY <2>1, <2>2, <2>3 DEF Credentials, HasCredentials, Carries, Json
<1>9. CASE AddClientIDHeader
  <2>1. /\ callback.stage = "clientID" /\ callback \in Callback
        /\ UNCHANGED <<connected, cachedClientID, cachedOAuthToken, calls, httpPending,
                       httpAnswered, stops>>
    BY <1>9 DEF AddClientIDHeader, receiptVars, httpVars, identityVars, Types
  <2>2. /\ callback'.receipt = callback.receipt /\ callback'.user = callback.user
        /\ callback'.token = callback.token
    BY <1>9, <2>1 DEF AddClientIDHeader, Callback
  <2>. QED
    BY <2>1, <2>2 DEF Credentials, HasCredentials, Carries, Json
<1>. QED
  BY <1>1, <1>2, <1>3, <1>4, <1>5, <1>6, <1>7, <1>8, <1>9, Steps

(* No request leaves without credentials: what was checked on the main      *)
(* thread when the game called still holds when the worker makes the       *)
(* second request.  (UpdatePresenceStatus, InternalGetChannel)              *)
THEOREM CarryCorrect == Spec => []RequestsCarryCredentials
<1>1. Spec => [](Types /\ Hops /\ Credentials)
  <2>1. Init => Types /\ Hops /\ Credentials
    BY InitTypes, InitHops, InitCredentials
  <2>2. Types /\ Hops /\ Credentials /\ [Next]_vars => (Types /\ Hops /\ Credentials)'
    BY NextTypes, NextHops, NextCredentials
  <2>. QED
    BY <2>1, <2>2, PTL DEF Spec
<1>2. Credentials => RequestsCarryCredentials
  BY DEF Credentials, Carries, RequestsCarryCredentials, Json
<1>. QED
  BY <1>1, <1>2, PTL

-----------------------------------------------------------------------------
(* The application id: what has been read of it is what it is, and a second *)
(* request of a receipt reads it after the first.                           *)

Requests == ToSet(Json) \union ToSet(httpAnswered)

IDKnown(id) == id \in {Empty, applicationID}

Identified ==
  /\ \A request \in Requests : IDKnown(request.clientID)
  /\ IDKnown(callback.clientID)
  /\ stops["twitch"] = 0 =>
       /\ connected
       /\ \A first \in Requests :
            first.hop = "channel" /\ first.clientID # Empty =>
              /\ callback.stage = "send" /\ callback.receipt = first.receipt
                   => callback.clientID # Empty
              /\ \A second \in Requests :
                   second.receipt = first.receipt => second.clientID # Empty

LEMMA InitIdentified == Init => Identified
<1>1. Init => Json = <<>> /\ httpAnswered = <<>> /\ callback.clientID = Empty /\ connected
  BY DEF Init, Http!Init, Http!Kinds, Json, NoCallback, BeginCallback
<1>. QED
  BY <1>1 DEF Identified, Requests, IDKnown, ToSet

LEMMA NextIdentified ==
  ASSUME Types, Identified, [Next]_vars
  PROVE  Identified'
<1>0. /\ \A request \in Requests : request.receipt \in Receipts
      /\ callback.stage # "none" => callback.receipt \in Receipts
      /\ callback \in Callback
  BY DEF Types, Json, Requests
<1>1. ASSUME NEW op \in CallOps, NEW arg \in {"valid", "invalid"}, NEW n, AnsweredCall(op, arg, n)
      PROVE  Identified'
  <2>1. UNCHANGED <<connected, applicationID, Json, httpAnswered, callback, stops>>
    BY <1>1 DEF AnsweredCall, httpVars, Json
  <2>. QED
    BY <2>1 DEF Identified, Requests, IDKnown
<1>2. ASSUME NEW op \in Operations, NEW arg \in {"valid", "invalid"}, NEW request \in Request,
             RequestedCall(op, arg, request)
      PROVE  Identified'
  <2>1. request.receipt \notin Receipts
    BY <1>2, RequestedReceipt
  <2>2. Requests' \subseteq Requests \union {request}
    BY <1>2, RequestTypes DEF RequestedCall, Json, httpVars, Requests
  <2>3. UNCHANGED <<connected, applicationID, callback, stops>> /\ request.clientID = applicationID
    BY <1>2 DEF RequestedCall, identityVars
  <2>4. \A q \in Requests' : IDKnown(q.clientID)'
    BY <2>2, <2>3 DEF Identified, IDKnown
  <2>5. ASSUME NEW first \in Requests', first.hop = "channel", first.clientID # Empty,
               stops["twitch"] = 0
        PROVE  /\ callback.stage = "send" /\ callback.receipt = first.receipt
                    => callback.clientID # Empty
               /\ \A second \in Requests' :
                    second.receipt = first.receipt => second.clientID # Empty
    BY <1>0, <2>1, <2>2, <2>5 DEF Identified
  <2>. QED
    BY <2>3, <2>4, <2>5 DEF Identified, IDKnown
<1>3. CASE AnswerRequest
  <2>1. Requests' = Requests
    BY <1>3, AnswerTypes DEF AnswerRequest, Json, Requests
  <2>2. UNCHANGED callback \/ (callback'.stage = "url" /\ callback'.clientID = Empty)
    BY <1>3 DEF AnswerRequest, BeginCallback
  <2>3. UNCHANGED <<connected, applicationID, stops>>
    BY <1>3 DEF AnswerRequest, identityVars
  <2>. QED
    BY <2>1, <2>2, <2>3 DEF Identified, IDKnown
<1>4. CASE BuildBaseURL \/ AddOAuthtHeader
  <2>1. /\ UNCHANGED <<connected, applicationID, httpPending, httpAnswered, stops>>
        /\ callback'.clientID = callback.clientID /\ callback'.stage \in {"token", "clientID"}
    BY <1>0, <1>4 DEF BuildBaseURL, AddOAuthtHeader, httpVars, identityVars, Callback
  <2>. QED
    BY <2>1 DEF Identified, Requests, Json, IDKnown
<1>5. CASE AddClientIDHeader
  <2>1. /\ UNCHANGED <<connected, applicationID, httpPending, httpAnswered, stops>>
        /\ callback'.clientID = IF connected THEN applicationID ELSE Empty
    BY <1>0, <1>5 DEF AddClientIDHeader, httpVars, identityVars, Callback
  <2>. QED
    BY <2>1 DEF Identified, Requests, Json, IDKnown
<1>6. CASE SendSecondHop
  <2> DEFINE request == SecondRequest(callback.receipt)
  <2>1. /\ request.hop = "last" /\ request \in Request /\ request.clientID = callback.clientID
        /\ request.receipt = callback.receipt
    <3>1. callback \in Callback /\ callback.receipt \in 1..MaxReceipts
      BY <1>6, BoundsNat DEF SendSecondHop, Types, Callback, Receipts
    <3>. QED
      BY <3>1 DEF SecondRequest, Types, Request, Callback
  <2>2. /\ AddHTTPRequest(request) /\ callback.stage = "send" /\ callback'.stage = "none"
        /\ callback'.clientID = Empty /\ UNCHANGED <<connected, applicationID, stops>>
    BY <1>6 DEF SendSecondHop, identityVars, NoCallback, BeginCallback
  <2> HIDE DEF request
  <2>3. Requests' \subseteq Requests \union {request}
    BY <2>1, <2>2, RequestTypes DEF Json, httpVars, Requests
  <2>4. \A q \in Requests' : IDKnown(q.clientID)'
    BY <2>1, <2>2, <2>3 DEF Identified, IDKnown
  <2>5. ASSUME NEW first \in Requests', first.hop = "channel", first.clientID # Empty,
               stops["twitch"] = 0
        PROVE  \A second \in Requests' :
                 second.receipt = first.receipt => second.clientID # Empty
    BY <2>1, <2>2, <2>3, <2>5 DEF Identified
  <2>. QED
    BY <2>2, <2>4, <2>5 DEF Identified, IDKnown
<1>7. CASE HttpAbandon
  <2>1. Json' = <<>> /\ httpAnswered' = httpAnswered
        /\ UNCHANGED <<connected, applicationID, callback, stops>>
    BY <1>7, AbandonTypes DEF HttpAbandon, identityVars, Json
  <2>2. Requests' \subseteq Requests
    BY <2>1 DEF Requests, ToSet
  <2>. QED
    BY <2>1, <2>2 DEF Identified, IDKnown
<1>8. CASE Quiet
  <2>1. /\ Requests' = Requests /\ UNCHANGED callback
        /\ applicationID # Empty => applicationID' = applicationID
        /\ stops'["twitch"] = 0 => stops["twitch"] = 0 /\ (connected => connected')
    BY <1>8 DEF Quiet, Requests, Json, httpVars
  <2>2. ASSUME NEW id, IDKnown(id) PROVE IDKnown(id)'
    BY <2>1, <2>2 DEF IDKnown
  <2>3. (\A request \in Requests : IDKnown(request.clientID))' /\ IDKnown(callback.clientID)'
    <3>1. \A request \in Requests' : IDKnown(request.clientID)'
      BY <2>1, <2>2 DEF Identified
    <3>2. IDKnown(callback.clientID)'
      BY <2>1 DEF Identified, IDKnown
    <3>. QED
      BY <3>1, <3>2
  <2>4. (stops["twitch"] = 0)' =>
          /\ stops["twitch"] = 0 /\ connected'
          /\ Requests' = Requests /\ callback' = callback
    BY <2>1 DEF Identified
  <2>. QED
    BY <2>3, <2>4 DEF Identified
<1>. QED
  BY <1>1, <1>2, <1>3, <1>4, <1>5, <1>6, <1>7, <1>8, Steps

(* Two requests that carry an application id carry the same one, and the    *)
(* second hop of a call has it if the first had.  (SetApplicationID,        *)
(* AddClientIDHeader)                                                       *)
THEOREM ApplicationIDCorrect == Spec => []OneApplicationID
<1>1. Spec => [](Types /\ Identified)
  <2>1. Init => Types /\ Identified
    BY InitTypes, InitIdentified
  <2>2. Types /\ Identified /\ [Next]_vars => (Types /\ Identified)'
    BY NextTypes, NextIdentified
  <2>. QED
    BY <2>1, <2>2, PTL DEF Spec
<1>2. Identified => OneApplicationID
  BY DEF Identified, IDKnown, OneApplicationID, Requests, Json
<1>. QED
  BY <1>1, <1>2, PTL

-----------------------------------------------------------------------------
(* The answered requests of one hop come before the pending ones, and the   *)
(* pending ones wait in the order of their calls.                           *)

ByOneHop(r) == calls[r].op \in OneHop

AnswersOrdered ==
  \A i, j \in DOMAIN Reported :
    /\ i < j
    /\ Reported[i].from = "worker" /\ ByOneHop(Reported[i].receipt)
    /\ Reported[j].from = "worker" /\ ByOneHop(Reported[j].receipt)
    => Reported[i].receipt < Reported[j].receipt

PendingOrdered ==
  \A i, j \in DOMAIN Json :
    i < j /\ ByOneHop(Json[i].receipt) /\ ByOneHop(Json[j].receipt)
      => Json[i].receipt < Json[j].receipt

AnsweredFirst ==
  \A n \in ToSet(Reported), request \in ToSet(Json) :
    n.from = "worker" /\ ByOneHop(n.receipt) /\ ByOneHop(request.receipt)
      => n.receipt < request.receipt

Order == AnswersOrdered /\ PendingOrdered /\ AnsweredFirst

LEMMA ReportedTypes ==
  ASSUME Types
  PROVE  /\ Reported \in Seq(Notification) /\ Json \in Seq(Request)
         /\ \A n \in ToSet(Reported) : n.receipt \in Receipts
         /\ \A request \in ToSet(Json) : request.receipt \in Receipts
         /\ \A i \in DOMAIN Reported : Reported[i] \in ToSet(Reported)
         /\ \A i \in DOMAIN Json : Json[i] \in ToSet(Json)
         /\ \A r \in Receipts : r \in Nat
<1>1. notifications \in Seq(Notification) /\ delivered \in Seq(Notification) /\ Json \in Seq(Request)
  BY DEF Types, Json
<1>2. Reported \in Seq(Notification) /\ ToSet(Reported) = ToSet(delivered) \union ToSet(notifications)
  BY <1>1, ConcatElements DEF Reported
<1>3. \A i \in DOMAIN Reported : Reported[i] \in ToSet(Reported)
  BY DEF ToSet
<1>4. \A i \in DOMAIN Json : Json[i] \in ToSet(Json)
  BY DEF ToSet
<1>5. \A r \in Receipts : r \in Nat
  BY BoundsNat DEF Types, Receipts
<1>. QED
  BY <1>1, <1>2, <1>3, <1>4, <1>5 DEF Types, Json

(* A notification that is no answer of one hop breaks no order. *)
LEMMA MainKeepsOrder ==
  ASSUME Types, Order, NEW n \in Notification, n.from = "worker" => ~ByOneHop(n.receipt)',
         \A r \in Receipts : calls'[r] = calls[r],
         Reported' = Append(Reported, n)
  PROVE  AnswersOrdered'
<1>1. /\ DOMAIN Reported' = 1..(Len(Reported) + 1) /\ DOMAIN Reported = 1..Len(Reported)
      /\ Len(Reported) \in Nat
      /\ \A i \in DOMAIN Reported : Reported'[i] = Reported[i]
      /\ Reported'[Len(Reported) + 1] = n
  BY ReportedTypes, AppendElements
<1>2. \A i \in DOMAIN Reported : Reported[i].receipt \in Receipts
  BY ReportedTypes
<1>3. \A i \in DOMAIN Reported' : i \in DOMAIN Reported \/ Reported'[i] = n
  BY <1>1
<1>. QED
  BY <1>1, <1>2, <1>3 DEF Order, AnswersOrdered, ByOneHop

LEMMA InitOrder == Init => Order
<1> SUFFICES ASSUME Init PROVE Order
  OBVIOUS
<1>1. Json = <<>> /\ delivered = <<>> /\ notifications = <<>>
  BY DEF Init, Http!Init, Http!Kinds, Json
<1>2. Reported = <<>>
  BY <1>1 DEF Reported
<1>. QED
  BY <1>1, <1>2 DEF Order, AnswersOrdered, PendingOrdered, AnsweredFirst, ToSet

LEMMA OpsDisjoint == OneHop \intersect TwoHops = {}
BY DEF OneHop, TwoHops, FriendOperations, PresenceOperations, ChannelLists, ChannelOperations

LEMMA NextOrder ==
  ASSUME Types, Hops, Order, [Next]_vars
  PROVE  Order'
<1>0. Types'
  BY NextTypes
<1>1. ASSUME NEW op \in CallOps, NEW arg \in {"valid", "invalid"}, NEW n \in Notification,
             AnsweredCall(op, arg, n)
      PROVE  Order'
  <2>1. \A r \in Receipts : calls'[r] = calls[r]
    BY <1>1, AnsweredReceipt
  <2>2. Reported' = Append(Reported, n) /\ n.from = "main" /\ Json' = Json
    BY <1>1 DEF AnsweredCall, Reported, Json, httpVars
  <2>3. ToSet(Reported') = ToSet(Reported) \union {n}
    BY <2>2, ReportedTypes, AppendElements
  <2>4. AnswersOrdered'
    BY <2>1, <2>2, MainKeepsOrder
  <2>5. PendingOrdered'
    BY <2>1, <2>2, ReportedTypes DEF Order, PendingOrdered, ByOneHop
  <2>6. AnsweredFirst'
    BY <2>1, <2>2, <2>3, ReportedTypes DEF Order, AnsweredFirst, ByOneHop
  <2>. QED
    BY <2>4, <2>5, <2>6 DEF Order
<1>2. ASSUME NEW op \in Operations, NEW arg \in {"valid", "invalid"}, NEW request \in Request,
             RequestedCall(op, arg, request)
      PROVE  Order'
  <2>1. /\ \A r \in Receipts : calls'[r] = calls[r]
        /\ \A r \in Receipts : r < request.receipt
    BY <1>2, RequestedReceipt
  <2>2. \/ Json' = Json
        \/ Json' = Append(Json, request) /\ ToSet(Json') = ToSet(Json) \union {request}
    BY <1>2, RequestTypes DEF RequestedCall, Json, httpVars
  <2>3. \/ Reported' = Reported
        \/ \E n \in Notification : n.from = "main" /\ Reported' = Append(Reported, n)
    BY <1>2 DEF RequestedCall, Reported
  <2>4. \A n \in ToSet(Reported') : n \in ToSet(Reported) \/ n.from = "main"
    <3>1. ASSUME NEW n \in Notification, n.from = "main", Reported' = Append(Reported, n)
          PROVE  \A m \in ToSet(Reported') : m \in ToSet(Reported) \/ m.from = "main"
      BY <3>1, ReportedTypes, AppendElements
    <3>. QED
      BY <2>3, <3>1
  <2>5. AnswersOrdered'
    <3>1. CASE Reported' = Reported
      BY <2>1, <3>1, ReportedTypes DEF Order, AnswersOrdered, ByOneHop
    <3>. QED
      BY <2>1, <2>3, <3>1, MainKeepsOrder
  <2>6. PendingOrdered'
    <3>1. CASE Json' = Json
      BY <2>1, <3>1, ReportedTypes DEF Order, PendingOrdered, ByOneHop
    <3>2. CASE Json' = Append(Json, request)
      <4>1. /\ DOMAIN Json' = 1..(Len(Json) + 1) /\ DOMAIN Json = 1..Len(Json) /\ Len(Json) \in Nat
            /\ \A i \in DOMAIN Json : Json'[i] = Json[i]
            /\ Json'[Len(Json) + 1] = request
        BY <3>2, ReportedTypes, AppendElements
      <4>2. \A i, j \in DOMAIN Json' :
              i < j => i \in DOMAIN Json /\ (j \in DOMAIN Json \/ Json'[j] = request)
        BY <4>1
      <4>. QED
        BY <2>1, <4>1, <4>2, ReportedTypes DEF Order, PendingOrdered, ByOneHop
    <3>. QED
      BY <2>2, <3>1, <3>2
  <2>7. AnsweredFirst'
    <3>1. \A q \in ToSet(Json') : q \in ToSet(Json) \/ q = request
      BY <2>2
    <3>. QED
      BY <2>1, <2>4, <3>1, ReportedTypes DEF Order, AnsweredFirst, ByOneHop
  <2>. QED
    BY <2>5, <2>6, <2>7 DEF Order
<1>3. CASE AnswerRequest
  <2> DEFINE request == Head(Json)
  <2>1. /\ Json # <<>> /\ Json' = Tail(Json)
        /\ request \in ToSet(Json) /\ ToSet(Json) = ToSet(Json') \union {request}
    BY <1>3, AnswerTypes DEF AnswerRequest, Json
  <2>2. /\ request = Json[1] /\ Len(Json) \in Nat /\ Len(Json) > 0
        /\ DOMAIN Json = 1..Len(Json) /\ DOMAIN Json' = 1..(Len(Json) - 1)
        /\ \A i \in DOMAIN Json' : i + 1 \in DOMAIN Json /\ Json'[i] = Json[i + 1]
    BY <2>1, ReportedTypes, TailElements
  <2>3. \/ /\ request.hop = "last"
           /\ \E rc \in {"Success", "TwitchRESTError"} :
                QueueBroadcast(request.receipt, rc, "worker")
        \/ UNCHANGED notifications
    BY <1>3 DEF AnswerRequest, Json, BeginCallback
  <2>4. UNCHANGED <<calls, delivered>>
    BY <1>3 DEF AnswerRequest, receiptVars
  <2> HIDE DEF request
  <2>5. \A q \in ToSet(Json') : ByOneHop(request.receipt) /\ ByOneHop(q.receipt)
                                => request.receipt < q.receipt
    <3>1. ASSUME NEW i \in DOMAIN Json', ByOneHop(request.receipt), ByOneHop(Json'[i].receipt)
          PROVE  request.receipt < Json'[i].receipt
      <4>1. /\ 1 \in DOMAIN Json /\ i + 1 \in DOMAIN Json /\ 1 < i + 1
            /\ Json'[i] = Json[i + 1] /\ request = Json[1]
        BY <2>2
      <4>. QED
        BY <3>1, <4>1 DEF Order, PendingOrdered
    <3>. QED
      BY <3>1 DEF ToSet
  <2>6. PendingOrdered'
    <3>1. ASSUME NEW i \in DOMAIN Json', NEW j \in DOMAIN Json', i < j
          PROVE  /\ i + 1 \in DOMAIN Json /\ j + 1 \in DOMAIN Json /\ i + 1 < j + 1
                 /\ Json'[i] = Json[i + 1] /\ Json'[j] = Json[j + 1]
      BY <2>2, <3>1
    <3>2. ASSUME NEW i \in DOMAIN Json', NEW j \in DOMAIN Json', i < j,
                 ByOneHop(Json[i].receipt)', ByOneHop(Json[j].receipt)'
          PROVE  Json'[i].receipt < Json'[j].receipt
      BY <2>4, <3>1, <3>2 DEF Order, PendingOrdered, ByOneHop
    <3>. QED
      BY <3>2 DEF PendingOrdered
  <2>7. request.receipt \in 1..MaxReceipts
    <3>1. Json \in Seq(Request)
      BY ReportedTypes
    <3>2. request \in Request
      BY <2>1, <3>1, ElementsType
    <3>. QED
      BY <3>2 DEF Request
  <2>8. CASE UNCHANGED notifications
    <3>1. Reported' = Reported
      BY <2>4, <2>8 DEF Reported
    <3>. QED
      BY <2>1, <2>4, <2>6, <3>1 DEF Order, AnswersOrdered, AnsweredFirst, ByOneHop
  <2>9. ASSUME NEW rc \in {"Success", "TwitchRESTError"},
               QueueBroadcast(request.receipt, rc, "worker")
        PROVE  Order'
    <3>1. PICK n \in Notification :
            /\ n = [receipt |-> request.receipt, rc |-> rc, from |-> "worker"]
            /\ delivered \o notifications' = Append(delivered \o notifications, n)
      BY <2>7, <2>9, BroadcastTypes DEF ResultCodes
    <3>2. n.receipt = request.receipt /\ Reported' = Append(Reported, n)
      BY <2>4, <3>1 DEF Reported
    <3>3. /\ DOMAIN Reported' = 1..(Len(Reported) + 1) /\ DOMAIN Reported = 1..Len(Reported)
          /\ Len(Reported) \in Nat
          /\ \A i \in DOMAIN Reported : Reported'[i] = Reported[i]
          /\ Reported'[Len(Reported) + 1] = n
          /\ ToSet(Reported') = ToSet(Reported) \union {n}
      BY <3>2, ReportedTypes, AppendElements
    <3>4. \A i, j \in DOMAIN Reported' :
            i < j => i \in DOMAIN Reported /\ (j \in DOMAIN Reported \/ Reported'[j] = n)
      BY <3>3
    <3>5. \A i \in DOMAIN Reported :
            Reported[i].from = "worker" /\ ByOneHop(Reported[i].receipt) /\ ByOneHop(n.receipt)
              => Reported[i].receipt < n.receipt
      BY <2>1, <3>2, ReportedTypes DEF Order, AnsweredFirst
    <3>6. AnswersOrdered'
      BY <2>4, <3>3, <3>4, <3>5 DEF Order, AnswersOrdered, ByOneHop
    <3>7. AnsweredFirst'
      BY <2>1, <2>4, <2>5, <3>2, <3>3 DEF Order, AnsweredFirst, ByOneHop
    <3>. QED
      BY <2>6, <3>6, <3>7 DEF Order
  <2>. QED
    BY <2>3, <2>8, <2>9
<1>4. CASE BuildBaseURL
  BY <1>4 DEF BuildBaseURL, Order, AnswersOrdered, PendingOrdered, AnsweredFirst, ByOneHop, Reported,
              Json, receiptVars, httpVars
<1>5. CASE SendSecondHop
  <2> DEFINE request == SecondRequest(callback.receipt)
  <2>1. request \in Request /\ request.receipt = callback.receipt
    <3>1. callback \in Callback /\ callback.receipt \in 1..MaxReceipts
      BY <1>5, BoundsNat DEF SendSecondHop, Types, Callback, Receipts
    <3>. QED
      BY <3>1 DEF SecondRequest, Types, Request, Callback
  <2>2. AddHTTPRequest(request) /\ UNCHANGED <<calls, notifications, delivered>>
        /\ callback.stage # "none"
    BY <1>5 DEF SendSecondHop, receiptVars
  <2> HIDE DEF request
  <2>3. \/ Json' = Json
        \/ Json' = Append(Json, request) /\ ToSet(Json') = ToSet(Json) \union {request}
    BY <2>1, <2>2, RequestTypes DEF Json, httpVars
  <2>4. ~ByOneHop(request.receipt)
    BY <2>1, <2>2, OpsDisjoint DEF Hops, ByOneHop
  <2>5. Reported' = Reported
    BY <2>2 DEF Reported
  <2>6. CASE Json' = Json
    BY <2>2, <2>5, <2>6 DEF Order, AnswersOrdered, PendingOrdered, AnsweredFirst, ByOneHop
  <2>7. CASE Json' = Append(Json, request) /\ ToSet(Json') = ToSet(Json) \union {request}
    <3>1. /\ DOMAIN Json' = 1..(Len(Json) + 1) /\ DOMAIN Json = 1..Len(Json) /\ Len(Json) \in Nat
          /\ \A i \in DOMAIN Json : Json'[i] = Json[i]
          /\ Json'[Len(Json) + 1] = request
      BY <2>1, <2>7, ReportedTypes, AppendElements
    <3>2. \A i \in DOMAIN Json' : i \in DOMAIN Json \/ Json'[i] = request
      BY <3>1
    <3>3. PendingOrdered'
      BY <2>2, <2>4, <3>1, <3>2 DEF Order, PendingOrdered, ByOneHop
    <3>. QED
      BY <2>2, <2>4, <2>5, <2>7, <3>3 DEF Order, AnswersOrdered, AnsweredFirst, ByOneHop
  <2>. QED
    BY <2>3, <2>6, <2>7
<1>6. CASE HttpAbandon
  <2>1. Json' = <<>> /\ UNCHANGED <<calls, notifications, delivered>>
    BY <1>6, AbandonTypes DEF HttpAbandon, receiptVars, Json
  <2>2. ToSet(Json') = {} /\ DOMAIN Json' = {} /\ Reported' = Reported
    BY <2>1 DEF ToSet, Reported
  <2>. QED
    BY <2>1, <2>2 DEF Order, AnswersOrdered, PendingOrdered, AnsweredFirst, ByOneHop
<1>7. CASE Quiet
  <2>1. UNCHANGED <<calls, httpPending>> /\ Reported' = Reported
    BY <1>7 DEF Quiet, Reported, receiptVars, httpVars
  <2>. QED
    BY <2>1 DEF Order, AnswersOrdered, PendingOrdered, AnsweredFirst, ByOneHop, Json
<1>8. CASE AddOAuthtHeader \/ AddClientIDHeader
  BY <1>8, HeaderReads DEF Order, AnswersOrdered, PendingOrdered, AnsweredFirst, ByOneHop, Reported,
                           Json, receiptVars, httpVars
<1>. QED
  BY <1>1, <1>2, <1>3, <1>4, <1>5, <1>6, <1>7, <1>8, Steps

(* The answers of operations that make one request reach the game in the    *)
(* order of its calls.  (AddHTTPRequest, QueueBroadcast, OnSystemTick)      *)
THEOREM OrderCorrect == Spec => []AnswersInOrder
<1>1. Spec => [](Types /\ Hops /\ Order)
  <2>1. Init => Types /\ Hops /\ Order
    BY InitTypes, InitHops, InitOrder
  <2>2. Types /\ Hops /\ Order /\ [Next]_vars => (Types /\ Hops /\ Order)'
    BY NextTypes, NextHops, NextOrder
  <2>. QED
    BY <2>1, <2>2, PTL DEF Spec
<1>2. Order => AnswersInOrder
  BY DEF Order, AnswersOrdered, AnswersInOrder, ByOneHop, Reported
<1>. QED
  BY <1>1, <1>2, PTL

-----------------------------------------------------------------------------
(* The five places where a receipt can be, which Fates adds up.             *)

InReported(r) == Occurrences(Reported, r)
InRequests(r) == Occurrences(Json, r)
InCallback(r) == IF callback.stage # "none" /\ callback.receipt = r THEN 1 ELSE 0
InLost(r)     == IF r \in lost THEN 1 ELSE 0
InAbandoned(r) == Cardinality({request \in httpAbandoned : request.receipt = r})

Placed ==
  /\ IsFiniteSet(httpAbandoned)
  /\ OneFatePerReceipt

LEMMA FatesSum ==
  ASSUME NEW r
  PROVE  Fates(r)
           = InReported(r) + InRequests(r) + InCallback(r) + InLost(r) + InAbandoned(r)
BY DEF Fates, InReported, InRequests, InCallback, InLost, InAbandoned, Reported, Json

(* The same in the next state, where the places are known by their values.  *)
LEMMA FatesSumNext ==
  ASSUME NEW r
  PROVE  Fates(r)'
           = InReported(r)' + InRequests(r)' + InCallback(r)' + InLost(r)' + InAbandoned(r)'
BY DEF Fates, InReported, InRequests, InCallback, InLost, InAbandoned, Reported, Json

LEMMA PlacesNat ==
  ASSUME Types, IsFiniteSet(httpAbandoned), NEW r
  PROVE  /\ InReported(r) \in Nat /\ InRequests(r) \in Nat /\ InAbandoned(r) \in Nat
         /\ InCallback(r) \in {0, 1} /\ InLost(r) \in {0, 1}
         /\ InReported(r) = 0 <=> \A n \in ToSet(Reported) : n.receipt # r
         /\ InRequests(r) = 0 <=> \A request \in ToSet(Json) : request.receipt # r
         /\ InAbandoned(r) = 0 <=> \A request \in httpAbandoned : request.receipt # r
<1> DEFINE D == {request \in httpAbandoned : request.receipt = r}
<1>1. IsFiniteSet(D)
  BY FS_Subset
<1>2. Cardinality(D) \in Nat /\ (Cardinality(D) = 0 <=> D = {})
  BY <1>1, FS_CardinalityType, FS_EmptySet
<1>3. InAbandoned(r) \in Nat /\ (InAbandoned(r) = 0 <=> \A request \in httpAbandoned : request.receipt # r)
  BY <1>2 DEF InAbandoned
<1>4. Reported \in Seq(Notification) /\ Json \in Seq(Request)
  BY ReportedTypes
<1>5. InReported(r) \in Nat /\ (InReported(r) = 0 <=> \A n \in ToSet(Reported) : n.receipt # r)
  BY <1>4, OccurrencesNat DEF InReported
<1>6. InRequests(r) \in Nat /\ (InRequests(r) = 0 <=> \A request \in ToSet(Json) : request.receipt # r)
  BY <1>4, OccurrencesNat DEF InRequests
<1>. QED
  BY <1>3, <1>5, <1>6 DEF InCallback, InLost

(* A receipt not handed out is nowhere. *)
LEMMA FreshNowhere ==
  ASSUME Types, IsFiniteSet(httpAbandoned), NEW r, r \notin Receipts
  PROVE  /\ InReported(r) = 0 /\ InRequests(r) = 0 /\ InCallback(r) = 0 /\ InLost(r) = 0
         /\ InAbandoned(r) = 0
<1>1. InCallback(r) = 0 /\ InLost(r) = 0
  BY DEF InCallback, InLost, Types
<1>2. \A n \in ToSet(Reported) : n.receipt # r
  BY ReportedTypes
<1>3. \A request \in ToSet(Json) : request.receipt # r
  BY ReportedTypes
<1>4. \A request \in httpAbandoned : request.receipt # r
  BY DEF Types
<1>. QED
  BY <1>1, <1>2, <1>3, <1>4, PlacesNat

(* What moves a receipt from one place to another. *)
LEMMA ReportMoves ==
  ASSUME Types, NEW n \in Notification, Reported' = Append(Reported, n), NEW r
  PROVE  InReported(r)' = InReported(r) + (IF n.receipt = r THEN 1 ELSE 0)
<1>1. Occurrences(Append(Reported, n), r)
        = Occurrences(Reported, r) + (IF n.receipt = r THEN 1 ELSE 0)
  BY ReportedTypes, OccurrencesAppend
<1>2. InReported(r)' = Occurrences(Append(Reported, n), r)
  BY DEF InReported
<1>. QED
  BY <1>1, <1>2 DEF InReported

LEMMA RequestMoves ==
  ASSUME Types, NEW request \in Request, AddHTTPRequest(request), NEW r
  PROVE  /\ InAbandoned(r)' = InAbandoned(r) /\ httpAbandoned' = httpAbandoned
         /\ \/ /\ InRequests(r)' = InRequests(r) + (IF request.receipt = r THEN 1 ELSE 0)
               /\ InLost(r)' = InLost(r)
            \/ /\ InRequests(r)' = InRequests(r)
               /\ InLost(r)' = IF request.receipt = r THEN 1 ELSE InLost(r)
<1>1. CASE httpConnected
  <2>1. Json' = Append(Json, request) /\ httpAbandoned' = httpAbandoned /\ lost' = lost
    BY <1>1, RequestTypes DEF Json
  <2>2. Occurrences(Append(Json, request), r)
          = Occurrences(Json, r) + (IF request.receipt = r THEN 1 ELSE 0)
    BY ReportedTypes, OccurrencesAppend
  <2>3. InRequests(r)' = Occurrences(Append(Json, request), r)
    BY <2>1 DEF InRequests
  <2>. QED
    BY <2>1, <2>2, <2>3 DEF InRequests, InLost, InAbandoned
<1>2. CASE ~httpConnected
  <2>1. UNCHANGED httpVars /\ lost' = lost \union {request.receipt}
    BY <1>2, RequestTypes
  <2>2. InRequests(r)' = InRequests(r) /\ InAbandoned(r)' = InAbandoned(r)
    BY <2>1 DEF InRequests, InAbandoned, Json, httpVars
  <2>. QED
    BY <2>1, <2>2 DEF InLost, httpVars
<1>. QED
  BY <1>1, <1>2

LEMMA AnswerMoves ==
  ASSUME Types, Http!Answer("json"), NEW r
  PROVE  /\ InRequests(r) = InRequests(r)' + (IF Head(Json).receipt = r THEN 1 ELSE 0)
         /\ InRequests(r)' \in Nat
         /\ InAbandoned(r)' = InAbandoned(r) /\ httpAbandoned' = httpAbandoned
<1>1. Json # <<>> /\ Json' = Tail(Json) /\ httpAbandoned' = httpAbandoned
  BY AnswerTypes DEF Json
<1>2. Occurrences(Json, r) = Occurrences(Tail(Json), r) + (IF Head(Json).receipt = r THEN 1 ELSE 0)
  BY <1>1, ReportedTypes, OccurrencesTail
<1>3. InRequests(r)' = Occurrences(Tail(Json), r)
  BY <1>1 DEF InRequests
<1>4. Occurrences(Tail(Json), r) \in Nat
  <2>1. Tail(Json) \in Seq(Request)
    BY <1>1, ReportedTypes, TailElements
  <2>. QED
    BY <2>1, OccurrencesNat
<1>. QED
  BY <1>1, <1>2, <1>3, <1>4 DEF InRequests, InAbandoned

(* A place that is not disturbed. *)
LEMMA Stays ==
  ASSUME NEW r
  PROVE  /\ Reported' = Reported => InReported(r)' = InReported(r)
         /\ Json' = Json => InRequests(r)' = InRequests(r)
         /\ callback' = callback => InCallback(r)' = InCallback(r)
         /\ lost' = lost => InLost(r)' = InLost(r)
         /\ httpAbandoned' = httpAbandoned => InAbandoned(r)' = InAbandoned(r)
BY DEF InReported, InRequests, InCallback, InLost, InAbandoned

LEMMA ElementsFinite ==
  ASSUME NEW S, NEW s \in Seq(S)
  PROVE  IsFiniteSet(ToSet(s))
<1> DEFINE f == [i \in DOMAIN s |-> s[i]]
<1>1. IsFiniteSet(DOMAIN s)
  <2>1. DOMAIN s = 1..Len(s) /\ Len(s) \in Nat
    BY LenProperties
  <2>. QED
    BY <2>1, FS_Interval
<1>2. f \in Surjection(DOMAIN s, ToSet(s))
  BY DEF Surjection, ToSet
<1>3. \E g : g \in Surjection(DOMAIN s, ToSet(s))
  BY <1>2
<1>. QED
  BY <1>1, <1>3, FS_Surjection DEF ExistsSurjection

(* A receipt that occurs once is that of one element. *)
LEMMA OccurrencesOne ==
  ASSUME NEW S, NEW s \in Seq(S), NEW r, Occurrences(s, r) = 1
  PROVE  \E x \in ToSet(s) : x.receipt = r /\ \A y \in ToSet(s) : y.receipt = r => y = x
<1> DEFINE D == {i \in DOMAIN s : s[i].receipt = r}
<1>1. IsFiniteSet(D)
  <2>1. DOMAIN s = 1..Len(s) /\ Len(s) \in Nat
    BY LenProperties
  <2>2. IsFiniteSet(1..Len(s)) /\ D \subseteq 1..Len(s)
    BY <2>1, FS_Interval
  <2>. QED
    BY <2>2, FS_Subset
<1>2. Cardinality(D) = 1
  BY DEF Occurrences, Quantify
<1>3. PICK i : D = {i}
  BY <1>1, <1>2, FS_Singleton
<1>4. i \in D /\ \A j \in D : j = i
  BY <1>3
<1>5. s[i] \in ToSet(s) /\ s[i].receipt = r /\ \A y \in ToSet(s) : y.receipt = r => y = s[i]
  BY <1>4 DEF ToSet
<1>. QED
  BY <1>5

(* What is abandoned has been pending or was abandoned, never both. *)
LEMMA AbandonMoves ==
  ASSUME Types, Placed, HttpAbandon, NEW r \in Receipts, Fates(r) = 1
  PROVE  InRequests(r)' = 0 /\ InAbandoned(r)' = InAbandoned(r) + InRequests(r)
<1>1. Json' = <<>> /\ httpAbandoned' = httpAbandoned \union ToSet(Json)
  BY AbandonTypes DEF Json
<1>2. InRequests(r)' = 0
  <2>1. <<>> \in Seq(Request) /\ ToSet(<<>>) = {}
    BY DEF ToSet
  <2>2. Occurrences(<<>>, r) = 0
    BY <2>1, OccurrencesNat
  <2>. QED
    BY <1>1, <2>2 DEF InRequests
<1>3. /\ InReported(r) \in Nat /\ InRequests(r) \in Nat /\ InAbandoned(r) \in Nat
      /\ InCallback(r) \in {0, 1} /\ InLost(r) \in {0, 1}
      /\ InRequests(r) = 0 <=> \A request \in ToSet(Json) : request.receipt # r
      /\ InAbandoned(r) = 0 <=> \A request \in httpAbandoned : request.receipt # r
  BY PlacesNat DEF Placed
<1>4. \/ InRequests(r) = 0
      \/ InRequests(r) = 1 /\ InAbandoned(r) = 0
  BY <1>3, FatesSum
<1>5. CASE InRequests(r) = 0
  <2>1. {request \in httpAbandoned' : request.receipt = r}
          = {request \in httpAbandoned : request.receipt = r}
    BY <1>1, <1>3, <1>5
  <2>2. InAbandoned(r)' = InAbandoned(r)
    BY <2>1 DEF InAbandoned
  <2>. QED
    BY <1>2, <1>3, <1>5, <2>2
<1>6. CASE InRequests(r) = 1 /\ InAbandoned(r) = 0
  <2>1. PICK x \in ToSet(Json) :
               x.receipt = r /\ \A y \in ToSet(Json) : y.receipt = r => y = x
    <3>1. Occurrences(Json, r) = 1 /\ Json \in Seq(Request)
      BY <1>6, ReportedTypes DEF InRequests
    <3>. QED
      BY <3>1, OccurrencesOne
  <2>2. {request \in httpAbandoned' : request.receipt = r} = {x}
    BY <1>1, <1>3, <1>6, <2>1
  <2>3. InAbandoned(r)' = 1
    BY <2>2, FS_Singleton DEF InAbandoned
  <2>. QED
    BY <1>2, <1>6, <2>3
<1>. QED
  BY <1>4, <1>5, <1>6

LEMMA InitPlaced == Init => Placed
<1> SUFFICES ASSUME Init PROVE Placed
  OBVIOUS
<1>1. httpAbandoned = {} /\ receiptCounter = 0
  BY DEF Init, Http!Init
<1>. QED
  BY <1>1, FS_EmptySet DEF Placed, OneFatePerReceipt, Receipts

LEMMA NextPlaced ==
  ASSUME Types, Placed, [Next]_vars
  PROVE  Placed'
<1>0. /\ Operations \subseteq CallOps
      /\ \A r \in Receipts : ~Needless(r) => Fates(r) = 1
      /\ IsFiniteSet(httpAbandoned)
  BY TwitchAssumption DEF CallOps, Placed, OneFatePerReceipt
<1> SUFFICES /\ IsFiniteSet(httpAbandoned)'
             /\ \A r \in Receipts' : ~Needless(r)' => Fates(r)' = 1
  BY DEF Placed, OneFatePerReceipt
<1>1. ASSUME NEW op \in CallOps, NEW arg \in {"valid", "invalid"}, NEW n \in Notification,
             AnsweredCall(op, arg, n)
      PROVE  /\ IsFiniteSet(httpAbandoned)'
             /\ \A r \in Receipts' : ~Needless(r)' => Fates(r)' = 1
  <2>1. /\ Receipts' = Receipts \union {n.receipt} /\ n.receipt \notin Receipts
        /\ \A r \in Receipts : calls'[r] = calls[r]
    BY <1>1, AnsweredReceipt
  <2>2. /\ Reported' = Append(Reported, n)
        /\ UNCHANGED <<Json, httpAbandoned, callback, lost>>
    BY <1>1 DEF AnsweredCall, Reported, Json, httpVars
  <2>3. ASSUME NEW r \in Receipts' PROVE ~Needless(r)' => Fates(r)' = 1
    <3>1. /\ InReported(r)' = InReported(r) + (IF n.receipt = r THEN 1 ELSE 0)
          /\ InRequests(r)' = InRequests(r) /\ InCallback(r)' = InCallback(r)
          /\ InLost(r)' = InLost(r) /\ InAbandoned(r)' = InAbandoned(r)
      BY <2>2, ReportMoves, Stays
    <3>2. CASE r = n.receipt
      <4>1. /\ InReported(r) = 0 /\ InRequests(r) = 0 /\ InCallback(r) = 0 /\ InLost(r) = 0
            /\ InAbandoned(r) = 0
        BY <1>0, <2>1, <3>2, FreshNowhere
      <4>. QED
        BY <3>1, <3>2, <4>1, FatesSumNext
    <3>3. CASE r # n.receipt
      <4>1. r \in Receipts /\ (Needless(r)' <=> Needless(r))
        BY <2>1, <3>3 DEF Needless
      <4>2. Fates(r)' = Fates(r)
        BY <1>0, <3>1, <3>3, PlacesNat, FatesSum, FatesSumNext
      <4>. QED
        BY <1>0, <4>1, <4>2
    <3>. QED
      BY <3>2, <3>3
  <2>. QED
    BY <1>0, <2>2, <2>3
<1>2. ASSUME NEW op \in Operations, NEW arg \in {"valid", "invalid"}, NEW request \in Request,
             RequestedCall(op, arg, request)
      PROVE  /\ IsFiniteSet(httpAbandoned)'
             /\ \A r \in Receipts' : ~Needless(r)' => Fates(r)' = 1
  <2>1. /\ Receipts' = Receipts \union {request.receipt} /\ request.receipt \notin Receipts
        /\ \A r \in Receipts : calls'[r] = calls[r]
        /\ calls'[request.receipt].op = op /\ calls'[request.receipt].arg = arg
    BY <1>2, RequestedReceipt
  <2>2. AddHTTPRequest(request) /\ UNCHANGED callback
    BY <1>2 DEF RequestedCall
  <2>3. httpAbandoned' = httpAbandoned
    BY <2>2, RequestMoves
  <2>4. \/ Reported' = Reported
        \/ /\ arg = "invalid" /\ op = "UpdateChannel"
           /\ \E n \in Notification : /\ n.receipt = request.receipt
                                     /\ Reported' = Append(Reported, n)
    BY <1>2 DEF RequestedCall, Reported
  <2>5. ASSUME NEW r \in Receipts' PROVE ~Needless(r)' => Fates(r)' = 1
    <3>1. /\ InCallback(r)' = InCallback(r) /\ InAbandoned(r)' = InAbandoned(r)
          /\ \/ /\ InRequests(r)' = InRequests(r) + (IF request.receipt = r THEN 1 ELSE 0)
                /\ InLost(r)' = InLost(r)
             \/ /\ InRequests(r)' = InRequests(r)
                /\ InLost(r)' = IF request.receipt = r THEN 1 ELSE InLost(r)
      BY <2>2, RequestMoves, Stays
    <3>2. CASE r = request.receipt
      <4>1. /\ InReported(r) = 0 /\ InRequests(r) = 0 /\ InCallback(r) = 0 /\ InLost(r) = 0
            /\ InAbandoned(r) = 0
        BY <1>0, <2>1, <3>2, FreshNowhere
      <4>2. ~Needless(r)' => Reported' = Reported
        BY <2>1, <2>4, <3>2 DEF Needless
      <4>3. ~Needless(r)' => InReported(r)' = 0
        BY <4>1, <4>2, Stays
      <4>. QED
        BY <3>1, <3>2, <4>1, <4>3, FatesSumNext
    <3>3. CASE r # request.receipt
      <4>1. r \in Receipts /\ (Needless(r)' <=> Needless(r))
        BY <2>1, <3>3 DEF Needless
      <4>2. InReported(r)' = InReported(r)
        <5>1. ASSUME NEW n \in Notification, n.receipt = request.receipt,
                     Reported' = Append(Reported, n)
              PROVE  InReported(r)' = InReported(r)
          <6>1. InReported(r)' = InReported(r) + 0
            BY <3>3, <5>1, ReportMoves
          <6>. QED
            BY <1>0, <6>1, PlacesNat
        <5>. QED
          BY <2>4, <5>1, Stays
      <4>3. Fates(r)' = Fates(r)
        BY <1>0, <3>1, <3>3, <4>2, PlacesNat, FatesSum, FatesSumNext
      <4>. QED
        BY <1>0, <4>1, <4>3
    <3>. QED
      BY <3>2, <3>3
  <2>. QED
    BY <1>0, <2>3, <2>5
<1>3. CASE AnswerRequest
  <2> DEFINE request == Head(Json)
  <2>1. /\ Http!Answer("json") /\ callback.stage = "none"
        /\ UNCHANGED <<receiptCounter, calls, lost, delivered>>
    BY <1>3 DEF AnswerRequest, receiptVars, NoCallback, BeginCallback
  <2>2. \/ /\ \E rc \in {"Success", "TwitchRESTError"} :
                QueueBroadcast(request.receipt, rc, "worker")
           /\ UNCHANGED callback
        \/ /\ callback' = BeginCallback("url", request.receipt, "other")
           /\ UNCHANGED notifications
    BY <1>3 DEF AnswerRequest, Json, BeginCallback
  <2>3. request.receipt \in 1..MaxReceipts /\ httpAbandoned' = httpAbandoned
    BY <2>1, AnswerTypes DEF Json, Request
  <2> HIDE DEF request
  <2>4. \/ /\ \E n \in Notification : /\ n.receipt = request.receipt
                                     /\ Reported' = Append(Reported, n)
           /\ UNCHANGED callback
        \/ /\ callback'.stage = "url" /\ callback'.receipt = request.receipt
           /\ Reported' = Reported
    <3>1. ASSUME NEW rc \in {"Success", "TwitchRESTError"},
                 QueueBroadcast(request.receipt, rc, "worker")
          PROVE  \E n \in Notification : /\ n.receipt = request.receipt
                                       /\ Reported' = Append(Reported, n)
      <4>1. PICK n \in Notification :
              /\ n = [receipt |-> request.receipt, rc |-> rc, from |-> "worker"]
              /\ delivered \o notifications' = Append(delivered \o notifications, n)
        BY <2>3, <3>1, BroadcastTypes DEF ResultCodes
      <4>. QED
        BY <2>1, <4>1 DEF Reported
    <3>. QED
      BY <2>1, <2>2, <3>1 DEF Reported, BeginCallback
  <2>5. ASSUME NEW r \in Receipts PROVE Fates(r)' = Fates(r)
    <3>1. /\ InRequests(r) = InRequests(r)' + (IF request.receipt = r THEN 1 ELSE 0)
          /\ InRequests(r)' \in Nat
          /\ InAbandoned(r)' = InAbandoned(r) /\ InLost(r)' = InLost(r)
      BY <2>1, AnswerMoves, Stays DEF request
    <3>2. InCallback(r) = 0
      BY <2>1 DEF InCallback
    <3>3. CASE /\ \E n \in Notification : /\ n.receipt = request.receipt
                                        /\ Reported' = Append(Reported, n)
               /\ UNCHANGED callback
      <4>1. InReported(r)' = InReported(r) + (IF request.receipt = r THEN 1 ELSE 0)
        BY <3>3, ReportMoves
      <4>2. InCallback(r)' = InCallback(r)
        BY <3>3, Stays
      <4>. QED
        BY <1>0, <3>1, <4>1, <4>2, PlacesNat, FatesSum, FatesSumNext
    <3>4. CASE /\ callback'.stage = "url" /\ callback'.receipt = request.receipt
               /\ Reported' = Reported
      <4>1. InReported(r)' = InReported(r)
        BY <3>4, Stays
      <4>2. InCallback(r)' = IF request.receipt = r THEN 1 ELSE 0
        BY <3>4 DEF InCallback
      <4>. QED
        BY <1>0, <3>1, <3>2, <4>1, <4>2, PlacesNat, FatesSum, FatesSumNext
    <3>. QED
      BY <2>4, <3>3, <3>4
  <2>6. Receipts' = Receipts /\ \A r : Needless(r)' <=> Needless(r)
    BY <2>1 DEF Receipts, Needless
  <2>. QED
    BY <1>0, <2>3, <2>5, <2>6
<1>4. CASE BuildBaseURL
  <2>1. /\ UNCHANGED <<receiptCounter, calls, httpPending, httpAbandoned, lost, notifications, delivered>>
        /\ callback.stage = "url" /\ callback \in Callback
    BY <1>4 DEF BuildBaseURL, Types, receiptVars, httpVars
  <2>2. callback'.stage = "token" /\ callback'.receipt = callback.receipt
    BY <1>4, <2>1 DEF BuildBaseURL, Callback
  <2>3. ASSUME NEW r PROVE Fates(r)' = Fates(r)
    <3>1. /\ InReported(r)' = InReported(r) /\ InRequests(r)' = InRequests(r)
          /\ InLost(r)' = InLost(r) /\ InAbandoned(r)' = InAbandoned(r)
      BY <2>1, Stays DEF Reported, Json
    <3>2. InCallback(r)' = InCallback(r)
      BY <2>1, <2>2 DEF InCallback
    <3>. QED
      BY <3>1, <3>2, FatesSum, FatesSumNext
  <2>4. Receipts' = Receipts /\ \A r : Needless(r)' <=> Needless(r)
    BY <2>1 DEF Receipts, Needless
  <2>. QED
    BY <1>0, <2>1, <2>3, <2>4
<1>5. CASE SendSecondHop
  <2> DEFINE request == SecondRequest(callback.receipt)
  <2>1. request \in Request /\ request.receipt = callback.receipt
    <3>1. callback \in Callback /\ callback.receipt \in 1..MaxReceipts
      BY <1>5, BoundsNat DEF SendSecondHop, Types, Callback, Receipts
    <3>. QED
      BY <3>1 DEF SecondRequest, Types, Request, Callback
  <2>2. /\ AddHTTPRequest(request) /\ callback.stage = "send" /\ callback'.stage = "none"
        /\ UNCHANGED <<receiptCounter, calls, notifications, delivered>>
    BY <1>5 DEF SendSecondHop, receiptVars, NoCallback, BeginCallback
  <2> HIDE DEF request
  <2>3. httpAbandoned' = httpAbandoned
    BY <2>1, <2>2, RequestMoves
  <2>4. ASSUME NEW r \in Receipts, Fates(r) = 1 PROVE Fates(r)' = 1
    <3>1. /\ InReported(r)' = InReported(r) /\ InAbandoned(r)' = InAbandoned(r)
          /\ \/ /\ InRequests(r)' = InRequests(r) + (IF request.receipt = r THEN 1 ELSE 0)
                /\ InLost(r)' = InLost(r)
             \/ /\ InRequests(r)' = InRequests(r)
                /\ InLost(r)' = IF request.receipt = r THEN 1 ELSE InLost(r)
      BY <2>1, <2>2, RequestMoves, Stays DEF Reported
    <3>2. InCallback(r) = (IF request.receipt = r THEN 1 ELSE 0) /\ InCallback(r)' = 0
      BY <2>1, <2>2 DEF InCallback
    <3>. QED
      BY <1>0, <2>4, <3>1, <3>2, PlacesNat, FatesSum, FatesSumNext
  <2>5. Receipts' = Receipts /\ \A r : Needless(r)' <=> Needless(r)
    BY <2>2 DEF Receipts, Needless
  <2>. QED
    BY <1>0, <2>3, <2>4, <2>5
<1>6. CASE HttpAbandon
  <2>1. /\ UNCHANGED <<receiptCounter, calls, callback, lost, notifications, delivered>>
        /\ httpAbandoned' = httpAbandoned \union ToSet(Json)
    BY <1>6, AbandonTypes DEF HttpAbandon, receiptVars, Json
  <2>2. IsFiniteSet(httpAbandoned')
    <3>1. IsFiniteSet(ToSet(Json))
      BY ReportedTypes, ElementsFinite
    <3>. QED
      BY <1>0, <2>1, <3>1, FS_Union
  <2>3. ASSUME NEW r \in Receipts, Fates(r) = 1 PROVE Fates(r)' = 1
    <3>1. InReported(r)' = InReported(r) /\ InCallback(r)' = InCallback(r) /\ InLost(r)' = InLost(r)
      BY <2>1, Stays DEF Reported
    <3>2. InRequests(r)' = 0 /\ InAbandoned(r)' = InAbandoned(r) + InRequests(r)
      BY <1>6, <2>3, AbandonMoves
    <3>. QED
      BY <1>0, <2>3, <3>1, <3>2, PlacesNat, FatesSum, FatesSumNext
  <2>4. Receipts' = Receipts /\ \A r : Needless(r)' <=> Needless(r)
    BY <2>1 DEF Receipts, Needless
  <2>. QED
    BY <1>0, <2>2, <2>3, <2>4
<1>7. CASE Quiet
  <2>1. /\ UNCHANGED <<receiptCounter, calls, httpPending, httpAbandoned, callback, lost>>
        /\ Reported' = Reported
    BY <1>7 DEF Quiet, Reported, receiptVars, httpVars
  <2>2. ASSUME NEW r PROVE Fates(r)' = Fates(r)
    BY <2>1, Stays, FatesSum, FatesSumNext DEF Json
  <2>3. Receipts' = Receipts /\ \A r : Needless(r)' <=> Needless(r)
    BY <2>1 DEF Receipts, Needless
  <2>. QED
    BY <1>0, <2>1, <2>2, <2>3
<1>8. CASE AddOAuthtHeader \/ AddClientIDHeader
  <2>1. /\ UNCHANGED <<receiptCounter, calls, httpPending, httpAbandoned, lost, notifications, delivered>>
        /\ callback.stage # "none" /\ callback'.stage # "none" /\ callback'.receipt = callback.receipt
    BY <1>8, HeaderReads DEF receiptVars, httpVars
  <2>2. ASSUME NEW r PROVE Fates(r)' = Fates(r)
    <3>1. /\ InReported(r)' = InReported(r) /\ InRequests(r)' = InRequests(r)
          /\ InLost(r)' = InLost(r) /\ InAbandoned(r)' = InAbandoned(r)
      BY <2>1, Stays DEF Reported, Json
    <3>2. InCallback(r)' = InCallback(r)
      BY <2>1 DEF InCallback
    <3>. QED
      BY <3>1, <3>2, FatesSum, FatesSumNext
  <2>3. Receipts' = Receipts /\ \A r : Needless(r)' <=> Needless(r)
    BY <2>1 DEF Receipts, Needless
  <2>. QED
    BY <1>0, <2>1, <2>2, <2>3
<1>. QED
  BY <1>1, <1>2, <1>3, <1>4, <1>5, <1>6, <1>7, <1>8, Steps

(* Every receipt handed out has exactly one fate, but for an update of      *)
(* nothing: the game is told once of each call or never, whatever the hops,*)
(* the errors and the gems that come and go.  (GetReceipt, AddHTTPRequest) *)
THEOREM FateCorrect == Spec => []OneFatePerReceipt
<1>1. Spec => [](Types /\ Placed)
  <2>1. Init => Types /\ Placed
    BY InitTypes, InitPlaced
  <2>2. Types /\ Placed /\ [Next]_vars => (Types /\ Placed)'
    BY NextTypes, NextPlaced
  <2>. QED
    BY <2>1, <2>2, PTL DEF Spec
<1>2. Placed => OneFatePerReceipt
  BY DEF Placed
<1>. QED
  BY <1>1, <1>2, PTL
=============================================================================
