----------------------- MODULE ResourceMappingToolProofs -----------------------
(***************************************************************************)
(* Theorems about ResourceMappingTool, for every set of directories, files  *)
(* and resources and every bound: the combo box lists the directory chosen  *)
(* last, the tree shows what AWS has, an import adds each resource once,    *)
(* and the table page keeps its promises, though both pages share a thread. *)
(***************************************************************************)
EXTENDS ResourceMappingTool, ViewEditProofs, WellFoundedInduction

Workers == [kind : {"list"} \union RequestKinds, arg : Dirs \union {<<>>}]

QueueType ==
  /\ runQueue \in Seq(Workers)
  /\ IsSequence(posted)
  /\ searchVersion \in RequestKinds \union {"none"}

NoList(queue) == \A i \in DOMAIN queue : queue[i].kind # "list"

(* The last search in a queue is of directory d.                            *)
LastListOf(queue, d) ==
  \E i \in DOMAIN queue :
    /\ queue[i].kind = "list" /\ queue[i].arg = d
    /\ \A j \in DOMAIN queue : j > i => queue[j].kind # "list"

IsListing(s) == s.signal = "result" /\ s.worker.kind = "list"
NoListing(signals) == \A i \in DOMAIN signals : ~IsListing(signals[i])

(* The last list among the signals is of directory d.                       *)
LastListingOf(signals, d) ==
  \E i \in DOMAIN signals :
    /\ IsListing(signals[i]) /\ signals[i].worker.arg = d
    /\ \A j \in DOMAIN signals : j > i => ~IsListing(signals[j])

ListRunning(thread) == thread # <<>> /\ thread[1].kind = "list"

Listed == \/ configDir \in unheard
          \/ LastListingOf(posted, configDir)
          \/ NoListing(posted) /\ listedDir = configDir

(* The inductive invariant: the search of the directory chosen last is the  *)
(* last one waiting, or else the one running, or else its list is the last  *)
(* one posted, or in the combo box.                                         *)
ListingFollows ==
  \/ LastListOf(runQueue, configDir)
  \/ NoList(runQueue) /\ ListRunning(running) /\ running[1].arg = configDir
  \/ NoList(runQueue) /\ ~ListRunning(running) /\ Listed

ListingInv == QueueType /\ ListingFollows

-----------------------------------------------------------------------------
(* The tree of the import page. *)

Root(resource, children) == [resource |-> resource, children |-> children]

IsChild(r) == r.type # AWS_RESOURCE_CLOUDFORMATION_STACK_TYPE
Children == {r \in Loadable : IsChild(r)}
Roots == [resource : Loadable, children : Seq(Children)]

Stacks == {s \in Range(StackSummaries) : IsComplete(s)}
StackAnswers ==
  {[stack |-> s.stack, resources |-> ListCloudformationStackResources(s)] : s \in Stacks}
StackRoots == {Root(StackRoot(s), ListCloudformationStackResources(s)) : s \in Stacks}

Indexes == -1 .. 2
AwsNames == Range(Functions) \union Range(Tables) \union {b.name : b \in Range(Buckets)}
NamedAs(i, name) ==
  \/ i = 0 /\ name \in Range(Functions)
  \/ i = 1 /\ name \in Range(Tables)
  \/ i = 2 /\ \E b \in Range(Buckets) : name = b.name /\ InRegion(b)
TypedRoots ==
  {Root(Resource(AWS_RESOURCE_TYPES[p[1] + 1], p[2]), <<>>)
     : p \in {p \in (0 .. 2) \X AwsNames : NamedAs(p[1], p[2])}}

IsAnswer(s) ==
  (s.signal = "result" /\ s.worker.kind \in RequestKinds) =>
    s.value = <<>> \/ \E i \in Indexes : s.value = Answer(s.worker, i)

TreeTypes ==
  /\ ImportTypeOK
  /\ tree \in Seq(Roots)
  /\ page = "import" => searchVersion \in RequestKinds /\ hasChild = (searchVersion = "cfn")
  /\ (running # <<>> /\ running[1].kind = "typed") => running[2] \in Indexes
  /\ \A s \in Range(posted) : IsAnswer(s)

(* The page that is shown made the search.                                  *)
Current(kind) == kind \in RequestKinds => page = "import" /\ kind = searchVersion

(* What is under way is the page's own and was asked with the type shown.   *)
Uncrossed ==
  /\ \A w \in Range(runQueue) : Current(w.kind)
  /\ running # <<>> =>
       Current(running[1].kind) /\ (running[1].kind = "typed" => running[2] = typeIndex)
  /\ \A s \in Range(posted) :
       /\ Current(s.worker.kind)
       /\ (s.signal = "result" /\ s.worker.kind = "typed") =>
            s.value \in {<<>>, Answer(s.worker, typeIndex)}
  /\ tree \in Seq(IF hasChild THEN StackRoots ELSE TypedRoots)
  /\ page = "view_edit" => tree = <<>>

TreeInv == TreeTypes /\ (crossed \/ Uncrossed)

-----------------------------------------------------------------------------
(* Sequences. *)

LEMMA AppendElements ==
  ASSUME NEW S, NEW s \in Seq(S), NEW e \in S
  PROVE  /\ Append(s, e) \in Seq(S)
         /\ DOMAIN s = 1 .. Len(s) /\ DOMAIN Append(s, e) = 1 .. Len(s) + 1
         /\ Len(s) \in Nat
         /\ \A i \in DOMAIN s : Append(s, e)[i] = s[i]
         /\ Append(s, e)[Len(s) + 1] = e
BY AppendProperties, LenProperties

LEMMA TailElements ==
  ASSUME NEW S, NEW s \in Seq(S), s # <<>>
  PROVE  /\ Tail(s) \in Seq(S)
         /\ Len(s) \in Nat \ {0}
         /\ DOMAIN s = 1 .. Len(s) /\ DOMAIN Tail(s) = 1 .. Len(s) - 1
         /\ Head(s) = s[1]
         /\ \A i \in 1 .. Len(s) - 1 : Tail(s)[i] = s[i + 1]
BY HeadTailProperties, LenProperties, EmptySeq

LEMMA ConcatElements ==
  ASSUME NEW S, NEW s \in Seq(S), NEW t \in Seq(S)
  PROVE  /\ s \o t \in Seq(S)
         /\ Len(s) \in Nat /\ Len(t) \in Nat
         /\ DOMAIN s = 1 .. Len(s) /\ DOMAIN t = 1 .. Len(t)
         /\ DOMAIN (s \o t) = 1 .. Len(s) + Len(t)
         /\ \A i \in 1 .. Len(s) : (s \o t)[i] = s[i]
         /\ \A i \in 1 .. Len(t) : (s \o t)[Len(s) + i] = t[i]
<1>1. s \o t \in Seq(S) /\ Len(s \o t) = Len(s) + Len(t) /\ Len(s) \in Nat /\ Len(t) \in Nat
  BY ConcatProperties, LenProperties
<1>2. \A i \in 1 .. Len(s) + Len(t) :
        (s \o t)[i] = IF i <= Len(s) THEN s[i] ELSE t[i - Len(s)]
  BY ConcatProperties
<1>3. ASSUME NEW i \in 1 .. Len(t) PROVE (s \o t)[Len(s) + i] = t[i]
  BY <1>1, <1>2
<1> QED BY <1>1, <1>2, <1>3, LenProperties

(* Signals are concatenated to whatever is posted. *)
LEMMA PostedConcat ==
  ASSUME NEW s, NEW t, IsSequence(s), IsSequence(t)
  PROVE  /\ IsSequence(s \o t)
         /\ Len(s) \in Nat /\ Len(t) \in Nat
         /\ DOMAIN s = 1 .. Len(s) /\ DOMAIN t = 1 .. Len(t)
         /\ DOMAIN (s \o t) = 1 .. Len(s) + Len(t)
         /\ \A i \in 1 .. Len(s) : (s \o t)[i] = s[i]
         /\ \A i \in 1 .. Len(t) : (s \o t)[Len(s) + i] = t[i]
<1>1. PICK S, T : s \in Seq(S) /\ t \in Seq(T)
  BY DEF IsSequence
<1>2. s \in Seq(S \union T) /\ t \in Seq(S \union T)
  BY <1>1
<1>3. QED
  BY <1>2, ConcatElements DEF IsSequence

LEMMA PostedTail ==
  ASSUME NEW s, IsSequence(s), s # <<>>
  PROVE  /\ IsSequence(Tail(s))
         /\ Len(s) \in Nat \ {0}
         /\ DOMAIN s = 1 .. Len(s) /\ DOMAIN Tail(s) = 1 .. Len(s) - 1
         /\ Head(s) = s[1]
         /\ \A i \in 1 .. Len(s) - 1 : Tail(s)[i] = s[i + 1]
BY TailElements DEF IsSequence

(* Lists posted earlier stay the last ones when no list is posted.          *)
LEMMA NoListingAdded ==
  ASSUME NEW s, NEW t, NEW d, IsSequence(s), IsSequence(t), NoListing(t)
  PROVE  /\ LastListingOf(s, d) => LastListingOf(s \o t, d)
         /\ NoListing(s) => NoListing(s \o t)
<1> DEFINE n == Len(s)
           m == Len(t)
<1>1. /\ n \in Nat /\ m \in Nat
      /\ DOMAIN s = 1 .. n /\ DOMAIN t = 1 .. m /\ DOMAIN (s \o t) = 1 .. n + m
      /\ \A i \in 1 .. n : (s \o t)[i] = s[i]
      /\ \A i \in 1 .. m : (s \o t)[n + i] = t[i]
  BY PostedConcat
<1> HIDE DEF n, m
<1>2. ASSUME NEW i \in 1 .. n + m, i > n PROVE ~IsListing((s \o t)[i])
  <2>1. i - n \in 1 .. m /\ n + (i - n) = i
    BY <1>1, <1>2
  <2> QED BY <1>1, <2>1 DEF NoListing
<1>3. ASSUME LastListingOf(s, d) PROVE LastListingOf(s \o t, d)
  <2>1. PICK i \in DOMAIN s :
          /\ IsListing(s[i]) /\ s[i].worker.arg = d
          /\ \A j \in DOMAIN s : j > i => ~IsListing(s[j])
    BY <1>3 DEF LastListingOf
  <2>2. ASSUME NEW j \in 1 .. n + m, j > i PROVE ~IsListing((s \o t)[j])
    <3>1. CASE j \in 1 .. n BY <1>1, <2>1, <2>2, <3>1
    <3>2. CASE j > n BY <1>2, <3>2
    <3> QED BY <1>1, <3>1, <3>2
  <2>3. i \in 1 .. n + m /\ (s \o t)[i] = s[i]
    BY <1>1
  <2> QED BY <1>1, <2>1, <2>2, <2>3 DEF LastListingOf
<1>4. ASSUME NoListing(s) PROVE NoListing(s \o t)
  <2>1. ASSUME NEW j \in 1 .. n + m PROVE ~IsListing((s \o t)[j])
    <3>1. CASE j \in 1 .. n BY <1>1, <1>4, <3>1 DEF NoListing
    <3>2. CASE j > n BY <1>2, <3>2
    <3> QED BY <1>1, <3>1, <3>2
  <2> QED BY <1>1, <2>1 DEF NoListing
<1> QED BY <1>3, <1>4

(* Delivering the oldest signal keeps what is said of the rest.             *)
LEMMA OldestDelivered ==
  ASSUME NEW s, NEW d, IsSequence(s), s # <<>>
  PROVE  /\ NoListing(s) => NoListing(Tail(s))
         /\ LastListingOf(s, d) =>
              \/ LastListingOf(Tail(s), d)
              \/ IsListing(Head(s)) /\ Head(s).worker.arg = d /\ NoListing(Tail(s))
<1> DEFINE n == Len(s)
<1>1. /\ n \in Nat \ {0} /\ DOMAIN s = 1 .. n /\ DOMAIN Tail(s) = 1 .. n - 1
      /\ Head(s) = s[1]
      /\ \A i \in 1 .. n - 1 : Tail(s)[i] = s[i + 1] /\ i + 1 \in 1 .. n
  BY PostedTail
<1> HIDE DEF n
<1>2. NoListing(s) => NoListing(Tail(s))
  BY <1>1 DEF NoListing
<1>3. ASSUME LastListingOf(s, d)
      PROVE  \/ LastListingOf(Tail(s), d)
             \/ IsListing(Head(s)) /\ Head(s).worker.arg = d /\ NoListing(Tail(s))
  <2>1. PICK i \in 1 .. n :
          /\ IsListing(s[i]) /\ s[i].worker.arg = d
          /\ \A j \in 1 .. n : j > i => ~IsListing(s[j])
    BY <1>1, <1>3 DEF LastListingOf
  <2>2. ASSUME NEW j \in 1 .. n - 1, j > i - 1 PROVE ~IsListing(Tail(s)[j])
    <3>1. j + 1 \in 1 .. n /\ j + 1 > i
      BY <1>1, <2>2
    <3> QED BY <1>1, <2>1, <3>1
  <2>3. CASE i = 1
    BY <1>1, <2>1, <2>2, <2>3 DEF NoListing
  <2>4. CASE i # 1
    <3>1. i - 1 \in 1 .. n - 1 /\ Tail(s)[i - 1] = s[i]
      BY <1>1, <2>4
    <3> QED BY <1>1, <2>1, <2>2, <3>1 DEF LastListingOf
  <2> QED BY <2>3, <2>4
<1> QED BY <1>2, <1>3

-----------------------------------------------------------------------------
(* The queue and the thread. *)

LEMMA SearchStarted ==
  ASSUME NEW d \in Dirs, NEW s \in Seq(Workers)
  PROVE  /\ Append(s, [kind |-> "list", arg |-> d]) \in Seq(Workers)
         /\ LastListOf(Append(s, [kind |-> "list", arg |-> d]), d)
<1> DEFINE w == [kind |-> "list", arg |-> d]
<1>1. w \in Workers /\ w.kind = "list" /\ w.arg = d
  BY DEF Workers
<1> HIDE DEF w
<1>2. /\ Append(s, w) \in Seq(Workers)
      /\ Len(s) \in Nat /\ DOMAIN Append(s, w) = 1 .. Len(s) + 1
      /\ Append(s, w)[Len(s) + 1] = w
  BY <1>1, AppendElements
<1>3. LastListOf(Append(s, w), d)
  BY <1>1, <1>2 DEF LastListOf
<1> QED BY <1>2, <1>3 DEF w

LEMMA RequestStarted ==
  ASSUME NEW s \in Seq(Workers), NEW kind \in RequestKinds, NEW d
  PROVE  /\ Append(s, [kind |-> kind, arg |-> <<>>]) \in Seq(Workers)
         /\ LastListOf(s, d) => LastListOf(Append(s, [kind |-> kind, arg |-> <<>>]), d)
         /\ NoList(s) => NoList(Append(s, [kind |-> kind, arg |-> <<>>]))
<1> DEFINE w == [kind |-> kind, arg |-> <<>>]
<1>1. w \in Workers /\ w.kind # "list"
  BY DEF Workers, RequestKinds
<1> HIDE DEF w
<1>2. /\ Append(s, w) \in Seq(Workers)
      /\ Len(s) \in Nat /\ DOMAIN s = 1 .. Len(s) /\ DOMAIN Append(s, w) = 1 .. Len(s) + 1
      /\ \A i \in DOMAIN s : Append(s, w)[i] = s[i]
      /\ Append(s, w)[Len(s) + 1] = w
  BY <1>1, AppendElements
<1>3. NoList(s) => NoList(Append(s, w))
  BY <1>1, <1>2 DEF NoList
<1>4. LastListOf(s, d) => LastListOf(Append(s, w), d)
  BY <1>1, <1>2 DEF LastListOf
<1> QED BY <1>2, <1>3, <1>4 DEF w

(* The thread takes the oldest worker: what is said of the others stays.    *)
LEMMA OldestBegun ==
  ASSUME NEW s \in Seq(Workers), s # <<>>, NEW d
  PROVE  /\ Tail(s) \in Seq(Workers) /\ Head(s) \in Workers
         /\ NoList(s) => NoList(Tail(s)) /\ Head(s).kind # "list"
         /\ LastListOf(s, d) =>
              \/ LastListOf(Tail(s), d)
              \/ Head(s).kind = "list" /\ Head(s).arg = d /\ NoList(Tail(s))
<1> DEFINE n == Len(s)
<1>1. /\ Tail(s) \in Seq(Workers)
      /\ n \in Nat \ {0} /\ DOMAIN s = 1 .. n /\ DOMAIN Tail(s) = 1 .. n - 1
      /\ Head(s) = s[1] /\ s[1] \in Workers
      /\ \A i \in 1 .. n - 1 : Tail(s)[i] = s[i + 1] /\ i + 1 \in 1 .. n
  BY TailElements, ElementOfSeq
<1> HIDE DEF n
<1>2. NoList(s) => NoList(Tail(s)) /\ Head(s).kind # "list"
  BY <1>1 DEF NoList
<1>3. ASSUME LastListOf(s, d)
      PROVE  \/ LastListOf(Tail(s), d)
             \/ Head(s).kind = "list" /\ Head(s).arg = d /\ NoList(Tail(s))
  <2>1. PICK i \in 1 .. n :
          /\ s[i].kind = "list" /\ s[i].arg = d
          /\ \A j \in 1 .. n : j > i => s[j].kind # "list"
    BY <1>1, <1>3 DEF LastListOf
  <2>2. ASSUME NEW j \in 1 .. n - 1, j > i - 1 PROVE Tail(s)[j].kind # "list"
    <3>1. j + 1 \in 1 .. n /\ j + 1 > i
      BY <1>1, <2>2
    <3> QED BY <1>1, <2>1, <3>1
  <2>3. CASE i = 1
    BY <1>1, <2>1, <2>2, <2>3 DEF NoList
  <2>4. CASE i # 1
    <3>1. i - 1 \in 1 .. n - 1 /\ Tail(s)[i - 1] = s[i]
      BY <1>1, <2>4
    <3> QED BY <1>1, <2>1, <2>2, <3>1 DEF LastListOf
  <2> QED BY <2>3, <2>4
<1> QED BY <1>1, <1>2, <1>3

LEMMA PairPosted ==
  ASSUME NEW s, NEW t, IsSequence(s), IsSequence(t), Len(t) = 2,
         IsListing(t[1]), ~IsListing(t[2])
  PROVE  IsSequence(s \o t) /\ LastListingOf(s \o t, t[1].worker.arg)
<1> DEFINE n == Len(s)
           u == s \o t
<1>0. /\ IsSequence(s \o t) /\ Len(s) \in Nat
      /\ DOMAIN (s \o t) = 1 .. Len(s) + Len(t)
      /\ \A i \in 1 .. Len(t) : (s \o t)[Len(s) + i] = t[i]
  <2> HIDE DEF n, u
  <2> QED BY ONLY IsSequence(s), IsSequence(t), PostedConcat
<1>1. /\ IsSequence(u) /\ n \in Nat /\ DOMAIN u = 1 .. n + 2
      /\ \A i \in 1 .. 2 : u[n + i] = t[i]
  BY ONLY <1>0, Len(t) = 2
<1> HIDE DEF n, u
<1>2. u[n + 1] = t[1] /\ u[n + 2] = t[2]
  BY <1>1
<1>3. n + 1 \in DOMAIN u /\ \A j \in DOMAIN u : j > n + 1 => j = n + 2
  BY <1>1
<1>4. LastListingOf(u, t[1].worker.arg)
  BY <1>2, <1>3 DEF LastListingOf
<1> QED BY <1>1, <1>4 DEF u

(* What a search posts that ended well. *)
LEMMA ListPosted ==
  ASSUME NEW s, IsSequence(s), NEW w, NEW value, w.kind = "list"
  PROVE  /\ IsSequence(s \o Outcome(w, value))
         /\ LastListingOf(s \o Outcome(w, value), w.arg)
<1> DEFINE t == Outcome(w, value)
<1>1. t \in Seq({t[1], t[2]}) /\ Len(t) = 2
  BY DEF Outcome
<1>2. t[1] = Signal("result", w, value) /\ t[2] = Signal("finished", w, <<>>)
  BY DEF Outcome
<1>3. IsSequence(t) /\ IsListing(t[1]) /\ t[1].worker.arg = w.arg /\ ~IsListing(t[2])
  BY <1>1, <1>2 DEF IsSequence, IsListing, Signal
<1> HIDE DEF t
<1>4. IsSequence(s \o t) /\ LastListingOf(s \o t, w.arg)
  BY <1>1, <1>3, PairPosted
<1> QED BY <1>4 DEF t

LEMMA OthersPosted ==
  ASSUME NEW w, NEW value
  PROVE  /\ IsSequence(Raised(w)) /\ NoListing(Raised(w))
         /\ w.kind # "list" => IsSequence(Outcome(w, value)) /\ NoListing(Outcome(w, value))
<1>1. IsSequence(Raised(w)) /\ NoListing(Raised(w))
  <2>1. Raised(w) \in Seq({Raised(w)[1]}) /\ DOMAIN Raised(w) = {1}
    BY DEF Raised
  <2>2. Raised(w)[1] = Signal("finished", w, <<>>)
    BY DEF Raised
  <2> QED BY <2>1, <2>2 DEF IsSequence, NoListing, IsListing, Signal
<1>2. ASSUME w.kind # "list"
      PROVE  IsSequence(Outcome(w, value)) /\ NoListing(Outcome(w, value))
  <2> DEFINE t == Outcome(w, value)
  <2>1. t \in Seq({t[1], t[2]}) /\ DOMAIN t = 1 .. 2
    BY DEF Outcome
  <2>2. t[1] = Signal("result", w, value) /\ t[2] = Signal("finished", w, <<>>)
    BY DEF Outcome
  <2> QED BY <1>2, <2>1, <2>2 DEF IsSequence, NoListing, IsListing, Signal
<1> QED BY <1>1, <1>2

-----------------------------------------------------------------------------
(* Steps of the thread and the event loop. *)

queueVars == <<workerVars, configDir, listedDir, unheard>>

LEMMA ListingUnchanged ==
  ASSUME ListingInv, UNCHANGED queueVars, searchVersion' \in RequestKinds \union {"none"}
  PROVE  ListingInv'
BY DEF ListingInv, QueueType, ListingFollows, Listed, queueVars, workerVars, NoList,
       LastListOf, NoListing, LastListingOf, ListRunning, IsSequence, IsListing

LEMMA BeginKeepsListing ==
  ASSUME ListingInv, NEW worker, NEW read, Begin(worker, read),
         UNCHANGED <<configDir, listedDir, unheard, searchVersion>>
  PROVE  ListingInv'
<1>1. /\ running = <<>> /\ runQueue # <<>> /\ worker = Head(runQueue)
      /\ running' = <<worker, read>> /\ runQueue' = Tail(runQueue) /\ posted' = posted
  BY DEF Begin
<1>2. runQueue \in Seq(Workers)
  BY DEF ListingInv, QueueType
<1>3. QueueType'
  BY <1>1, <1>2, OldestBegun DEF ListingInv, QueueType
<1>4. running' # <<>> /\ running'[1] = worker
  BY <1>1
<1>5. CASE LastListOf(runQueue, configDir)
  <2>1. \/ LastListOf(Tail(runQueue), configDir)
        \/ worker.kind = "list" /\ worker.arg = configDir /\ NoList(Tail(runQueue))
    BY <1>1, <1>2, <1>5, OldestBegun
  <2> QED BY <1>1, <1>3, <1>4, <2>1 DEF ListingInv, ListingFollows, ListRunning
<1>6. CASE NoList(runQueue) /\ Listed
  <2>1. NoList(Tail(runQueue)) /\ worker.kind # "list"
    BY <1>1, <1>2, <1>6, OldestBegun
  <2>2. Listed' /\ ~ListRunning(running')
    BY <1>1, <1>4, <1>6, <2>1 DEF Listed, ListRunning
  <2> QED BY <1>1, <1>3, <2>1, <2>2 DEF ListingInv, ListingFollows
<1> QED
  BY <1>1, <1>5, <1>6 DEF ListingInv, ListingFollows, ListRunning

(* A worker that lists no directory ends. *)
LEMMA RequestEndKeepsListing ==
  ASSUME ListingInv, NEW signals, Emit(signals), IsSequence(signals), NoListing(signals),
         ~ListRunning(running), UNCHANGED <<configDir, listedDir, unheard, searchVersion>>
  PROVE  ListingInv'
<1>1. posted' = posted \o signals /\ running' = <<>> /\ runQueue' = runQueue
  BY DEF Emit
<1>2. QueueType'
  BY <1>1, PostedConcat DEF ListingInv, QueueType
<1>3. Listed => Listed'
  BY <1>1, NoListingAdded DEF ListingInv, QueueType, Listed
<1>4. ~ListRunning(running')
  BY <1>1 DEF ListRunning
<1> QED BY <1>1, <1>2, <1>3, <1>4 DEF ListingInv, ListingFollows

(* A signal is delivered that is no list, and the combo box stays.          *)
LEMMA DeliverKeepsListing ==
  ASSUME ListingInv, posted # <<>>, posted' = Tail(posted), ~IsListing(Head(posted)),
         UNCHANGED <<runQueue, running, configDir, listedDir, unheard, searchVersion>>
  PROVE  ListingInv'
<1>1. QueueType'
  BY PostedTail DEF ListingInv, QueueType
<1>2. Listed => Listed'
  BY OldestDelivered DEF ListingInv, QueueType, Listed
<1> QED BY <1>1, <1>2 DEF ListingInv, ListingFollows

LEMMA SearchStepKeepsListing ==
  ASSUME ListingInv, SearchStep, UNCHANGED importVars
  PROVE  ListingInv'
<1> USE DEF importVars
<1>1. CASE BeginSearch
  <2>1. PICK worker : Begin(worker, Found(worker.arg)) /\ UNCHANGED viewEditVars
    BY <1>1 DEF BeginSearch
  <2> QED BY <2>1, BeginKeepsListing DEF viewEditVars, listVars
<1>2. CASE EndSearch
  <2> DEFINE w == running[1]
  <2>1. /\ running # <<>> /\ w.kind = "list"
        /\ posted' = posted \o Outcome(w, running[2]) /\ running' = <<>>
        /\ runQueue' = runQueue /\ UNCHANGED <<configDir, listedDir, searchVersion>>
    BY <1>2 DEF EndSearch, Emit, listVars
  <2>2. IsSequence(posted') /\ LastListingOf(posted', w.arg)
    BY <2>1, ListPosted DEF ListingInv, QueueType
  <2>3. ListRunning(running) /\ ~ListRunning(running')
    BY <2>1 DEF ListRunning
  <2>4. QueueType'
    BY <2>1, <2>2 DEF ListingInv, QueueType
  <2> QED BY <2>1, <2>2, <2>3, <2>4 DEF ListingInv, ListingFollows, Listed
<1>3. CASE SearchRaises
  <2> DEFINE w == running[1]
  <2>1. /\ running # <<>> /\ w.kind = "list"
        /\ posted' = posted \o Raised(w) /\ running' = <<>> /\ w.arg \in unheard'
        /\ runQueue' = runQueue /\ UNCHANGED <<configDir, listedDir, searchVersion>>
    BY <1>3 DEF SearchRaises, Emit, listVars
  <2>2. IsSequence(posted')
    BY <2>1, OthersPosted, PostedConcat DEF ListingInv, QueueType
  <2>3. ListRunning(running) /\ ~ListRunning(running')
    BY <2>1 DEF ListRunning
  <2>4. QueueType'
    BY <2>1, <2>2 DEF ListingInv, QueueType
  <2> QED BY <2>1, <2>3, <2>4 DEF ListingInv, ListingFollows, Listed
<1>4. CASE ListConfigFilesCallback
  <2> DEFINE s == Head(posted)
  <2>1. /\ posted # <<>> /\ posted' = Tail(posted) /\ listedDir' = s.worker.arg
        /\ UNCHANGED <<runQueue, running, configDir, unheard, searchVersion>>
    BY <1>4 DEF ListConfigFilesCallback, Deliver, Delivered
  <2>2. IsListing(s)
    BY <1>4 DEF ListConfigFilesCallback, Deliver, IsListing
  <2>3. QueueType'
    BY <2>1, PostedTail DEF ListingInv, QueueType
  <2>4. ~NoListing(posted)
    BY <2>1, <2>2, PostedTail DEF ListingInv, QueueType, NoListing
  <2>5. Listed => Listed'
    BY <2>1, <2>4, OldestDelivered DEF ListingInv, QueueType, Listed
  <2> QED BY <2>1, <2>3, <2>5 DEF ListingInv, ListingFollows
<1>5. CASE SearchCompleteCallback
  <2>1. /\ posted # <<>> /\ posted' = Tail(posted) /\ ~IsListing(Head(posted))
        /\ UNCHANGED <<runQueue, running, configDir, listedDir, unheard, searchVersion>>
    BY <1>5 DEF SearchCompleteCallback, Deliver, IsListing, listVars
  <2> QED BY <2>1, DeliverKeepsListing
<1> QED BY <1>1, <1>2, <1>3, <1>4, <1>5 DEF SearchStep

LEMMA RequestStepKeepsListing ==
  ASSUME ListingInv, RequestStep, UNCHANGED viewEditVars
  PROVE  ListingInv'
<1> USE DEF viewEditVars, listVars
<1>1. CASE BeginRequest
  <2>1. PICK worker, read : Begin(worker, read) /\ UNCHANGED importVars
    BY <1>1 DEF BeginRequest
  <2> QED BY <2>1, BeginKeepsListing DEF importVars
<1>2. CASE EndRequest \/ RequestRefused \/ RequestRaises
  <2>1. running # <<>> /\ running[1].kind # "list" /\ UNCHANGED searchVersion
    BY <1>2 DEF EndRequest, RequestRefused, RequestRaises, Requesting, importVars, RequestKinds
  <2>2. PICK signals : Emit(signals) /\ IsSequence(signals) /\ NoListing(signals)
    BY <1>2, <2>1, OthersPosted DEF EndRequest, RequestRefused, RequestRaises
  <2> QED BY <2>1, <2>2, RequestEndKeepsListing DEF ListRunning
<1>3. CASE LoadTypedResourcesCallback \/ LoadCfnResourcesCallback \/ RequestCompleteCallback
  <2>1. /\ posted # <<>> /\ posted' = Tail(posted) /\ Head(posted).worker.kind # "list"
        /\ UNCHANGED <<runQueue, running, searchVersion>>
    BY <1>3 DEF LoadTypedResourcesCallback, LoadCfnResourcesCallback, RequestCompleteCallback,
                Deliver, RequestKinds
  <2> QED BY <2>1, DeliverKeepsListing DEF IsListing
<1> QED BY <1>1, <1>2, <1>3 DEF RequestStep

-----------------------------------------------------------------------------
(* Steps of the user and of other programs. *)

LEMMA UserStepKeepsListing ==
  ASSUME ListingInv, UserStep, UNCHANGED importVars
  PROVE  ListingInv'
<1> USE DEF importVars
<1>0. searchVersion' \in RequestKinds \union {"none"}
  BY DEF ListingInv, QueueType
<1>1. CASE \E d \in Dirs : OpenFileDialog(d)
  <2>1. PICK d \in Dirs : OpenFileDialog(d)
    BY <1>1
  <2>2. /\ configDir' = d /\ runQueue' = Append(runQueue, [kind |-> "list", arg |-> d])
        /\ UNCHANGED <<running, posted>>
    BY <2>1 DEF OpenFileDialog, Start
  <2> QED BY <1>0, <2>2, SearchStarted DEF ListingInv, QueueType, ListingFollows
<1>2. CASE RescanConfigDirectory
  <2>1. listedDir' = configDir /\ UNCHANGED <<workerVars, configDir, unheard>>
    BY <1>2 DEF RescanConfigDirectory
  <2>2. Listed => Listed'
    BY <2>1 DEF Listed, workerVars
  <2> QED BY <1>0, <2>1, <2>2 DEF ListingInv, QueueType, ListingFollows, workerVars
<1>3. CASE \E n \in Names : SelectConfigFile(n)
  BY <1>0, <1>3, ListingUnchanged DEF SelectConfigFile, queueVars
<1>4. CASE \/ AddTableRow \/ (\E i \in DOMAIN rows, row \in Rows : SetResourceAttribute(i, row))
           \/ \E S \in SUBSET DOMAIN rows : DeleteTableRow(S)
  <2>1. Editing
    BY <1>4 DEF AddTableRow, SetResourceAttribute, DeleteTableRow
  <2> QED BY <1>0, <2>1, ListingUnchanged DEF Editing, queueVars, listVars
<1>5. CASE RefuseInvalidRows \/ SkipWrite \/ WriteJsonFile \/ WriteFails
  <2>1. SaveChanges
    BY <1>5 DEF RefuseInvalidRows, SkipWrite, WriteJsonFile, WriteFails, Convertible
  <2> QED BY <1>0, <2>1, ListingUnchanged DEF SaveChanges, queueVars, listVars
<1> QED BY <1>1, <1>2, <1>3, <1>4, <1>5 DEF UserStep

LEMMA ImportUserStepKeepsListing ==
  ASSUME ListingInv, ImportUserStep, UNCHANGED viewEditVars
  PROVE  ListingInv'
<1> USE DEF viewEditVars, listVars
<1>1. CASE StartSearchResourcesAsync
  <2>1. /\ searchVersion \in RequestKinds
        /\ runQueue' = Append(runQueue, [kind |-> searchVersion, arg |-> <<>>])
        /\ UNCHANGED <<searchVersion, running, posted, configDir, listedDir, unheard>>
    BY <1>1 DEF StartSearchResourcesAsync, Start
  <2>2. Listed => Listed'
    BY <2>1 DEF Listed
  <2> QED BY <2>1, <2>2, RequestStarted DEF ListingInv, QueueType, ListingFollows
<1>2. CASE \/ \E i \in DOMAIN AWS_RESOURCE_TYPES : SelectType(i) /\ UNCHANGED workerVars
           \/ BackToViewEditPage /\ UNCHANGED workerVars
  <2>1. searchVersion' \in RequestKinds \union {"none"} /\ UNCHANGED workerVars
    BY <1>2 DEF SelectType, BackToViewEditPage, ResetPage, ListingInv, QueueType
  <2> QED BY <2>1, ListingUnchanged DEF queueVars
<1> QED BY <1>1, <1>2 DEF ImportUserStep

LEMMA ToolStepKeepsListing ==
  ASSUME ListingInv, [ToolNext]_toolVars
  PROVE  ListingInv'
<1>1. CASE ViewEditStep /\ UNCHANGED importVars
  <2>1. CASE \E d \in Dirs, n \in Names : OutsideChange(d, n)
    <3>1. UNCHANGED queueVars
      BY <2>1 DEF OutsideChange, queueVars, listVars
    <3> QED BY <1>1, <3>1, ListingUnchanged DEF importVars, ListingInv, QueueType
  <2> QED BY <1>1, <2>1, UserStepKeepsListing, SearchStepKeepsListing DEF ViewEditStep
<1>2. CASE ImportStep /\ UNCHANGED viewEditVars
  BY <1>2, ImportUserStepKeepsListing, RequestStepKeepsListing DEF ImportStep
<1>3. CASE \E version \in RequestKinds : SwitchPage(version)
  <2>1. UNCHANGED queueVars /\ searchVersion' \in RequestKinds
    BY <1>3 DEF SwitchPage, SwitchToImportResourcesPage, vars, viewEditVars, listVars, queueVars
  <2> QED BY <2>1, ListingUnchanged
<1>4. CASE \E S \in SUBSET Nodes : ImportResources(S)
  <2>1. UNCHANGED queueVars /\ searchVersion' = "none"
    BY <1>4 DEF ImportResources, ImportSelected, BackToViewEditPage, ResetPage, listVars, queueVars
  <2> QED BY <2>1, ListingUnchanged
<1>5. CASE UNCHANGED toolVars
  BY <1>5, ListingUnchanged
     DEF toolVars, vars, viewEditVars, listVars, importVars, queueVars, ListingInv, QueueType
<1> QED BY <1>1, <1>2, <1>3, <1>4, <1>5 DEF ToolNext

LEMMA ListingInvImplies ==
  ASSUME ListingInv
  PROVE  IdleListingCurrent
<1>1. ASSUME Idle PROVE Listed /\ posted = <<>>
  BY <1>1 DEF Idle, ListingInv, ListingFollows, LastListOf, ListRunning
<1> QED BY <1>1 DEF IdleListingCurrent, Listed, LastListingOf

(* Whatever searches and requests overlap, on whichever page, the combo box *)
(* lists the directory chosen last once no work is under way, or the last   *)
(* search of that directory raised an exception.                            *)
THEOREM ToolIdleListingCurrent == ToolSpec => []IdleListingCurrent
<1>1. ToolInit => ListingInv
  <2> SUFFICES ASSUME ToolInit PROVE ListingInv
    OBVIOUS
  <2>1. /\ runQueue = <<>> /\ running = <<>> /\ posted = <<>>
        /\ listedDir = configDir /\ searchVersion = "none"
    BY DEF ToolInit, Init, WorkersInit, ImportInit
  <2>2. QueueType
    BY <2>1 DEF QueueType, IsSequence
  <2>3. NoList(runQueue) /\ ~ListRunning(running) /\ Listed
    BY <2>1 DEF NoList, ListRunning, Listed, NoListing
  <2> QED BY <2>2, <2>3 DEF ListingInv, ListingFollows
<1>2. ListingInv /\ [ToolNext]_toolVars => ListingInv'
  BY ToolStepKeepsListing
<1> QED BY <1>1, <1>2, ListingInvImplies, PTL DEF ToolSpec

-----------------------------------------------------------------------------
(* The table page, whose invariant the requests of the other page keep.     *)

LEMMA NoListKinds == "list" \notin RequestKinds
BY DEF RequestKinds

LEMMA RequestStepWorkers ==
  ASSUME PageInv, RequestStep
  PROVE  WorkerTypes'
<1>1. /\ IsSequence(runQueue) /\ IsSequence(posted)
      /\ \A w \in Range(runQueue) : w.kind = "list" => w.arg \in Dirs
      /\ \A s \in Range(posted) : ListsNames(s)
  BY DEF PageInv, Types, WorkerTypes
<1>2. CASE BeginRequest
  <2>1. PICK worker, read : Begin(worker, read) /\ worker.kind # "list"
    BY <1>2 DEF BeginRequest
  <2>2. /\ runQueue # <<>> /\ running' = <<worker, read>>
        /\ runQueue' = Tail(runQueue) /\ posted' = posted
    BY <2>1 DEF Begin
  <2>3. IsSequence(runQueue') /\ Range(runQueue') \subseteq Range(runQueue)
    BY <1>1, <2>2, RangeOfTail
  <2>4. running'[1] = worker
    BY <2>2
  <2> QED BY <1>1, <2>1, <2>2, <2>3, <2>4 DEF WorkerTypes
<1>3. CASE EndRequest \/ RequestRefused \/ RequestRaises
  <2> DEFINE w == running[1]
  <2>1. w.kind # "list"
    BY <1>3, NoListKinds DEF EndRequest, RequestRefused, RequestRaises, Requesting
  <2>2. PICK signals, value :
          /\ IsSequence(signals) /\ Emit(signals)
          /\ \A s \in Range(signals) :
               s \in {Signal("result", w, value), Signal("finished", w, <<>>)}
    BY <1>3, RangeEmitted DEF EndRequest, RequestRefused, RequestRaises
  <2> HIDE DEF w
  <2>3. posted' = posted \o signals /\ running' = <<>> /\ runQueue' = runQueue
    BY <2>2 DEF Emit
  <2>4. IsSequence(posted') /\ Range(posted') = Range(posted) \union Range(signals)
    BY <1>1, <2>2, <2>3, RangeConcatenated
  <2>5. \A s \in Range(signals) : ListsNames(s)
    BY <2>1, <2>2 DEF ListsNames, Signal
  <2> QED BY <1>1, <2>3, <2>4, <2>5 DEF WorkerTypes
<1>4. CASE LoadTypedResourcesCallback \/ LoadCfnResourcesCallback \/ RequestCompleteCallback
  <2>1. posted # <<>> /\ posted' = Tail(posted) /\ UNCHANGED <<runQueue, running>>
    BY <1>4 DEF LoadTypedResourcesCallback, LoadCfnResourcesCallback, RequestCompleteCallback,
                Deliver
  <2> QED BY <2>1, DeliveredType
<1> QED BY <1>2, <1>3, <1>4 DEF RequestStep

LEMMA ImportUserStepWorkers ==
  ASSUME PageInv, ImportUserStep
  PROVE  WorkerTypes'
<1>1. CASE StartSearchResourcesAsync
  <2> DEFINE w == [kind |-> searchVersion, arg |-> <<>>]
  <2>1. searchVersion \in RequestKinds /\ runQueue' = Append(runQueue, w)
        /\ UNCHANGED <<running, posted>>
    BY <1>1 DEF StartSearchResourcesAsync, Start
  <2>2. w.kind # "list"
    BY <2>1, NoListKinds
  <2> HIDE DEF w
  <2>3. IsSequence(runQueue') /\ Range(runQueue') = Range(runQueue) \union {w}
    BY <2>1, RangeAppended DEF PageInv, Types, WorkerTypes
  <2> QED BY <2>1, <2>2, <2>3 DEF PageInv, Types, WorkerTypes
<1>2. CASE UNCHANGED workerVars
  BY <1>2 DEF workerVars, PageInv, Types, WorkerTypes
<1> QED BY <1>1, <1>2 DEF ImportUserStep

LEMMA ImportStepKeepsPage ==
  ASSUME PageInv, ImportStep, UNCHANGED viewEditVars
  PROVE  PageInv'
<1>1. WorkerTypes'
  BY RequestStepWorkers, ImportUserStepWorkers DEF ImportStep
<1>2. UNCHANGED <<disk, disturbed, configDir, configFiles, selected, listedDir, jsonSource, rows,
                  view, used, unheard, enabled, notice>>
  BY DEF viewEditVars, fileVars, listVars, tableVars
<1>3. unheard' \subseteq Dirs /\ enabled' \in BOOLEAN /\ notice' \in {"none", "error", "saved"}
  BY <1>2 DEF PageInv, Types, ListTypes, TableTypes
<1> QED BY <1>1, <1>2, <1>3, PageUntouched

LEMMA ViewEditStepKeepsPage ==
  ASSUME PageInv, ViewEditStep
  PROVE  PageInv'
<1>1. Next
  BY DEF ViewEditStep, Next
<1> QED BY <1>1, StepKeeps

LEMMA PageStutters ==
  ASSUME PageInv, UNCHANGED vars
  PROVE  PageInv'
BY StepKeeps

(* Imported rows are unsaved ones.                                          *)
LEMMA ImportedRowsKeepPage ==
  ASSUME PageInv, NEW resources \in Seq(Resources), AddImportResourcesReceiver(resources),
         UNCHANGED <<fileVars, listVars, jsonSource, enabled, notice, view, unheard, used,
                     workerVars>>
  PROVE  PageInv'
<1> DEFINE new == [i \in DOMAIN resources |-> Row(Empty, resources[i], ConfiguredOwner, "Modified")]
           n == Len(rows)
           m == Len(resources)
<1>1. /\ UNCHANGED <<disk, disturbed, configDir, configFiles, selected, listedDir, jsonSource,
                     enabled, notice, view, unheard, used, runQueue, running, posted>>
      /\ rows' = rows \o new
  BY DEF fileVars, listVars, workerVars, AddImportResourcesReceiver
<1>2. m \in Nat /\ DOMAIN resources = 1 .. m /\ \A i \in 1 .. m : resources[i] \in Resources
  BY LenProperties, ElementOfSeq
<1>3. \A i \in 1 .. m : new[i] \in Rows /\ new[i].status = "Modified"
  <2>1. ASSUME NEW r \in Resources
        PROVE  /\ Row(Empty, r, ConfiguredOwner, "Modified") \in Rows
               /\ Row(Empty, r, ConfiguredOwner, "Modified").status = "Modified"
    BY Defined DEF Row, Rows, Statuses
  <2> QED BY <1>2, <2>1
<1>4. DOMAIN new = 1 .. m
  BY <1>2
<1> HIDE DEF new, m
<1>5. new \in Seq(Rows) /\ Len(new) = m
  <2>1. new \in [1 .. m -> Rows]
    BY <1>3, <1>4 DEF new
  <2> QED BY <1>2, <2>1, LenProperties
<1>6. /\ rows' \in Seq(Rows) /\ n \in Nat /\ DOMAIN rows = 1 .. n /\ DOMAIN rows' = 1 .. n + m
      /\ \A i \in 1 .. n + m : rows'[i] = IF i <= n THEN rows[i] ELSE new[i - n]
  BY <1>1, <1>5, RowsOf, ConcatProperties, LenProperties
<1> HIDE DEF n
<1>7. \A i \in 1 .. n + m : rows'[i].status = "Success" => i \in 1 .. n /\ rows'[i] = rows[i]
  <2>1. ASSUME NEW i \in 1 .. n + m, ~(i <= n) PROVE rows'[i].status = "Modified"
    <3>1. i - n \in 1 .. m /\ rows'[i] = new[i - n]
      BY <1>2, <1>6, <2>1
    <3> QED BY <1>3, <3>1
  <2> QED BY <1>2, <1>6, <2>1
<1>8. (DiskTypes /\ ListTypes /\ TableTypes /\ WorkerTypes /\ UsedTypes)'
  BY <1>1, <1>6 DEF PageInv, Types, DiskTypes, ListTypes, TableTypes, WorkerTypes, UsedTypes
<1>9. SourceMatches' /\ KeysDistinct(rows)'
  <2>1. SourceMatches /\ KeysDistinct(rows)
    BY DEF PageInv, Kept
  <2>2. \A i \in SavedRows(rows') : i \in SavedRows(rows) /\ rows'[i] = rows[i]
    BY <1>6, <1>7 DEF SavedRows
  <2>3. KeysDistinct(rows')
    BY <2>1, <2>2 DEF KeysDistinct
  <2> QED BY <1>1, <2>1, <2>3 DEF SourceMatches
<1>10. SuccessRowsStored'
  <2>1. SuccessRowsStored
    BY DEF PageInv, Kept
  <2> QED BY <1>1, <1>6, <1>7, <2>1 DEF SuccessRowsStored
<1> QED BY <1>8, <1>9, <1>10 DEF PageInv, Types, Kept

-----------------------------------------------------------------------------
(* Loops over a sequence, by induction on what they have done.              *)

LEMMA NumberInduction ==
  ASSUME NEW n \in Nat, NEW S, 0 \in S, \A k \in 0 .. n - 1 : k \in S => k + 1 \in S
  PROVE  \A k \in 0 .. n : k \in S
<1> DEFINE R == OpToRel(<, Nat)
           T == {k \in Nat : k <= n /\ k \notin S}
<1> SUFFICES ASSUME T # {} PROVE FALSE
  OBVIOUS
<1>1. IsWellFoundedOn(R, Nat)
  BY NatLessThanWellFounded
<1>2. \A x, y \in Nat : x < y => <<x, y>> \in R
  BY DEF OpToRel
<1> HIDE DEF R
<1>3. T \in SUBSET Nat
  OBVIOUS
<1> HIDE DEF T
<1>4. PICK x \in T : \A y \in T : ~(<<y, x>> \in R)
  BY <1>1, <1>3, WFMin
<1>5. x \in Nat /\ x <= n /\ x \notin S /\ x # 0
  BY <1>4 DEF T
<1>6. x - 1 \in 0 .. n - 1 /\ x - 1 < x
  BY <1>5
<1>7. x - 1 \notin T
  <2>1. x - 1 \in Nat /\ x \in Nat
    BY <1>5
  <2>2. <<x - 1, x>> \in R
    BY <1>2, <1>6, <2>1
  <2> QED BY <1>4, <2>2
<1>8. x - 1 \in S
  BY <1>5, <1>6, <1>7 DEF T
<1>9. x - 1 + 1 = x
  BY <1>5
<1> QED BY <1>5, <1>6, <1>8, <1>9

(* f[n] is what passed among the first n of s.                              *)
PassedUpTo(s, S, k, f) ==
  f = [n \in 0 .. k |->
         IF n = 0 THEN <<>>
         ELSE IF s[n] \in S THEN Append(f[n - 1], s[n]) ELSE f[n - 1]]

LEMMA PassingSteps ==
  ASSUME NEW T, NEW s \in Seq(T), NEW S
  PROVE  \E f : PassedUpTo(s, S, Len(s), f) /\ Passing(s, S) = f[Len(s)]
<1> DEFINE N == Len(s)
           D == {k \in 0 .. N : \E f : PassedUpTo(s, S, k, f)}
<1>0. N \in Nat
  BY LenProperties
<1>1. Passing(s, S) = (CHOOSE f : PassedUpTo(s, S, N, f))[N]
  BY DEF Passing, PassedUpTo
<1> HIDE DEF N
<1>2. 0 \in D
  <2> DEFINE f == [n \in 0 .. 0 |-> <<>>]
  <2>1. PassedUpTo(s, S, 0, f)
    BY DEF PassedUpTo
  <2> QED BY <1>0, <2>1
<1>3. ASSUME NEW k \in 0 .. N - 1, k \in D PROVE k + 1 \in D
  <2>1. PICK f : PassedUpTo(s, S, k, f)
    BY <1>3
  <2> DEFINE next(p, n) == IF s[n] \in S THEN Append(p, s[n]) ELSE p
             g == [n \in 0 .. k + 1 |-> IF n = k + 1 THEN next(f[k], k + 1) ELSE f[n]]
  <2>2. \A n \in 0 .. k : f[n] = IF n = 0 THEN <<>> ELSE next(f[n - 1], n)
    BY <2>1 DEF PassedUpTo
  <2> HIDE DEF next
  <2>3. k \in Nat
    BY <1>0
  <2>4. ASSUME NEW n \in 0 .. k + 1 PROVE g[n] = IF n = 0 THEN <<>> ELSE next(g[n - 1], n)
    <3>1. CASE n = k + 1
      BY <2>3, <3>1
    <3>2. CASE n # k + 1
      BY <2>2, <2>3, <3>2
    <3> QED BY <3>1, <3>2
  <2>5. g = [n \in 0 .. k + 1 |-> IF n = 0 THEN <<>> ELSE next(g[n - 1], n)]
    BY <2>4
  <2> HIDE DEF g
  <2>6. PassedUpTo(s, S, k + 1, g)
    BY <2>5 DEF PassedUpTo, next
  <2> QED BY <1>0, <2>3, <2>6
<1> HIDE DEF D
<1>4. N \in D
  <2>1. \A k \in 0 .. N : k \in D
    BY <1>0, <1>2, <1>3, NumberInduction
  <2> QED BY <1>0, <2>1
<1>5. \E f : PassedUpTo(s, S, N, f)
  BY <1>4 DEF D
<1> QED BY <1>1, <1>5 DEF N

Once(s, S) == \A i, j \in DOMAIN s : (s[i] \in S /\ s[i] = s[j]) => i = j

(* It has exactly what is in S, in no other number.                         *)
LEMMA PassingElements ==
  ASSUME NEW T, NEW s \in Seq(T), NEW S
  PROVE  /\ Passing(s, S) \in Seq(T)
         /\ Range(Passing(s, S)) = Range(s) \cap S
         /\ Once(s, S) => IsInjective(Passing(s, S))
<1> DEFINE N == Len(s)
           Part(p, k) ==
             /\ p \in Seq(T)
             /\ \A x : x \in Range(p) <=> (x \in S /\ \E i \in 1 .. k : x = s[i])
             /\ Once(s, S) => IsInjective(p)
<1>0. N \in Nat /\ DOMAIN s = 1 .. N /\ \A i \in 1 .. N : s[i] \in T
  BY LenProperties, ElementOfSeq
<1>1. PICK f : PassedUpTo(s, S, N, f) /\ Passing(s, S) = f[N]
  BY PassingSteps
<1> HIDE DEF N
<1> DEFINE D == {k \in 0 .. N : Part(f[k], k)}
<1>2. /\ f[0] = <<>>
      /\ \A k \in 0 .. N - 1 :
           f[k + 1] = IF s[k + 1] \in S THEN Append(f[k], s[k + 1]) ELSE f[k]
  <2>1. \A n \in 0 .. N :
          f[n] = IF n = 0 THEN <<>>
                 ELSE IF s[n] \in S THEN Append(f[n - 1], s[n]) ELSE f[n - 1]
    BY <1>1 DEF PassedUpTo
  <2>2. \A k \in 0 .. N - 1 : k + 1 \in 0 .. N /\ k + 1 # 0 /\ k + 1 - 1 = k
    BY <1>0
  <2>3. 0 \in 0 .. N
    BY <1>0
  <2> QED BY <2>1, <2>2, <2>3
<1>3. 0 \in D
  <2>1. <<>> \in Seq(T) /\ Range(<<>>) = {} /\ IsInjective(<<>>)
    BY DEF Range, IsInjective
  <2>2. Part(<<>>, 0)
    BY <2>1
  <2>3. 0 \in 0 .. N /\ f[0] = <<>>
    BY <1>0, <1>2
  <2> HIDE DEF Part
  <2> QED BY <2>2, <2>3
<1>4. ASSUME NEW k \in 0 .. N - 1, k \in D PROVE k + 1 \in D
  <2> DEFINE p == f[k]
             e == s[k + 1]
  <2>1. Part(p, k) /\ k \in Nat /\ k + 1 \in 1 .. N /\ e \in T
    BY <1>0, <1>4
  <2>2. \A x : (\E i \in 1 .. k + 1 : x = s[i]) <=> (x = e \/ \E i \in 1 .. k : x = s[i])
    BY <2>1
  <2>3. CASE e \in S
    <3>1. f[k + 1] = Append(p, e)
      BY <1>2, <2>3
    <3> HIDE DEF p, e
    <3>2. Append(p, e) \in Seq(T) /\ Range(Append(p, e)) = Range(p) \union {e}
      BY <2>1, RangeAppended, AppendProperties DEF IsSequence
    <3>3. \A x : x \in Range(Append(p, e)) <=> (x \in S /\ \E i \in 1 .. k + 1 : x = s[i])
      BY <2>1, <2>2, <2>3, <3>2
    <3>4. ASSUME Once(s, S) PROVE IsInjective(Append(p, e))
      <4>1. e \notin Range(p)
        <5>1. \A i \in 1 .. k : s[i] # e
          BY <1>0, <2>1, <2>3, <3>4 DEF Once, e
        <5> QED BY <2>1, <5>1
      <4>2. IsInjective(p)
        BY <2>1, <3>4
      <4>3. /\ Len(p) \in Nat /\ DOMAIN p = 1 .. Len(p)
            /\ DOMAIN Append(p, e) = 1 .. Len(p) + 1
            /\ \A i \in 1 .. Len(p) : Append(p, e)[i] = p[i]
            /\ Append(p, e)[Len(p) + 1] = e
        BY <2>1, AppendProperties, LenProperties
      <4> QED BY <4>1, <4>2, <4>3 DEF IsInjective, Range
    <3>5. Part(Append(p, e), k + 1)
      BY <3>2, <3>3, <3>4
    <3>6. k + 1 \in 0 .. N
      BY <1>0
    <3> HIDE DEF Part
    <3> QED BY <3>1, <3>5, <3>6
  <2>4. CASE e \notin S
    <3>1. f[k + 1] = p
      BY <1>2, <2>4
    <3> HIDE DEF p, e
    <3>2. \A x : x \in Range(p) <=> (x \in S /\ \E i \in 1 .. k + 1 : x = s[i])
      BY <2>1, <2>2, <2>4
    <3> QED BY <1>0, <2>1, <3>1, <3>2
  <2> QED BY <2>3, <2>4
<1> HIDE DEF D, Part
<1>5. N \in D
  <2>1. \A k \in 0 .. N : k \in D
    BY <1>0, <1>3, <1>4, NumberInduction
  <2> QED BY <1>0, <2>1
<1>6. Part(Passing(s, S), N)
  BY <1>1, <1>5 DEF D
<1>7. \A x : x \in Range(s) <=> \E i \in 1 .. N : x = s[i]
  BY <1>0 DEF Range
<1> QED BY <1>6, <1>7 DEF Part

(* f[n] is the tree once the first n of rs are loaded.                      *)
LoadedUpTo(nodes, rs, k, f) ==
  f = [n \in 0 .. k |-> IF n = 0 THEN nodes ELSE LoadResource(f[n - 1], rs[n])]

LEMMA LoadedSteps ==
  ASSUME NEW nodes, NEW T, NEW rs \in Seq(T)
  PROVE  \E f : /\ f[0] = nodes /\ Loaded(nodes, rs) = f[Len(rs)]
                /\ \A k \in 0 .. Len(rs) - 1 : f[k + 1] = LoadResource(f[k], rs[k + 1])
<1> DEFINE N == Len(rs)
           D == {k \in 0 .. N : \E f : LoadedUpTo(nodes, rs, k, f)}
<1>0. N \in Nat
  BY LenProperties
<1>1. Loaded(nodes, rs) = (CHOOSE f : LoadedUpTo(nodes, rs, N, f))[N]
  BY DEF Loaded, LoadedUpTo
<1> HIDE DEF N
<1>2. 0 \in D
  <2> DEFINE f == [n \in 0 .. 0 |-> nodes]
  <2>1. LoadedUpTo(nodes, rs, 0, f)
    BY DEF LoadedUpTo
  <2> QED BY <1>0, <2>1
<1>3. ASSUME NEW k \in 0 .. N - 1, k \in D PROVE k + 1 \in D
  <2>1. PICK f : LoadedUpTo(nodes, rs, k, f)
    BY <1>3
  <2> DEFINE next(p, n) == LoadResource(p, rs[n])
             g == [n \in 0 .. k + 1 |-> IF n = k + 1 THEN next(f[k], k + 1) ELSE f[n]]
  <2>2. \A n \in 0 .. k : f[n] = IF n = 0 THEN nodes ELSE next(f[n - 1], n)
    BY <2>1 DEF LoadedUpTo
  <2> HIDE DEF next
  <2>3. k \in Nat
    BY <1>0
  <2>4. ASSUME NEW n \in 0 .. k + 1 PROVE g[n] = IF n = 0 THEN nodes ELSE next(g[n - 1], n)
    <3>1. CASE n = k + 1
      BY <2>3, <3>1
    <3>2. CASE n # k + 1
      BY <2>2, <2>3, <3>2
    <3> QED BY <3>1, <3>2
  <2>5. g = [n \in 0 .. k + 1 |-> IF n = 0 THEN nodes ELSE next(g[n - 1], n)]
    BY <2>4
  <2> HIDE DEF g
  <2>6. LoadedUpTo(nodes, rs, k + 1, g)
    BY <2>5 DEF LoadedUpTo, next
  <2> QED BY <1>0, <2>3, <2>6
<1> HIDE DEF D
<1>4. N \in D
  <2>1. \A k \in 0 .. N : k \in D
    BY <1>0, <1>2, <1>3, NumberInduction
  <2> QED BY <1>0, <2>1
<1>5. \E f : LoadedUpTo(nodes, rs, N, f)
  BY <1>4 DEF D
<1>6. PICK f : LoadedUpTo(nodes, rs, N, f) /\ Loaded(nodes, rs) = f[N]
  BY <1>1, <1>5
<1>7. \A n \in 0 .. N : f[n] = IF n = 0 THEN nodes ELSE LoadResource(f[n - 1], rs[n])
  BY <1>6 DEF LoadedUpTo
<1>8. /\ \A k \in 0 .. N - 1 : k + 1 \in 0 .. N /\ k + 1 # 0 /\ k + 1 - 1 = k
      /\ 0 \in 0 .. N
  BY <1>0
<1>9. f[0] = nodes /\ \A k \in 0 .. N - 1 : f[k + 1] = LoadResource(f[k], rs[k + 1])
  BY <1>7, <1>8
<1> QED BY <1>6, <1>9 DEF N

(* What every load of one resource keeps, the loads of all keep.            *)
LEMMA LoadedStays ==
  ASSUME NEW X, NEW nodes \in X, NEW T, NEW rs \in Seq(T),
         \A t \in X, e \in T : LoadResource(t, e) \in X
  PROVE  Loaded(nodes, rs) \in X
<1> DEFINE N == Len(rs)
<1>0. N \in Nat /\ \A k \in 0 .. N - 1 : rs[k + 1] \in T
  <2>1. N \in Nat /\ \A i \in 1 .. N : rs[i] \in T
    BY LenProperties, ElementOfSeq
  <2>2. \A k \in 0 .. N - 1 : k + 1 \in 1 .. N
    BY <2>1
  <2> QED BY <2>1, <2>2
<1>1. PICK f : /\ f[0] = nodes /\ Loaded(nodes, rs) = f[N]
               /\ \A k \in 0 .. N - 1 : f[k + 1] = LoadResource(f[k], rs[k + 1])
  BY LoadedSteps
<1> HIDE DEF N
<1> DEFINE D == {k \in 0 .. N : f[k] \in X}
<1>2. 0 \in D
  BY <1>0, <1>1
<1>3. ASSUME NEW k \in 0 .. N - 1, k \in D PROVE k + 1 \in D
  <2>1. f[k + 1] \in X
    BY <1>0, <1>1, <1>3
  <2> QED BY <1>0, <2>1
<1> HIDE DEF D
<1>4. \A k \in 0 .. N : k \in D
  BY <1>0, <1>2, <1>3, NumberInduction
<1>5. N \in D
  BY <1>0, <1>4
<1> QED BY <1>1, <1>5 DEF D

LEMMA ChildrenReplaced ==
  ASSUME NEW r, NEW p, NEW q
  PROVE  [[resource |-> r, children |-> p] EXCEPT !.children = q]
           = [resource |-> r, children |-> q]
<1>1. PICK x, y : x = [resource |-> r, children |-> p] /\ y = [resource |-> r, children |-> q]
  OBVIOUS
<1>2. x \in [resource : {r}, children : {p, q}] /\ x.resource = r
  BY <1>1
<1>3. /\ [x EXCEPT !.children = q] \in [resource : {r}, children : {p, q}]
      /\ [x EXCEPT !.children = q].children = q
  BY <1>2
<1>4. y \in [resource : {r}, children : {p, q}] /\ y.children = q
  BY <1>1
<1>5. [x EXCEPT !.children = q] = y
  BY <1>3, <1>4
<1> QED BY <1>1, <1>5, Zenon

(* A stack and its resources become one root with its children.             *)
LEMMA BlockLoaded ==
  ASSUME hasChild, NEW X, NEW nodes \in Seq(X), NEW T, NEW cs \in Seq(T),
         \A c \in T : IsChild(c),
         NEW root, root.type = AWS_RESOURCE_CLOUDFORMATION_STACK_TYPE
  PROVE  Loaded(nodes, <<root>> \o cs) = Append(nodes, Root(root, cs))
<1> DEFINE rs == <<root>> \o cs
           m == Len(cs)
           N == Len(rs)
           node(k) == [resource |-> root, children |-> [i \in 1 .. k |-> cs[i]]]
<1>1. /\ m \in Nat /\ DOMAIN cs = 1 .. m /\ \A i \in 1 .. m : cs[i] \in T
      /\ cs = [i \in 1 .. m |-> cs[i]]
  BY LenProperties, ElementOfSeq
<1>2. /\ rs \in Seq(T \union {root}) /\ N = m + 1 /\ rs[1] = root
      /\ \A i \in 1 .. m : rs[i + 1] = cs[i]
  <2>1. <<root>> \in Seq(T \union {root}) /\ cs \in Seq(T \union {root}) /\ Len(<<root>>) = 1
    OBVIOUS
  <2>2. /\ rs \in Seq(T \union {root}) /\ N = 1 + m
        /\ \A i \in 1 .. 1 + m : rs[i] = IF i <= 1 THEN <<root>>[i] ELSE cs[i - 1]
    BY <2>1, ConcatProperties
  <2>3. 1 \in 1 .. 1 + m /\ \A i \in 1 .. m : i + 1 \in 1 .. 1 + m /\ ~(i + 1 <= 1) /\ i + 1 - 1 = i
    BY <1>1
  <2> HIDE DEF rs, N
  <2> QED BY <1>1, <2>2, <2>3
<1> HIDE DEF rs, N
<1>3. PICK f : /\ f[0] = nodes /\ Loaded(nodes, rs) = f[N]
               /\ \A k \in 0 .. N - 1 : f[k + 1] = LoadResource(f[k], rs[k + 1])
  BY <1>2, LoadedSteps DEF N
<1> HIDE DEF m
<1>4. Len(nodes) \in Nat /\ nodes \in [1 .. Len(nodes) -> X]
  BY LenProperties
<1> DEFINE E == {k \in 0 .. m : f[k + 1] = Append(nodes, node(k))}
<1>5. 0 \in E
  <2>1. f[1] = LoadResource(nodes, root)
    <3>1. 0 \in 0 .. N - 1 /\ 0 + 1 = 1
      BY <1>1, <1>2
    <3>2. f[0 + 1] = LoadResource(f[0], rs[0 + 1])
      BY <1>3, <3>1
    <3> QED BY <1>2, <1>3, <3>1, <3>2
  <2>2. LoadResource(nodes, root) = Append(nodes, [resource |-> root, children |-> <<>>])
    BY DEF LoadResource
  <2>3. node(0) = [resource |-> root, children |-> <<>>]
    OBVIOUS
  <2> HIDE DEF node
  <2> QED BY <1>1, <2>1, <2>2, <2>3
<1>6. ASSUME NEW k \in 0 .. m - 1, k \in E PROVE k + 1 \in E
  <2> DEFINE t == Append(nodes, node(k))
             n == Len(nodes) + 1
             c == cs[k + 1]
  <2>1. f[k + 1] = t /\ k \in Nat /\ k + 1 \in 0 .. N - 1 /\ k + 1 \in 1 .. m /\ k + 1 + 1 = k + 2
    BY <1>1, <1>2, <1>6
  <2>2. f[k + 2] = LoadResource(t, c) /\ IsChild(c)
    BY <1>1, <1>2, <1>3, <2>1
  <2>3. /\ t \in Seq(X \union {node(k)}) /\ Len(t) = n /\ n \in Nat /\ t # <<>>
        /\ t[n] = node(k) /\ DOMAIN t = 1 .. n
        /\ \A i \in 1 .. n - 1 : t[i] = nodes[i]
    <3>1. nodes \in Seq(X \union {node(k)})
      OBVIOUS
    <3> HIDE DEF node
    <3> QED BY <3>1, AppendProperties, LenProperties, EmptySeq
  <2>4. LoadResource(t, c) = [t EXCEPT ![n].children = Append(@, c)]
    <3> HIDE DEF t, c, n
    <3> QED BY <2>2, <2>3 DEF LoadResource, IsChild
  <2>5. Append([i \in 1 .. k |-> cs[i]], c) = [i \in 1 .. k + 1 |-> cs[i]]
    <3> DEFINE p == [i \in 1 .. k |-> cs[i]]
    <3>0. \A i \in 1 .. k : i \in 1 .. m /\ cs[i] \in T
      BY <1>1, <2>1
    <3>1. p \in Seq(T) /\ Len(p) = k /\ \A i \in 1 .. k : p[i] = cs[i]
      <4>1. p \in [1 .. k -> T]
        BY <3>0
      <4> QED BY <2>1, <4>1, LenProperties
    <3> HIDE DEF p
    <3>2. c \in T
      BY <1>1, <2>1
    <3>3. Append(p, c) = [i \in 1 .. k + 1 |-> IF i = k + 1 THEN c ELSE p[i]]
      BY <3>1, <3>2
    <3>4. \A i \in 1 .. k + 1 : (IF i = k + 1 THEN c ELSE p[i]) = cs[i]
      BY <2>1, <3>1
    <3>5. Append(p, c) = [i \in 1 .. k + 1 |-> cs[i]]
      BY <3>3, <3>4
    <3> QED BY <3>5 DEF p
  <2>6. [t EXCEPT ![n].children = Append(@, c)] = Append(nodes, node(k + 1))
    <3>1. nodes \in Seq(X \union {node(k + 1)})
      OBVIOUS
    <3>2. [node(k) EXCEPT !.children = Append(@, c)] = node(k + 1)
      <4>1. [node(k) EXCEPT !.children = [i \in 1 .. k + 1 |-> cs[i]]] = node(k + 1)
        BY ChildrenReplaced
      <4>2. node(k).children = [i \in 1 .. k |-> cs[i]]
        OBVIOUS
      <4>3. Append(node(k).children, c) = [i \in 1 .. k + 1 |-> cs[i]]
        BY <2>5, <4>2
      <4> HIDE DEF c, node
      <4> QED BY <4>1, <4>3
    <3> HIDE DEF node, t, c
    <3>3. Append(nodes, node(k + 1)) = [i \in 1 .. n |-> IF i = n THEN node(k + 1) ELSE nodes[i]]
      BY <1>4, <3>1
    <3>4. [t EXCEPT ![n].children = Append(@, c)] =
            [i \in 1 .. n |-> IF i = n THEN [t[n] EXCEPT !.children = Append(@, c)] ELSE t[i]]
      BY <2>3
    <3> QED BY <2>3, <3>2, <3>3, <3>4
  <2> HIDE DEF node, t, c, n
  <2>7. f[k + 1 + 1] = Append(nodes, node(k + 1))
    BY <2>1, <2>2, <2>4, <2>6
  <2> QED BY <1>1, <2>1, <2>7
<1>7. node(m) = [resource |-> root, children |-> cs]
  BY <1>1
<1> HIDE DEF E, node
<1>8. m \in E
  <2>1. \A k \in 0 .. m : k \in E
    BY <1>1, <1>5, <1>6, NumberInduction
  <2> QED BY <1>1, <2>1
<1>9. f[m + 1] = Append(nodes, node(m))
  BY <1>8 DEF E
<1> QED BY <1>2, <1>3, <1>7, <1>9 DEF rs, Root

(* f[n] is the tree once the first n of ss are loaded.                      *)
StacksUpTo(nodes, ss, k, f) ==
  f = [n \in 0 .. k |-> IF n = 0 THEN nodes ELSE Loaded(f[n - 1], Block(ss[n]))]

LEMMA StacksSteps ==
  ASSUME NEW nodes, NEW T, NEW ss \in Seq(T)
  PROVE  \E f : /\ f[0] = nodes /\ LoadedStacks(nodes, ss) = f[Len(ss)]
                /\ \A k \in 0 .. Len(ss) - 1 : f[k + 1] = Loaded(f[k], Block(ss[k + 1]))
<1> DEFINE N == Len(ss)
           D == {k \in 0 .. N : \E f : StacksUpTo(nodes, ss, k, f)}
<1>0. N \in Nat
  BY LenProperties
<1>1. LoadedStacks(nodes, ss) = (CHOOSE f : StacksUpTo(nodes, ss, N, f))[N]
  BY DEF LoadedStacks, StacksUpTo
<1> HIDE DEF N
<1>2. 0 \in D
  <2> DEFINE f == [n \in 0 .. 0 |-> nodes]
  <2>1. StacksUpTo(nodes, ss, 0, f)
    BY DEF StacksUpTo
  <2> QED BY <1>0, <2>1
<1>3. ASSUME NEW k \in 0 .. N - 1, k \in D PROVE k + 1 \in D
  <2>1. PICK f : StacksUpTo(nodes, ss, k, f)
    BY <1>3
  <2> DEFINE next(p, n) == Loaded(p, Block(ss[n]))
             g == [n \in 0 .. k + 1 |-> IF n = k + 1 THEN next(f[k], k + 1) ELSE f[n]]
  <2>2. \A n \in 0 .. k : f[n] = IF n = 0 THEN nodes ELSE next(f[n - 1], n)
    BY <2>1 DEF StacksUpTo
  <2> HIDE DEF next
  <2>3. k \in Nat
    BY <1>0
  <2>4. ASSUME NEW n \in 0 .. k + 1 PROVE g[n] = IF n = 0 THEN nodes ELSE next(g[n - 1], n)
    <3>1. CASE n = k + 1
      BY <2>3, <3>1
    <3>2. CASE n # k + 1
      BY <2>2, <2>3, <3>2
    <3> QED BY <3>1, <3>2
  <2>5. g = [n \in 0 .. k + 1 |-> IF n = 0 THEN nodes ELSE next(g[n - 1], n)]
    BY <2>4
  <2> HIDE DEF g
  <2>6. StacksUpTo(nodes, ss, k + 1, g)
    BY <2>5 DEF StacksUpTo, next
  <2> QED BY <1>0, <2>3, <2>6
<1> HIDE DEF D
<1>4. N \in D
  <2>1. \A k \in 0 .. N : k \in D
    BY <1>0, <1>2, <1>3, NumberInduction
  <2> QED BY <1>0, <2>1
<1>5. \E f : StacksUpTo(nodes, ss, N, f)
  BY <1>4 DEF D
<1>6. PICK f : StacksUpTo(nodes, ss, N, f) /\ LoadedStacks(nodes, ss) = f[N]
  BY <1>1, <1>5
<1>7. \A n \in 0 .. N : f[n] = IF n = 0 THEN nodes ELSE Loaded(f[n - 1], Block(ss[n]))
  BY <1>6 DEF StacksUpTo
<1>8. /\ \A k \in 0 .. N - 1 : k + 1 \in 0 .. N /\ k + 1 # 0 /\ k + 1 - 1 = k
      /\ 0 \in 0 .. N
  BY <1>0
<1>9. f[0] = nodes /\ \A k \in 0 .. N - 1 : f[k + 1] = Loaded(f[k], Block(ss[k + 1]))
  BY <1>7, <1>8
<1> QED BY <1>6, <1>9 DEF N

(* What the load of every stack keeps, the loads of all keep.               *)
LEMMA StacksLoadedStay ==
  ASSUME NEW X, NEW nodes \in X, NEW T, NEW ss \in Seq(T),
         \A t \in X, e \in T : Loaded(t, Block(e)) \in X
  PROVE  LoadedStacks(nodes, ss) \in X
<1> DEFINE N == Len(ss)
<1>0. N \in Nat /\ \A k \in 0 .. N - 1 : ss[k + 1] \in T
  <2>1. N \in Nat /\ \A i \in 1 .. N : ss[i] \in T
    BY LenProperties, ElementOfSeq
  <2>2. \A k \in 0 .. N - 1 : k + 1 \in 1 .. N
    BY <2>1
  <2> QED BY <2>1, <2>2
<1>1. PICK f : /\ f[0] = nodes /\ LoadedStacks(nodes, ss) = f[N]
               /\ \A k \in 0 .. N - 1 : f[k + 1] = Loaded(f[k], Block(ss[k + 1]))
  BY StacksSteps
<1> HIDE DEF N
<1> DEFINE D == {k \in 0 .. N : f[k] \in X}
<1>2. 0 \in D
  BY <1>0, <1>1
<1>3. ASSUME NEW k \in 0 .. N - 1, k \in D PROVE k + 1 \in D
  <2>1. f[k + 1] \in X
    BY <1>0, <1>1, <1>3
  <2> QED BY <1>0, <2>1
<1> HIDE DEF D
<1>4. \A k \in 0 .. N : k \in D
  BY <1>0, <1>2, <1>3, NumberInduction
<1>5. N \in D
  BY <1>0, <1>4
<1> QED BY <1>1, <1>5 DEF D

-----------------------------------------------------------------------------
(* What AWS answers and what the tree becomes. *)

LEMMA AwsDefined ==
  /\ Functions \in Seq(Range(Functions)) /\ Tables \in Seq(Range(Tables))
  /\ Buckets \in Seq(Range(Buckets)) /\ StackSummaries \in Seq(Range(StackSummaries))
  /\ \A s \in Range(StackSummaries) :
       /\ s.resources \in Seq(Range(s.resources))
       /\ Once(s.resources, {r \in Range(s.resources) : IsNamed(r)})
       /\ \A r \in Range(s.resources) : IsChild(r)
  /\ MaxImportSearches \in Nat /\ MaxVisits \in Nat
BY ImportAssumption DEF IsChild, Once

LEMMA SeqOfLarger ==
  ASSUME NEW S, NEW T, NEW s \in Seq(S), \A x \in Range(s) : x \in T
  PROVE  s \in Seq(T)
<1>1. Len(s) \in Nat /\ s \in [1 .. Len(s) -> S] /\ DOMAIN s = 1 .. Len(s)
  BY LenProperties
<1>2. s \in [1 .. Len(s) -> T]
  BY <1>1 DEF Range
<1> QED BY <1>1, <1>2

LEMMA ElementInRange ==
  ASSUME NEW S, NEW s \in Seq(S)
  PROVE  /\ Len(s) \in Nat /\ DOMAIN s = 1 .. Len(s)
         /\ \A i \in DOMAIN s : s[i] \in Range(s) /\ s[i] \in S
         /\ Range(s) \subseteq S
BY LenProperties, ElementOfSeq DEF Range

LEMMA BucketsListed ==
  /\ ListS3Buckets \in Seq(AwsNames)
  /\ \A x \in Range(ListS3Buckets) : NamedAs(2, x)
<1> DEFINE here == Passing(Buckets, {b \in Range(Buckets) : InRegion(b)})
<1>1. here \in Seq(Range(Buckets)) /\ Range(here) = Range(Buckets) \cap {b \in Range(Buckets) : InRegion(b)}
  BY AwsDefined, PassingElements
<1>2. ListS3Buckets = [i \in DOMAIN here |-> here[i].name]
  BY DEF ListS3Buckets
<1> HIDE DEF here
<1>3. /\ Len(here) \in Nat /\ DOMAIN here = 1 .. Len(here)
      /\ \A i \in DOMAIN here : here[i] \in Range(here) /\ here[i] \in Range(Buckets)
  BY <1>1, ElementInRange
<1>4. \A i \in DOMAIN here : here[i] \in Range(Buckets) /\ InRegion(here[i])
  BY <1>1, <1>3
<1>5. \A i \in DOMAIN here : here[i].name \in AwsNames
  BY <1>4 DEF AwsNames
<1>6. \A i \in DOMAIN here : NamedAs(2, here[i].name)
  BY <1>4 DEF NamedAs
<1> QED BY <1>2, <1>3, <1>5, <1>6 DEF Range

LEMMA NamesListed ==
  ASSUME NEW w, w.kind = "typed", NEW i \in Indexes
  PROVE  /\ Answer(w, i) \in Seq(AwsNames)
         /\ \A x \in Range(Answer(w, i)) : i \in 0 .. 2 /\ NamedAs(i, x)
<1>1. CASE i = -1
  <2>1. Answer(w, i) = <<>>
    BY <1>1 DEF Answer
  <2>2. Range(<<>>) = {}
    BY DEF Range
  <2> QED BY <2>1, <2>2
<1>2. CASE i = 0
  <2>1. Answer(w, i) = Functions
    BY <1>2 DEF Answer
  <2>2. Functions \in Seq(AwsNames)
    BY AwsDefined, SeqOfLarger DEF AwsNames
  <2> QED BY <1>2, <2>1, <2>2 DEF NamedAs
<1>3. CASE i = 1
  <2>1. Answer(w, i) = Tables
    BY <1>3 DEF Answer
  <2>2. Tables \in Seq(AwsNames)
    BY AwsDefined, SeqOfLarger DEF AwsNames
  <2> QED BY <1>3, <2>1, <2>2 DEF NamedAs
<1>4. CASE i = 2
  <2>1. Answer(w, i) = ListS3Buckets
    BY <1>4 DEF Answer
  <2> QED BY <1>4, <2>1, BucketsListed
<1> QED BY <1>1, <1>2, <1>3, <1>4 DEF Indexes

(* A stack's resources that have a type and a name.                         *)
LEMMA ResourcesListed ==
  ASSUME NEW s \in Range(StackSummaries)
  PROVE  /\ ListCloudformationStackResources(s) \in Seq(Children)
         /\ Range(ListCloudformationStackResources(s)) = {r \in Range(s.resources) : IsNamed(r)}
         /\ IsInjective(ListCloudformationStackResources(s))
         /\ StackRoot(s) \in Loadable
<1> DEFINE named == {r \in Range(s.resources) : IsNamed(r)}
           p == Passing(s.resources, named)
<1>1. /\ p \in Seq(Range(s.resources)) /\ IsInjective(p)
      /\ Range(p) = Range(s.resources) \cap named
  <2>1. s.resources \in Seq(Range(s.resources)) /\ Once(s.resources, named)
    BY AwsDefined
  <2> HIDE DEF named
  <2> QED BY <2>1, PassingElements
<1>2. ListCloudformationStackResources(s) = p
  BY DEF ListCloudformationStackResources
<1> HIDE DEF p
<1>3. Range(p) = named
  BY <1>1
<1>4. named \subseteq Loadable /\ StackRoot(s) \in Loadable
  BY DEF Loadable
<1>5. \A r \in named : r \in Children
  BY <1>4, AwsDefined DEF Children
<1>6. p \in Seq(Children)
  BY <1>1, <1>3, <1>5, SeqOfLarger
<1> QED BY <1>1, <1>2, <1>3, <1>4, <1>6

LEMMA StacksListed ==
  ASSUME NEW w, w.kind = "cfn", NEW read
  PROVE  Answer(w, read) \in Seq(StackAnswers)
<1> DEFINE stacks == ListCloudformationStacks
           answer(s) == [stack |-> s.stack, resources |-> ListCloudformationStackResources(s)]
<1>1. stacks \in Seq(Range(StackSummaries)) /\ Range(stacks) = Range(StackSummaries) \cap Stacks
  BY AwsDefined, PassingElements DEF ListCloudformationStacks, Stacks
<1>2. Answer(w, read) = [i \in DOMAIN stacks |-> answer(stacks[i])]
  BY DEF Answer
<1> HIDE DEF stacks
<1>3. /\ Len(stacks) \in Nat /\ DOMAIN stacks = 1 .. Len(stacks)
      /\ \A i \in DOMAIN stacks : stacks[i] \in Stacks
  BY <1>1, ElementInRange
<1>4. \A s \in Stacks : answer(s) \in StackAnswers
  BY DEF StackAnswers
<1> HIDE DEF answer
<1> QED BY <1>2, <1>3, <1>4

LEMMA LoadResourceRoots ==
  ASSUME NEW t \in Seq(Roots), NEW e \in Loadable
  PROVE  LoadResource(t, e) \in Seq(Roots)
<1>1. CASE e.type = AWS_RESOURCE_CLOUDFORMATION_STACK_TYPE \/ ~hasChild
  <2>1. LoadResource(t, e) = Append(t, Root(e, <<>>))
    BY <1>1 DEF LoadResource, Root
  <2>2. Root(e, <<>>) \in Roots
    BY DEF Root, Roots
  <2> QED BY <2>1, <2>2, AppendProperties
<1>2. CASE ~(e.type = AWS_RESOURCE_CLOUDFORMATION_STACK_TYPE \/ ~hasChild)
  <2>1. CASE t = <<>>
    <3>1. LoadResource(t, e) = t
      BY <1>2, <2>1 DEF LoadResource
    <3> QED BY <3>1
  <2>2. CASE t # <<>>
    <3> DEFINE n == Len(t)
    <3>1. LoadResource(t, e) = [t EXCEPT ![n].children = Append(@, e)]
      BY <1>2, <2>2 DEF LoadResource
    <3>2. n \in Nat /\ n \in DOMAIN t /\ t[n] \in Roots /\ DOMAIN t = 1 .. n
      BY <2>2, EmptySeq, LenProperties, ElementOfSeq
    <3> HIDE DEF n
    <3>3. e \in Children
      BY <1>2 DEF Children, IsChild
    <3>4. t[n].children \in Seq(Children)
      BY <3>2 DEF Roots
    <3>5. Append(t[n].children, e) \in Seq(Children)
      BY <3>3, <3>4, AppendProperties
    <3>6. [t[n] EXCEPT !.children = Append(@, e)] \in Roots
      BY <3>2, <3>5 DEF Roots
    <3>7. [t EXCEPT ![n] = [t[n] EXCEPT !.children = Append(@, e)]] \in Seq(Roots)
      BY <3>2, <3>6, ExceptSeq
    <3>8. [t EXCEPT ![n].children = Append(@, e)] =
            [t EXCEPT ![n] = [t[n] EXCEPT !.children = Append(@, e)]]
      OBVIOUS
    <3> QED BY <3>1, <3>7, <3>8
  <2> QED BY <2>1, <2>2
<1> QED BY <1>1, <1>2

(* Whatever is loaded, into whichever tree. *)
LEMMA TypedLoadedRoots ==
  ASSUME NEW t \in Seq(Roots), NEW names \in Seq(AwsNames), NEW type \in Range(AWS_RESOURCE_TYPES)
  PROVE  Loaded(t, [i \in DOMAIN names |-> Resource(type, names[i])]) \in Seq(Roots)
<1> DEFINE rs == [i \in DOMAIN names |-> Resource(type, names[i])]
<1>1. /\ Len(names) \in Nat /\ DOMAIN names = 1 .. Len(names)
      /\ \A i \in DOMAIN names : names[i] \in AwsNames
  BY ElementInRange
<1>2. \A x \in AwsNames : Resource(type, x) \in Loadable
  BY DEF Loadable, AwsNames
<1>3. rs \in Seq(Loadable)
  BY <1>1, <1>2
<1> HIDE DEF rs
<1>4. Loaded(t, rs) \in Seq(Roots)
  BY <1>3, LoadResourceRoots, LoadedStays
<1> QED BY <1>4 DEF rs

LEMMA BlockRoots ==
  ASSUME NEW t \in Seq(Roots), NEW e \in StackAnswers
  PROVE  Loaded(t, Block(e)) \in Seq(Roots)
<1>1. PICK s \in Stacks : e = [stack |-> s.stack, resources |-> ListCloudformationStackResources(s)]
  BY DEF StackAnswers
<1>2. s \in Range(StackSummaries) /\ StackRoot(e) = StackRoot(s)
  BY <1>1 DEF Stacks, StackRoot
<1>3. e.resources \in Seq(Loadable) /\ StackRoot(e) \in Loadable
  <2>1. e.resources \in Seq(Children)
    BY <1>1, <1>2, ResourcesListed
  <2>2. \A x \in Range(e.resources) : x \in Loadable
    BY <2>1, ElementInRange DEF Children
  <2> QED BY <1>2, <2>1, <2>2, SeqOfLarger, ResourcesListed
<1>4. Block(e) \in Seq(Loadable)
  <2>1. <<StackRoot(e)>> \in Seq(Loadable) /\ <<>> \in Seq(Loadable)
    BY <1>3
  <2>2. <<StackRoot(e)>> \o e.resources \in Seq(Loadable)
    BY <1>3, <2>1, ConcatProperties
  <2> QED BY <2>1, <2>2 DEF Block
<1> QED BY <1>4, LoadResourceRoots, LoadedStays

LEMMA StacksLoadedRoots ==
  ASSUME NEW t \in Seq(Roots), NEW ss \in Seq(StackAnswers)
  PROVE  LoadedStacks(t, ss) \in Seq(Roots)
BY BlockRoots, StacksLoadedStay

(* What a typed search loads of the type it asked for, and what a stack     *)
(* search loads, are the roots they should be.                              *)
LEMMA TypedLoadedFaithful ==
  ASSUME ~hasChild, NEW t \in Seq(TypedRoots), NEW names \in Seq(AwsNames), NEW i \in 0 .. 2,
         \A x \in Range(names) : NamedAs(i, x)
  PROVE  Loaded(t, [n \in DOMAIN names |-> Resource(AWS_RESOURCE_TYPES[i + 1], names[n])])
           \in Seq(TypedRoots)
<1> DEFINE T == {Resource(AWS_RESOURCE_TYPES[i + 1], x) : x \in Range(names)}
           rs == [n \in DOMAIN names |-> Resource(AWS_RESOURCE_TYPES[i + 1], names[n])]
<1>1. /\ Len(names) \in Nat /\ DOMAIN names = 1 .. Len(names)
      /\ \A n \in DOMAIN names : names[n] \in Range(names)
      /\ Range(names) \subseteq AwsNames
  BY ElementInRange
<1>2. rs \in Seq(T)
  BY <1>1
<1>3. ASSUME NEW e \in T PROVE Root(e, <<>>) \in TypedRoots
  <2>1. PICK x \in Range(names) : e = Resource(AWS_RESOURCE_TYPES[i + 1], x)
    OBVIOUS
  <2>2. <<i, x>> \in (0 .. 2) \X AwsNames /\ NamedAs(<<i, x>>[1], <<i, x>>[2])
    BY <1>1, <2>1
  <2>3. e = Resource(AWS_RESOURCE_TYPES[<<i, x>>[1] + 1], <<i, x>>[2])
    BY <2>1
  <2> QED BY <2>2, <2>3 DEF TypedRoots
<1>4. ASSUME NEW nodes \in Seq(TypedRoots), NEW e \in T
      PROVE  LoadResource(nodes, e) \in Seq(TypedRoots)
  <2>1. LoadResource(nodes, e) = Append(nodes, Root(e, <<>>))
    BY DEF LoadResource, Root
  <2> QED BY <1>3, <2>1, AppendProperties
<1> HIDE DEF rs, T
<1>5. Loaded(t, rs) \in Seq(TypedRoots)
  BY <1>2, <1>4, LoadedStays
<1> QED BY <1>5 DEF rs

LEMMA NothingLoaded ==
  ASSUME NEW t
  PROVE  Loaded(t, <<>>) = t
<1>1. PICK rs : rs = <<>>
  OBVIOUS
<1>2. rs \in Seq({}) /\ Len(rs) = 0
  BY <1>1
<1> DEFINE T == {}
<1> HIDE DEF T
<1>3. rs \in Seq(T)
  BY <1>2 DEF T
<1>4. PICK f : /\ f[0] = t /\ Loaded(t, rs) = f[Len(rs)]
               /\ \A k \in 0 .. Len(rs) - 1 : f[k + 1] = LoadResource(f[k], rs[k + 1])
  BY <1>3, LoadedSteps
<1>5. Loaded(t, rs) = t
  BY <1>2, <1>4
<1> QED BY <1>1, <1>5, Zenon

LEMMA BlockFaithful ==
  ASSUME hasChild, NEW t \in Seq(StackRoots), NEW e \in StackAnswers
  PROVE  Loaded(t, Block(e)) \in Seq(StackRoots)
<1>1. PICK s \in Stacks : e = [stack |-> s.stack, resources |-> ListCloudformationStackResources(s)]
  BY DEF StackAnswers
<1>2. s \in Range(StackSummaries) /\ StackRoot(e) = StackRoot(s)
      /\ e.resources = ListCloudformationStackResources(s)
  BY <1>1 DEF Stacks, StackRoot
<1>3. e.resources \in Seq(Children) /\ \A c \in Children : IsChild(c)
  BY <1>2, ResourcesListed DEF Children
<1>4. StackRoot(e).type = AWS_RESOURCE_CLOUDFORMATION_STACK_TYPE
  BY DEF StackRoot, Resource
<1>5. Root(StackRoot(e), e.resources) \in StackRoots
  BY <1>2 DEF StackRoots
<1>6. CASE e.resources = <<>>
  BY <1>6, NothingLoaded DEF Block
<1>7. CASE e.resources # <<>>
  <2>1. Loaded(t, <<StackRoot(e)>> \o e.resources) = Append(t, Root(StackRoot(e), e.resources))
    BY <1>3, <1>4, BlockLoaded
  <2> QED BY <1>5, <1>7, <2>1, AppendProperties DEF Block
<1> QED BY <1>6, <1>7

LEMMA StacksLoadedFaithful ==
  ASSUME hasChild, NEW t \in Seq(StackRoots), NEW ss \in Seq(StackAnswers)
  PROVE  LoadedStacks(t, ss) \in Seq(StackRoots)
BY BlockFaithful, StacksLoadedStay

-----------------------------------------------------------------------------
(* Steps that leave the tree alone. *)

LEMMA NoneUnderWay ==
  ASSUME NEW kinds, ~Searching(kinds)
  PROVE  /\ \A w \in Range(runQueue) : w.kind \notin kinds
         /\ running # <<>> => running[1].kind \notin kinds
         /\ \A s \in Range(posted) : s.worker.kind \notin kinds
BY DEF Searching, Range

LEMMA TreeOfRoots ==
  ASSUME NEW t \in Seq(Roots)
  PROVE  \A i \in DOMAIN t : DOMAIN t[i] = {"resource", "children"}
<1>1. ASSUME NEW r \in Roots PROVE DOMAIN r = {"resource", "children"}
  BY DEF Roots
<1>2. \A i \in DOMAIN t : t[i] \in Roots
  BY ElementInRange
<1> QED BY <1>1, <1>2

(* A search of stacks reads nothing. *)
LEMMA StacksAnswered ==
  ASSUME NEW w, w.kind = "cfn", NEW a, NEW b
  PROVE  Answer(w, a) = Answer(w, b)
BY DEF Answer

(* What the running request posts is an answer for the type it has read.    *)
Fresh(s) ==
  /\ running # <<>> /\ s.worker = running[1]
  /\ s.signal = "result" => s.value \in {<<>>, Answer(running[1], running[2])}

Others(kind) == kind \notin RequestKinds

(* The page stays, and what is under way is taken over, begun or ended.     *)
LEMMA WorkMovesOn ==
  ASSUME TreeInv, UNCHANGED <<page, searchVersion, hasChild, typeIndex, tree, crossed, importUsed>>,
         mainView' \in {"notification", "tree"},
         \A w \in Range(runQueue') : w \in Range(runQueue) \/ Others(w.kind),
         running' # <<>> =>
           \/ running' = running \/ Others(running'[1].kind)
           \/ running'[1] \in Range(runQueue) /\ (running'[1].kind = "typed" => running'[2] = typeIndex),
         \A s \in Range(posted') : s \in Range(posted) \/ Others(s.worker.kind) \/ Fresh(s)
  PROVE  TreeInv'
<1>1. TreeTypes /\ (crossed \/ Uncrossed)
  BY DEF TreeInv
<1>2. typeIndex \in Indexes
  BY <1>1 DEF TreeTypes, ImportTypeOK, Indexes, AWS_RESOURCE_TYPES
<1>3. ImportTypeOK'
  BY <1>1 DEF TreeTypes, ImportTypeOK
<1>4. (running # <<>> /\ running[1].kind = "typed")' => (running[2] \in Indexes)'
  <2>1. (running # <<>> /\ running[1].kind = "typed") => running[2] \in Indexes
    BY <1>1 DEF TreeTypes
  <2> QED BY <1>2, <2>1 DEF Others, RequestKinds
<1>5. ASSUME NEW s \in Range(posted') PROVE IsAnswer(s)
  <2>1. CASE s \in Range(posted)
    BY <1>1, <2>1 DEF TreeTypes
  <2>2. CASE Others(s.worker.kind)
    BY <2>2 DEF Others, IsAnswer
  <2>3. CASE Fresh(s)
    <3>1. CASE s.worker.kind = "cfn"
      <4>1. Answer(s.worker, -1) = Answer(running[1], running[2]) /\ -1 \in Indexes
        BY <2>3, <3>1, StacksAnswered DEF Fresh, Indexes
      <4> QED BY <2>3, <4>1 DEF Fresh, IsAnswer
    <3>2. CASE s.worker.kind = "typed"
      <4>1. running[2] \in Indexes
        BY <1>1, <2>3, <3>2 DEF Fresh, TreeTypes
      <4> QED BY <2>3, <4>1 DEF Fresh, IsAnswer
    <3> QED BY <3>1, <3>2 DEF IsAnswer, RequestKinds
  <2> QED BY <2>1, <2>2, <2>3
<1>6. TreeTypes'
  BY <1>1, <1>3, <1>4, <1>5 DEF TreeTypes
<1>7. ASSUME Uncrossed PROVE Uncrossed'
  <2>1. \A kind : Others(kind) => Current(kind)
    BY DEF Others, Current
  <2>2. ASSUME NEW kind PROVE Current(kind)' <=> Current(kind)
    BY DEF Current
  <2>3. \A w \in Range(runQueue') : Current(w.kind)
    BY <1>7, <2>1 DEF Uncrossed
  <2>4. running' # <<>> =>
          Current(running'[1].kind) /\ (running'[1].kind = "typed" => running'[2] = typeIndex)
    BY <1>7, <2>1 DEF Uncrossed, Others, RequestKinds
  <2>5. ASSUME NEW s \in Range(posted')
        PROVE  /\ Current(s.worker.kind)
               /\ (s.signal = "result" /\ s.worker.kind = "typed") =>
                    s.value \in {<<>>, Answer(s.worker, typeIndex)}
    <3>1. CASE s \in Range(posted)
      BY <1>7, <3>1 DEF Uncrossed
    <3>2. CASE Others(s.worker.kind)
      BY <2>1, <3>2 DEF Others, RequestKinds
    <3>3. CASE Fresh(s)
      BY <1>7, <3>3 DEF Uncrossed, Fresh
    <3> QED BY <3>1, <3>2, <3>3
  <2> QED BY <1>7, <2>2, <2>3, <2>4, <2>5 DEF Uncrossed, Current
<1> QED BY <1>1, <1>6, <1>7 DEF TreeInv

(* The tree is emptied, or was empty, and nothing is under way for it.      *)
LEMMA EmptyTree ==
  ASSUME TreeTypes', tree' = <<>>, UNCHANGED workerVars,
         crossed' \/ ~Searching(RequestKinds)
  PROVE  TreeInv'
<1>1. CASE crossed'
  BY <1>1 DEF TreeInv
<1>2. CASE ~Searching(RequestKinds)
  <2>1. /\ \A w \in Range(runQueue) : w.kind \notin RequestKinds
        /\ running # <<>> => running[1].kind \notin RequestKinds
        /\ \A s \in Range(posted) : s.worker.kind \notin RequestKinds
    BY <1>2, NoneUnderWay
  <2>2. "typed" \in RequestKinds
    BY DEF RequestKinds
  <2>3. \A kind : kind \notin RequestKinds => Current(kind)'
    BY DEF Current
  <2>4. <<>> \in Seq((IF hasChild THEN StackRoots ELSE TypedRoots)')
    OBVIOUS
  <2>5. Uncrossed'
    BY <2>1, <2>2, <2>3, <2>4 DEF Uncrossed, workerVars
  <2> QED BY <2>5 DEF TreeInv
<1> QED BY <1>1, <1>2

LEMMA ViewEditStepKeepsTree ==
  ASSUME PageInv, TreeInv, ViewEditStep, UNCHANGED importVars
  PROVE  TreeInv'
<1> USE DEF importVars
<1>0. /\ mainView' \in {"notification", "tree"} /\ Others("list")
      /\ IsSequence(runQueue) /\ IsSequence(posted)
  <2>1. mainView \in {"notification", "tree"}
    BY DEF TreeInv, TreeTypes, ImportTypeOK
  <2> QED BY <2>1, NoListKinds DEF Others, PageInv, Types, WorkerTypes
<1>1. CASE UNCHANGED workerVars
  BY <1>0, <1>1, WorkMovesOn DEF workerVars
<1>2. CASE \E d \in Dirs : OpenFileDialog(d)
  <2>1. PICK d : runQueue' = Append(runQueue, [kind |-> "list", arg |-> d])
                 /\ UNCHANGED <<running, posted>>
    BY <1>2 DEF OpenFileDialog, Start
  <2> DEFINE w == [kind |-> "list", arg |-> d]
  <2>2. w.kind = "list"
    OBVIOUS
  <2> HIDE DEF w
  <2>3. Range(runQueue') = Range(runQueue) \union {w}
    BY <1>0, <2>1, RangeAppended DEF w
  <2> QED BY <1>0, <2>1, <2>2, <2>3, WorkMovesOn
<1>3. CASE UserStep /\ ~\E d \in Dirs : OpenFileDialog(d)
  <2>1. UNCHANGED workerVars
    BY <1>3 DEF UserStep, SelectConfigFile, RescanConfigDirectory, AddTableRow, Editing,
                SetResourceAttribute, DeleteTableRow, RefuseInvalidRows, SkipWrite, WriteJsonFile,
                WriteFails, Convertible, SaveChanges
  <2> QED BY <1>1, <2>1
<1>4. CASE \E d \in Dirs, n \in Names : OutsideChange(d, n)
  BY <1>1, <1>4 DEF OutsideChange
<1>5. CASE BeginSearch
  <2>1. PICK worker, read : Begin(worker, read) /\ worker.kind = "list"
    BY <1>5 DEF BeginSearch
  <2>2. /\ runQueue # <<>> /\ running' = <<worker, read>> /\ running'[1] = worker
        /\ runQueue' = Tail(runQueue) /\ posted' = posted
    BY <2>1 DEF Begin
  <2>3. Range(runQueue') \subseteq Range(runQueue)
    BY <1>0, <2>2, RangeOfTail
  <2> QED BY <1>0, <2>1, <2>2, <2>3, WorkMovesOn
<1>6. CASE EndSearch \/ SearchRaises
  <2> DEFINE w == running[1]
  <2>1. w.kind = "list"
    BY <1>6 DEF EndSearch, SearchRaises
  <2>2. PICK signals, value :
          /\ IsSequence(signals) /\ Emit(signals)
          /\ \A s \in Range(signals) :
               s \in {Signal("result", w, value), Signal("finished", w, <<>>)}
    BY <1>6, RangeEmitted DEF EndSearch, SearchRaises
  <2> HIDE DEF w
  <2>3. posted' = posted \o signals /\ running' = <<>> /\ runQueue' = runQueue
    BY <2>2 DEF Emit
  <2>4. Range(posted') = Range(posted) \union Range(signals)
    BY <1>0, <2>2, <2>3, RangeConcatenated
  <2>5. \A s \in Range(signals) : s.worker.kind = "list"
    BY <2>1, <2>2 DEF Signal
  <2> QED BY <1>0, <2>3, <2>4, <2>5, WorkMovesOn
<1>7. CASE ListConfigFilesCallback \/ SearchCompleteCallback
  <2>1. posted # <<>> /\ posted' = Tail(posted) /\ UNCHANGED <<runQueue, running>>
    BY <1>7 DEF ListConfigFilesCallback, SearchCompleteCallback, Deliver
  <2>2. Range(posted') \subseteq Range(posted)
    BY <1>0, <2>1, RangeOfTail
  <2> QED BY <1>0, <2>1, <2>2, WorkMovesOn
<1> QED BY <1>2, <1>3, <1>4, <1>5, <1>6, <1>7 DEF ViewEditStep, SearchStep

LEMMA RequestKeepsTree ==
  ASSUME PageInv, TreeInv, BeginRequest \/ EndRequest \/ RequestRefused \/ RequestRaises
  PROVE  TreeInv'
<1>0. /\ mainView' \in {"notification", "tree"} /\ UNCHANGED importVars
      /\ IsSequence(runQueue) /\ IsSequence(posted)
  <2>1. mainView \in {"notification", "tree"}
    BY DEF TreeInv, TreeTypes, ImportTypeOK
  <2>2. UNCHANGED importVars
    BY DEF BeginRequest, EndRequest, RequestRefused, RequestRaises, Requesting
  <2> QED BY <2>1, <2>2 DEF importVars, PageInv, Types, WorkerTypes
<1> USE DEF importVars
<1>1. CASE BeginRequest
  <2>1. PICK worker, read : Begin(worker, read) /\ (worker.kind = "typed" => read = typeIndex)
    BY <1>1 DEF BeginRequest
  <2>2. /\ runQueue # <<>> /\ running' = <<worker, read>> /\ worker = Head(runQueue)
        /\ runQueue' = Tail(runQueue) /\ posted' = posted
    BY <2>1 DEF Begin
  <2>3. running'[1] = worker /\ running'[2] = read
    BY <2>2
  <2>4. Range(runQueue') \subseteq Range(runQueue) /\ worker \in Range(runQueue)
    BY <1>0, <2>2, RangeOfTail
  <2> QED BY <1>0, <2>1, <2>2, <2>3, <2>4, WorkMovesOn
<1>2. CASE EndRequest \/ RequestRefused \/ RequestRaises
  <2> DEFINE w == running[1]
             answer == Answer(w, running[2])
  <2>1. running # <<>>
    BY <1>2 DEF EndRequest, RequestRefused, RequestRaises, Requesting
  <2>2. \E value \in {<<>>, answer} : Emit(Outcome(w, value)) \/ Emit(Raised(w))
    BY <1>2 DEF EndRequest, RequestRefused, RequestRaises
  <2>3. PICK signals, value :
          /\ IsSequence(signals) /\ Emit(signals) /\ value \in {<<>>, answer}
          /\ \A s \in Range(signals) :
               s \in {Signal("result", w, value), Signal("finished", w, <<>>)}
    <3> HIDE DEF w, answer
    <3>1. PICK value \in {<<>>, answer} : Emit(Outcome(w, value)) \/ Emit(Raised(w))
      BY <2>2
    <3>2. CASE Emit(Outcome(w, value))
      BY <3>2, RangeEmitted
    <3>3. CASE Emit(Raised(w))
      BY <3>3, RangeEmitted
    <3> QED BY <3>1, <3>2, <3>3
  <2> HIDE DEF w, answer
  <2>4. posted' = posted \o signals /\ running' = <<>> /\ runQueue' = runQueue
    BY <2>3 DEF Emit
  <2>5. Range(posted') = Range(posted) \union Range(signals)
    BY <1>0, <2>3, <2>4, RangeConcatenated
  <2>6. ASSUME NEW s \in Range(signals)
        PROVE  s.worker = w /\ (s.signal = "result" => s.value \in {<<>>, answer})
    BY <2>3 DEF Signal
  <2>7. \A s \in Range(signals) : Fresh(s)
    BY <2>1, <2>6 DEF Fresh, w, answer
  <2> QED BY <1>0, <2>4, <2>5, <2>7, WorkMovesOn
<1> QED BY <1>1, <1>2

LEMMA RequestCompleteKeepsTree ==
  ASSUME PageInv, TreeInv, RequestCompleteCallback
  PROVE  TreeInv'
<1>1. /\ posted # <<>> /\ posted' = Tail(posted) /\ mainView' = "tree"
      /\ UNCHANGED <<page, searchVersion, hasChild, typeIndex, tree, crossed, importUsed,
                     runQueue, running>>
  BY DEF RequestCompleteCallback, Deliver
<1>2. Range(posted') \subseteq Range(posted)
  BY <1>1, RangeOfTail DEF PageInv, Types, WorkerTypes
<1> QED BY <1>1, <1>2, WorkMovesOn

-----------------------------------------------------------------------------
(* Steps that change it. *)

(* A result is loaded into whatever tree is there.                          *)
LEMMA DeliveredKeepsTree ==
  ASSUME PageInv, TreeInv, posted # <<>>, posted' = Tail(posted),
         UNCHANGED <<page, searchVersion, hasChild, typeIndex, mainView, crossed, importUsed,
                     runQueue, running>>,
         tree' \in Seq(Roots),
         Uncrossed => tree' \in Seq(IF hasChild THEN StackRoots ELSE TypedRoots) /\ page # "view_edit"
  PROVE  TreeInv'
<1>1. Range(posted') \subseteq Range(posted)
  BY RangeOfTail DEF PageInv, Types, WorkerTypes
<1>2. TreeTypes /\ (crossed \/ Uncrossed)
  BY DEF TreeInv
<1>3. ImportTypeOK'
  BY <1>2, TreeOfRoots DEF TreeTypes, ImportTypeOK
<1>4. TreeTypes'
  BY <1>1, <1>2, <1>3 DEF TreeTypes
<1>5. ASSUME Uncrossed PROVE Uncrossed'
  <2>1. ASSUME NEW kind PROVE Current(kind)' <=> Current(kind)
    BY DEF Current
  <2>2. /\ \A w \in Range(runQueue') : Current(w.kind)
        /\ running' # <<>> =>
             Current(running'[1].kind) /\ (running'[1].kind = "typed" => running'[2] = typeIndex)
    BY <1>5 DEF Uncrossed
  <2>3. \A s \in Range(posted') :
          /\ Current(s.worker.kind)
          /\ (s.signal = "result" /\ s.worker.kind = "typed") =>
               s.value \in {<<>>, Answer(s.worker, typeIndex)}
    BY <1>1, <1>5 DEF Uncrossed
  <2> QED BY <1>5, <2>1, <2>2, <2>3 DEF Uncrossed, Current
<1> QED BY <1>2, <1>4, <1>5 DEF TreeInv

LEMMA LoadTypedKeepsTree ==
  ASSUME PageInv, TreeInv, LoadTypedResourcesCallback
  PROVE  TreeInv'
<1> DEFINE s == Head(posted)
           names == s.value
           i == IF typeIndex = -1 THEN 2 ELSE typeIndex
           type == AWS_RESOURCE_TYPES[i + 1]
           rs == [n \in DOMAIN names |-> Resource(type, names[n])]
<1>1. /\ posted # <<>> /\ posted' = Tail(posted) /\ s.signal = "result" /\ s.worker.kind = "typed"
      /\ UNCHANGED <<page, searchVersion, hasChild, typeIndex, mainView, crossed, importUsed,
                     runQueue, running>>
  BY DEF LoadTypedResourcesCallback, Deliver
<1>2. typeIndex \in Indexes /\ i \in 0 .. 2
  BY DEF TreeInv, TreeTypes, ImportTypeOK, Indexes, AWS_RESOURCE_TYPES
<1>3. tree' = Loaded(tree, rs)
  <2>1. type = IF typeIndex = -1 THEN AWS_RESOURCE_TYPES[Len(AWS_RESOURCE_TYPES)]
               ELSE AWS_RESOURCE_TYPES[typeIndex + 1]
    BY <1>2 DEF AWS_RESOURCE_TYPES
  <2> QED BY <2>1, Zenon DEF LoadTypedResourcesCallback, Delivered
<1>4. type \in Range(AWS_RESOURCE_TYPES)
  <2>1. i + 1 \in DOMAIN AWS_RESOURCE_TYPES
    BY <1>2 DEF AWS_RESOURCE_TYPES
  <2> QED BY <2>1 DEF Range
<1>5. s \in Range(posted) /\ TreeTypes
  BY <1>1, RangeOfTail DEF PageInv, Types, WorkerTypes, TreeInv
<1>6. names = <<>> \/ \E k \in Indexes : names = Answer(s.worker, k)
  <2>1. IsAnswer(s) /\ s.worker.kind \in RequestKinds
    BY <1>1, <1>5 DEF TreeTypes, RequestKinds
  <2> QED BY <1>1, <2>1 DEF IsAnswer
<1>7. <<>> \in Seq(AwsNames) /\ Range(<<>>) = {}
  BY DEF Range
<1>8. names \in Seq(AwsNames)
  BY <1>1, <1>6, <1>7, NamesListed
<1>9. tree' \in Seq(Roots)
  BY <1>3, <1>4, <1>5, <1>8, TypedLoadedRoots DEF TreeTypes
<1>10. ASSUME Uncrossed
       PROVE  tree' \in Seq(IF hasChild THEN StackRoots ELSE TypedRoots) /\ page # "view_edit"
  <2>1. names \in {<<>>, Answer(s.worker, typeIndex)} /\ Current("typed")
    BY <1>1, <1>5, <1>10 DEF Uncrossed
  <2>2. page = "import" /\ ~hasChild
    BY <1>5, <2>1 DEF Current, RequestKinds, TreeTypes
  <2>3. \A x \in Range(names) : NamedAs(i, x)
    <3>1. CASE names = <<>>
      BY <1>7, <3>1
    <3>2. CASE names = Answer(s.worker, typeIndex)
      <4>1. \A x \in Range(names) : typeIndex \in 0 .. 2 /\ NamedAs(typeIndex, x)
        BY <1>1, <1>2, <3>2, NamesListed
      <4> QED BY <4>1
    <3> QED BY <2>1, <3>1, <3>2
  <2>4. tree \in Seq(TypedRoots)
    BY <1>10, <2>2 DEF Uncrossed
  <2> HIDE DEF i, names
  <2>5. Loaded(tree, rs) \in Seq(TypedRoots)
    BY <1>2, <1>8, <2>2, <2>3, <2>4, TypedLoadedFaithful
  <2> QED BY <1>3, <2>2, <2>5
<1> HIDE DEF s
<1> QED BY <1>1, <1>9, <1>10, DeliveredKeepsTree

LEMMA LoadCfnKeepsTree ==
  ASSUME PageInv, TreeInv, LoadCfnResourcesCallback
  PROVE  TreeInv'
<1> DEFINE s == Head(posted)
<1>1. /\ posted # <<>> /\ posted' = Tail(posted) /\ s.signal = "result" /\ s.worker.kind = "cfn"
      /\ tree' = LoadedStacks(tree, s.value)
      /\ UNCHANGED <<page, searchVersion, hasChild, typeIndex, mainView, crossed, importUsed,
                     runQueue, running>>
  BY DEF LoadCfnResourcesCallback, Deliver, Delivered
<1>2. s \in Range(posted) /\ TreeTypes
  BY <1>1, RangeOfTail DEF PageInv, Types, WorkerTypes, TreeInv
<1>3. IsAnswer(s) /\ s.worker.kind \in RequestKinds
  BY <1>1, <1>2 DEF TreeTypes, RequestKinds
<1>4. s.value \in Seq(StackAnswers)
  <2>1. s.value = <<>> \/ \E k \in Indexes : s.value = Answer(s.worker, k)
    BY <1>1, <1>3 DEF IsAnswer
  <2>2. <<>> \in Seq(StackAnswers)
    OBVIOUS
  <2> QED BY <1>1, <2>1, <2>2, StacksListed
<1>5. tree' \in Seq(Roots)
  BY <1>1, <1>2, <1>4, StacksLoadedRoots DEF TreeTypes
<1>6. ASSUME Uncrossed
      PROVE  tree' \in Seq(IF hasChild THEN StackRoots ELSE TypedRoots) /\ page # "view_edit"
  <2>1. Current("cfn")
    BY <1>1, <1>2, <1>6 DEF Uncrossed
  <2>2. page = "import" /\ hasChild
    BY <1>2, <2>1 DEF Current, RequestKinds, TreeTypes
  <2>3. tree \in Seq(StackRoots)
    BY <1>6, <2>2 DEF Uncrossed
  <2>4. tree' \in Seq(StackRoots)
    BY <1>1, <1>4, <2>2, <2>3, StacksLoadedFaithful
  <2> QED BY <2>2, <2>4
<1> QED BY <1>1, <1>5, <1>6, DeliveredKeepsTree

LEMMA SelectTypeKeepsTree ==
  ASSUME TreeInv, NEW i \in DOMAIN AWS_RESOURCE_TYPES, SelectType(i), UNCHANGED workerVars
  PROVE  TreeInv'
<1>1. /\ page = "import" /\ typeIndex' = i - 1 /\ crossed' = (crossed \/ Searching({"typed"}))
      /\ UNCHANGED <<page, searchVersion, hasChild, tree, mainView, importUsed,
                     runQueue, running, posted>>
  BY DEF SelectType, workerVars
<1>2. TreeTypes /\ (crossed \/ Uncrossed)
  BY DEF TreeInv
<1>3. ImportTypeOK'
  <2>1. i - 1 \in -1 .. Len(AWS_RESOURCE_TYPES) - 1
    BY DEF AWS_RESOURCE_TYPES
  <2>2. Searching({"typed"}) \in BOOLEAN
    BY DEF Searching
  <2> QED BY <1>1, <1>2, <2>1, <2>2 DEF TreeTypes, ImportTypeOK
<1>4. TreeTypes'
  BY <1>1, <1>2, <1>3 DEF TreeTypes
<1>5. ASSUME Uncrossed, ~Searching({"typed"}) PROVE Uncrossed'
  <2>1. ASSUME NEW kind PROVE Current(kind)' <=> Current(kind)
    BY <1>1 DEF Current
  <2>2. /\ running # <<>> => running[1].kind # "typed"
        /\ \A s \in Range(posted) : s.worker.kind # "typed"
    BY <1>5, NoneUnderWay
  <2> QED BY <1>1, <1>5, <2>1, <2>2 DEF Uncrossed, Current
<1> QED BY <1>1, <1>2, <1>4, <1>5 DEF TreeInv

LEMMA StartSearchKeepsTree ==
  ASSUME PageInv, TreeInv, StartSearchResourcesAsync
  PROVE  TreeInv'
<1> DEFINE w == [kind |-> searchVersion, arg |-> <<>>]
<1>1. /\ page = "import" /\ searchVersion \in RequestKinds
      /\ tree' = <<>> /\ mainView' = "notification" /\ runQueue' = Append(runQueue, w)
      /\ crossed' = (crossed /\ Searching(RequestKinds))
      /\ importUsed.searches < MaxImportSearches
      /\ importUsed' = [importUsed EXCEPT !.searches = @ + 1]
      /\ UNCHANGED <<page, searchVersion, hasChild, typeIndex, running, posted>>
  BY DEF StartSearchResourcesAsync, Start
<1>2. TreeTypes /\ (crossed \/ Uncrossed)
  BY DEF TreeInv
<1>3. w.kind = searchVersion
  OBVIOUS
<1> HIDE DEF w
<1>4. Range(runQueue') = Range(runQueue) \union {w}
  BY <1>1, RangeAppended DEF PageInv, Types, WorkerTypes
<1>5. ImportTypeOK'
  <2>1. importUsed' \in [searches : 0 .. MaxImportSearches, visits : 0 .. MaxVisits]
    <3>1. importUsed \in [searches : 0 .. MaxImportSearches, visits : 0 .. MaxVisits]
      BY <1>2 DEF TreeTypes, ImportTypeOK
    <3>2. MaxImportSearches \in Nat /\ MaxVisits \in Nat
      BY AwsDefined
    <3> QED BY ONLY <1>1, <3>1, <3>2
  <2>2. crossed' \in BOOLEAN
    BY <1>1 DEF Searching
  <2> QED BY <1>1, <1>2, <2>1, <2>2 DEF TreeTypes, ImportTypeOK
<1>6. TreeTypes'
  <2>1. tree' \in Seq(Roots)
    BY <1>1
  <2> QED BY <1>1, <1>2, <1>5, <2>1 DEF TreeTypes
<1>7. ASSUME Uncrossed \/ ~Searching(RequestKinds) PROVE Uncrossed'
  <2>1. \A kind : kind \notin RequestKinds => Current(kind)
    BY DEF Current
  <2>2. /\ \A v \in Range(runQueue) : Current(v.kind)
        /\ running # <<>> =>
             Current(running[1].kind) /\ (running[1].kind = "typed" => running[2] = typeIndex)
        /\ \A s \in Range(posted) :
             /\ Current(s.worker.kind)
             /\ (s.signal = "result" /\ s.worker.kind = "typed") =>
                  s.value \in {<<>>, Answer(s.worker, typeIndex)}
    <3>1. CASE Uncrossed
      BY <3>1 DEF Uncrossed
    <3>2. CASE ~Searching(RequestKinds)
      <4>1. "typed" \in RequestKinds
        BY DEF RequestKinds
      <4> QED BY <2>1, <3>2, <4>1, NoneUnderWay
    <3> QED BY <1>7, <3>1, <3>2
  <2>3. Current(w.kind)
    BY <1>1, <1>3 DEF Current
  <2>4. ASSUME NEW kind PROVE Current(kind)' <=> Current(kind)
    BY <1>1 DEF Current
  <2>5. \A v \in Range(runQueue') : Current(v.kind)
    BY <1>4, <2>2, <2>3
  <2>6. tree' \in Seq((IF hasChild THEN StackRoots ELSE TypedRoots)')
    BY <1>1
  <2> QED BY <1>1, <2>2, <2>4, <2>5, <2>6 DEF Uncrossed, Current
<1> QED BY <1>1, <1>2, <1>6, <1>7 DEF TreeInv

LEMMA BackKeepsTree ==
  ASSUME TreeInv, BackToViewEditPage, UNCHANGED workerVars
  PROVE  TreeInv'
<1>1. /\ page' = "view_edit" /\ tree' = <<>> /\ mainView' = "tree" /\ typeIndex' = -1
      /\ crossed' = Searching(RequestKinds) /\ searchVersion' = "none"
      /\ UNCHANGED <<hasChild, importUsed>>
  BY DEF BackToViewEditPage, ResetPage
<1>2. TreeTypes
  BY DEF TreeInv
<1>3. ImportTypeOK'
  <2>1. crossed' \in BOOLEAN
    BY <1>1 DEF Searching
  <2>2. -1 \in -1 .. Len(AWS_RESOURCE_TYPES) - 1
    BY DEF AWS_RESOURCE_TYPES
  <2> QED BY <1>1, <1>2, <2>1, <2>2 DEF TreeTypes, ImportTypeOK
<1>4. TreeTypes'
  <2>1. tree' \in Seq(Roots)
    BY <1>1
  <2> QED BY <1>1, <1>2, <1>3, <2>1 DEF TreeTypes, workerVars
<1> QED BY <1>1, <1>4, EmptyTree

LEMMA SwitchPageKeepsTree ==
  ASSUME TreeInv, NEW version \in RequestKinds, SwitchPage(version)
  PROVE  TreeInv'
<1>1. /\ page = "view_edit" /\ page' = "import" /\ searchVersion' = version
      /\ hasChild' = (version = "cfn") /\ importUsed.visits < MaxVisits
      /\ importUsed' = [importUsed EXCEPT !.visits = @ + 1]
      /\ UNCHANGED <<typeIndex, tree, mainView, crossed, workerVars>>
  BY DEF SwitchPage, SwitchToImportResourcesPage, vars
<1>2. TreeTypes /\ (crossed \/ Uncrossed)
  BY DEF TreeInv
<1>3. ImportTypeOK'
  <2>1. importUsed' \in [searches : 0 .. MaxImportSearches, visits : 0 .. MaxVisits]
    <3>1. importUsed \in [searches : 0 .. MaxImportSearches, visits : 0 .. MaxVisits]
      BY <1>2 DEF TreeTypes, ImportTypeOK
    <3>2. MaxImportSearches \in Nat /\ MaxVisits \in Nat
      BY AwsDefined
    <3> QED BY ONLY <1>1, <3>1, <3>2
  <2> QED BY <1>1, <1>2, <2>1 DEF TreeTypes, ImportTypeOK
<1>4. TreeTypes'
  BY <1>1, <1>2, <1>3 DEF TreeTypes, workerVars
<1>5. CASE crossed
  BY <1>1, <1>4, <1>5 DEF TreeInv
<1>6. CASE Uncrossed
  <2>1. tree' = <<>>
    BY <1>1, <1>6 DEF Uncrossed
  <2>2. \A kind : Current(kind) => kind \notin RequestKinds
    BY <1>1 DEF Current
  <2>3. ~Searching(RequestKinds)
    BY <1>6, <2>2 DEF Uncrossed, Searching, Range
  <2> QED BY <1>1, <1>4, <2>1, <2>3, EmptyTree
<1> QED BY <1>2, <1>5, <1>6

-----------------------------------------------------------------------------
(* An import. *)

LEMMA NodeResources ==
  ASSUME TreeInv, NEW n \in Nodes
  PROVE  At(n) \in Loadable /\ (~IsRoot(n) => IsChild(At(n)))
<1> DEFINE i == n[1]
           j == n[2]
<1>1. i \in DOMAIN tree /\ j \in 0 .. Len(tree[i].children)
  <2>1. PICK k \in DOMAIN tree : n \in {k} \X (0 .. Len(tree[k].children))
    BY DEF Nodes
  <2> QED BY <2>1
<1>2. tree[i] \in Roots
  BY <1>1, ElementInRange DEF TreeInv, TreeTypes
<1>3. tree[i].resource \in Loadable /\ tree[i].children \in Seq(Children)
  BY <1>2 DEF Roots
<1>4. ASSUME ~IsRoot(n) PROVE tree[i].children[j] \in Children
  <2>1. Len(tree[i].children) \in Nat
    BY <1>3, LenProperties
  <2>2. j \in 1 .. Len(tree[i].children)
    BY <1>1, <1>4, <2>1 DEF IsRoot
  <2> QED BY <1>3, <2>2, ElementOfSeq
<1> QED BY <1>3, <1>4 DEF At, IsRoot, Children

(* Without children in an uncrossed tree its roots are typed resources.     *)
LEMMA NoStackListed ==
  ASSUME TreeInv, ~hasChild, ~crossed, NEW n \in Nodes
  PROVE  IsChild(At(n))
<1> DEFINE i == n[1]
           j == n[2]
<1>1. i \in DOMAIN tree /\ j \in 0 .. Len(tree[i].children)
  <2>1. PICK k \in DOMAIN tree : n \in {k} \X (0 .. Len(tree[k].children))
    BY DEF Nodes
  <2> QED BY <2>1
<1>2. tree[i] \in TypedRoots
  BY <1>1, ElementInRange DEF TreeInv, Uncrossed
<1>3. PICK k \in 0 .. 2, x \in AwsNames :
        tree[i] = Root(Resource(AWS_RESOURCE_TYPES[k + 1], x), <<>>)
  BY <1>2 DEF TypedRoots
<1>4. /\ tree[i].children = <<>>
      /\ tree[i].resource.type = AWS_RESOURCE_TYPES[k + 1]
  BY <1>3 DEF Root, Resource
<1>5. IsRoot(n)
  BY <1>1, <1>4 DEF IsRoot
<1>6. At(n) = tree[i].resource
  BY <1>5 DEF At
<1> QED BY <1>4, <1>6 DEF IsChild, AWS_RESOURCE_TYPES, AWS_RESOURCE_CLOUDFORMATION_STACK_TYPE

LEMMA SelectedResources ==
  ASSUME TreeInv, NEW S \in SUBSET Nodes
  PROVE  /\ IsFiniteSet(UniqueResources(S)) /\ UniqueResources(S) \subseteq Resources
         /\ (hasChild \/ ~crossed) => \A r \in UniqueResources(S) : IsChild(r)
<1> DEFINE T == {n \in S : hasChild => ~IsRoot(n)}
           U == UniqueResources(S)
<1>1. U = {At(n) : n \in T}
  BY DEF UniqueResources
<1>2. IsFiniteSet(T)
  <2> DEFINE N == Len(tree)
             Below(i) == {i} \X (0 .. Len(tree[i].children))
             F == [i \in 1 .. N |-> Below(i)]
             B == {F[i] : i \in 1 .. N}
  <2>1. N \in Nat /\ DOMAIN tree = 1 .. N
    BY LenProperties DEF TreeInv, TreeTypes
  <2>2. ASSUME NEW i \in 1 .. N PROVE IsFiniteSet(F[i])
    <3>1. tree[i] \in Roots
      BY <2>1, ElementInRange DEF TreeInv, TreeTypes
    <3>2. Len(tree[i].children) \in Nat
      BY <3>1, LenProperties DEF Roots
    <3> DEFINE M == Len(tree[i].children)
    <3>3. M \in Int /\ 0 \in Int
      BY <3>2
    <3> HIDE DEF M
    <3>4. IsFiniteSet(0 .. M) /\ IsFiniteSet({i})
      BY <3>3, FS_Interval, FS_Singleton
    <3>5. IsFiniteSet({i} \X (0 .. M))
      BY <3>4, FS_Product
    <3> QED BY <3>5 DEF M
  <2>3. Nodes = UNION B
    BY <2>1, Zenon DEF Nodes
  <2> HIDE DEF F, N
  <2>4. F \in Surjection(1 .. N, B)
    BY DEF F, Surjection
  <2>5. IsFiniteSet(1 .. N)
    BY <2>1, FS_Interval
  <2>6. IsFiniteSet(B) /\ \A T0 \in B : IsFiniteSet(T0)
    BY <2>2, <2>4, <2>5, FS_Surjection
  <2> HIDE DEF B
  <2>7. IsFiniteSet(UNION B)
    BY <2>6, FS_UNION
  <2> QED BY <2>3, <2>7, FS_Subset
<1>3. \A n \in T : n \in Nodes /\ (hasChild => ~IsRoot(n))
  OBVIOUS
<1> HIDE DEF T
<1>4. \A r \in U : r \in Loadable /\ ((hasChild \/ ~crossed) => IsChild(r))
  BY <1>1, <1>3, NodeResources, NoStackListed
<1>5. IsFiniteSet(U)
  <2> DEFINE f == [n \in T |-> At(n)]
  <2>1. f \in Surjection(T, U)
    BY <1>1 DEF Surjection
  <2> HIDE DEF f, U
  <2> QED BY <1>2, <2>1, FS_Surjection
<1> QED BY <1>4, <1>5, ToolAssumption

LEMMA SelectedInOrder ==
  ASSUME TreeInv, NEW S \in SUBSET Nodes
  PROVE  LET s == SetToSeq(UniqueResources(S))
             m == Cardinality(UniqueResources(S))
         IN /\ m \in Nat /\ s \in Seq(Resources) /\ Len(s) = m /\ DOMAIN s = 1 .. m
            /\ \A i \in 1 .. m : s[i] \in UniqueResources(S)
            /\ \A i, j \in 1 .. m : s[i] = s[j] => i = j
            /\ UniqueResources(S) # {} => m > 0
<1> DEFINE U == UniqueResources(S)
           s == SetToSeq(U)
           m == Cardinality(U)
<1>1. IsFiniteSet(U) /\ U \subseteq Resources
  BY SelectedResources
<1> HIDE DEF U
<1>2. /\ m \in Nat /\ s \in [1 .. m -> U]
      /\ \A i, j \in 1 .. m : s[i] = s[j] => i = j
  BY <1>1, SetToSeqElements
<1>3. U # {} => m # 0
  BY <1>1, FS_EmptySet
<1> HIDE DEF s, m
<1>4. s \in [1 .. m -> Resources]
  BY <1>1, <1>2
<1>5. s \in Seq(Resources) /\ Len(s) = m /\ DOMAIN s = 1 .. m
  BY <1>2, <1>4, LenProperties
<1> QED BY <1>2, <1>3, <1>5 DEF U, s, m

LEMMA ImportKeepsPage ==
  ASSUME PageInv, TreeInv, NEW S \in SUBSET Nodes, ImportResources(S)
  PROVE  PageInv'
<1>1. SetToSeq(UniqueResources(S)) \in Seq(Resources)
  BY SelectedInOrder
<1> QED BY <1>1, ImportedRowsKeepPage DEF ImportResources

LEMMA ImportKeepsTree ==
  ASSUME TreeInv, NEW S \in SUBSET Nodes, ImportResources(S)
  PROVE  TreeInv'
BY BackKeepsTree DEF ImportResources, ImportSelected

-----------------------------------------------------------------------------
(* The inductive invariant of the tool. *)

ToolInv == PageInv /\ TreeInv

LEMMA ToolInitEstablishes ==
  ASSUME ToolInit
  PROVE  ToolInv
<1>1. Init /\ ImportInit
  BY DEF ToolInit
<1>2. /\ page = "view_edit" /\ searchVersion = "none" /\ hasChild = TRUE
      /\ typeIndex = -1 /\ tree = <<>> /\ mainView = "tree" /\ crossed = FALSE
      /\ importUsed = [searches |-> 0, visits |-> 0]
  BY <1>1 DEF ImportInit
<1>3. runQueue = <<>> /\ running = <<>> /\ posted = <<>>
  BY <1>1 DEF Init, WorkersInit
<1>4. Range(<<>>) = {}
  BY DEF Range
<1>5. ImportTypeOK
  <2>1. -1 \in -1 .. Len(AWS_RESOURCE_TYPES) - 1
    BY DEF AWS_RESOURCE_TYPES
  <2>2. importUsed \in [searches : 0 .. MaxImportSearches, visits : 0 .. MaxVisits]
    BY <1>2, AwsDefined
  <2>3. \A i \in DOMAIN tree : DOMAIN tree[i] = {"resource", "children"}
    BY <1>2
  <2>4. {hasChild, crossed} \subseteq BOOLEAN
    BY <1>2, Zenon
  <2> QED BY <1>2, <2>1, <2>2, <2>3, <2>4 DEF ImportTypeOK
<1>6. TreeTypes
  <2>1. tree \in Seq(Roots)
    BY <1>2
  <2> QED BY <1>2, <1>3, <1>4, <1>5, <2>1 DEF TreeTypes
<1>7. Uncrossed
  <2>1. tree \in Seq(IF hasChild THEN StackRoots ELSE TypedRoots)
    BY <1>2
  <2> QED BY <1>2, <1>3, <1>4, <2>1 DEF Uncrossed
<1> QED BY <1>1, <1>6, <1>7, InitEstablishes DEF ToolInv, TreeInv

LEMMA ToolStepKeeps ==
  ASSUME ToolInv, [ToolNext]_toolVars
  PROVE  ToolInv'
<1>0. PageInv /\ TreeInv
  BY DEF ToolInv
<1>1. CASE ViewEditStep /\ UNCHANGED importVars
  BY <1>0, <1>1, ViewEditStepKeepsPage, ViewEditStepKeepsTree DEF ToolInv
<1>2. CASE ImportStep /\ UNCHANGED viewEditVars
  <2>1. PageInv'
    BY <1>0, <1>2, ImportStepKeepsPage
  <2>2. CASE ImportUserStep
    BY <1>0, <2>1, <2>2, SelectTypeKeepsTree, StartSearchKeepsTree, BackKeepsTree
       DEF ImportUserStep, ToolInv
  <2>3. CASE RequestStep
    BY <1>0, <2>1, <2>3, RequestKeepsTree, LoadTypedKeepsTree, LoadCfnKeepsTree,
       RequestCompleteKeepsTree DEF RequestStep, ToolInv
  <2> QED BY <1>2, <2>2, <2>3 DEF ImportStep
<1>3. CASE \E version \in RequestKinds : SwitchPage(version)
  <2>1. PageInv'
    BY <1>0, <1>3, PageStutters DEF SwitchPage
  <2> QED BY <1>0, <1>3, <2>1, SwitchPageKeepsTree DEF ToolInv
<1>4. CASE \E S \in SUBSET Nodes : ImportResources(S)
  BY <1>0, <1>4, ImportKeepsPage, ImportKeepsTree DEF ToolInv
<1>5. CASE UNCHANGED toolVars
  <2>1. PageInv'
    BY <1>0, <1>5, PageStutters DEF toolVars
  <2>2. /\ UNCHANGED <<page, searchVersion, hasChild, typeIndex, tree, mainView, crossed,
                       importUsed, runQueue, running, posted>>
        /\ mainView \in {"notification", "tree"}
    BY <1>0, <1>5 DEF toolVars, importVars, vars, workerVars, TreeInv, TreeTypes, ImportTypeOK
  <2> QED BY <1>0, <2>1, <2>2, WorkMovesOn DEF ToolInv
<1> QED BY <1>1, <1>2, <1>3, <1>4, <1>5 DEF ToolNext

LEMMA ToolInvariant == ToolSpec => []ToolInv
BY ToolInitEstablishes, ToolStepKeeps, PTL DEF ToolSpec

(* The import page's variables keep their types, whatever overlaps.         *)
THEOREM ToolImportTypes == ToolSpec => []ImportTypeOK
<1>1. ToolInv => ImportTypeOK
  BY DEF ToolInv, TreeInv, TreeTypes
<1> QED BY <1>1, ToolInvariant, PTL

LEMMA UncrossedFaithful ==
  ASSUME TreeInv
  PROVE  TreeFaithful
<1> SUFFICES ASSUME ~crossed, NEW i \in DOMAIN tree
             PROVE  LET type == tree[i].resource.type
                        name == tree[i].resource.name
                        children == tree[i].children
                    IN \/ /\ hasChild
                          /\ \E s \in Range(StackSummaries) :
                               /\ tree[i].resource = StackRoot(s) /\ s.status \in CompleteStatuses
                               /\ Range(children) = {r \in Range(s.resources) : r.type # Unnamed /\ r.name # Unnamed}
                               /\ IsInjective(children)
                       \/ /\ ~hasChild /\ children = <<>>
                          /\ \/ type = "AWS::Lambda::Function" /\ name \in Range(Functions)
                             \/ type = "AWS::DynamoDB::Table" /\ name \in Range(Tables)
                             \/ /\ type = "AWS::S3::Bucket"
                                /\ \E b \in Range(Buckets) :
                                     b.name = name /\ Region = (IF b.location = Unnamed THEN "us-east-1" ELSE b.location)
  BY DEF TreeFaithful
<1>1. Uncrossed
  BY DEF TreeInv
<1>2. CASE hasChild
  <2>1. tree[i] \in StackRoots
    BY <1>1, <1>2, ElementInRange DEF Uncrossed
  <2>2. PICK s \in Stacks : tree[i] = Root(StackRoot(s), ListCloudformationStackResources(s))
    BY <2>1 DEF StackRoots
  <2>3. /\ tree[i].resource = StackRoot(s)
        /\ tree[i].children = ListCloudformationStackResources(s)
    BY <2>2 DEF Root
  <2>4. s \in Range(StackSummaries) /\ s.status \in CompleteStatuses
    BY DEF Stacks, IsComplete
  <2>5. /\ Range(tree[i].children) = {r \in Range(s.resources) : r.type # Unnamed /\ r.name # Unnamed}
        /\ IsInjective(tree[i].children)
    BY <2>3, <2>4, ResourcesListed DEF IsNamed
  <2> QED BY <1>2, <2>3, <2>4, <2>5
<1>3. CASE ~hasChild
  <2>1. tree[i] \in TypedRoots
    BY <1>1, <1>3, ElementInRange DEF Uncrossed
  <2>2. PICK k \in 0 .. 2, x \in AwsNames :
          tree[i] = Root(Resource(AWS_RESOURCE_TYPES[k + 1], x), <<>>) /\ NamedAs(k, x)
    BY <2>1 DEF TypedRoots
  <2>3. /\ tree[i].children = <<>> /\ tree[i].resource.name = x
        /\ tree[i].resource.type = AWS_RESOURCE_TYPES[k + 1]
    BY <2>2 DEF Root, Resource
  <2>4. \A b : InRegion(b) => Region = (IF b.location = Unnamed THEN "us-east-1" ELSE b.location)
    BY DEF InRegion
  <2> QED BY <1>3, <2>2, <2>3, <2>4 DEF NamedAs, AWS_RESOURCE_TYPES
<1> QED BY <1>2, <1>3

(* The tree shows what AWS has, unless the type or the page changed under a *)
(* search, however many searches overlap.                                   *)
THEOREM ToolTreeFaithful == ToolSpec => []TreeFaithful
<1>1. ToolInv => TreeFaithful
  BY UncrossedFaithful DEF ToolInv
<1> QED BY <1>1, ToolInvariant, PTL

LEMMA ImportAddsOnce ==
  ASSUME PageInv, TreeInv, NEW S \in SUBSET Nodes, ImportResources(S)
  PROVE  /\ Len(rows') > Len(rows) /\ SubSeq(rows', 1, Len(rows)) = rows
         /\ \A i, j \in Len(rows) + 1 .. Len(rows') :
              /\ rows'[i].key = Empty /\ rows'[i].status = "Modified"
              /\ i # j => rows'[i].resource # rows'[j].resource
              /\ (hasChild \/ ~crossed) =>
                   rows'[i].resource.type # AWS_RESOURCE_CLOUDFORMATION_STACK_TYPE
<1> DEFINE s == SetToSeq(UniqueResources(S))
           m == Cardinality(UniqueResources(S))
           n == Len(rows)
           new == [i \in DOMAIN s |-> Row(Empty, s[i], ConfiguredOwner, "Modified")]
<1>1. /\ m \in Nat /\ s \in Seq(Resources) /\ Len(s) = m /\ DOMAIN s = 1 .. m
      /\ \A i \in 1 .. m : s[i] \in UniqueResources(S)
      /\ \A i, j \in 1 .. m : s[i] = s[j] => i = j
      /\ UniqueResources(S) # {} => m > 0
  BY SelectedInOrder
<1>2. rows' = rows \o new /\ UniqueResources(S) # {}
  BY DEF ImportResources, AddImportResourcesReceiver, ImportSelected
<1>3. (hasChild \/ ~crossed) => \A r \in UniqueResources(S) : IsChild(r)
  BY SelectedResources
<1> HIDE DEF s, m
<1>4. \A i \in 1 .. m : /\ new[i].key = Empty /\ new[i].status = "Modified"
                        /\ new[i].resource = s[i]
  BY <1>1 DEF Row
<1>5. DOMAIN new = 1 .. m /\ rows \in Seq(Rows) /\ n \in Nat
  BY <1>1, LenProperties DEF PageInv, Types, TableTypes
<1>6. new \in Seq({new[i] : i \in 1 .. m}) /\ Len(new) = m
  <2> DEFINE R == {new[i] : i \in 1 .. m}
  <2>1. new \in [1 .. m -> R] /\ m \in Nat
    BY <1>1, <1>5
  <2> HIDE DEF new, R
  <2>2. new \in Seq(R) /\ Len(new) = m
    BY <2>1
  <2> QED BY <2>2 DEF R
<1> HIDE DEF new, n
<1>7. /\ Len(rows') = n + m
      /\ \A i \in 1 .. n + m : rows'[i] = IF i <= n THEN rows[i] ELSE new[i - n]
      /\ rows' \in Seq(Rows \union {new[i] : i \in 1 .. m})
  <2> DEFINE R == Rows \union {new[i] : i \in 1 .. m}
  <2>1. rows \in Seq(R) /\ new \in Seq(R)
    BY <1>5, <1>6
  <2> HIDE DEF R
  <2>2. /\ rows \o new \in Seq(R)
        /\ Len(rows \o new) = Len(rows) + Len(new)
        /\ \A i \in 1 .. Len(rows) + Len(new) :
             (rows \o new)[i] = IF i <= Len(rows) THEN rows[i] ELSE new[i - Len(rows)]
    BY <2>1, ConcatProperties
  <2> QED BY <1>2, <1>6, <2>2 DEF n, R
<1>8. SubSeq(rows', 1, n) = rows
  <2>1. SubSeq(rows', 1, n) = [i \in 1 .. n |-> rows'[i]]
    BY <1>5, <1>7
  <2>2. rows = [i \in 1 .. n |-> rows[i]]
    BY <1>5, LenProperties DEF n
  <2>3. \A i \in 1 .. n : rows'[i] = rows[i]
    BY <1>1, <1>5, <1>7
  <2> QED BY <2>1, <2>2, <2>3
<1>9. ASSUME NEW i \in n + 1 .. n + m
      PROVE  i - n \in 1 .. m /\ rows'[i] = new[i - n]
  BY <1>1, <1>5, <1>7, <1>9
<1>10. ASSUME NEW i \in n + 1 .. n + m, NEW j \in n + 1 .. n + m
       PROVE  /\ rows'[i].key = Empty /\ rows'[i].status = "Modified"
              /\ i # j => rows'[i].resource # rows'[j].resource
              /\ (hasChild \/ ~crossed) =>
                   rows'[i].resource.type # AWS_RESOURCE_CLOUDFORMATION_STACK_TYPE
  <2>1. /\ i - n \in 1 .. m /\ rows'[i] = new[i - n]
        /\ j - n \in 1 .. m /\ rows'[j] = new[j - n]
    BY <1>9
  <2>2. i # j => i - n # j - n
    BY <1>1, <1>5
  <2>3. i # j => s[i - n] # s[j - n]
    BY <1>1, <2>1, <2>2
  <2>4. /\ rows'[i].key = Empty /\ rows'[i].status = "Modified"
        /\ rows'[i].resource = s[i - n] /\ rows'[j].resource = s[j - n]
    BY <1>4, <2>1
  <2>5. (hasChild \/ ~crossed) => IsChild(s[i - n])
    BY <1>1, <1>3, <2>1
  <2> QED BY <2>3, <2>4, <2>5 DEF IsChild
<1> QED BY <1>1, <1>2, <1>5, <1>7, <1>8, <1>10 DEF n

(* Only an import leaves the import page with other rows.                   *)
LEMMA OnlyImportAdds ==
  ASSUME [ToolNext]_toolVars, page = "import", page' = "view_edit", rows' # rows
  PROVE  \E S \in SUBSET Nodes : ImportResources(S)
<1>1. ~(ViewEditStep /\ UNCHANGED importVars)
  BY DEF importVars
<1>2. ~(ImportStep /\ UNCHANGED viewEditVars)
  BY DEF viewEditVars, tableVars
<1>3. ~\E version \in RequestKinds : SwitchPage(version)
  BY DEF SwitchPage, SwitchToImportResourcesPage
<1>4. ~UNCHANGED toolVars
  BY DEF toolVars, importVars
<1> QED BY <1>1, <1>2, <1>3, <1>4 DEF ToolNext

(* An import keeps the table's rows and adds each selected resource once,   *)
(* and no stack, unless a search that the user left behind listed it late   *)
(* into a tree without children.                                            *)
THEOREM ToolImportedOnce == ToolSpec => ImportedOnce
<1> DEFINE Adds ==
  (page = "import" /\ page' = "view_edit" /\ rows' # rows) =>
    /\ Len(rows') > Len(rows) /\ SubSeq(rows', 1, Len(rows)) = rows
    /\ \A i, j \in Len(rows) + 1 .. Len(rows') :
         /\ rows'[i].key = Empty /\ rows'[i].status = "Modified"
         /\ i # j => rows'[i].resource # rows'[j].resource
         /\ (hasChild \/ ~crossed) =>
              rows'[i].resource.type # AWS_RESOURCE_CLOUDFORMATION_STACK_TYPE
<1>1. ToolInv /\ [ToolNext]_toolVars => [Adds]_toolVars
  BY OnlyImportAdds, ImportAddsOnce DEF ToolInv
<1> QED BY <1>1, ToolInvariant, PTL DEF ToolSpec, ImportedOnce

-----------------------------------------------------------------------------
(* The table page keeps its promises while the import page shares its       *)
(* thread and adds to its table.                                            *)

(* A row marked as saved is in the selected file, in the whole tool.        *)
THEOREM ToolSuccessRows == ToolSpec => []SuccessRowsStored
<1>1. ToolInv => SuccessRowsStored
  BY DEF ToolInv, PageInv, Kept
<1> QED BY <1>1, ToolInvariant, PTL

(* Every step of the tool is a step of the page, or adds imported rows.     *)
LEMMA OtherStepsKeepFiles ==
  ASSUME [ToolNext]_toolVars
  PROVE  [Next]_vars \/ UNCHANGED <<disk, jsonSource>>
<1>1. CASE ViewEditStep /\ UNCHANGED importVars
  BY <1>1 DEF ViewEditStep, Next
<1>2. CASE ImportStep /\ UNCHANGED viewEditVars
  BY <1>2 DEF viewEditVars, fileVars, tableVars
<1>3. CASE \E version \in RequestKinds : SwitchPage(version)
  BY <1>3 DEF SwitchPage
<1>4. CASE \E S \in SUBSET Nodes : ImportResources(S)
  BY <1>4 DEF ImportResources, fileVars
<1>5. CASE UNCHANGED toolVars
  BY <1>5 DEF toolVars
<1> QED BY <1>1, <1>2, <1>3, <1>4, <1>5 DEF ToolNext

(* A save that writes stores the whole table, imported rows too.            *)
THEOREM ToolWriteStores == ToolSpec => WriteStoresTable
<1> DEFINE Stores ==
  (disk' # disk /\ jsonSource' # jsonSource) =>
    /\ disk' = [disk EXCEPT ![configDir][selected] = jsonSource']
    /\ jsonSource'.default = jsonSource.default
    /\ Cardinality(DOMAIN jsonSource'.maps) = Len(rows)
    /\ \A i \in DOMAIN rows :
         /\ rows[i].key \in DOMAIN jsonSource'.maps
         /\ rows[i].resource = jsonSource'.maps[rows[i].key].resource
         /\ rows[i].owner = Resolved(jsonSource', rows[i].key)
<1>1. ToolInv /\ [ToolNext]_toolVars => [Stores]_vars
  BY OtherStepsKeepFiles, OnlyWriteChangesBoth, WriteStores DEF ToolInv
<1> QED BY <1>1, ToolInvariant, PTL DEF ToolSpec, WriteStoresTable
=============================================================================
