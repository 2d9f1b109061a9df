----------------------------- MODULE HttpService -----------------------------
(***************************************************************************)
(* What the HttpRequestor gem promises its callers: requests of one kind   *)
(* are made and answered in the order they were added, each at most once;  *)
(* those not answered when the gem is deactivated never are.               *)
(***************************************************************************)
EXTENDS Sequences

CONSTANTS JsonRequests, TextRequests

VARIABLES
  pending,    \* pending[k]: the requests of kind k not answered yet, in order
  answered,   \* the requests whose callbacks were called, in order
  abandoned   \* the requests whose callback never will be

vars == <<pending, answered, abandoned>>

Kinds == {"json", "text"}

OfKind(k) == IF k = "json" THEN JsonRequests ELSE TextRequests

Elements(s) == {s[i] : i \in DOMAIN s}

Init ==
  /\ pending = [k \in Kinds |-> <<>>]
  /\ answered = <<>> /\ abandoned = {}

Add(k, r) ==
  /\ r \notin Elements(pending[k]) \union Elements(answered) \union abandoned
  /\ pending' = [pending EXCEPT ![k] = Append(@, r)]
  /\ UNCHANGED <<answered, abandoned>>

Answer(k) ==
  /\ pending[k] # <<>>
  /\ pending' = [pending EXCEPT ![k] = Tail(@)]
  /\ answered' = Append(answered, Head(pending[k]))
  /\ UNCHANGED abandoned

Abandon ==
  /\ pending' = [k \in Kinds |-> <<>>]
  /\ abandoned' = abandoned \union UNION {Elements(pending[k]) : k \in Kinds}
  /\ UNCHANGED answered

Next ==
  \/ \E k \in Kinds : Answer(k) \/ \E r \in OfKind(k) : Add(k, r)
  \/ Abandon

Spec == Init /\ [][Next]_vars
=============================================================================
