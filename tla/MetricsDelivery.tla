--------------------------- MODULE MetricsDelivery ---------------------------
(***************************************************************************)
(* What the metrics pipeline promises about one event, whatever queues,    *)
(* batches, retries and files it goes through: a submission is refused or  *)
(* accepted; an accepted event is held in memory or recorded on disk until *)
(* it is sent or dropped, which is final.                                  *)
(***************************************************************************)
CONSTANTS Events, ValidEvents

VARIABLE status

States == {"new", "rejected", "held", "recorded", "sent", "dropped"}

Init == status = [e \in Events |-> "new"]

Move(S, from, to) ==
  /\ S # {} /\ \A e \in S : status[e] = from
  /\ status' = [e \in Events |-> IF e \in S THEN to ELSE status[e]]

Reject(e) == e \notin ValidEvents /\ Move({e}, "new", "rejected")
Accept(e) == e \in ValidEvents /\ Move({e}, "new", "held")

(* One event is acknowledged; a full queue may drop several at once.       *)
Send(e)   == Move({e}, "held", "sent")
Drop(S)   == Move(S, "held", "dropped")

(* Off line, a batch goes to the file; it comes back as a whole.           *)
Record(S)   == Move(S, "held", "recorded")
Resubmit(S) == Move(S, "recorded", "held")

Next ==
  \/ \E e \in Events : Reject(e) \/ Accept(e) \/ Send(e)
  \/ \E S \in SUBSET Events : Drop(S) \/ Record(S) \/ Resubmit(S)

Spec == Init /\ [][Next]_status
=============================================================================
