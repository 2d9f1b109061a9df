------------------------------ MODULE MCMetrics ------------------------------
(* Small instances of MetricsPipeline. *)
EXTENDS MetricsPipeline

CONSTANTS e1, e2, e3, bad

AllEvents  == {e1, e2, e3, bad}
TwoEvents  == {e1, e2, bad}
ThreeValid == {e1, e2, e3}
TwoValid   == {e1, e2}

(* One event of the lowest priority, the others of the highest. *)
MCPriority == [e \in Events |-> IF e = e1 THEN 1 ELSE 0]
UnitSize   == [e \in Events |-> 1]
OneLarge   == [e \in Events |-> IF e = e2 THEN 3 ELSE 1]
=============================================================================
