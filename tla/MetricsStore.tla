---------------------------- MODULE MetricsStore ----------------------------
(***************************************************************************)
(* What the borgmatic exporter promises: a store with one row of metrics   *)
(* for each target.  A hook changes the row of its own target, in one      *)
(* step, and leaves the others alone (exporter.py:4-5).  The promise lasts *)
(* until two hooks overlap.                                                *)
(***************************************************************************)
EXTENDS Naturals

CONSTANTS Targets, Times, Gauges

VARIABLES rows, disturbed

NoRow == [runs |-> 0, successes |-> 0, failures |-> 0, last |-> 0, gauges |-> {}]

Init == rows = [t \in Targets |-> NoRow] /\ disturbed = FALSE

\* One hook: a counter for each outcome, the time of the last success kept over
\* failures, and the gauges that could be looked up.
Record(t, ok) ==
  \E now \in Times, found \in SUBSET Gauges :
    /\ \A u \in Targets : rows[u].last < now
    /\ rows' = [rows EXCEPT ![t] =
         [runs |-> @.runs + 1,
          successes |-> @.successes + (IF ok THEN 1 ELSE 0),
          failures |-> @.failures + (IF ok THEN 0 ELSE 1),
          last |-> IF ok THEN now ELSE @.last,
          gauges |-> found]]

Undisturbed ==
  /\ ~disturbed
  /\ UNCHANGED disturbed
  /\ \E t \in Targets, ok \in BOOLEAN : Record(t, ok)

Disturbed == disturbed' = TRUE

Next == Undisturbed \/ Disturbed

Spec == Init /\ [][Next]_<<rows, disturbed>>
=============================================================================
