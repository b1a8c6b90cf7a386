--------------------------- MODULE MCHealthMonitor ---------------------------
(***************************************************************************)
(* A model-checking instance of HealthMonitor.                             *)
(***************************************************************************)
EXTENDS HealthMonitor

CONSTANTS b1, b2

\* A monitor of both backends, one of the proxied backend that is quicker to
\* give up and slower to trust, and none.
MonitorPolicies ==
  {[enabled |-> TRUE, fail |-> 2, recover |-> 1, weight |-> [b \in {b1, b2} |-> 1]],
   [enabled |-> TRUE, fail |-> 1, recover |-> 2, weight |-> [b \in {b1} |-> 2]],
   [enabled |-> FALSE, fail |-> 2, recover |-> 1, weight |-> [b \in {b1} |-> 1]]}
=============================================================================
