-------------------------- MODULE MCControlScenarios -------------------------
(***************************************************************************)
(* Three instances of ControlLoop checked in one run: the behaviours of    *)
(* each scenario are those of ControlLoop with the scenario's constants,   *)
(* and the scenario never changes.                                         *)
(***************************************************************************)
EXTENDS ControlLoop, TLC

CONSTANTS p1, p2, n1, h1

VARIABLE scenario

\* Revisions, assignments and agent updates reach a node.
Delivery == INSTANCE ControlLoop WITH
  AdminOps <- {"publish", "assign", "update", "probe"},
  IPs <- {"ip1"}, Tunings <- {"on70"},
  MaxRev <- 2, MaxNonce <- 0, MaxProbe <- 1, MaxLate <- 0

\* The ingress address, the TCP tuning and restarts are asked for.
Settings == INSTANCE ControlLoop WITH
  AdminOps <- {"ingress", "tuning", "restart"}, PanelVersion <- 1,
  MaxRev <- 1, MaxNonce <- 1, MaxProbe <- 0, MaxLate <- 1, Leftovers <- {}

\* The node is deleted, enabled again, or uninstalled on the spot.
Removal == INSTANCE ControlLoop WITH
  AdminOps <- {"delete", "enable", "uninstall"}, PanelVersion <- 1,
  IPs <- {"ip1"}, Tunings <- {"on70"},
  MaxRev <- 2, MaxNonce <- 0, MaxProbe <- 0, MaxLate <- 1,
  Leftovers <- {"mixture", "stale"}

ScenarioInit ==
  \/ scenario = "delivery" /\ Delivery!Init
  \/ scenario = "settings" /\ Settings!Init
  \/ scenario = "removal" /\ Removal!Init

ScenarioNext ==
  /\ \/ scenario = "delivery" /\ Delivery!Next
     \/ scenario = "settings" /\ Settings!Next
     \/ scenario = "removal" /\ Removal!Next
  /\ UNCHANGED scenario

ScenarioSpec == ScenarioInit /\ [][ScenarioNext]_<<vars, scenario>>

Symmetric == Permutations({p1, p2})

=============================================================================
