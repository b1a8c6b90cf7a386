--------------------------- MODULE MCPanelScenarios --------------------------
(***************************************************************************)
(* Two instances of PanelStore checked in one run: the behaviours of each  *)
(* scenario are those of PanelStore with the scenario's constants, and the *)
(* scenario never changes.                                                 *)
(***************************************************************************)
EXTENDS PanelStore, TLC

CONSTANTS p1, p2, n1, h1, h2

VARIABLE scenario

\* Profiles, revisions and assignments move, two administrators at a time.
Races == INSTANCE PanelStore WITH
  AdminOps <- {"profile", "publish", "drop", "create", "assign", "delete", "force"},
  MaxRev <- 2, MaxNonce <- 0, MaxProbe <- 0

\* The status, the credential and the requests of a node move.
Lifecycle == INSTANCE PanelStore WITH
  AdminOps <- {"profile", "create", "enable", "delete", "force", "rotate",
               "revoke", "update", "restart", "probe"},
  MaxRev <- 1, MaxNonce <- 1, MaxProbe <- 1

ScenarioInit ==
  \/ scenario = "races" /\ Races!StoreInit
  \/ scenario = "lifecycle" /\ Lifecycle!StoreInit

ScenarioNext ==
  /\ \/ scenario = "races" /\ Races!StoreNext
     \/ scenario = "lifecycle" /\ Lifecycle!StoreNext
  /\ UNCHANGED scenario

ScenarioSpec == ScenarioInit /\ [][ScenarioNext]_<<storeVars, scenario>>

Symmetric == Permutations({h1, h2}) \cup Permutations({p1, p2})
=============================================================================
