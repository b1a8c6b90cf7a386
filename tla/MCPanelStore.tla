---------------------------- MODULE MCPanelStore ----------------------------
(***************************************************************************)
(* A model-checking instance of PanelStore: what moves profiles, revisions *)
(* and assignments, by two administrators at a time.                       *)
(***************************************************************************)
EXTENDS PanelStore

CONSTANTS p1, p2, n1, h1, h2

RaceOps == {"profile", "publish", "drop", "create", "assign", "delete", "force"}
=============================================================================
