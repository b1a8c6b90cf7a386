---------------------------- MODULE MCControlLoop ---------------------------
(***************************************************************************)
(* Model-checking instances of ControlLoop.                                *)
(***************************************************************************)
EXTENDS ControlLoop, TLC

CONSTANTS p1, p2, n1, h1

DeliveryOps == {"publish", "assign", "update", "probe"}
RestartOps == {"restart"}
LivenessOps == {"publish", "update", "restart", "delete"}
ForgetOps == {"delete", "publish", "update"}
=============================================================================
