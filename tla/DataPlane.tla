------------------------------ MODULE DataPlane ------------------------------
(***************************************************************************)
(* What the main loop of the agent may rely on when it calls Reconcile,    *)
(* Restore and Decommission: the data plane of one node as the             *)
(* configuration it serves completely, whether it also holds orphans,      *)
(* rules that neither that configuration nor the state file names, and     *)
(* whether its haproxy.cfg was replaced and not loaded.  A call is one     *)
(* step.  ControlLoop is built on these outcomes, and Reconciler, the      *)
(* calls command by command, implements them.                              *)
(***************************************************************************)
CONSTANTS
  Confs,    \* configurations a node can be given
  Bare,     \* those without services
  Nothing,  \* no configuration: an empty state file
  Broken    \* part of a configuration

VARIABLES
  saved,    \* the configuration the state file names
  dp,       \* what is served, whether there are orphans, and whether HAProxy runs
            \* another configuration than haproxy.cfg holds
  reported  \* what the last call said is in place; Broken after a failure

planeVars == <<saved, dp, reported>>

Clean == [conf |-> Nothing, orphans |-> FALSE, stale |-> FALSE]

\* Rules the state file does not name, which a later call may not find.
Dirty == dp.orphans \/ dp.conf \notin {Nothing, Broken, saved}

\* A call put conf in place.  It removes, of what there was, what the state
\* file or conf names.  But an applyHAProxy that finds its file in place and
\* HAProxy running takes it for loaded: where it was not, conf may be incomplete.
Served(conf) ==
  [conf: {conf}, orphans: {FALSE, Dirty}, stale: {FALSE}]
    \cup (IF dp.stale THEN [conf: IF conf = Nothing THEN {Nothing} ELSE {conf, Broken},
                           orphans: BOOLEAN, stale: {TRUE}] ELSE {})

\* A failed or interrupted Reconcile: the old configuration as it was, rolled
\* back, or a mixture, or the new one although the state file is the old one, or
\* rules of the new one that serve nothing, on a node that could not restore.
Partial(target) ==
  {dp} \cup [conf: {saved, target, Broken, Nothing}, orphans: BOOLEAN, stale: BOOLEAN]

\* A Restore (of conf) or Decommission (conf = Nothing) that stops halfway.
Halted(conf) ==
  {dp} \cup [conf: IF {dp.conf, conf} = {Nothing} THEN {Nothing} ELSE {Nothing, Broken, conf},
             orphans: {FALSE, Dirty}, stale: {FALSE, dp.stale \/ Dirty}]

\* A call says that conf is in place, or is killed before it can say so.
Reports(conf) == reported' \in {conf, Broken}
Fails == reported' = Broken

Reconciled(target) == saved' = target /\ Reports(target) /\ dp' \in Served(target)
ReconcileFailed(target) == UNCHANGED saved /\ Fails /\ dp' \in Partial(target)
\* Without services there is nothing to restore, and all is reported to be well.
Restored ==
  /\ UNCHANGED saved /\ Reports(saved)
  /\ dp' \in (IF saved \in Bare \cup {Nothing} THEN {dp} ELSE Served(saved))
Decommissioned == saved' = Nothing /\ Reports(Nothing) /\ dp' \in Served(Nothing)
Stopped == UNCHANGED saved /\ Fails /\ dp' \in (Halted(saved) \cup Halted(Nothing))
\* The kernel forgets every rule; HAProxy is not enabled in systemd.
Rebooted == UNCHANGED saved /\ Fails /\ dp' = Clean

PlaneInit == saved = Nothing /\ dp = Clean /\ reported = Broken
PlaneNext ==
  \/ \E target \in Confs : Reconciled(target) \/ ReconcileFailed(target)
  \/ Restored \/ Decommissioned \/ Stopped \/ Rebooted

PlaneSpec == PlaneInit /\ [][PlaneNext]_planeVars
=============================================================================
