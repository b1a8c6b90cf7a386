---------------------------- MODULE ControlLoop -----------------------------
(***************************************************************************)
(* The control loop of a node: its agent (cmd/ezhiklb-agent) polls the     *)
(* panel for the desired state, applies it, and reports with heartbeats,   *)
(* over HTTP that loses and delays, with crashes, reboots and systemd.     *)
(*                                                                         *)
(* The agent is one goroutine.  Its steps end at a request to the panel or *)
(* at a change of the data plane, where the panel, the network and systemd *)
(* may act.  Reconcile, Restore and Decommission are one step each with    *)
(* the outcomes of DataPlane.  Progress texts, metrics and what the health *)
(* monitor does are left out.  The initial reconcile and report of main    *)
(* are a poll and a report of the loop; a poll that fails, or is answered  *)
(* 304, changes nothing.                                                   *)
(***************************************************************************)
EXTENDS PanelStore

CONSTANTS
  MaxLate,    \* bound: late heartbeats of a node on their way
  MaxOps,     \* bound: steps of administrator handlers in a behaviour
  Leftovers,  \* bound: what a call may leave, of "mixture", "orphans" and "stale"
  MaxCrashes  \* bound: crashes and reboots in a behaviour

VARIABLES
  agent,     \* agent[n]: the memory of the agent process
  disk,      \* disk[n]: state.json, tcp-tuning.json and the agent binary
  dp,        \* dp[n]: IPVS, HAProxy and the firewall as DataPlane describes them
  job,       \* job[n]: the restart the agent asked systemd for
  unit,      \* unit[n]: the ezhiklb-agent unit is enabled
  late,      \* late[n]: heartbeats the agent gave up on, not yet processed
  count,     \* administrator steps, crashes and reboots so far
  restarts,  \* history: restarts[n] counts restarts the panel asked for
  served,    \* history: revisions nodes committed, with or without a reset
  undone     \* history: nodes whose decommission an administrator cancelled

agentVars == <<agent, disk, dp, job, unit, late, count, restarts, served, undone>>
vars == <<storeVars, agentVars>>
\* What a step of the agent that only talks to the panel leaves alone.
local == <<disk, dp, job, unit, count, restarts, served, undone>>

-----------------------------------------------------------------------------
(* Values                                                                  *)

NoIP == "none"
\* An applied configuration: (profile, revision, ingress address).
Confs == (Profiles \cup {NoProfile}) \X Nat \X (IPs \cup {NoIP})
Nothing == <<NoProfile, 0, NoIP>>
Broken == <<NoProfile, 0, "broken">>

NoDesired == [profile |-> NoProfile, rev |-> 0, ip |-> NoIP, probe |-> 0,
              update |-> 0, tuning |-> CHOOSE t \in Tunings : TRUE,
              restart |-> 0, reset |-> FALSE, decommission |-> FALSE]
Desired == [profile: Profiles \cup {NoProfile}, rev: Nat, ip: IPs \cup {NoIP},
            probe: Nat, update: Versions \cup {0}, tuning: Tunings,
            restart: Nat, reset: BOOLEAN, decommission: BOOLEAN]
Target(d) == <<d.profile, d.rev, d.ip>>

\* pc: "down" no process, "idle" in the select loop, "got" a desired state is
\* being handled, "install" and "apply" the long calls, "report" the heartbeat
\* after reconcile returned true; "clean", "cleanlocal" and "confirm" are
\* ezhiklb-agent --uninstall; "exited": disabled or uninstalled.
Agent == [pc: {"down", "idle", "got", "install", "apply", "report", "clean",
               "cleanlocal", "confirm", "exited"},
          applied: Confs, probe: Nat, update: Versions \cup {0}, ack: Nat,
          refresh: BOOLEAN, monitor: BOOLEAN, decommissioned: BOOLEAN,
          state: ApplyStates, version: Versions, d: Desired, retuned: BOOLEAN]
Disk == [conf: Confs, tuning: Tunings, binary: Versions]
Planes == [conf: Confs \cup {Broken}, orphans: BOOLEAN, stale: BOOLEAN]

\* A process that starts: nothing applied, nothing known of the panel.
Fresh(n, applied, restored) ==
  [pc |-> "idle", applied |-> applied, probe |-> 0, update |-> 0, ack |-> 0,
   refresh |-> restored, monitor |-> restored, decommissioned |-> FALSE,
   state |-> IF restored THEN "applied" ELSE "connecting",
   version |-> disk[n].binary, d |-> NoDesired, retuned |-> FALSE]

Up(n) == agent[n].pc \in {"idle", "got", "install", "apply", "report"}
\* reconcile returns: its local variables are gone.
Returns(a, pc) == [a EXCEPT !.pc = pc, !.d = NoDesired, !.refresh = FALSE,
                            !.retuned = FALSE]
Set(n, a) == agent' = [agent EXCEPT ![n] = a]

\* What Reconcile, Restore and Decommission may leave on a node.  The
\* configurations of this module have services.
Plane(n) == INSTANCE DataPlane WITH
  Bare <- {}, saved <- disk[n].conf, dp <- dp[n], reported <- agent[n].applied
Leaves(n, outcomes) ==
  \E left \in outcomes :
    /\ left.conf = Broken => "mixture" \in Leftovers
    /\ left.orphans => "orphans" \in Leftovers
    /\ left.stale => "stale" \in Leftovers
    /\ dp' = [dp EXCEPT ![n] = left]
Clean == [conf |-> Nothing, orphans |-> FALSE, stale |-> FALSE]

ReportOf(a) ==
  [profile |-> a.applied[1], rev |-> a.applied[2], state |-> a.state,
   version |-> a.version, ack |-> a.ack, decommissioned |-> a.decommissioned]

-----------------------------------------------------------------------------
(* HTTP: a heartbeat the agent sees fail was refused, lost, processed with *)
(* its answer lost, or is still on its way                                 *)

Delivered(n, hb) ==
  /\ Authorised(n)
  /\ Heartbeat(n, hb)
  /\ UNCHANGED late

Failed(n, hb) ==
  /\ \/ UNCHANGED late
     \/ /\ Cardinality(late[n]) < MaxLate
        /\ late' = [late EXCEPT ![n] = @ \cup {hb}]
  /\ UNCHANGED storeVars

Sent(n, a) == Delivered(n, ReportOf(a)) \/ Failed(n, ReportOf(a))

LateArrives(n) ==
  \E hb \in late[n] :
    /\ Authorised(n)
    /\ Heartbeat(n, hb)
    /\ late' = [late EXCEPT ![n] = @ \ {hb}]
    /\ UNCHANGED <<agent, local>>

LateLost(n) ==
  \E hb \in late[n] :
    /\ late' = [late EXCEPT ![n] = @ \ {hb}]
    /\ UNCHANGED <<storeVars, agent, local>>

-----------------------------------------------------------------------------
(* Polling                                                                 *)

BadNotModified(n, d) ==
  LET a == agent[n] IN
  /\ d.profile = a.applied[1] /\ d.ip = a.applied[3]
  /\ d.rev = IF a.refresh THEN 0 ELSE a.applied[2]
  /\ d.probe = a.probe /\ d.update = a.update /\ d.restart = a.ack
  /\ d.tuning = disk[n].tuning

\* The panel answers 304: both sides compute the tag from the same fields.
\* The panel's tag of a node in decommission never matches.
NotModified(n, d) ==
  LET a == agent[n] IN
  /\ ~d.decommission
  /\ d.profile = a.applied[1] /\ d.ip = a.applied[3]
  /\ d.rev = IF a.refresh THEN 0 ELSE a.applied[2]
  /\ d.probe = a.probe /\ d.update = a.update /\ d.restart = a.ack
  /\ d.tuning = disk[n].tuning

\* The panel answers 409 to an agent too old for the configuration, unless the
\* node is being removed or updated.
Withheld(n, d) ==
  /\ revisions[d.profile][d.rev] > agent[n].version
  /\ ~d.decommission /\ d.update = 0

Poll(n) ==
  LET d == DesiredState(n) IN
  /\ agent[n].pc = "idle"
  /\ Authorised(n) /\ HasDesired(n)
  /\ ~Withheld(n, d) /\ ~NotModified(n, d)
  /\ Set(n, [agent[n] EXCEPT !.pc = "got", !.d = d, !.update = d.update,
                             !.retuned = d.tuning # disk[n].tuning])
  /\ disk' = [disk EXCEPT ![n].tuning = d.tuning]
  /\ UNCHANGED <<storeVars, dp, job, unit, late, count, restarts, served, undone>>

HeartbeatTick(n) ==
  /\ agent[n].pc = "idle"
  /\ Sent(n, agent[n])
  /\ UNCHANGED <<agent, local>>

\* The heartbeat after reconcile returned true; only here does the agent look
\* whether it is decommissioned.
FinalReportDelivered(n) ==
  LET a == agent[n] IN
  /\ a.pc = "report"
  /\ Delivered(n, ReportOf(a))
  /\ Set(n, [a EXCEPT !.pc = IF a.decommissioned THEN "exited" ELSE "idle"])
  /\ unit' = [unit EXCEPT ![n] = @ /\ ~a.decommissioned]
  /\ UNCHANGED <<disk, dp, job, count, restarts, served, undone>>

FinalReportFails(n) ==
  /\ agent[n].pc = "report"
  /\ Failed(n, ReportOf(agent[n]))
  /\ Set(n, [agent[n] EXCEPT !.pc = "idle"])
  /\ UNCHANGED local

-----------------------------------------------------------------------------
(* Handling a desired state, in the order of the branches of reconcile     *)

Handles(n) == agent[n].pc = "got"
Updates(n) == agent[n].d.update > agent[n].version
Restarts(n) == agent[n].d.restart > agent[n].ack
Differs(n) == Target(agent[n].d) # agent[n].applied

\* Self-update: download, verify and rename the binary, reporting each stage.
StartUpdate(n) ==
  /\ Handles(n) /\ Updates(n)
  /\ Sent(n, agent[n])
  /\ Set(n, [agent[n] EXCEPT !.pc = "install"])
  /\ UNCHANGED local

UpdateStage(n) ==
  /\ agent[n].pc = "install"
  /\ Sent(n, agent[n])
  /\ UNCHANGED <<agent, local>>

UpdateInstalled(n) ==
  /\ agent[n].pc = "install"
  /\ disk' = [disk EXCEPT ![n].binary = agent[n].d.update]
  /\ Sent(n, agent[n])
  /\ \/ /\ job' = [job EXCEPT ![n] = "update"]
        /\ Set(n, Returns(agent[n], "idle"))
     \/ /\ Set(n, Returns(agent[n], "report"))             \* systemctl failed
        /\ UNCHANGED job
  /\ UNCHANGED <<dp, unit, count, restarts, served, undone>>

BadUpdateFails(n) ==
  /\ agent[n].pc = "install"
  /\ Set(n, [agent[n] EXCEPT !.pc = "got", !.d.update = 0])
  /\ UNCHANGED <<storeVars, late, local>>

UpdateFails(n) ==
  /\ agent[n].pc = "install"
  /\ Set(n, Returns(agent[n], "report"))
  /\ UNCHANGED <<storeVars, late, local>>

DecommissionSucceeds(n) ==
  /\ Handles(n) /\ ~Updates(n) /\ agent[n].d.decommission
  /\ Leaves(n, Plane(n)!Served(Nothing))
  /\ disk' = [disk EXCEPT ![n].conf = Nothing]
  /\ Set(n, [Returns(agent[n], "report") EXCEPT !.state = "decommissioning",
                                                !.decommissioned = TRUE])
  /\ UNCHANGED <<storeVars, job, unit, late, count, restarts, served, undone>>

BadDecommissionFails(n) ==
  /\ Handles(n) /\ ~Updates(n) /\ agent[n].d.decommission
  /\ Leaves(n, Plane(n)!Halted(Nothing))
  /\ Set(n, [Returns(agent[n], "report") EXCEPT !.state = "error",
                                                !.decommissioned = TRUE])
  /\ UNCHANGED <<storeVars, disk, job, unit, late, count, restarts, served, undone>>

DecommissionFails(n) ==
  /\ Handles(n) /\ ~Updates(n) /\ agent[n].d.decommission
  /\ Leaves(n, Plane(n)!Halted(Nothing))
  /\ Set(n, [Returns(agent[n], "report") EXCEPT !.state = "error"])
  /\ UNCHANGED <<storeVars, disk, job, unit, late, count, restarts, served, undone>>

\* The nonce is taken over before the heartbeat that acknowledges it; when that
\* heartbeat fails, reconcile returns without restarting.
RestartByPanel(n) ==
  LET a == [agent[n] EXCEPT !.ack = agent[n].d.restart] IN
  /\ Handles(n) /\ ~Updates(n) /\ ~a.d.decommission /\ Restarts(n)
  /\ \/ /\ Delivered(n, ReportOf(a))
        /\ \/ /\ job' = [job EXCEPT ![n] = "restart"]
              /\ Set(n, Returns(a, "idle"))
           \/ /\ Set(n, Returns(a, "report"))              \* systemctl failed
              /\ UNCHANGED job
     \/ /\ Failed(n, ReportOf(a))
        /\ Set(n, Returns(a, "report"))
        /\ UNCHANGED job
  /\ UNCHANGED <<disk, dp, unit, count, restarts, served, undone>>

Proceeds(n) ==
  Handles(n) /\ ~Updates(n) /\ ~agent[n].d.decommission /\ ~Restarts(n)

StartApply(n) ==
  LET a == [agent[n] EXCEPT !.pc = "apply", !.state = "applying",
                            !.probe = agent[n].d.probe] IN
  /\ Proceeds(n) /\ Differs(n)
  /\ Set(n, a)
  /\ Sent(n, a)
  /\ UNCHANGED local

Commits(n) ==
  LET d == agent[n].d IN
  /\ Leaves(n, Plane(n)!Served(Target(d)))
  /\ disk' = [disk EXCEPT ![n].conf = Target(d)]
  /\ served' = served \cup {<<n, d.profile, d.rev, d.reset>>}

ApplySucceeds(n) ==
  /\ agent[n].pc = "apply"
  /\ Commits(n)
  /\ Set(n, [Returns(agent[n], "report") EXCEPT
               !.applied = Target(agent[n].d), !.state = "applied", !.monitor = TRUE])
  /\ UNCHANGED <<storeVars, job, unit, late, count, restarts, undone>>

BadApplyFails(n) ==
  /\ agent[n].pc = "apply"
  /\ Leaves(n, Plane(n)!Partial(Target(agent[n].d)))
  /\ Set(n, [Returns(agent[n], "report") EXCEPT !.state = "error",
                                                !.applied = Target(agent[n].d)])
  /\ UNCHANGED <<storeVars, disk, job, unit, late, count, restarts, served, undone>>

ApplyFails(n) ==
  /\ agent[n].pc = "apply"
  /\ Leaves(n, Plane(n)!Partial(Target(agent[n].d)))
  /\ Set(n, [Returns(agent[n], "report") EXCEPT !.state = "error"])
  /\ UNCHANGED <<storeVars, disk, job, unit, late, count, restarts, served, undone>>

\* A restored agent, or one without a monitor, takes the health settings of the
\* revision it already serves; saving them may fail.
RefreshMonitor(n) ==
  LET a == [Returns(agent[n], "report") EXCEPT !.probe = agent[n].d.probe] IN
  /\ Proceeds(n) /\ ~Differs(n)
  /\ ~agent[n].monitor \/ agent[n].refresh
  /\ \/ Set(n, [a EXCEPT !.state = "applied", !.monitor = TRUE])
     \/ Set(n, [a EXCEPT !.state = "error"])
  /\ UNCHANGED <<storeVars, late, local>>

\* Nothing to apply: a probe or a changed tuning is reported at once.
NothingToApply(n) ==
  LET a == agent[n] reports == a.d.probe # a.probe \/ a.retuned IN
  /\ Proceeds(n) /\ ~Differs(n)
  /\ a.monitor /\ ~a.refresh
  /\ Set(n, [Returns(a, IF reports THEN "report" ELSE "idle") EXCEPT !.probe = a.d.probe])
  /\ UNCHANGED <<storeVars, late, local>>

-----------------------------------------------------------------------------
(* Processes: crash, reboot, systemd, start                                *)

\* A process that dies inside Reconcile or Decommission leaves what a failure
\* leaves, or has already written the state file.
Dies(n) ==
  /\ Set(n, [Fresh(n, Nothing, FALSE) EXCEPT !.pc = "down"])
  /\ job' = [job EXCEPT ![n] = "none"]
  /\ restarts' = [restarts EXCEPT ![n] = IF job[n] = "restart" THEN @ + 1 ELSE @]
  /\ \/ UNCHANGED <<disk, dp, served>>
     \/ /\ agent[n].pc = "apply"
        /\ Leaves(n, Plane(n)!Partial(Target(agent[n].d)))
        /\ UNCHANGED <<disk, served>>
     \/ agent[n].pc = "apply" /\ Commits(n)
     \/ /\ Handles(n) /\ ~Updates(n) /\ agent[n].d.decommission
        /\ Leaves(n, Plane(n)!Halted(Nothing))
        /\ UNCHANGED <<disk, served>>
  /\ UNCHANGED <<storeVars, unit, late, undone>>

\* systemd stops the old process some time after the agent asked for it.
JobRuns(n) ==
  /\ job[n] # "none" /\ Up(n)
  /\ Dies(n)
  /\ UNCHANGED count

Crash(n) ==
  /\ Up(n)
  /\ count.crashes < MaxCrashes
  /\ count' = [count EXCEPT !.crashes = @ + 1]
  /\ Dies(n)

Reboot(n) ==
  /\ agent[n].pc \in {"down", "exited"}
  /\ count.crashes < MaxCrashes
  /\ count' = [count EXCEPT !.crashes = @ + 1]
  /\ dp' = [dp EXCEPT ![n] = Clean]
  /\ UNCHANGED <<storeVars, agent, disk, job, unit, late, restarts, served, undone>>

\* main: Restore rebuilds the state file's services before the panel is asked.
\* The state of a node that applied nothing touches nothing.
Start(n) ==
  LET conf == disk[n].conf some == conf[2] > 0 IN
  /\ agent[n].pc = "down" /\ unit[n]
  /\ row[n].status # "absent"
  /\ Set(n, Fresh(n, conf, some))
  /\ IF some THEN Leaves(n, Plane(n)!Served(conf)) ELSE UNCHANGED dp
  /\ UNCHANGED <<storeVars, disk, job, unit, late, count, restarts, served, undone>>

BadUnrestored(n, conf) == Fresh(n, conf, TRUE)
BadTypeUnrestored(n, conf) == Fresh(n, [conf EXCEPT ![2] = -1], FALSE)
Unrestored(n, conf) == Fresh(n, [conf EXCEPT ![2] = 0], FALSE)

\* Restore fails: revision 0 is reported, with the profile and address saved.
StartUnrestored(n) ==
  LET conf == disk[n].conf IN
  /\ agent[n].pc = "down" /\ unit[n]
  /\ row[n].status # "absent"
  /\ conf[2] > 0
  /\ Set(n, Unrestored(n, conf))
  /\ Leaves(n, Plane(n)!Halted(conf))
  /\ UNCHANGED <<storeVars, disk, job, unit, late, count, restarts, served, undone>>

-----------------------------------------------------------------------------
(* ezhiklb-agent --uninstall, run by the script after it stopped the agent *)

UninstallRequest(n) ==
  /\ "uninstall" \in AdminOps
  /\ count.ops < MaxOps
  /\ count' = [count EXCEPT !.ops = @ + 1]
  /\ agent[n].pc \in {"down", "idle"}
  /\ job' = [job EXCEPT ![n] = "none"]
  /\ \/ /\ Authorised(n) /\ MarkDeleting(n)
        /\ Set(n, [agent[n] EXCEPT !.pc = "clean"])
     \/ /\ Authorised(n) /\ MarkDeleting(n)                \* answer lost
        /\ Set(n, [agent[n] EXCEPT !.pc = "cleanlocal"])
     \/ /\ Set(n, [agent[n] EXCEPT !.pc = "cleanlocal"])
        /\ UNCHANGED storeVars
  /\ UNCHANGED <<disk, dp, unit, late, restarts, served, undone>>

UninstallClean(n) ==
  /\ agent[n].pc \in {"clean", "cleanlocal"}
  /\ \/ /\ Leaves(n, Plane(n)!Served(Nothing))
        /\ disk' = [disk EXCEPT ![n].conf = Nothing]
        /\ Set(n, [agent[n] EXCEPT !.pc = IF @ = "clean" THEN "confirm" ELSE "exited"])
        /\ unit' = [unit EXCEPT ![n] = @ /\ agent[n].pc = "clean"]
     \/ /\ Leaves(n, Plane(n)!Halted(Nothing))                  \* kept for a retry
        /\ Set(n, [agent[n] EXCEPT !.pc = "down"])
        /\ UNCHANGED <<disk, unit>>
  /\ UNCHANGED <<storeVars, job, late, count, restarts, served, undone>>

UninstallConfirm(n) ==
  LET a == [Fresh(n, Nothing, FALSE) EXCEPT !.state = "decommissioning",
                                            !.decommissioned = TRUE] IN
  /\ agent[n].pc = "confirm"
  /\ Sent(n, a)
  /\ Set(n, [a EXCEPT !.pc = "exited"])
  /\ unit' = [unit EXCEPT ![n] = FALSE]
  /\ UNCHANGED <<disk, dp, job, count, restarts, served, undone>>

-----------------------------------------------------------------------------
\* A step of an administrator, counted; the history variable remembers whose
\* decommission it cancelled.
Admin ==
  /\ count.ops < MaxOps
  /\ AdminNext
  /\ count' = [count EXCEPT !.ops = @ + 1]
  /\ undone' = undone \cup {n \in Nodes : row[n].status = "deleting"
                              /\ row'[n].status \notin {"deleting", "removed"}}
  /\ UNCHANGED <<agent, disk, dp, job, unit, late, restarts, served>>

\* Profiles are created, and every node is enrolled on one of them and its
\* agent installed but not started.
Init ==
  /\ revisions = [p \in Profiles |-> <<1>>]
  /\ deleted = {}
  /\ row \in [Nodes -> {[Blank("connecting") EXCEPT !.profile = p, !.desired = 1,
                                                    !.cred = "agent"] : p \in Profiles}]
  /\ req = [h \in Handlers |-> Idle]
  /\ disk = [n \in Nodes |-> [conf |-> Nothing, binary |-> 1,
                              tuning |-> CHOOSE t \in Tunings : TRUE]]
  /\ agent = [n \in Nodes |->
               [pc |-> "down", applied |-> Nothing, probe |-> 0, update |-> 0,
                ack |-> 0, refresh |-> FALSE, monitor |-> FALSE,
                decommissioned |-> FALSE, state |-> "connecting", version |-> 1,
                d |-> NoDesired, retuned |-> FALSE]]
  /\ dp = [n \in Nodes |-> Clean]
  /\ job = [n \in Nodes |-> "none"]
  /\ unit = [n \in Nodes |-> TRUE]
  /\ late = [n \in Nodes |-> {}]
  /\ count = [ops |-> 0, crashes |-> 0]
  /\ restarts = [n \in Nodes |-> 0]
  /\ served = {}
  /\ undone = {}

Handle(n) ==
  \/ StartUpdate(n) \/ UpdateStage(n) \/ UpdateInstalled(n) \/ UpdateFails(n)
  \/ DecommissionSucceeds(n) \/ DecommissionFails(n)
  \/ RestartByPanel(n)
  \/ StartApply(n) \/ ApplySucceeds(n) \/ ApplyFails(n)
  \/ RefreshMonitor(n) \/ NothingToApply(n)

\* Without heartbeats that overtake others and without the uninstall script.
ServiceNext ==
  \/ Admin
  \/ \E n \in Nodes :
       \/ Poll(n) \/ HeartbeatTick(n) \/ Handle(n)
       \/ FinalReportDelivered(n) \/ FinalReportFails(n)
       \/ JobRuns(n) \/ Crash(n) \/ Reboot(n) \/ Start(n) \/ StartUnrestored(n)

Next ==
  \/ ServiceNext
  \/ \E n \in Nodes :
       \/ LateArrives(n) \/ LateLost(n)
       \/ UninstallRequest(n) \/ UninstallClean(n) \/ UninstallConfirm(n)

Spec == Init /\ [][Next]_vars

\* No command of the apply in progress is refused because of what an earlier
\* call left behind.  Reconcile adds what is new (ipvsadm -A and -a) and deletes
\* what is obsolete, so it needs the state file's configuration, and nothing
\* else, in place; what stays it edits (-E and -e) and adds where that fails.
Accepts(n) ==
  /\ ~dp[n].stale
  /\ \/ dp[n].conf = disk[n].conf /\ ~dp[n].orphans
     \/ Target(agent[n].d) = disk[n].conf /\ ~agent[n].d.reset

\* systemd starts and restarts the unit and the loop of the agent goes on, so
\* its steps are weakly fair.  The network, the data plane commands and the
\* release download do not fail forever: what is retried again and again
\* succeeds in the end (strong fairness).  An apply does so only on a node that
\* accepts its commands (CleanReconcileFits of Reconciler): what a failed
\* rollback or a crash left behind may be refused again and again, until the
\* node is rebooted.  Decommission forgives deletions of what is not there.
\* Crashes, reboots and administrators need not happen.  Nothing of this holds
\* of a node somebody uninstalls by hand: the script stops the unit, and nobody
\* need repeat it.
Fairness ==
  \A n \in Nodes :
    /\ WF_vars(Start(n) \/ StartUnrestored(n))
    /\ WF_vars(JobRuns(n))
    /\ WF_vars(Poll(n))
    /\ WF_vars(Handle(n))
    /\ WF_vars(FinalReportDelivered(n) \/ FinalReportFails(n))
    /\ SF_vars(FinalReportDelivered(n))
    /\ SF_vars(HeartbeatTick(n) /\ UNCHANGED late)
    /\ SF_vars(ApplySucceeds(n) /\ Accepts(n))
    /\ SF_vars(DecommissionSucceeds(n))
    /\ SF_vars(UpdateInstalled(n) /\ job'[n] = "update")

FairSpec == Init /\ [][ServiceNext]_vars /\ Fairness

-----------------------------------------------------------------------------
(* Properties                                                              *)

TypeOK ==
  /\ StoreTypeOK
  /\ agent \in [Nodes -> Agent]
  /\ disk \in [Nodes -> Disk]
  /\ dp \in [Nodes -> Planes]
  /\ job \in [Nodes -> {"none", "restart", "update"}]
  /\ unit \in [Nodes -> BOOLEAN]
  /\ late \in [Nodes -> SUBSET Report]
  /\ count \in [ops: Nat, crashes: Nat]
  /\ restarts \in [Nodes -> Nat]
  /\ served \in SUBSET (Nodes \X Profiles \X Nat \X BOOLEAN)
  /\ undone \in SUBSET Nodes

\* An agent says "applied" only while the data plane serves, and the state file
\* holds, exactly the configuration it reports: every failed or interrupted
\* reconciliation, restore or clean-up shows as another apply state.  Only of a
\* HAProxy that still runs what an earlier reload did not replace it knows nothing.
UnservedIsFlagged ==
  \A n \in Nodes : Up(n) /\ agent[n].state = "applied" =>
    /\ dp[n].conf = agent[n].applied \/ dp[n].stale
    /\ disk[n].conf = agent[n].applied

\* A configuration that needs a newer agent is never put into the data plane by
\* an older one: the publication and assignment gates skip nodes that never
\* connected, a pending update switches the 409 off, and an update may fail.
NoUnsupportedApplied ==
  \A n \in Nodes :
    LET conf == dp[n].conf IN
    Up(n) /\ conf[2] > 0 /\ Live(conf[1]) => revisions[conf[1]][conf[2]] <= agent[n].version

\* The panel never shows a revision as applied that no reconciliation of the
\* node completed: whatever is reported, now or late, from a restored state file
\* or after a failure, was committed on that node before.
ShownWasServed ==
  \A n \in Nodes : row[n].applied > 0 =>
    \E reset \in BOOLEAN : <<n, row[n].appliedProfile, row[n].applied, reset>> \in served

\* A requested restart happens at most once ("the action does not loop"): the
\* new process forgets what it acknowledged, the panel does not, also when an
\* old heartbeat arrives late.
RestartsBounded ==
  \A n \in Nodes : Exists(n) =>
    restarts[n] + (IF job[n] = "restart" THEN 1 ELSE 0) <= row[n].nonce

\* The panel forgets a node, other than by force, only when it serves nothing of
\* its configuration, unless an administrator cancelled the decommission halfway.
CleanBeforeForgotten ==
  [][\A n \in Nodes :
       Exists(n) /\ row'[n].status = "removed" /\ count'.ops = count.ops
         => dp[n].conf = Nothing \/ n \in undone]_vars

\* A heartbeat of the node's own profile clears a connection reset only after
\* the agent committed that revision with the reset.
ResetPerformed ==
  [][\A n \in Nodes :
       /\ Exists(n) /\ row'[n].status # "removed" /\ count'.ops = count.ops
       /\ row[n].reset > 0 /\ row'[n].reset = 0
       => \/ <<n, row[n].profile, row[n].reset, TRUE>> \in served
          \/ row'[n].appliedProfile # row[n].profile]_vars

\* A node that can be served: enabled, reachable with its credential, with a
\* profile its agent is new enough for, and not taken out of service.
Settled(n) ==
  /\ Authorised(n) /\ HasDesired(n) /\ row[n].status # "deleting"
  /\ unit[n] /\ n \notin undone
  /\ ~Withheld(n, DesiredState(n))

\* A data plane that holds all of what the state file names and nothing else,
\* and a HAProxy that runs what its file says.
InOrder(n) == dp[n] = [Clean EXCEPT !.conf = disk[n].conf]

\* Once administrators, crashes and failures stop, every node that can be
\* served and whose data plane is in order (nothing failed, what failed was
\* rolled back, or a reboot and a restore came in between) ends up serving the
\* revision the panel wants, and the panel knows.
Converges ==
  \A n \in Nodes :
    <>[](Settled(n) /\ InOrder(n) =>
           /\ dp[n].conf = Target(DesiredState(n))
           /\ <<row[n].appliedProfile, row[n].applied>> = <<row[n].profile, row[n].desired>>)

\* A node marked for deletion is eventually forgotten, or its decommission is
\* cancelled, while its agent still has a credential and a profile.
DecommissionCompletes ==
  \A n \in Nodes :
    row[n].status = "deleting" ~>
      row[n].status # "deleting" \/ ~Authorised(n) \/ ~HasDesired(n)

\* docs/TESTING.md: "Confirm the request is acknowledged before
\* ezhiklb-agent.service restarts": an acknowledgement the panel records is the
\* one after which the agent turns to systemd.
AckedRestartHappens ==
  [][\A n \in Nodes :
       Exists(n) /\ row'[n].status # "removed" /\ row'[n].ack > row[n].ack
         => Handles(n) /\ Restarts(n)]_vars

\* docs/ARCHITECTURE.md: "a successful heartbeat acknowledging the revision
\* clears the marker": the marker is not cleared without a reset.
ResetAcknowledged ==
  [][\A n \in Nodes :
       /\ Exists(n) /\ row'[n].status # "removed" /\ count'.ops = count.ops
       /\ row[n].reset > 0 /\ row'[n].reset = 0
       => <<n, row[n].profile, row[n].reset, TRUE>> \in served]_vars

\* docs/ARCHITECTURE.md: the agent "reports completion, disables its systemd
\* unit and exits".
ForgottenAgentStops ==
  \A n \in Nodes :
    Up(n) /\ agent[n].decommissioned /\ row[n].status = "removed" ~> ~unit[n]

=============================================================================
