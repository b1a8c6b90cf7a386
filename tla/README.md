# EzhikLB: a TLA+ model

EzhikLB is a layer-4 load balancer with a control plane. A *panel* keeps profiles
(sets of listeners and backends) and nodes in SQLite; an *agent* on every node
polls the panel for the state the node should be in, puts it into IPVS, HAProxy
and the firewall, and reports back with heartbeats. This directory models that
protocol, the commands the agent runs on its node, and the algorithms both sides
rely on. Paths are relative to the repository (`src/`).

Contents: [inventory](#inventory) · [modules](#modules) · [runs](#runs) ·
[fairness](#fairness) · [proofs](#proofs) · [findings](#findings) ·
[what is not modelled](#what-is-not-modelled) · [plan](#plan)

Everything here is run from this directory:

    tlc -workers 2 -config Panel_store.cfg MCPanelScenarios.tla
    tlapm TCPMemory_proofs.tla

## Inventory

| Part | Source | State | Operations | Correct means |
|---|---|---|---|---|
| Panel store | `internal/store/store.go` | SQLite: profiles, revisions, nodes, credentials, probe requests, telemetry | create, publish, roll back, clone, delete profiles; create, assign, enable, delete nodes; rotate and revoke credentials; request restart, update, probe, reset; heartbeat | a node points at a revision that exists; a reset marker belongs to it; a disabled node is not revived; a node goes away only when it is being deleted |
| Traffic totals | `internal/store/store.go` | previous counters, totals of node and records, day of the reset | count a heartbeat, reset by hand or by the month, change the settings | no byte twice; the parts add up; the reset is neither missed nor repeated |
| Panel API | `internal/api/server.go` | none of its own | administrator handlers, the agent's `desired`, `heartbeat`, `decommission` | unchanged polls get 304, changes are always delivered; agents too old for a configuration are refused |
| Sessions, login limiter | `internal/api/session.go` | revoked sessions, recent failures | issue, parse, revoke, fail, succeed | a revoked session stays revoked; attempts are bounded |
| Agent main loop | `cmd/ezhiklb-agent/main.go` | what it applied, acknowledged and last saw | poll, handle (update, decommission, restart, apply, monitor, probe), report | it converges, it claims only what is served, a restart does not loop |
| Uninstall | `cmd/ezhiklb-agent/uninstall.go` | none | request, clean, confirm | the panel forgets the node only after the cleanup |
| Reconciler | `internal/agent/reconciler.go`, `haproxy.go` | `state.json`; IPVS, HAProxy, iptables | Restore, Reconcile, Decommission | nothing that both revisions serve is interrupted; a failure leaves what the main loop can cope with |
| Inbound firewall | `internal/agent/hidden.go` | chain and jump, the ports `state.json` has | install, roll back, remove, restore, check every minute | a hidden node stays reachable; a plain node has no chain |
| Routing of hidden profiles | `internal/agent/hidden.go`, `internal/domain/model.go` | none | Validate, compileServices, routing order | no two records share a socket; the most specific route wins; every route is reached |
| Traffic control | `internal/agent/traffic_control.go` | policers, marks, slots | reconcileTrafficControl | every limited listener has a limiter of its own, also while it is replaced |
| Health monitor | `internal/agent/health.go` | result per backend address | Run, CheckNow, Reset | weights follow the replies, thresholds are kept |
| TCP memory tuner | `internal/agent/tcpmem.go` | settings and limit, in memory and on disk | SetSettings, Tick, adjust | the reserve stays free; the limit of somebody else is not lowered |
| Self-updater | `internal/agent/updater.go` | the binary | InstallAgentUpdate | a verified binary or the old one |
| Receive steering, metrics, statistics, diagnostics | `internal/agent/rps.go`, `metrics.go`, `stats.go`, `diagnostics.go` | last samples | collectors and parsers | – |
| Panel process, web UI, scripts | `cmd/ezhiklb/main.go`, `web/`, `scripts/` | – | start-up, views, installation | – |

How they interact. Administrators call the panel API, whose goroutines share one
SQLite connection: a statement, or a transaction, is atomic, a handler is not.
The agent is a single goroutine with timers (5 s poll, 15 s heartbeat, a minute for
the tuner and the inbound firewall) that talks to the panel with HTTP requests
that may fail on either side of their effect. It calls the reconciler, which
changes the data plane command by command and writes `state.json` last; the
health monitor, a second goroutine, changes weights of the same data plane.
systemd starts, restarts and, on request of the agent, stops the process; a
reboot empties the data plane but not the disk.

What is hard here: handlers that read in one statement and write in another;
acknowledgements that are lost, late or repeated (restart, decommission,
connection reset); revision numbers that are unique within a profile only; an
entity tag computed on both sides from what each believes; a crash or a refused
command between any two of some twenty commands, and rollbacks that may fail in
turn; what the state file says against what the kernel has; a health monitor that
outlives its configuration; counters that restart; old agents and new
configurations. PROJECT.json lists each of these at its line, with the properties
that watch it.

## Modules

| Module | Models |
|---|---|
| `PanelStore` | The panel's database and the administrator handlers. |
| `DataPlane` | What a call of the reconciler may leave on a node, in one step: the abstract specification of `Reconciler`, and what `ControlLoop` is built on. |
| `ControlLoop` | EXTENDS `PanelStore` with the agent, its disk, its data plane (the outcomes of `DataPlane`), HTTP, systemd, crashes and `--uninstall`. |
| `Reconciler` | Reconcile, Restore and Decommission command by command; implements `DataPlane`. |
| `HealthMonitor` | Monitor goroutines, manual probes and their replacement by the main loop. |
| `InputFirewall` | The inbound chain of a hidden node, the calls that change it, ssh that moves. |
| `RateLimits` | Slots, policers and marks of limited listeners. |
| `TCPMemory` | The tuner of `tcp_mem`. |
| `Traffic` | Traffic totals and their resets. |
| `ProfileRules` | Validation, compilation and routing of a profile, as operators over a draft. |
| `PanelStore_proofs`, `ControlLoop_proofs`, `Traffic_proofs`, `HealthMonitor_proofs`, `ProfileRules_proofs`, `TCPMemory_proofs`, `ReconcilerPhases_proofs` (of `InputFirewall` and `RateLimits`), `Reconciler_proofs` | The theorems, see [proofs](#proofs). |
| `MCPanelStore`, `MCControlLoop`, `MCReconciler`, `MCHealthMonitor` | Model values and definitions for one module. |
| `MCPanelScenarios`, `MCControlScenarios`, `MCParts` | Several instances in one run, see [runs](#runs). |

How they hang together: `ControlLoop` composes panel and agent. Its calls of the
reconciler are single steps whose outcomes are the operators of `DataPlane`
(`Plane(n)!Served`, `Partial`, `Halted`); `reported` is the state the agent claims.
Its configurations all have services (`Bare <- {}`). `Reconciler` shows,
with `Plane == INSTANCE DataPlane WITH ...`, that its commands produce no
other outcome. `InputFirewall` and `RateLimits` take two phases of `Reconciler` and
look inside: ports and slots, which `Reconciler` has as one item each.
`HealthMonitor` starts where a successful Reconcile ends. `Traffic`, `TCPMemory` and
`ProfileRules` share no state with the others.

Definitions keep the names of the Go functions where there is one. A definition
named `Bad...` is the one after it with one plausible mistake (a dropped guard, a
missing reset); no specification uses it. Putting it in the other's place makes
one of the properties fail, which shows that the property watches that code.
Variables marked *history* appear in no guard.

### PanelStore

`row[n]` is the node's row joined with its credential, `revisions[p]` the revisions
of a profile, `req[h]` the local variables of handler goroutine `h` between two
statements.

* **Atomicity.** `Open` limits the pool to one connection. `PublishRevision`,
  `ForceDeleteNode`, `Heartbeat` are transactions: one action. `AssignProfile` is
  three (`AssignProfileRead`, `AssignProfileGate` only for a configuration with a
  minimal agent version, `AssignProfileUpdate`), `CreateNode` two, `DeleteProfile`
  two, `RotateNodeCredential` and `RevokeNodeCredential` two. `Abandon` is a
  handler that stops in between, by an error or by a restart of the panel.
* **Versions.** The gates for rate limits, hidden profiles, HTTP routes and
  hidden ports all compare the agent version with a constant, so a revision is
  modelled as the lowest version that can apply it. Version 0 is the empty
  string of a node that never connected. Gates skip it, except a publication with
  a connection reset. The additional floor for agents so old that they cannot
  update themselves is left out: all agents here can.
* **Foreign keys.** `profile_id` is ON DELETE SET NULL (`Unassign`), revisions and
  credentials cascade.
* **Heartbeat** keeps its order: refuse a disabled node, forget a decommissioned
  one, otherwise write status, applied revision, update target, restart
  acknowledgement (`AckAfter`, which only grows) and reset marker (`ResetAfter`).
  In `StoreSpec` a heartbeat may have any content, in `ControlLoop` only what the
  agent sends.

### ControlLoop

| Code | Model |
|---|---|
| local variables of `main`: `applied`, `appliedProfile`, `appliedIngress`, `applyState`, `restartAck`, `lastHealthProbe`, `lastUpdateTarget`, `decommissioned`, `restoreNeedsProfile` | fields of `agent[n]` |
| where the goroutine is | `agent[n].pc` |
| `state.json`, `tcp-tuning.json`, the binary | `disk[n]` |
| IPVS, HAProxy, firewall | `dp[n]`: the configuration completely served, or `Broken`; whether there are orphans; whether HAProxy is stale |
| `systemctl --no-block restart`, asked for but not yet carried out | `job[n]` |
| the unit being enabled | `unit[n]` |
| a request that outlived the client's timeout | `late[n]` |

The answer to a poll is `NotModified` (304: the two entity tags agree),
`Withheld` (409) or the desired state. The branches of `reconcile` are actions in
their order: `StartUpdate` … `UpdateFails`, `DecommissionSucceeds/Fails`,
`RestartByPanel`, `StartApply` … `ApplyFails`, `RefreshMonitor`, `NothingToApply`.
Every heartbeat is `Sent`: delivered and answered, or, for the agent, failed:
never processed, or processed later (`LateArrives`). A heartbeat that was
processed but whose answer was lost is a failed one that arrives late at once.

`Leftovers` bounds what a failed call leaves: a mixture of two configurations,
orphans, a stale HAProxy. An apply has every outcome `DataPlane` allows, whatever the
node holds: that it may be refused again and again is a matter of [fairness](#fairness)
(`Accepts`). The gates of `PublishRevision` skip agents that never connected; the one
for rate limits does not in the code, which therefore publishes in fewer states.

`count` bounds behaviours. `restarts`, `served` and `undone` are history variables:
restarts the panel asked for, revisions committed, each with or without a connection
reset, and nodes whose decommission an administrator cancelled.

### DataPlane and Reconciler

The kernel and the running HAProxy are a set `present` of items: IPVS services and
destinations, rules and jumps of the managed chains, limiters, marks, the HAProxy
configuration the workers run. A command is a record of the items it `needs`,
those it `clash`es with, those it `drop`s and `add`s: `ipvsadm -A` clashes with an
existing service, `-E || -A` does not, `iptables -D` needs the rule. A refused
command changes nothing.

| Code | Model |
|---|---|
| body of Reconcile, Restore, Decommission | `ReconcilePhases`, `RestorePhases`, `DecommissionPhases`: which phases, under which condition, in which order |
| applyFirewall, applyIPVS, applyHAProxy, EnsureInputFirewall, reconcileTrafficControl, saveState | `Plans`: the commands of a phase. applyIPVS goes service by service: `left` of the phase are those it has still to come to, `Turn` those the range over a Go map may take next, `ServicePlan` the commands of one |
| the error branch of each phase | `Rollback` |
| the mutex | one `call` at a time |
| a refused command; the process dies; a reboot | `CommandFails`, `Crash`, `Reboot` |

`Observed` is what `DataPlane` calls `dp`: the configuration all of whose `Parts` are
present, whether anything is present that neither it nor the state file names
(*orphans*), and whether HAProxy runs something else than `haproxy.cfg` holds
(*stale*). The refinement maps a call in progress to the state it began in, so that a
call is one step when it ends: `Contract` is `PlaneSpec` under that mapping.
`reported`, a variable of both, is what the last call said is in place: without it a
success that did nothing would be indistinguishable from a failure.

The rename of `haproxy.cfg` and the reload are two commands, as in the code
(`haproxy.go:131`, 132). When the second is refused, or the process dies between them,
the file is the new one and the workers run the old. The next call with that file
finds it unchanged and HAProxy active, sets weights and reports success
(`HAProxy`, the empty plan): `Served` of a stale node contains `Broken`. That is what
the main loop has to live with, and why `UnservedIsFlagged` excepts a stale node.

`Restore` returns at once for a state file without services (`reconciler.go:335`),
also a hidden one, whose inbound chain it then does not restore: `Bare` are the
configurations without services, and `Restored` of one of them leaves `dp` as it is
and says all is well. (ARCHITECTURE.md:113-115 says of the chain that "Restore
re-applies it at boot". A profile without an enabled listener forwards nothing, and
the minute's check installs the chain; no run is devoted to it.)

`DataPlane!Partial` contains `Nothing` with orphans: a node with a TCP-only profile that
reboots, cannot restore and then fails the next Reconcile after its first firewall
command serves nothing and holds a chain no state file will ever name. It takes
four calls to get there, the number the run makes; the proofs cover calls without number.

`Foreign` items, virtual services somebody else put on the host, must not be those of a
configuration, and none may be in the chains, limiters or workers that are EzhikLB's own.

### HealthMonitor

`rounds[r]` is the goroutine of monitor `r`, number 0 a manual probe in the main
loop: waiting for its tick, with the services it `read`, waiting for the
`lock`, `ping`ing, `assert`ing weights, or `done`. `ReplaceMonitor` is what the main
loop does some time after Reconcile returned: cancel, `Reset`, start the next.
The counters are shared (`result`), but the weight a round writes follows the
`verdict` it took away from its own ping, which `Reset` does not touch. A ping of a
cancelled round fails at once and is counted all the same (history: `aborted`; `missed`
are the pings a backend left unanswered); `StopRun` is select taking the closed channel, which it need not do as
long as the ticker is ready too.

### InputFirewall

| Code | Model |
|---|---|
| `EZHIKLB-INPUT` and the jump to it | `inChain` (ports by protocol, replaced at once by `iptables-restore`), `inJump` |
| hidden, ports of ssh and of the records in `state.json` | `inState` |
| Reconcile of a hidden or plain profile, its rollback, Restore, the minute's check | `inCall`: `PublishHidden`, `PublishPlain`, `StepFails`, `RestoreInput`, `EnsureInputFirewall` |
| the steps: chain, jump; jump away, chain away; state file | `ReplaceChain`, `InsertJump`, `RemoveJump`, `RemoveInChain`, `SaveInput` |
| sshd starts on another port; another tool removes the jump | `SSHMoves`, `JumpRemoved` |

A state has a flag `services`: a hidden profile without an enabled record is valid, and
`RestoreInput` returns at once for it, looks at no chain and vouches for nothing.

History: `vouched`, that the last call did its work and reported success, and the host
has not changed since; `torn`, that a call was cut off or could not be undone since the
last one that saved.

### RateLimits

`SlotsOf` is `allocateRateSlots`: listeners in sorted order, from the hashed slot on
to the first free one. `Controls` has one policer per device and direction. A
call installs the new ones, replaces the mark chain at once, then deletes those
that are obsolete; a refusal starts a call back to the limits of the state file.
Routes move between calls, so the same limits need another device.

### TCPMemory

`tuner` is the tuner's memory, `tunerFile` what `tcp-tuning.json` has, which may be
older after a save that failed; `tcpMem` is the kernel's. `Tick` is a
minute's `adjust`: expand by 5 percent under pressure, never above the ceiling, lower only what is its
own (`Keeps`). `TickRefused` is one whose write fails. `WrittenBehind`,
`Restarted`, `Rebooted` are everybody else. Arithmetic is that of Go's
integers, with RAM a multiple of 100 pages so that `total / 100` is exact.

### Traffic

Each of the two data planes is one row, since the services of one are read, missing
and reloaded together and the panel counts every row by itself. `counter` is the
node's, `previous` what `service_stats` holds, `totals` and `node.total` the sums. `CountHeartbeat(rows)` is the transaction for a heartbeat that
carries the counters of `rows`, after the due reset (`TrafficResetDue`); a heartbeat
with the rows of only one of IPVS and HAProxy is `torn`. `NextDay` moves the
calendar. `carried` and `owed` are what an onlooker would count and expect.

### ProfileRules

The only behaviour is an administrator who edits a draft (`AddListener`,
`RemoveListener`, `ToggleHidden`); the properties are about every draft that `Valid`
accepts. `Conflict`, `RightHidden`, `Unique` are the checks of `Validate` (which
looks at disabled records too), `ServicesOf` and `SharedSockets` what
`compileServices` makes of a record, `Earlier` the comparison that `orderedRoutes`
sorts by, `Routes(c)` the records a connection ends at.

## Runs

| Run | Checks | Instance |
|---|---|---|
| `panel_store` | `StoreTypeOK`, `DesiredExists`, `ResetMarksDesired`, `RequestsStayValid`, `DisabledNeverOnline`, `OnlyDeletingRemoved` | *races*: 2 profiles of 2 revisions, 1 node, 2 handlers. *lifecycle*: revisions fixed, every status change, restart and probe, heartbeats of any content |
| `control_loop` | `TypeOK`, `UnservedIsFlagged`, `NoUnsupportedApplied`, `RestartsBounded`, `ShownWasServed`, `ResetPerformed`, `CleanBeforeForgotten` | 3 administrator steps and 1 crash. *delivery*: 2 profiles, 2 revisions, 2 releases, a probe; failed calls leave mixtures. *settings*: 2 addresses, 2 tunings, a restart, a late heartbeat. *removal*: delete, enable, uninstall, a late heartbeat; failed calls leave mixtures or a stale HAProxy |
| `liveness` | `Converges`, `DecommissionCompletes` | 2 revisions, 2 releases, a restart, 2 administrator steps, 1 crash, failed calls that leave orphans, fairness |
| `health` | `HealthTypeOK`, `OutAfterFailures`, `WeightsFollow` | 2 backends, one behind HAProxy; 3 policies (one disabled); 2 monitors, a probe, 1 change of a backend; fairness |
| `parts`: reconciler | `TypeOK`, `Contract`, `ForwardedIsAccepted`, `NoGap`, `CleanReconcileFits` | 4 configurations (UDP only; UDP, TCP and a limit; hidden with TCP; hidden without services), 4 calls, 2 faults, 2 crashes |
| `parts`: tcpmem | `TunerTypeOK`, `AdaptiveFits`, `ReserveKept`, `ManualKept` | 2 RAM sizes, load and memory at both ends, 2 changes of the settings, 2 outside steps |
| `parts`: limits | `LimitsExact`, `LimitKept` | 3 listeners, two of one hash, 3 slots, 5 profiles, 2 devices, 2 calls, a refusal, a route change or crash |
| `parts`: input | `HiddenIsReachable`, `PlainIsOpen` | 2 sets of ssh ports, with and without a UDP record, 3 publications, 2 failures, 2 changes of the host |
| `parts`: traffic | `TrafficTypeOK`, `CountedOnce`, `RecordsAddUp`, `ResetsWhenOwed` | 1 row of each data plane, months of 2 and 3 days, reset on day 3, 2 bytes, 1 reload, 1 edit, 1 torn heartbeat |
| `parts`: rules | `ServicesDistinct`, `RouteIsUnique`, `MostSpecificWins`, `EveryRouteIsReached`, `InputAdmitsServices` | drafts of up to 3 of 14 records, 6 names and 5 paths |
| `latest_desired`, `unassigned`, `acked_restart`, `reset_acknowledged`, `forgotten_agent`, `decommission_removes_all`, `leaving_hidden` | see [findings](#findings) | TLC finds the counterexample |

**Several instances in one run.** `MCPanelScenarios` and `MCControlScenarios` hold a
variable `scenario`, `MCParts` a variable `part`, that is chosen in the initial state
and never changes. A behaviour is therefore one of the named instance (INSTANCE with
its constants), or of the named module while the variables of the others keep
their initial values: the run checks the same states as a run for each would,
added up, and a property of one module is a constant in the behaviours of the
others. In `MCParts`, which takes the configurations of `MCReconciler`, initial values
that do not matter are fixed.

**Why the bounds are enough.** All panel runs use one node: nodes share nothing but
profiles, and the only operations that look at several rows, the gates of a
publication and the count of a deletion, get stricter with more of them. Two
handlers give every pairwise race; the proofs cover the rest. Two profiles with
equal and different revision numbers, and an agent too old for the newer one, are
what the gates tell apart. Four calls of the reconciler show what a failed call leaves
to the one after its successor, and every outcome `Contract` names; two faults are one
command and one of its rollback. `Leftovers` differs from scenario to scenario: the
safety of the loop does not depend on it in *settings*, which is about numbers; for
liveness a mixture or a stale HAProxy is a node out of order, of which `Converges` says
nothing, and the proofs cover every outcome. Two equal hashes and a neighbour are the
smallest case in which slots move in a chain. The 14 records have two of every
relation the order looks at: exact against wildcard, nested wildcards, longer and
shorter paths, a root path, a host against any host. `MaxRev`, `MaxNonce`,
`MaxProbe`, `MaxLate`, `MaxOps`, `MaxCrashes` (panel and loop), `MaxCalls`,
`MaxFaults`, `MaxCrashes` (reconciler), `MaxRuns`, `MaxChanges`, `MaxProbes`,
`Patience`, `Leftovers`, `MaxTunings`, `MaxOutside`, `MaxApplies`, `MaxRefusals`, `MaxMoves`, `MaxPublished`,
`MaxBroken`, `MaxHost`, `MaxBytes`, `MaxReloads`, `MaxEdits`, `MaxTorn` and
`MaxRecords` are bounds and stand in guards; none of them is in the code.

Deadlock is not checked: with bounded administrators and faults, or after an
uninstall, the system may stop. Symmetry (of handlers and of profiles) is used in runs without
liveness properties only.

The properties in words:

* `DesiredExists`: the joins of `DesiredState` never miss for an assigned node, in
  any order of assignments, publications and deletions.
* `ResetMarksDesired`: no operation leaves a connection reset behind for a
  revision the node is not to apply.
* `RequestsStayValid`: a revision number read before the write still exists at the
  write, if the profile does.
* `DisabledNeverOnline`, `OnlyDeletingRemoved`: heartbeats in flight do not revive a
  disabled node and do not remove one that nobody deletes (any more).
* `UnservedIsFlagged`: an agent whose state is *applied* serves, and has on disk,
  what it reports, whatever failed or crashed before; unless HAProxy still runs what
  a lost reload did not replace (`stale`), which the code does not notice.
* `NoUnsupportedApplied`: an old agent never serves a configuration it does not
  understand, although the gates skip nodes that never connected and a pending
  update disables the 409.
* `ShownWasServed`: a revision the panel shows as applied was at some time served
  completely by that node, also when an old heartbeat, a restored agent or a failed
  apply reported it.
* `RestartsBounded`: no more restarts than requests.
* `ResetPerformed`: a reset marker that is cleared by a heartbeat about the node's
  own profile was carried out.
* `CleanBeforeForgotten`: the panel does not forget a node that still serves,
  unless its decommission was cancelled in between.
* `Converges`, `DecommissionCompletes`: what is wanted happens and is known to the
  panel. `Converges` speaks of nodes whose data plane is `InOrder`: it holds all the
  state file names and nothing else, and HAProxy runs its file.
* `Contract`: call by call, the commands of the reconciler leave what `DataPlane`
  allows: after a success exactly what was asked for, with orphans only if the
  node was not clean before, unless HAProxy was stale; after a failure or a crash one of
  the outcomes the main loop is built for.
* `NoGap`: while a profile is replaced, what both revisions have in common is there
  between any two commands. `ForwardedIsAccepted`: no destination IPVS forwards
  to is rejected by the forward chain or misses its NAT rule meanwhile.
* `CleanReconcileFits`: on a node in order no command is refused because of the
  order of the commands, whatever order Go ranges over its maps in.
* `OutAfterFailures`: a backend goes out only after as many failed pings as the policy
  of the round says: unanswered ones in a row, whichever monitor or manual probe sent
  them, and pings a replaced monitor gave up since the last `Reset` or answer, which
  the shared counter takes for unanswered ones. So a backend may go
  out early, by the pings older monitors gave up.
* `WeightsFollow`: in the end the weights are those of the replies, whatever the
  last round of an older monitor wrote.
* `AdaptiveFits`, `ReserveKept`, `ManualKept`: expansions stay outside the reserve, also
  after failed saves and restarts; a tick leaves the reserve, unless connections use
  more or the limit is not the one the tuner remembers writing, which is somebody
  else's, or its own when saving failed before a restart; a limit somebody else wrote
  is not lowered.
* `LimitsExact`: after a call that reports success, or went back, exactly the
  listeners of the state file are limited, each by its own limiter. Not where a
  call that was cut off left limiters and the next finds no limit in both lists
  (`settled`). `LimitKept`: limits that stay are never interrupted.
* `HiddenIsReachable`: after a call that did its work the chain is in force and lets in
  ssh and the UDP records. A Restore of a hidden state without services does none. Of
  ssh nothing is said after a call was cut off (`torn`): the minute's check compares its
  ports with the state file, not with the chain.
* `PlainIsOpen`: no chain is left on a plain node, unless a call was cut off
  (finding `LeavingHiddenRemovesInput`).
* `CountedOnce`: no byte is counted twice, and none is lost while counters only
  grow. Excepted are heartbeats with the rows of only one data plane (`torn`):
  they empty the other's previous counters, which are then counted again.
* `RecordsAddUp`, `ResetsWhenOwed`: the records add up to the node's total; a monthly
  reset is due from the chosen day on, once, also in shorter months.
* `ServicesDistinct`: no two records of an accepted profile compile to one socket,
  unless one names the node's ingress address (`NamesIngress`), which `Validate`
  does not know.
* `RouteIsUnique`, `MostSpecificWins`, `EveryRouteIsReached`: the order in the profile
  never decides, a narrower record is never shadowed, none is dead.
* `InputAdmitsServices`: the inbound chain lets in whatever the profile listens on.

## Fairness

`FairSpec` of `ControlLoop` assumes weak fairness of the steps of the agent's loop
(Go's select and its timers never starve them), of systemd (`Restart=always`,
started at boot) and of a restart job; and strong fairness of the successful
outcome of what is retried forever: the report after reconcile, the heartbeat of
the timer, an apply, a decommission and an update. The last group is the assumption
that network, data plane commands and the release server fail for a while only;
without it nothing converges, and it is not promised by the code. An apply is assumed
to succeed in the end only on a node that `Accepts` its commands. `applyIPVS` adds with
`ipvsadm -A` and `-a` what the state file does not hold and deletes what only it holds,
and both are refused where an interrupted call or an incomplete rollback left the node
otherwise, on every retry until a reboot (`reconciler.go:647`, 677, 689). So the node has
to hold what the state file names and nothing else, or the apply has to be of that same
configuration without a reset, which only edits, and adds where that fails. That
such an apply is not refused by its own doing is `CleanReconcileFits`. `Converges` asks
in turn that the data plane be `InOrder` in the end; with the crash in the middle of an
apply that the run has, TLC finds a counterexample without it. `Decommission` forgives
the deletion of what is not there, so its success needs no such condition.
Nothing is assumed of administrators,
crashes and reboots. Its next-state relation is `ServiceNext`: without heartbeats
that overtake others, which the safety runs have, and without the uninstall
script, which stops the unit for good and which nobody need repeat when it fails. `Converges` speaks of nodes that are `Settled`:
authorised, enabled, with a profile their agent is new enough for, and with an
enabled unit.

`HealthSpec` assumes that goroutines run and tickers tick (weak fairness of the steps of
a round and of the replacement), that a mutex does not starve the newest monitor
(Go's sync.Mutex hands over after a millisecond of waiting) and that select takes a closed
channel in the end, although the ticker may be ready each time (it chooses at
random). The other modules have no liveness properties.

## Proofs

Eight modules hold theorems, for all values of the constants that satisfy the named
assumptions, all bounds included. `ControlLoop_proofs` EXTENDS `PanelStore_proofs`.
The assumptions (`PanelStoreConstants`, `TrafficConstants`, `HealthConstants`,
`RulesConstants`, `NamesTellHostsApart`, `NamesBelowWildcards`, `LimitsConstants`,
`TCPMemoryConstants`, `InputConstants`, `ReconcilerConstants`) say
that sets that must have members have them, that numbers are in the ranges the
panel validates, that Go's zero values are no profile or chain, that no profile
limits more listeners than there are slots (`buildTrafficControls` refuses it before
anything is changed), and, for the rules, that there are names enough to tell hosts
apart: a client may ask for any.
TLC evaluates each of them in a run.

| Theorem | States |
|---|---|
| `StoreTypes` | `StoreSpec => []StoreTypeOK` |
| `RevisionSafety` | `StoreSpec => []RevisionInv`, the inductive invariant |
| `NodesHaveRevisions` | `StoreSpec => []DesiredExists` |
| `ResetsBelong` | `StoreSpec => []ResetMarksDesired` |
| `ReadsStayValid` | `StoreSpec => []RequestsStayValid` |
| `DisabledStaysOffline` | `StoreSpec => DisabledNeverOnline` |
| `RemovedWasDeleting` | `StoreSpec => OnlyDeletingRemoved` |
| `LoopSafety` | `Spec => []LoopInv`, the inductive invariant of `ControlLoop` |
| `LoopTypes` | `Spec => []TypeOK` |
| `LoopRevisions` | `Spec => [](DesiredExists /\ ResetMarksDesired)`, with agents and heartbeats |
| `ServedSafety`, `AppliedIsServed` | `Spec => [](\A n \in Nodes : ServedInv(n))`, `[]UnservedIsFlagged` |
| `RestartSafety`, `RestartOnce` | `Spec => [](\A n \in Nodes : RestartInv(n))`, `[]RestartsBounded` |
| `FitSafety`, `NoOldAgentServes` | `Spec => [](\A n \in Nodes : FitInv(n))`, `[]NoUnsupportedApplied` |
| `DoomSafety`, `ForgetsCleanNodes` | `Spec => [](\A n \in Nodes : DoomInv(n))`, `CleanBeforeForgotten` |
| `ResetSafety`, `ResetsArePerformed` | `Spec => [](\A n \in Nodes : ResetInv(n))`, `ResetPerformed` |
| `ShownIsServed` | `Spec => []ShownWasServed` |
| `TrafficSafety` | `TrafficSpec => []TrafficInv`, the inductive invariant |
| `TrafficTypes`, `NoByteTwice`, `RecordsMatchTotal`, `MonthlyReset` | `TrafficSpec => []TrafficTypeOK`, `[]CountedOnce`, `[]RecordsAddUp`, `[]ResetsWhenOwed` |
| `HealthSafety` | `HealthSpec => []HealthInv`, the inductive invariant |
| `HealthTypes`, `OutOnlyAfterFailures` | `HealthSpec => []HealthTypeOK`, `OutAfterFailures` |
| `AcceptedServicesDistinct`, `AcceptedRoutesUnique`, `AcceptedMostSpecificWins`, `AcceptedRoutesReached`, `AcceptedInputAdmits` | `RulesSpec => []ServicesDistinct`, `[]RouteIsUnique`, `[]MostSpecificWins`, `[]EveryRouteIsReached`, `[]InputAdmitsServices` |
| `TunerSafety` | `TunerSpec => []TunerInv`, the inductive invariant |
| `TunerTypes`, `ExpansionsFit`, `TicksKeepReserve` | `TunerSpec => []TunerTypeOK`, `[]AdaptiveFits`, `[]ReserveKept` |
| `ManualLimitsStay` | `TunerSpec => ManualKept` |
| `InputSafety` | `InputSpec => []InputInv`, the inductive invariant |
| `HiddenStaysReachable`, `PlainStaysOpen` | `InputSpec => []HiddenIsReachable`, `[]PlainIsOpen` |
| `SlotsDiffer` | what `SlotsOf` computes: slots in range, all different |
| `LimitsSafety` | `LimitsSpec => []LimitsInv`, the inductive invariant |
| `LimitsAreExact`, `LimitsAreKept` | `LimitsSpec => []LimitsExact`, `[]LimitKept` |
| `Shape` | `Spec => []ShapeInv`, the inductive invariant of `Reconciler` |
| `Types`, `Gapless` | `Spec => []TypeOK`, `[]NoGap` |
| `NothingExposed`, `NoSelfRefusal` | `Spec => []ForwardedIsAccepted`, `[]CleanReconcileFits` |
| `Implements` | `Spec => Contract`, the refinement of `DataPlane` |

**PanelStore.** None of the three state invariants is inductive. `AssignProfileUpdate`
makes `DesiredExists` true only if the number its handler holds is still in range
(`RequestsStayValid`); that in turn survives the deletion of a profile only
because an id is never used twice, so a handler that read a live profile finds it
either live with at least as many revisions, or deleted for good
(`DeletedIsEmpty`, `ReadingExisted`). `RevisionInv` is the conjunction. The proof
classifies the steps by what they change: those that keep profile, desired
revision, marker and existence of every row and every pending read (`SamePlace`,
`SameReads`; lemma `SamePlaceKeeps`), those that point one row somewhere
(`PointAtRead`, `CreateKeeps`), and publication and deletion of a profile
(`PublishKeeps`, `DeleteKeeps`). The two action properties follow from one case
distinction over the steps (`StatusStep`, lemma `StatusSteps`): which status a row can
have after a step, given the one before.

**ControlLoop.** A step belongs to one node or to an administrator. `Frame(n)` says that
a step of node n leaves every other node alone, `Effect(n)` classifies what it does
to n (`Polls`, `Talks`, `Installs`, `Applies`, `Falls`, ...), `RowStep(n)` what happens
to its row, and `AdminRow` and `RevisionStep` do the same for the panel. Lemma
`LoopStep` puts every step of `Next` into one of these classes; each property is
then proved of the classes and never of the 30 actions. `TypeOK` is not inductive:
which binary an update installs is known only from what the panel can answer,
and that the answer exists is the store's `RevisionInv`, which the loop keeps
although heartbeats and uninstalled agents write to its rows (`LoopInv`).
On top of `LoopInv` each property has an invariant of its own, for one node:
* `ServedInv`: what an agent believes it applied is on disk and in the kernel at
  every point of its loop, or `state` says otherwise; an agent that restored
  nothing has no monitor to refresh.
* `RestartInv`: restarts taken or scheduled never exceed the acknowledgement the
  panel keeps, and an agent takes a restart only for a request beyond it; no late
  heartbeat acknowledges more than was asked for.
* `FitInv`: what is served, saved or about to be applied fits the running agent
  *and* the binary a restart would start; a poll the panel does not withhold
  (lemma `PollFits`) brings something that fits, or an update.
* `DoomInv`: once an agent, or a late heartbeat, says decommissioned, the panel says
  *deleting*, the node is clean, and no desired state in an agent's hands can put
  anything back.
* `ResetInv`: whoever can still report a revision (the agent, its disk, a late
  heartbeat) has served it and carried out a reset that is pending for it, and the
  marker is the newest revision. With `ShownInv`, which says the same of what the row
  shows, it gives `ShownWasServed` (`HeardWasCommitted`: a step of a node changes what
  its row shows by a report of what was committed only).

**Traffic.** `CountedOnce` says nothing of the counters; `CountInv` adds that the next
heartbeat counts at most what has passed since the last one, and exactly that while
no counter went back. `RecordsInv` knows that what is counted has never been
switched off. The calendar is arbitrary: `DueDay` is the chosen day or the last of the
month, and `Before` a strict order on dates (lemmas on dates).

**HealthMonitor.** `RoundOK` relates a round to who holds the mutex and which
monitor is the newest: rounds exclude each other, an older monitor that still runs
is cancelled, and what a round still has to ping or write belongs to its snapshot.
`CountsInv` bounds the failures counted by the pings a backend left unanswered in a row
and those that were given up.

**ProfileRules.** The draft is the only state; the theorems are about every sequence of
records (lemma `RulesSafety`). `AcceptedServicesDistinct` excepts plain profiles with a
record that names the node's ingress address, as the property does. `Validate` checks pairs (`OwnersDiffer`, `EveryPair`), from which services are
distinct and hosts and paths of two matching records are equal (`HostIsUnique`,
`PathIsUnique`). `Rank` orders by the number of labels and of path elements; that
the record that takes less has more of them (`LongerPathCoversLess`,
`WildHostIsUnique`) rests on `NamesTellHostsApart`. For `EveryRouteIsReached` the proof
names the connection: the port, the host itself, no name for any host, or a name below
the wildcard that only wildcards match, and none that is longer (`NameOfItsOwn`, from
`NamesBelowWildcards`: a draft is finite, and clients may ask for any name), with the
path of the record. Only a longer path could come before then, and one that matches
the record's own path takes all that the record takes (`OwnPathIsOwn`).

**TCPMemory.** `AdaptiveFits` speaks of the memory and of the file, as a restart makes
the older one current. `ManualKept` needs `OwnRecalled`: a limit equal to what
memory or file recalls is one of the tuner's own; a tick lowers a limit only if it
equals the one recalled. The reserve needs arithmetic first: `CeilingBound`,
`ShareFits` and `TargetsFit` bound the target of a tick by the ceiling of the RAM
it read.

**InputFirewall.** `InputInv` says what each stage of a call has done already
(`Progress`: from the stage "jump" on the chain is that of the target; before, it
is that of the state file unless `torn`), what a call aims at (`Aims`: a rollback at
the state file, a hidden target at opening the ports ssh was seen on) and that
success is only vouched for between calls (`Vouching`). One lemma per action,
`InputStepInv` combines them. The assumption says that the empty chain is no
chain a profile asks for.

**RateLimits.** The slots come first. A recursive function is a CHOOSE, of which nothing
is known until a function is shown to satisfy the equation. `AllocationExists` builds
it up to every id, `OneAllocation` says that what goes further agrees with it, and
`SlotsEquation` puts the pieces together. The induction this takes is over a set of
naturals, by its least element; the library's theorems for that have an operator as a
parameter, so `LeastElement` derives it from the order of finite sets, which has none.
`ProbeFacts` (the probes of a listener come round to every slot) and a count of the
slots in use give `FreeSlotFacts`, and with it `SlotsDiffer`: any listeners not more than
the slots get slots of their own. Neither property is inductive. `LimitsInv` says what
each stage of a call has done (`Progressed`: while it installs, what is not left to
install is in force; while it deletes, all of its own is, with its marks, and only what
it does not need is left to delete). `Leaving` is about a call that began with the
limits in place: its marks are those of before or those it wants, and a listener that
stays as it is (`Stays`) has its two policers among the controls of the call, whether it
goes on or back (`StayingControls`), so no command takes one away. The rest of
`LimitKept` is that the marks in force give no other listener its slot.

**Reconciler.** A phase is abstracted to what it `Provides` and `Erases`. Three groups
of lemmas say that the plans of every phase do just that: their commands `Suit` the
phase, and a plan carried out to its end is `Complete` (it has brought everything
the phase provides and taken everything it erases), whatever was on the node
before. `ShapeInv` keeps the first of all commands still to run. On it rest:
* `GapInv` for `NoGap`: in a call nothing has gone wrong in, no phase still to run
  erases anything of the new configuration.
* `StepInv` for `ForwardedIsAccepted`. Each phase of a Reconcile leads from one
  milestone of IPVS and managed chains (`From`) to another (`Into`), and the next one
  begins there (`Route`; `ReconcileRoute` shows it of the phases the code runs, with
  and without a reset). What both milestones of the running phase hold is there
  between its commands, and nothing is there that neither holds; the rules of the
  destinations of either are among what both hold (`Covered`). A service the phase has
  still to come to is as it was in `From`: applyIPVS takes the services in any order.
* `FitInv` for `CleanReconcileFits`: every command of the running plan would be
  accepted now (`Accepted`), and none does what a later one could not bear (`Peace`), so
  the next is accepted when its turn comes. Only the checks of ports and the commands
  for a service of IPVS can be refused (`MildPlans`); the checks come first (`First`),
  while HAProxy runs what the state file names, and the commands for a service find
  it as `StepInv` says.
* `Implements`, a step simulation: a call in progress is `Plane`'s state before it,
  its last command `Plane`'s step. `ForwardInv` is what makes the end of a successful
  call `Served`: whatever a phase still to run takes away of the new configuration,
  or brings besides it, a later one puts right (`Sound`), and on the rest node and
  configuration agree already. Workers of HAProxy are excused from that (`Excused`)
  where `applyHAProxy` may take a lost reload for done (`Skipped`): only on a node that
  was stale when the call began, for which `Served` allows it. `ProxyInv` says that
  HAProxy is elsewhere than its file only on the way there, between rename and reload,
  or since a call before this one. `SaveInv` says that the state file changes in the
  last phase only, `GoalInv` that a node that was never given a configuration holds
  nothing, and `IdleInv` that a Restore of a state without services does nothing.

The proof attempt found one fault of the model: `Rollback` of a call that is no
reconcile had two arms of a CASE that could both be true, with different values,
between which TLA+ leaves the choice open, and TLC takes the first. It now asks
for the operation first, as the code does.

Every invariant and every action property the runs check is a theorem. Only
model-checked are `Converges`, `DecommissionCompletes` and `WeightsFollow`: liveness
under fairness is out of the prover's reach.

## Findings

| Property | What the code does | What is said |
|---|---|---|
| `LatestDesired` | `AssignProfile` and `CreateNode` write a revision number read before; a publication in between updates only nodes already assigned, so the node stays on the old revision until the next publication. | ARCHITECTURE.md: a node "receives the latest published revision as its desired state" |
| `AssignedProfileKept` | `DeleteProfile` counts, then deletes; a node assigned in between loses its profile and its agent gets 404. | store.go: "profile is assigned to %d node(s)"; CHANGELOG: "guarded deletion" |
| `AckedRestartHappens` | The agent notes the restart as acknowledged, its heartbeat fails, it does not restart, and the next heartbeat acknowledges it. | TESTING.md: "Confirm the request is acknowledged before `ezhiklb-agent.service` restarts" |
| `ResetAcknowledged` | A heartbeat of the previous profile with a higher revision number clears the marker of the new one. | ARCHITECTURE.md: "a successful heartbeat acknowledging the revision clears the marker" |
| `ForgottenAgentStops` | If the report after the cleanup fails, the timer's heartbeat delivers the completion; the panel forgets the node, the agent stays enabled. | ARCHITECTURE.md: "reports completion, disables its systemd unit and exits" |
| `DecommissionRemovesAll` | `Decommission` removes what `state.json` names; when the last `applyFirewall` of a reconcile is refused (`reconciler.go:184`) there is no rollback: IPVS serves the new configuration, the file names the old one or none, and the services of the failed call stay. | CHANGELOG: "removes managed IPVS/firewall state ... before the panel forgets the node" |
| `LeavingHiddenRemovesInput` | A hidden profile that fails after its inbound firewall was installed leaves it, and `state.json` says the node is plain; the next plain profile does not look. | ARCHITECTURE.md: "Leaving hidden mode and decommission remove the chain" |

Each has a weaker form that holds and is checked: `DesiredExists`,
`RequestsStayValid`, `RestartsBounded`, `ResetPerformed`, `DecommissionCompletes`,
`Contract`, `PlainIsOpen`.

## What is not modelled

* Sessions and login limiter: one HMAC comparison and a counter per client, in
  memory only, without an effect on the protocol between panel and agents.
* The panel process, receive steering, metrics, statistics, diagnostics: start-up code
  and stateless readers and writers of kernel files. Web UI, scripts, release
  download: I/O.
* What never fails a call of the reconciler: IPv6 chains, conntrack, quiescing,
  route warm-up. The handover from 1.1 agents, commands that take effect and
  report an error all the same, the clsact qdisc.
* The `local` node, which can be neither deleted nor revoked, and agents before
  2.0.4 with their older entity tags.
* The update state a node reports, telemetry, names, labels, sort order, audit,
  settings page, legacy import: data no other operation depends on.
* The syntax of names, addresses, paths and versions, ranges of numbers, the text of
  configurations.

## Plan

1. *Done*: `PanelStore` with its proofs, `ControlLoop`; `DataPlane` and its
   implementation `Reconciler`; `HealthMonitor`, `InputFirewall` and `TCPMemory` with
   their proofs, `RateLimits`, `Traffic`, `ProfileRules`.
2. Proofs. *Done*: the safety properties of `PanelStore`, `ControlLoop`, `Traffic`,
   `HealthMonitor`, `ProfileRules`, `TCPMemory`, `InputFirewall` and `RateLimits`; of
   `Reconciler` those too, and the refinement `Contract`.
3. The agent's update state: a failed self-update is not tried again while the
   target stays the same, since the agent remembers the target before the attempt
   (`main.go:160`) and the entity tag then matches.
4. An abstract delivery specification (desired, applied, reported) that
   `ControlLoop` implements; sessions and login limiter as a state machine.
