----------------------------- MODULE Reconciler ------------------------------
(***************************************************************************)
(* Reconcile, Restore and Decommission of a node's agent                   *)
(* (internal/agent/reconciler.go, haproxy.go, traffic_control.go), command *)
(* by command: any command may be refused, and the process may die between *)
(* two of them.  The calls hold one mutex, so they do not interleave.      *)
(*                                                                         *)
(* The kernel and the running HAProxy are a set of items: IPVS services    *)
(* and destinations, rules of the managed chains, jumps to those chains,   *)
(* rate limiters, marks, the HAProxy configuration the workers run.  A     *)
(* command states which items it needs, which it clashes with, which it    *)
(* removes and which it adds.  A command that is refused changes nothing.  *)
(*                                                                         *)
(* Left out: what never fails a call (IPv6 chains, conntrack, quiescing,   *)
(* warming routes), weights, the handover from 1.1 agents, and commands    *)
(* that take effect and report an error all the same.                      *)
(***************************************************************************)
EXTENDS Integers, Sequences, SequencesExt

CONSTANTS
  Confs, Nothing, Broken,   \* as in DataPlane
  Content,     \* Content[c]: the compiled services of configuration c
  NoTCP,       \* a configuration without TCP services
  Ports,       \* Ports[t]: the ports HAProxy binds for TCP services t
  Foreign,     \* items of the host that EzhikLB did not put there
  MaxCalls,    \* bound: calls in a behaviour
  MaxFaults,   \* bound: commands the environment makes fail
  MaxCrashes   \* bound: crashes and reboots

ASSUME ReconcilerConstants ==
  /\ Nothing # Broken /\ {Nothing, Broken} \cap Confs = {}
  /\ \A c \in Confs :
       /\ IsFiniteSet(DOMAIN Content[c].udp) /\ IsFiniteSet(Content[c].limited)
       /\ \A s \in DOMAIN Content[c].udp : IsFiniteSet(Content[c].udp[s])
       /\ Content[c].hidden \in BOOLEAN
  \* Chains, limiters and haproxy.cfg are EzhikLB's own; IPVS may have others.
  /\ \A i \in Foreign :
       /\ i[1] \notin {"filter", "nat", "jump", "proxy", "input", "rate", "mark"}
       /\ i[1] \in {"svc", "dst"} => \A c \in Confs : i[2] \notin DOMAIN Content[c].udp
  /\ MaxCalls \in Nat /\ MaxFaults \in Nat /\ MaxCrashes \in Nat

VARIABLES
  present,   \* items in the kernel and in the running HAProxy
  cfgFile,   \* the TCP services haproxy.cfg was written for
  saved,     \* the configuration state.json names
  up,        \* the agent process runs and has called Restore
  call,      \* the call in progress
  todo,      \* phases of the call that have not started
  phase,     \* the phase that runs, with the services it has still to come to
  plan,      \* commands of the phase that have not run
  undoing,   \* the call has failed and restores what it can
  count,     \* calls, faults and crashes so far
  goal,      \* history: the last configuration Reconcile was called with
  before,    \* history: the data plane, and saved, when the call began
  reported   \* history: what the last call said is in place, Broken if it failed

vars == <<present, cfgFile, saved, up, call, todo, phase, plan, undoing, count,
          goal, before, reported>>

-----------------------------------------------------------------------------
(* Items                                                                   *)

Empty == [udp |-> <<>>, tcp |-> NoTCP, hidden |-> FALSE, limited |-> {}]
Of(c) == IF c \in Confs THEN Content[c] ELSE Empty
Services(c) == DOMAIN Of(c).udp
Dests(c, s) == IF s \in Services(c) THEN Of(c).udp[s] ELSE {}

Svc(s) == <<"svc", s>>
Dst(s, d) == <<"dst", s, d>>
Jump(kind) == <<"jump", kind>>
Proxy(t) == <<"proxy", t>>
Rate(s) == <<"rate", s>>
Rules(kind, c) == UNION {{<<kind, s, d>> : d \in Dests(c, s)} : s \in Services(c)}
Marks(c) == {<<"mark", s>> : s \in Of(c).limited}
Kind(kind) == {i \in present : i[1] = kind}
\* A virtual service goes with its destinations.
Under(s) == {i \in present : i[1] \in {"svc", "dst"} /\ i[2] = s}

\* All a node holds that serves c completely.
PartsOf == [c \in Confs |->
       {Svc(s) : s \in Services(c)} \cup Rules("dst", c)
         \cup Rules("filter", c) \cup Rules("nat", c) \cup {Jump("filter"), Jump("nat")}
         \cup (IF Of(c).tcp = NoTCP THEN {} ELSE {Proxy(Of(c).tcp)})
         \cup (IF Of(c).hidden THEN {<<"input", Services(c)>>, Jump("input")} ELSE {})
         \cup {Rate(s) : s \in Of(c).limited} \cup Marks(c)
         \cup (IF Of(c).limited = {} THEN {} ELSE {Jump("mark")})]
Parts(c) == IF c \in Confs THEN PartsOf[c] ELSE {}

-----------------------------------------------------------------------------
(* Commands                                                                *)

Command(needs, clash, drop, add) ==
  [needs |-> needs, clash |-> clash, drop |-> drop, add |-> add,
   cfg |-> {}, save |-> {}]
Look == Command({}, {}, {}, {})
\* -E or -e, falling back to -A or -a; iptables -C before -I; tc replace.
Put(i) == Command({}, {}, {}, {i})
\* ipvsadm -A and -a refuse what exists, -D and -d what does not.
Add(i) == Command({}, {i}, {}, {i})
Delete(i) == Command({i}, {}, IF i[1] = "svc" THEN Under(i[2]) ELSE {i}, {})
\* A deletion whose failure is forgiven once the item is seen to be gone.
Purge(i) == Command({}, {}, IF i[1] = "svc" THEN Under(i[2]) ELSE {i}, {})
\* iptables-restore replaces a managed chain at once.
Replace(kind, rules) == Command({}, {}, Kind(kind), rules)
Unchain(kind) == <<Purge(Jump(kind)), Command({}, {}, Kind(kind), {})>>

Accepted(cmd) == cmd.needs \subseteq present /\ cmd.clash \cap present = {}

-----------------------------------------------------------------------------
(* What a phase runs: the plans it may choose from                         *)

PortsOf(t) == IF t = NoTCP THEN {} ELSE Ports[t]

\* A port HAProxy holds is taken, unless the state file says it is ours.
Checks(c) ==
  LET taken(t) == (PortsOf(t) \cap PortsOf(Of(c).tcp)) \ PortsOf(Of(saved).tcp) # {}
  IN <<Command({}, {Proxy(t) : t \in {u \in DOMAIN Ports : taken(u)}}, {}, {})>>

\* A firewall for the new services only, before IPVS has switched.
BadFirewall(c, d) ==
  <<Replace("filter", Rules("filter", d)), Replace("nat", Rules("nat", d)),
    Put(Jump("filter")), Put(Jump("nat"))>>

Firewall(c, d) ==
  <<Replace("filter", Rules("filter", c) \cup Rules("filter", d)),
    Replace("nat", Rules("nat", c) \cup Rules("nat", d)),
    Put(Jump("filter")), Put(Jump("nat"))>>

\* Everything is added, whether the state file has it or not.
BadService(from, to, s) ==
  LET old == Dests(from, s) new == Dests(to, s)
      ensure == SetToSeq(new) obsolete == SetToSeq(old \ new)
  IN <<Add(Svc(s))>> \o [i \in DOMAIN ensure |-> Add(Dst(s, ensure[i]))]
       \o [i \in DOMAIN obsolete |-> Delete(Dst(s, obsolete[i]))]

Service(from, to, s) ==
  LET old == Dests(from, s) new == Dests(to, s)
      ensure == SetToSeq(new) obsolete == SetToSeq(old \ new)
  IN <<IF s \in Services(from) THEN Put(Svc(s)) ELSE Add(Svc(s))>>
       \o [i \in DOMAIN ensure |-> IF ensure[i] \in old THEN Put(Dst(s, ensure[i]))
                                                        ELSE Add(Dst(s, ensure[i]))]
       \o [i \in DOMAIN obsolete |-> Delete(Dst(s, obsolete[i]))]

HAProxy(c) ==
  LET t == Of(c).tcp
      file(u) == [Look EXCEPT !.cfg = {u}]
      reload == Command({}, {}, Kind("proxy"), {Proxy(t)})
      full == <<Look, file(t), reload>>   \* validate, rename, reload-or-restart
  IN IF t = NoTCP THEN {<<Command({}, {}, Kind("proxy"), {}), file(NoTCP)>>}
     \* The file is the same and HAProxy runs: setting weights is enough, though
     \* nobody asks whether HAProxy runs that file.
     ELSE IF cfgFile = t /\ Kind("proxy") # {} THEN {<<>>, full}
     ELSE {full}

Input(c) == <<Look, Replace("input", {<<"input", Services(c)>>}), Put(Jump("input"))>>

\* Limiters of from are known to be installed.
Rates(from, to) ==
  LET new == SetToSeq(Of(to).limited) old == SetToSeq(Of(from).limited \ Of(to).limited)
      marks == IF new = <<>> THEN Unchain("mark")
                             ELSE <<Replace("mark", Marks(to)), Put(Jump("mark"))>>
  IN IF Of(from).limited \cup Of(to).limited = {} THEN <<>>
     ELSE <<Look>> \o [i \in DOMAIN new |-> Put(Rate(new[i]))] \o marks
            \o [i \in DOMAIN old |-> Purge(Rate(old[i]))]

Plans(ph) ==
  CASE ph.do = "checks"   -> {Checks(ph.to)}
    [] ph.do = "firewall" -> {Firewall(ph.from, ph.to)}
    [] ph.do = "haproxy"  -> HAProxy(ph.to)
    [] ph.do = "input"    -> {Input(ph.to)}
    [] ph.do = "noinput"  -> {Unchain("input")}
    [] ph.do = "rates"    -> {Rates(ph.from, ph.to)}
    [] ph.do = "unchain"  -> {Unchain("filter") \o Unchain("nat")}
    [] ph.do = "save"     -> {<<[Look EXCEPT !.save = {ph.to}]>>}
    [] OTHER              -> {<<>>}   \* service by service

\* applyIPVS ranges over Go maps: in any order first the services to ensure, then
\* those to delete.
Turn(ph) ==
  LET ensure == ph.left \cap Services(ph.to)
  IN IF ensure # {} THEN ensure ELSE ph.left

\* A service that stays goes before it comes again.
BadServicePlan(ph, s) ==
  CASE ph.do = "wipe"        -> <<Purge(Svc(s))>>
    [] s \in Services(ph.from) \cap Services(ph.to) ->
         <<Delete(Svc(s))>> \o Service(Nothing, ph.to, s)
    [] s \in Services(ph.to) -> Service(ph.from, ph.to, s)
    [] OTHER                 -> <<Delete(Svc(s))>>

ServicePlan(ph, s) ==
  CASE ph.do = "wipe"        -> <<Purge(Svc(s))>>
    [] s \in Services(ph.to) -> Service(ph.from, ph.to, s)
    [] OTHER                 -> <<Delete(Svc(s))>>

-----------------------------------------------------------------------------
(* The phases of a call, and of its rollback                               *)

Phase(do, from, to) ==
  [do |-> do, from |-> from, to |-> to,
   left |-> IF do = "ipvs" THEN Services(from) \cup Services(to) ELSE {}]
NoPhase == Phase("none", Nothing, Nothing)
When(condition, phases) == IF condition THEN phases ELSE <<>>
HasTCP(c) == Of(c).tcp # NoTCP
HasServices(c) == Services(c) # {} \/ HasTCP(c)
WipeAll(c) ==
  LET q == SetToSeq(Services(c))
  IN [i \in DOMAIN q |-> [Phase("wipe", c, Nothing) EXCEPT !.left = {q[i]}]]

\* The state file is saved before the limiters are in place.
BadReconcilePhases(old, new, reset) ==
  <<Phase("checks", old, new), Phase("firewall", old, new)>>
    \o (IF reset THEN <<Phase("ipvs", old, Nothing), Phase("ipvs", Nothing, new)>>
                 ELSE <<Phase("ipvs", old, new)>>)
    \o When(HasTCP(old) \/ HasTCP(new), <<Phase("haproxy", old, new)>>)
    \o <<Phase("firewall", new, new)>>
    \o When(Of(new).hidden, <<Phase("input", old, new)>>)
    \o When(Of(old).hidden /\ ~Of(new).hidden, <<Phase("noinput", old, new)>>)
    \o <<Phase("save", old, new), Phase("rates", old, new)>>

ReconcilePhases(old, new, reset) ==
  <<Phase("checks", old, new), Phase("firewall", old, new)>>
    \o (IF reset THEN <<Phase("ipvs", old, Nothing), Phase("ipvs", Nothing, new)>>
                 ELSE <<Phase("ipvs", old, new)>>)
    \o When(HasTCP(old) \/ HasTCP(new), <<Phase("haproxy", old, new)>>)
    \o <<Phase("firewall", new, new)>>
    \o When(Of(new).hidden, <<Phase("input", old, new)>>)
    \o When(Of(old).hidden /\ ~Of(new).hidden, <<Phase("noinput", old, new)>>)
    \o <<Phase("rates", old, new), Phase("save", old, new)>>

\* Restore returns at once when the state file has no services, hidden or not.
RestorePhases(c) ==
  When(HasServices(c),
    <<Phase("checks", c, Nothing), Phase("firewall", c, c), Phase("ipvs", c, c)>>
      \o When(HasTCP(c), <<Phase("haproxy", c, c)>>)
      \o When(Of(c).hidden, <<Phase("input", c, c)>>)
      \o <<Phase("rates", c, c), Phase("save", c, c)>>)

DecommissionPhases(c) ==
  WipeAll(c) \o When(HasTCP(c), <<Phase("haproxy", c, Nothing)>>)
    \o <<Phase("unchain", c, Nothing)>>
    \o When(Of(c).hidden, <<Phase("noinput", c, Nothing)>>)
    \o <<Phase("rates", c, Nothing), Phase("save", c, Nothing)>>

\* What Reconcile does after a phase failed.  The limiters' rollback knows of
\* those it just installed, unless it failed before it installed any.
Rollback(ph) ==
  LET old == call.old new == call.new
      services == <<Phase("ipvs", new, old), Phase("firewall", old, old)>>
  IN IF call.op # "reconcile" THEN <<>>
     ELSE CASE ph.do = "ipvs" /\ ~call.reset -> services
       [] ph.do = "ipvs" /\ call.reset ->
            When(ph.to # Nothing, WipeAll(new))
              \o <<Phase("ipvs", old, old), Phase("firewall", old, old)>>
       [] ph.do = "haproxy" -> <<Phase("haproxy", new, old)>> \o services
       [] ph.do = "input" ->
            <<Phase(IF Of(old).hidden THEN "input" ELSE "noinput", new, old),
              Phase("haproxy", new, old)>> \o services
       [] ph.do = "rates" ->
            <<Phase("rates", IF Head(plan) = Look THEN Nothing ELSE new, old)>> \o services
       [] OTHER -> <<>>

-----------------------------------------------------------------------------
(* Running a call                                                          *)

Idle == [op |-> "none", old |-> Nothing, new |-> Nothing, reset |-> FALSE]
Busy == call # Idle

\* HAProxy runs, but not what haproxy.cfg holds.
Stale == Kind("proxy") \notin {{}, {Proxy(cfgFile)}}

\* What the node serves, seen from outside.
Observed ==
  LET conf == IF saved # Nothing /\ Parts(saved) \subseteq present THEN saved
              ELSE IF goal # Nothing /\ ~Stale /\ Parts(goal) \subseteq present THEN goal
              ELSE IF Parts(saved) \cap present = {} THEN Nothing
              ELSE Broken
  IN [conf |-> conf,
      orphans |-> ~(present \subseteq Foreign \cup Parts(saved) \cup Parts(conf)),
      stale |-> Stale]
NoPlane == [conf |-> Nothing, orphans |-> FALSE, stale |-> FALSE]

Begin(op, new, reset, phases) ==
  /\ ~Busy
  /\ count.calls < MaxCalls
  /\ count' = [count EXCEPT !.calls = @ + 1]
  /\ call' = [op |-> op, old |-> saved, new |-> new, reset |-> reset]
  /\ todo' = phases
  /\ before' = [dp |-> Observed, saved |-> saved]
  /\ UNCHANGED <<present, cfgFile, saved, phase, plan, undoing, reported>>

Reconcile(c, reset) ==
  /\ up
  /\ Begin("reconcile", c, reset, ReconcilePhases(saved, c, reset))
  /\ goal' = c
  /\ UNCHANGED up

Restore ==
  /\ ~up
  /\ Begin("restore", saved, FALSE, RestorePhases(saved))
  /\ up' = TRUE
  /\ UNCHANGED goal

Decommission ==
  /\ Begin("decommission", Nothing, FALSE, DecommissionPhases(saved))
  /\ UNCHANGED <<up, goal>>

StartPhase ==
  /\ plan = <<>> /\ phase.left = {} /\ todo # <<>>
  /\ plan' \in Plans(Head(todo))
  /\ phase' = Head(todo)
  /\ todo' = Tail(todo)
  /\ UNCHANGED <<present, cfgFile, saved, up, call, undoing, count, goal, before, reported>>

NextService ==
  /\ plan = <<>>
  /\ \E s \in Turn(phase) :
       /\ plan' = ServicePlan(phase, s)
       /\ phase' = [phase EXCEPT !.left = @ \ {s}]
  /\ UNCHANGED <<present, cfgFile, saved, up, call, todo, undoing, count, goal, before,
                 reported>>

RunCommand ==
  LET cmd == Head(plan) IN
  /\ plan # <<>> /\ Accepted(cmd)
  /\ present' = (present \ cmd.drop) \cup cmd.add
  /\ cfgFile' = IF cmd.cfg = {} THEN cfgFile ELSE CHOOSE t \in cmd.cfg : TRUE
  /\ saved' = IF cmd.save = {} THEN saved ELSE CHOOSE c \in cmd.save : TRUE
  /\ plan' = Tail(plan)
  /\ UNCHANGED <<up, call, todo, phase, undoing, count, goal, before, reported>>

\* A rollback ignores what fails and goes on with its next phase.
CommandFails ==
  /\ plan # <<>>
  /\ \/ ~Accepted(Head(plan)) /\ UNCHANGED count
     \/ /\ count.faults < MaxFaults
        /\ count' = [count EXCEPT !.faults = @ + 1]
  /\ plan' = <<>>
  /\ phase' = [phase EXCEPT !.left = {}]
  /\ IF undoing THEN UNCHANGED todo ELSE todo' = Rollback(phase)
  /\ undoing' = TRUE
  /\ UNCHANGED <<present, cfgFile, saved, up, call, goal, before, reported>>

Finished == plan = <<>> /\ phase.left = {} /\ todo = <<>>

Ends ==
  /\ call' = Idle /\ todo' = <<>> /\ plan' = <<>> /\ phase' = NoPhase
  /\ undoing' = FALSE /\ before' = [dp |-> NoPlane, saved |-> Nothing]

\* A failed call leaves its failure behind.
BadReturn ==
  /\ Busy /\ Finished
  /\ call' = Idle /\ phase' = NoPhase /\ reported' = IF undoing THEN Broken ELSE call.new
  /\ UNCHANGED <<todo, plan, undoing, before, present, cfgFile, saved, up, count, goal>>

Return ==
  /\ Busy /\ Finished
  /\ reported' = IF undoing THEN Broken ELSE call.new
  /\ Ends
  /\ UNCHANGED <<present, cfgFile, saved, up, count, goal>>

Crash ==
  /\ count.crashes < MaxCrashes
  /\ count' = [count EXCEPT !.crashes = @ + 1]
  /\ up' = FALSE /\ reported' = Broken
  /\ Ends
  /\ UNCHANGED <<present, cfgFile, saved, goal>>

\* The kernel starts empty; haproxy.cfg stays, its unit is not enabled.
Reboot ==
  /\ ~up /\ ~Busy
  /\ count.crashes < MaxCrashes
  /\ count' = [count EXCEPT !.crashes = @ + 1]
  /\ present' = {} /\ reported' = Broken
  /\ UNCHANGED <<cfgFile, saved, up, call, todo, phase, plan, undoing, goal, before>>

Init ==
  /\ present = Foreign
  /\ cfgFile = NoTCP
  /\ saved = Nothing
  /\ up = FALSE
  /\ call = Idle /\ todo = <<>> /\ phase = NoPhase /\ plan = <<>> /\ undoing = FALSE
  /\ count = [calls |-> 0, faults |-> 0, crashes |-> 0]
  /\ goal = Nothing
  /\ before = [dp |-> NoPlane, saved |-> Nothing]
  /\ reported = Broken

Next ==
  \/ \E c \in Confs, reset \in BOOLEAN : Reconcile(c, reset)
  \/ Restore \/ Decommission
  \/ StartPhase \/ NextService \/ RunCommand \/ CommandFails \/ Return
  \/ Crash \/ Reboot

Spec == Init /\ [][Next]_vars

-----------------------------------------------------------------------------
(* Properties                                                              *)

\* A phase runs commands only inside a call, on a state made of known items,
\* and state.json names a configuration of the panel.
TypeOK ==
  /\ saved \in Confs \cup {Nothing} /\ goal \in Confs \cup {Nothing}
  /\ cfgFile \in {NoTCP} \cup {Of(c).tcp : c \in Confs}
  /\ present \subseteq Foreign \cup UNION {Parts(c) : c \in Confs}
  /\ up \in BOOLEAN /\ undoing \in BOOLEAN
  /\ count \in [calls: 0 .. MaxCalls, faults: 0 .. MaxFaults, crashes: 0 .. MaxCrashes]
  /\ ~Busy => plan = <<>> /\ todo = <<>> /\ ~undoing /\ phase = NoPhase

\* Reconcile goes forward on a node that served exactly what state.json names.
CleanRun ==
  /\ call.op = "reconcile" /\ ~undoing
  /\ before.dp.conf = before.saved /\ ~before.dp.orphans

\* Seen call by call, Reconcile, Restore and Decommission are the steps of
\* DataPlane: a call that reports success left the node, and state.json, with
\* what it was asked for, and with orphans only if it was not clean before, unless
\* HAProxy was already running something else than its file; one that fails or is
\* killed leaves one of the outcomes the main loop has to cope with.
Plane == INSTANCE DataPlane WITH
  Bare <- {c \in Confs : ~HasServices(c)},
  saved <- IF Busy THEN before.saved ELSE saved,
  dp <- IF Busy THEN before.dp ELSE Observed
Contract == Plane!PlaneSpec

\* Between any two commands of a Reconcile, IPVS forwards to no destination
\* that the forward chain rejects or whose replies are not translated: the
\* rules of the old and of the new services are there together until IPVS has
\* switched (unionServices, and the final applyFirewall).
ForwardedIsAccepted ==
  CleanRun => \A c \in Confs : \A s \in Services(c) : \A d \in Dests(c, s) :
    Dst(s, d) \in present => {<<"filter", s, d>>, <<"nat", s, d>>} \subseteq present

\* Publishing a profile never interrupts what the old and the new revision have
\* in common, unless the administrator asked for a reset of connections.
NoGap ==
  (CleanRun /\ ~call.reset) => (Parts(call.old) \cap Parts(call.new)) \subseteq present

\* On a node in order every command of a Reconcile is accepted: a refusal is
\* the host's doing, never a consequence of the order of the commands.
CleanReconcileFits == (CleanRun /\ plan # <<>>) => Accepted(Head(plan))

\* CHANGELOG.md:585 and docs/TESTING.md:282: after a Decommission that reports
\* success nothing of EzhikLB is left on the node.
DecommissionRemovesAll ==
  [][(call.op = "decommission" /\ Finished /\ ~undoing /\ ~Busy')
       => present' \subseteq Foreign]_vars

\* docs/ARCHITECTURE.md:116, "Leaving hidden mode and decommission remove the
\* chain": when a Reconcile of a profile that is not hidden reports success, no
\* inbound firewall is left on the node.
LeavingHiddenRemovesInput ==
  [][(call.op = "reconcile" /\ Finished /\ ~undoing /\ ~Busy'
        /\ ~Of(call.new).hidden)
       => Kind("input") = {} /\ Jump("input") \notin present]_vars
=============================================================================
