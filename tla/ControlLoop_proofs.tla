-------------------------- MODULE ControlLoop_proofs -------------------------
(***************************************************************************)
(* What holds of the control loop for any number of nodes, handlers,       *)
(* profiles and revisions, however often the network fails and agents      *)
(* crash: theorems about ControlLoop.                                      *)
(***************************************************************************)
EXTENDS ControlLoop, PanelStore_proofs

-----------------------------------------------------------------------------
(* Values                                                                  *)

Points == {"down", "idle", "got", "install", "apply", "report", "clean",
           "cleanlocal", "confirm", "exited"}

\* The empty configuration and the empty desired state are well typed.
LEMMA NothingOK ==
  /\ Nothing \in Confs /\ Nothing[1] = NoProfile /\ Nothing[2] = 0
  /\ Broken[1] = NoProfile /\ Broken[2] = 0
  /\ NoDesired \in Desired
  /\ NoDesired.profile = NoProfile /\ NoDesired.rev = 0 /\ NoDesired.restart = 0
  /\ NoDesired.update = 0 /\ NoDesired.reset = FALSE /\ NoDesired.decommission = FALSE
<1>1. (CHOOSE t \in Tunings : TRUE) \in Tunings BY PanelStoreConstants
<1>2. NoDesired \in Desired BY <1>1 DEF NoDesired, Desired, NoIP
<1>3. Nothing \in Confs /\ Nothing[1] = NoProfile /\ Nothing[2] = 0
  BY DEF Nothing, Confs, NoIP
<1> QED BY <1>2, <1>3 DEF NoDesired, Broken

\* The configuration a desired state asks for is one, and its parts.
LEMMA TargetOK ==
  ASSUME NEW d \in Desired
  PROVE  /\ Target(d) \in Confs
         /\ Target(d)[1] = d.profile /\ Target(d)[2] = d.rev
BY DEF Target, Desired, Confs

\* A configuration has a profile and a revision number; without the revision
\* it is still a configuration.
LEMMA ConfOK ==
  ASSUME NEW c \in Confs
  PROVE  /\ c[1] \in Profiles \cup {NoProfile} /\ c[2] \in Nat
         /\ [c EXCEPT ![2] = 0] \in Confs
         /\ [c EXCEPT ![2] = 0][1] = c[1] /\ [c EXCEPT ![2] = 0][2] = 0
BY DEF Confs

\* What the panel answers a poll with.
LEMMA DesiredOK ==
  ASSUME StoreTypeOK, NEW n \in Nodes, HasDesired(n)
  PROVE  LET d == DesiredState(n) IN
         /\ d \in Desired
         /\ d.profile = row[n].profile /\ d.rev = row[n].desired
         /\ d.update = row[n].target
         /\ d.reset = (row[n].reset = row[n].desired)
         /\ d.decommission = (row[n].status = "deleting")
         /\ d.restart = IF row[n].nonce > row[n].ack THEN row[n].nonce ELSE 0
         /\ d.profile \in Profiles /\ d.rev > 0 /\ d.rev <= Current(d.profile)
         /\ Live(d.profile) /\ d.tuning \in Tunings
<1>1. row[n] \in Row BY DEF StoreTypeOK
<1>2. DesiredState(n) \in Desired BY <1>1 DEF DesiredState, Desired, Row
<1>3. Live(row[n].profile) /\ row[n].desired \in 1 .. Current(row[n].profile)
  BY DEF HasDesired, HasProfileRevision
<1>4. Current(row[n].profile) \in Nat BY <1>3, CurrentOK DEF Live
<1> QED BY <1>1, <1>2, <1>3, <1>4 DEF DesiredState, Live, Row

\* What an agent reports.
LEMMA ReportOK ==
  ASSUME NEW a \in Agent
  PROVE  /\ ReportOf(a) \in Report
         /\ ReportOf(a).profile = a.applied[1] /\ ReportOf(a).rev = a.applied[2]
         /\ ReportOf(a).ack = a.ack /\ ReportOf(a).decommissioned = a.decommissioned
<1>1. a.applied[1] \in Profiles \cup {NoProfile} /\ a.applied[2] \in Nat
  BY ConfOK DEF Agent
<1> QED BY <1>1 DEF ReportOf, Report, Agent

-----------------------------------------------------------------------------
(* What calls that change the data plane leave                             *)



\* Complete, or spoilt by a HAProxy that does not run what its file says.
Serves(plane, c) == plane.conf = c \/ (plane.conf = Broken /\ plane.stale)

\* What a call leaves, on this node only.
LEMMA LeavesOne ==
  ASSUME NEW n \in Nodes, dp \in [Nodes -> Planes], NEW outcomes,
         \A left \in outcomes : left \in Planes, Leaves(n, outcomes)
  PROVE  /\ dp' \in [Nodes -> Planes] /\ dp'[n] \in outcomes
         /\ \A m \in Nodes \ {n} : dp'[m] = dp[m]
<1>1. PICK left \in outcomes : dp' = [dp EXCEPT ![n] = left] BY DEF Leaves
<1> QED BY <1>1

\* A call that served a configuration serves it on this node only.
LEMMA LeavesServed ==
  ASSUME NEW n \in Nodes, NEW c \in Confs, dp \in [Nodes -> Planes],
         Leaves(n, Plane(n)!Served(c))
  PROVE  /\ dp' \in [Nodes -> Planes]
         /\ Serves(dp'[n], c) /\ (c = Nothing => dp'[n].conf = Nothing)
         /\ \A m \in Nodes \ {n} : dp'[m] = dp[m]
<1>1. Plane(n)!Dirty \in BOOLEAN BY DEF Plane!Dirty, Planes
<1>2. ASSUME NEW left \in Plane(n)!Served(c)
      PROVE  left \in Planes /\ Serves(left, c) /\ (c = Nothing => left.conf = Nothing)
  <2>1. CASE left \in [conf: {c}, orphans: {FALSE, Plane(n)!Dirty}, stale: {FALSE}]
    BY <1>1, <2>1 DEF Planes, Serves
  <2>2. CASE left \in [conf: IF c = Nothing THEN {Nothing} ELSE {c, Broken},
                       orphans: BOOLEAN, stale: {TRUE}]
    <3>1. /\ left \in [conf: {c, Broken}, orphans: BOOLEAN, stale: {TRUE}]
          /\ c = Nothing => left.conf = Nothing
      BY <2>2
    <3> QED BY <3>1 DEF Planes, Serves
  <2> QED BY <1>2, <2>1, <2>2 DEF Plane!Served
<1> HIDE DEF Plane!Served
<1> QED BY <1>2, LeavesOne

\* A failed Reconcile leaves the old configuration, the saved or the new one, a
\* broken one or none.
LEMMA LeavesPartial ==
  ASSUME NEW n \in Nodes, NEW c \in Confs, dp \in [Nodes -> Planes],
         disk \in [Nodes -> Disk], Leaves(n, Plane(n)!Partial(c))
  PROVE  /\ dp' \in [Nodes -> Planes]
         /\ dp'[n].conf \in {dp[n].conf, disk[n].conf, c, Broken, Nothing}
         /\ \A m \in Nodes \ {n} : dp'[m] = dp[m]
<1>1. disk[n].conf \in Confs /\ dp[n] \in Planes BY DEF Disk
<1>2. ASSUME NEW left \in Plane(n)!Partial(c)
      PROVE  /\ left \in Planes
             /\ left.conf \in {dp[n].conf, disk[n].conf, c, Broken, Nothing}
  <2>1. CASE left = dp[n] BY <1>1, <2>1
  <2>2. CASE left \in [conf: {disk[n].conf, c, Broken, Nothing}, orphans: BOOLEAN,
                       stale: BOOLEAN]
    BY <1>1, <2>2, NothingOK DEF Planes
  <2> QED BY <1>2, <2>1, <2>2 DEF Plane!Partial
<1> HIDE DEF Plane!Partial
<1> QED BY <1>2, LeavesOne

\* A Restore or Decommission that stops halfway leaves the old configuration,
\* none, a broken one, or what it restores; it breaks nothing where there was
\* nothing to do.
LEMMA LeavesHalted ==
  ASSUME NEW n \in Nodes, NEW c \in Confs, dp \in [Nodes -> Planes],
         Leaves(n, Plane(n)!Halted(c))
  PROVE  /\ dp' \in [Nodes -> Planes]
         /\ dp'[n].conf \in {dp[n].conf, Nothing, Broken, c}
         /\ dp[n].conf = Nothing /\ c = Nothing => dp'[n].conf = Nothing
         /\ \A m \in Nodes \ {n} : dp'[m] = dp[m]
<1> DEFINE dirty == Plane(n)!Dirty
           confs == IF {dp[n].conf, c} = {Nothing} THEN {Nothing} ELSE {Nothing, Broken, c}
<1>1. dp[n] \in Planes /\ dirty \in BOOLEAN BY DEF Plane!Dirty, Planes
<1>2. dp[n].stale \in BOOLEAN BY <1>1 DEF Planes
<1>3. ASSUME dp[n].conf = Nothing, c = Nothing PROVE confs = {Nothing}
  <2>1. \A x : x \in {dp[n].conf, c} <=> x \in {Nothing} BY <1>3
  <2>2. {dp[n].conf, c} = {Nothing} BY <2>1
  <2> QED BY <2>2
<1>4. confs \subseteq {Nothing, Broken, c} OBVIOUS
<1>5. \A left \in Plane(n)!Halted(c) :
        left = dp[n] \/ left \in [conf: confs, orphans: {FALSE, dirty},
                                  stale: {FALSE, dp[n].stale \/ dirty}]
  BY DEF Plane!Halted
<1> HIDE DEF confs, dirty
<1>6. ASSUME NEW left \in Plane(n)!Halted(c)
      PROVE  /\ left \in Planes /\ left.conf \in {dp[n].conf, Nothing, Broken, c}
             /\ dp[n].conf = Nothing /\ c = Nothing => left.conf = Nothing
  <2>1. CASE left = dp[n] BY <1>1, <2>1
  <2>2. CASE left \in [conf: confs, orphans: {FALSE, dirty},
                       stale: {FALSE, dp[n].stale \/ dirty}]
    <3>1. /\ left \in [conf: confs, orphans: BOOLEAN, stale: BOOLEAN]
          /\ left.conf \in confs
      BY <1>1, <1>2, <2>2
    <3>2. left.conf \in {Nothing, Broken, c} BY <1>4, <3>1
    <3>3. left \in Planes BY <1>4, <3>1, NothingOK DEF Planes
    <3> QED BY <1>3, <3>1, <3>2, <3>3
  <2> QED BY <1>5, <1>6, <2>1, <2>2
<1> HIDE DEF Plane!Halted
<1> QED BY <1>6, LeavesOne

-----------------------------------------------------------------------------
(* What each step makes of the memory of the agent                         *)

\* The memory of the agent on n: what the invariants are about.
Turns(n, pc, d, applied, state, ack, refresh, monitor, decommissioned) ==
  /\ agent' \in [Nodes -> Agent]
  /\ \A m \in Nodes \ {n} : agent'[m] = agent[m]
  /\ agent'[n].pc = pc /\ agent'[n].d = d
  /\ agent'[n].applied = applied /\ agent'[n].state = state
  /\ agent'[n].ack = ack /\ agent'[n].refresh = refresh
  /\ agent'[n].monitor = monitor /\ agent'[n].decommissioned = decommissioned
  /\ agent'[n].version = agent[n].version

\* Only the control point changes, and perhaps the desired state.
Moves(n, pc) ==
  LET a == agent[n] IN
  Turns(n, pc, a.d, a.applied, a.state, a.ack, a.refresh, a.monitor, a.decommissioned)

\* reconcile returned, its local variables are gone.
Ends(n, pc, applied, state, ack, monitor, decommissioned) ==
  Turns(n, pc, NoDesired, applied, state, ack, FALSE, monitor, decommissioned)

\* A new process, which restored the configuration applied or nothing.
Starts(n, pc, applied, restored) ==
  /\ agent' \in [Nodes -> Agent]
  /\ \A m \in Nodes \ {n} : agent'[m] = agent[m]
  /\ agent'[n].pc = pc /\ agent'[n].d = NoDesired
  /\ agent'[n].applied = applied /\ agent'[n].ack = 0
  /\ agent'[n].refresh = restored /\ agent'[n].monitor = restored
  /\ agent'[n].version = disk[n].binary

\* Writing the memory of one agent leaves the others alone.
LEMMA SetAgent ==
  ASSUME agent \in [Nodes -> Agent], NEW n \in Nodes, NEW a \in Agent, Set(n, a)
  PROVE  /\ agent' \in [Nodes -> Agent] /\ agent'[n] = a
         /\ \A m \in Nodes \ {n} : agent'[m] = agent[m]
BY DEF Set

\* What is left of an agent when reconcile returns.
LEMMA ReturnsOK ==
  ASSUME NEW a \in Agent, NEW pc \in Points
  PROVE  LET r == Returns(a, pc) IN
         /\ r \in Agent /\ r.pc = pc /\ r.d = NoDesired /\ r.refresh = FALSE
         /\ r.applied = a.applied /\ r.state = a.state /\ r.ack = a.ack
         /\ r.monitor = a.monitor /\ r.decommissioned = a.decommissioned
         /\ r.version = a.version
<1>1. NoDesired \in Desired BY NothingOK
<1> HIDE DEF NoDesired
<1>2. Returns(a, pc) \in Agent BY <1>1 DEF Returns, Agent, Points
<1> QED BY <1>2 DEF Returns, Agent

\* A fresh process is well typed.
LEMMA FreshOK ==
  ASSUME NEW n \in Nodes, disk \in [Nodes -> Disk], NEW c \in Confs,
         NEW restored \in BOOLEAN
  PROVE  /\ Fresh(n, c, restored) \in Agent
         /\ [Fresh(n, c, restored) EXCEPT !.pc = "down"] \in Agent
<1>1. NoDesired \in Desired BY NothingOK
<1>2. disk[n].binary \in Versions BY DEF Disk
<1> HIDE DEF NoDesired
<1>3. Fresh(n, c, restored) \in Agent BY <1>1, <1>2 DEF Fresh, Agent, ApplyStates
<1>4. [Fresh(n, c, restored) EXCEPT !.pc = "down"] \in Agent BY <1>3 DEF Agent
<1> QED BY <1>3, <1>4

\* Steps of the main loop: polling and reporting.
LEMMA PollTurns ==
  ASSUME TypeOK, NEW n \in Nodes, Poll(n)
  PROVE  LET a == agent[n] IN
         Turns(n, "got", DesiredState(n), a.applied, a.state, a.ack, a.refresh,
               a.monitor, a.decommissioned)
<1> DEFINE d == DesiredState(n)
           retuned == d.tuning # disk[n].tuning
           a == [agent[n] EXCEPT !.pc = "got", !.d = d, !.update = d.update,
                                 !.retuned = retuned]
<1>1. d \in Desired BY DesiredOK DEF Poll, TypeOK
<1>2. agent[n] \in Agent /\ Set(n, a) BY DEF Poll, TypeOK
<1>3. d.update \in Versions \cup {0} BY <1>1 DEF Desired
<1>4. retuned \in BOOLEAN OBVIOUS
<1> HIDE DEF d, retuned
<1>5. a \in Agent BY <1>1, <1>2, <1>3, <1>4 DEF Agent
<1>6. /\ a.pc = "got" /\ a.d = d /\ a.applied = agent[n].applied
      /\ a.state = agent[n].state /\ a.ack = agent[n].ack
      /\ a.refresh = agent[n].refresh /\ a.monitor = agent[n].monitor
      /\ a.decommissioned = agent[n].decommissioned /\ a.version = agent[n].version
  BY <1>2 DEF Agent
<1> HIDE DEF a
<1>7. agent' \in [Nodes -> Agent] /\ agent'[n] = a
      /\ \A m \in Nodes \ {n} : agent'[m] = agent[m]
  BY <1>2, <1>5, SetAgent DEF TypeOK
<1> QED BY <1>6, <1>7 DEF Turns, d

\* A step that only moves the control point.
LEMMA MoveTurns ==
  ASSUME TypeOK, NEW n \in Nodes, NEW pc \in Points,
         Set(n, [agent[n] EXCEPT !.pc = pc])
  PROVE  Moves(n, pc)
<1> DEFINE a == [agent[n] EXCEPT !.pc = pc]
<1>1. agent[n] \in Agent BY DEF TypeOK
<1>2. /\ a \in Agent
      /\ a.pc = pc /\ a.d = agent[n].d /\ a.applied = agent[n].applied
      /\ a.state = agent[n].state /\ a.ack = agent[n].ack
      /\ a.refresh = agent[n].refresh /\ a.monitor = agent[n].monitor
      /\ a.decommissioned = agent[n].decommissioned /\ a.version = agent[n].version
  BY <1>1 DEF Agent, Points
<1>3. Set(n, a) OBVIOUS
<1> HIDE DEF a
<1> QED BY <1>2, <1>3, SetAgent DEF Moves, Turns, TypeOK

\* reconcile returns with the memory a.
LEMMA ReturnTurns ==
  ASSUME TypeOK, NEW n \in Nodes, NEW pc \in Points,
         NEW a \in Agent, a.version = agent[n].version, Set(n, Returns(a, pc))
  PROVE  Ends(n, pc, a.applied, a.state, a.ack, a.monitor, a.decommissioned)
<1> DEFINE r == Returns(a, pc)
<1>1. /\ r \in Agent /\ r.pc = pc /\ r.d = NoDesired /\ r.refresh = FALSE
      /\ r.applied = a.applied /\ r.state = a.state /\ r.ack = a.ack
      /\ r.monitor = a.monitor /\ r.decommissioned = a.decommissioned
      /\ r.version = a.version
  BY ReturnsOK
<1>2. Set(n, r) OBVIOUS
<1> HIDE DEF r
<1> QED BY <1>1, <1>2, SetAgent DEF Ends, Turns, TypeOK

\* reconcile returns with another apply state.
LEMMA StateTurns ==
  ASSUME TypeOK, NEW n \in Nodes, NEW s \in ApplyStates,
         Set(n, [Returns(agent[n], "report") EXCEPT !.state = s])
  PROVE  LET a == agent[n] IN
         Ends(n, "report", a.applied, s, a.ack, a.monitor, a.decommissioned)
<1> DEFINE r == Returns(agent[n], "report")
           a == [r EXCEPT !.state = s]
<1>1. /\ r \in Agent /\ r.pc = "report" /\ r.d = NoDesired /\ r.refresh = FALSE
      /\ r.applied = agent[n].applied /\ r.ack = agent[n].ack
      /\ r.monitor = agent[n].monitor /\ r.decommissioned = agent[n].decommissioned
      /\ r.version = agent[n].version
  BY ReturnsOK DEF TypeOK, Points
<1>2. Set(n, a) OBVIOUS
<1> HIDE DEF r
<1>3. /\ a \in Agent /\ a.state = s /\ a.pc = r.pc /\ a.d = r.d
      /\ a.refresh = r.refresh /\ a.applied = r.applied /\ a.ack = r.ack
      /\ a.monitor = r.monitor /\ a.decommissioned = r.decommissioned
      /\ a.version = r.version
  BY <1>1 DEF Agent
<1> HIDE DEF a
<1> QED BY <1>1, <1>2, <1>3, SetAgent DEF Ends, Turns, TypeOK

\* A decommission that succeeded.
LEMMA CleanTurns ==
  ASSUME TypeOK, NEW n \in Nodes, DecommissionSucceeds(n)
  PROVE  LET a == agent[n] IN
         Ends(n, "report", a.applied, "decommissioning", a.ack, a.monitor, TRUE)
<1> DEFINE r == Returns(agent[n], "report")
           a == [r EXCEPT !.state = "decommissioning", !.decommissioned = TRUE]
<1>1. /\ r \in Agent /\ r.pc = "report" /\ r.d = NoDesired /\ r.refresh = FALSE
      /\ r.applied = agent[n].applied /\ r.ack = agent[n].ack
      /\ r.monitor = agent[n].monitor /\ r.version = agent[n].version
  BY ReturnsOK DEF TypeOK, Points
<1>2. Set(n, a) BY DEF DecommissionSucceeds
<1> HIDE DEF r
<1>3. /\ a \in Agent /\ a.state = "decommissioning" /\ a.pc = r.pc /\ a.d = r.d
      /\ a.refresh = r.refresh /\ a.applied = r.applied /\ a.ack = r.ack
      /\ a.monitor = r.monitor /\ a.decommissioned = TRUE /\ a.version = r.version
  BY <1>1 DEF Agent, ApplyStates
<1> HIDE DEF a
<1> QED BY <1>1, <1>2, <1>3, SetAgent DEF Ends, Turns, TypeOK

\* The agent that takes a restart over, and the one that returns from there.
LEMMA AckOK ==
  ASSUME TypeOK, NEW n \in Nodes, NEW pc \in Points
  PROVE  LET a == [agent[n] EXCEPT !.ack = agent[n].d.restart] IN
         /\ a \in Agent /\ a.ack = agent[n].d.restart
         /\ a.applied = agent[n].applied /\ a.decommissioned = agent[n].decommissioned
         /\ a.d = agent[n].d
         /\ Set(n, Returns(a, pc)) =>
              Ends(n, pc, a.applied, agent[n].state, a.ack, agent[n].monitor,
                   a.decommissioned)
<1> DEFINE k == agent[n].d.restart
           a == [agent[n] EXCEPT !.ack = k]
<1>1. agent[n] \in Agent BY DEF TypeOK
<1>2. k \in Nat BY <1>1 DEF Agent, Desired
<1> HIDE DEF k
<1>3. /\ a \in Agent /\ a.ack = k /\ a.applied = agent[n].applied
      /\ a.state = agent[n].state /\ a.monitor = agent[n].monitor
      /\ a.decommissioned = agent[n].decommissioned /\ a.version = agent[n].version
      /\ a.d = agent[n].d
  BY <1>1, <1>2 DEF Agent
<1> HIDE DEF a
<1>4. ASSUME Set(n, Returns(a, pc))
      PROVE  Ends(n, pc, a.applied, agent[n].state, a.ack, agent[n].monitor,
                  a.decommissioned)
  BY <1>3, <1>4, ReturnTurns
<1> QED BY <1>3, <1>4 DEF a, k

\* An apply starts: only its probe and apply state change.
LEMMA ApplyOK ==
  ASSUME TypeOK, NEW n \in Nodes
  PROVE  LET old == agent[n]
             a == [agent[n] EXCEPT !.pc = "apply", !.state = "applying",
                                   !.probe = agent[n].d.probe] IN
         /\ a \in Agent /\ a.ack = agent[n].ack
         /\ a.applied = agent[n].applied /\ a.decommissioned = agent[n].decommissioned
         /\ Set(n, a) => Turns(n, "apply", old.d, old.applied, "applying", old.ack,
                               old.refresh, old.monitor, old.decommissioned)
<1> DEFINE k == agent[n].d.probe
           a == [agent[n] EXCEPT !.pc = "apply", !.state = "applying", !.probe = k]
<1>1. agent[n] \in Agent BY DEF TypeOK
<1>2. k \in Nat BY <1>1 DEF Agent, Desired
<1> HIDE DEF k
<1>3. /\ a \in Agent /\ a.pc = "apply" /\ a.d = agent[n].d
      /\ a.applied = agent[n].applied /\ a.state = "applying"
      /\ a.ack = agent[n].ack /\ a.refresh = agent[n].refresh
      /\ a.monitor = agent[n].monitor
      /\ a.decommissioned = agent[n].decommissioned /\ a.version = agent[n].version
  BY <1>1, <1>2 DEF Agent, ApplyStates
<1> HIDE DEF a
<1>4. ASSUME Set(n, a)
      PROVE  LET old == agent[n] IN
             Turns(n, "apply", old.d, old.applied, "applying", old.ack,
                   old.refresh, old.monitor, old.decommissioned)
  BY <1>3, <1>4, SetAgent DEF Turns, TypeOK
<1> QED BY <1>3, <1>4 DEF a, k

\* A reconcile that succeeded: its target is now what the agent reports.
LEMMA AppliedTurns ==
  ASSUME TypeOK, NEW n \in Nodes, ApplySucceeds(n)
  PROVE  Ends(n, "report", Target(agent[n].d), "applied", agent[n].ack, TRUE,
              agent[n].decommissioned)
<1> DEFINE c == Target(agent[n].d)
           r == Returns(agent[n], "report")
           a == [r EXCEPT !.applied = c, !.state = "applied", !.monitor = TRUE]
<1>1. /\ r \in Agent /\ r.pc = "report" /\ r.d = NoDesired /\ r.refresh = FALSE
      /\ r.ack = agent[n].ack /\ r.decommissioned = agent[n].decommissioned
      /\ r.version = agent[n].version
  BY ReturnsOK DEF TypeOK, Points
<1>2. Set(n, a) BY DEF ApplySucceeds
<1>3. c \in Confs BY TargetOK DEF TypeOK, Agent
<1> HIDE DEF r, c
<1>4. /\ a \in Agent /\ a.state = "applied" /\ a.pc = r.pc /\ a.d = r.d
      /\ a.refresh = r.refresh /\ a.applied = c /\ a.ack = r.ack
      /\ a.monitor = TRUE /\ a.decommissioned = r.decommissioned
      /\ a.version = r.version
  BY <1>1, <1>3 DEF Agent, ApplyStates
<1> HIDE DEF a
<1>5. Ends(n, "report", c, "applied", agent[n].ack, TRUE, agent[n].decommissioned)
  BY <1>1, <1>2, <1>4, SetAgent DEF Ends, Turns, TypeOK
<1> QED BY <1>5 DEF c

\* The probe is taken over when reconcile returns.
LEMMA ProbeOK ==
  ASSUME TypeOK, NEW n \in Nodes, NEW pc \in Points
  PROVE  LET a == [Returns(agent[n], pc) EXCEPT !.probe = agent[n].d.probe] IN
         /\ a \in Agent /\ a.pc = pc /\ a.d = NoDesired /\ a.refresh = FALSE
         /\ a.applied = agent[n].applied /\ a.state = agent[n].state
         /\ a.ack = agent[n].ack /\ a.monitor = agent[n].monitor
         /\ a.decommissioned = agent[n].decommissioned
         /\ a.version = agent[n].version
<1> DEFINE k == agent[n].d.probe
           r == Returns(agent[n], pc)
<1>0. agent[n] \in Agent BY DEF TypeOK
<1>1. /\ r \in Agent /\ r.pc = pc /\ r.d = NoDesired /\ r.refresh = FALSE
      /\ r.applied = agent[n].applied /\ r.state = agent[n].state
      /\ r.ack = agent[n].ack /\ r.monitor = agent[n].monitor
      /\ r.decommissioned = agent[n].decommissioned
      /\ r.version = agent[n].version
  BY <1>0, ReturnsOK
<1>2. k \in Nat BY <1>0 DEF Agent, Desired
<1> HIDE DEF k, r
<1>3. LET a == [r EXCEPT !.probe = k] IN
      /\ a \in Agent /\ a.pc = r.pc /\ a.d = r.d /\ a.refresh = r.refresh
      /\ a.applied = r.applied /\ a.state = r.state
      /\ a.ack = r.ack /\ a.monitor = r.monitor
      /\ a.decommissioned = r.decommissioned /\ a.version = r.version
  BY <1>1, <1>2 DEF Agent
<1> QED BY <1>1, <1>3 DEF r, k

\* The health settings of the served revision are taken over, or not saved.
LEMMA RefreshTurns ==
  ASSUME TypeOK, NEW n \in Nodes, RefreshMonitor(n)
  PROVE  LET a == agent[n] IN
         \/ Ends(n, "report", a.applied, "applied", a.ack, TRUE, a.decommissioned)
         \/ Ends(n, "report", a.applied, "error", a.ack, a.monitor, a.decommissioned)
<1> DEFINE a == [Returns(agent[n], "report") EXCEPT !.probe = agent[n].d.probe]
           good == [a EXCEPT !.state = "applied", !.monitor = TRUE]
           bad == [a EXCEPT !.state = "error"]
<1>1. /\ a \in Agent /\ a.pc = "report" /\ a.d = NoDesired /\ a.refresh = FALSE
      /\ a.applied = agent[n].applied
      /\ a.ack = agent[n].ack /\ a.monitor = agent[n].monitor
      /\ a.decommissioned = agent[n].decommissioned
      /\ a.version = agent[n].version
  BY ProbeOK DEF Points
<1>2. Set(n, good) \/ Set(n, bad) BY DEF RefreshMonitor
<1> HIDE DEF a
<1>3. /\ good \in Agent /\ good.state = "applied" /\ good.pc = a.pc /\ good.d = a.d
      /\ good.refresh = a.refresh /\ good.applied = a.applied /\ good.ack = a.ack
      /\ good.monitor = TRUE /\ good.decommissioned = a.decommissioned
      /\ good.version = a.version
  BY <1>1 DEF Agent, ApplyStates
<1>4. /\ bad \in Agent /\ bad.state = "error" /\ bad.pc = a.pc /\ bad.d = a.d
      /\ bad.refresh = a.refresh /\ bad.applied = a.applied /\ bad.ack = a.ack
      /\ bad.monitor = a.monitor /\ bad.decommissioned = a.decommissioned
      /\ bad.version = a.version
  BY <1>1 DEF Agent, ApplyStates
<1> HIDE DEF good, bad
<1>5. CASE Set(n, good)
  BY <1>1, <1>3, <1>5, SetAgent DEF Ends, Turns, TypeOK
<1>6. CASE Set(n, bad)
  BY <1>1, <1>4, <1>6, SetAgent DEF Ends, Turns, TypeOK
<1> QED BY <1>2, <1>5, <1>6

\* A desired state that differs in nothing: reconcile returns as it began.
LEMMA NothingTurns ==
  ASSUME TypeOK, NEW n \in Nodes, NothingToApply(n)
  PROVE  \E pc \in {"report", "idle"} :
           LET a == agent[n] IN
           Ends(n, pc, a.applied, a.state, a.ack, a.monitor, a.decommissioned)
<1> DEFINE pc == IF agent[n].d.probe # agent[n].probe \/ agent[n].retuned
                 THEN "report" ELSE "idle"
           a == [Returns(agent[n], pc) EXCEPT !.probe = agent[n].d.probe]
<1>1. pc \in {"report", "idle"} /\ pc \in Points BY DEF Points
<1>2. Set(n, a) BY DEF NothingToApply
<1> HIDE DEF pc
<1>3. /\ a \in Agent /\ a.pc = pc /\ a.d = NoDesired /\ a.refresh = FALSE
      /\ a.applied = agent[n].applied /\ a.state = agent[n].state
      /\ a.ack = agent[n].ack /\ a.monitor = agent[n].monitor
      /\ a.decommissioned = agent[n].decommissioned
      /\ a.version = agent[n].version
  BY <1>1, ProbeOK
<1> HIDE DEF a
<1> QED BY <1>1, <1>2, <1>3, SetAgent DEF Ends, Turns, TypeOK

\* Processes that die and start.
LEMMA DiesTurns ==
  ASSUME TypeOK, NEW n \in Nodes, Dies(n)
  PROVE  /\ Starts(n, "down", Nothing, FALSE)
         /\ agent'[n].decommissioned = FALSE /\ agent'[n].state = "connecting"
<1> DEFINE f == Fresh(n, Nothing, FALSE)
           a == [f EXCEPT !.pc = "down"]
<1>1. f \in Agent /\ a \in Agent BY FreshOK, NothingOK DEF TypeOK
<1>2. Set(n, a) BY DEF Dies
<1>3. /\ f.d = NoDesired /\ f.applied = Nothing /\ f.ack = 0
      /\ f.refresh = FALSE /\ f.monitor = FALSE /\ f.version = disk[n].binary
      /\ f.decommissioned = FALSE /\ f.state = "connecting"
  BY DEF Fresh
<1> HIDE DEF f
<1>4. /\ a.pc = "down" /\ a.d = f.d /\ a.applied = f.applied /\ a.ack = f.ack
      /\ a.refresh = f.refresh /\ a.monitor = f.monitor /\ a.version = f.version
      /\ a.decommissioned = f.decommissioned /\ a.state = f.state
  BY <1>1 DEF Agent
<1> HIDE DEF a
<1> QED BY <1>1, <1>2, <1>3, <1>4, SetAgent DEF Starts, TypeOK

\* main starts with what it restored, or reports revision 0.
LEMMA StartTurns ==
  ASSUME TypeOK, NEW n \in Nodes, NEW c \in Confs, NEW restored \in BOOLEAN,
         Set(n, Fresh(n, c, restored))
  PROVE  /\ Starts(n, "idle", c, restored)
         /\ agent'[n].decommissioned = FALSE
         /\ agent'[n].state = IF restored THEN "applied" ELSE "connecting"
<1> DEFINE f == Fresh(n, c, restored)
<1>1. f \in Agent /\ Set(n, f) BY FreshOK DEF TypeOK
<1>2. /\ f.pc = "idle" /\ f.d = NoDesired /\ f.applied = c /\ f.ack = 0
      /\ f.refresh = restored /\ f.monitor = restored /\ f.version = disk[n].binary
      /\ f.decommissioned = FALSE
      /\ f.state = IF restored THEN "applied" ELSE "connecting"
  BY DEF Fresh
<1> HIDE DEF f
<1> QED BY <1>1, <1>2, SetAgent DEF Starts, TypeOK

\* The last report of the uninstaller.
LEMMA ConfirmOK ==
  ASSUME TypeOK, NEW n \in Nodes
  PROVE  LET a == [Fresh(n, Nothing, FALSE) EXCEPT !.state = "decommissioning",
                                                   !.decommissioned = TRUE] IN
         /\ a \in Agent /\ a.applied = Nothing /\ a.ack = 0 /\ a.decommissioned = TRUE
         /\ Set(n, [a EXCEPT !.pc = "exited"]) =>
              /\ Starts(n, "exited", Nothing, FALSE)
              /\ agent'[n].state = "decommissioning"
              /\ agent'[n].decommissioned = TRUE
<1> DEFINE f == Fresh(n, Nothing, FALSE)
           a == [f EXCEPT !.state = "decommissioning", !.decommissioned = TRUE]
           b == [a EXCEPT !.pc = "exited"]
<1>1. f \in Agent BY FreshOK, NothingOK DEF TypeOK
<1>2. /\ f.d = NoDesired /\ f.applied = Nothing /\ f.ack = 0
      /\ f.refresh = FALSE /\ f.monitor = FALSE /\ f.version = disk[n].binary
  BY DEF Fresh
<1> HIDE DEF f
<1>3. /\ a \in Agent /\ a.d = f.d /\ a.applied = f.applied /\ a.ack = f.ack
      /\ a.refresh = f.refresh /\ a.monitor = f.monitor /\ a.version = f.version
      /\ a.decommissioned = TRUE /\ a.state = "decommissioning"
  BY <1>1 DEF Agent, ApplyStates
<1> HIDE DEF a
<1>4. /\ b \in Agent /\ b.pc = "exited" /\ b.d = a.d /\ b.applied = a.applied
      /\ b.ack = a.ack /\ b.refresh = a.refresh /\ b.monitor = a.monitor
      /\ b.version = a.version
      /\ b.decommissioned = a.decommissioned /\ b.state = a.state
  BY <1>3 DEF Agent
<1> HIDE DEF b
<1>5. ASSUME Set(n, b)
      PROVE  /\ Starts(n, "exited", Nothing, FALSE)
             /\ agent'[n].state = "decommissioning"
             /\ agent'[n].decommissioned = TRUE
  BY <1>2, <1>3, <1>4, <1>5, SetAgent DEF Starts, TypeOK
<1> QED BY <1>2, <1>3, <1>5 DEF a, b, f

-----------------------------------------------------------------------------
(* What heartbeats do to the row of a node                                 *)

\* The row of a node that is heard of and not forgotten.
Heard(n, hb) ==
  /\ row'[n].status = (IF row[n].status = "deleting" THEN "deleting" ELSE "online")
  /\ row'[n].nonce = row[n].nonce /\ row'[n].ack = AckAfter(row[n], hb)
  /\ row'[n].target \in {0, row[n].target}
  /\ row'[n].reset = ResetAfter(row[n], hb)
  /\ row'[n].profile = row[n].profile /\ row'[n].desired = row[n].desired
  /\ row'[n].applied = hb.rev /\ row'[n].appliedProfile = hb.profile

\* The row is emptied because the report says that the node is clean.
Forgotten(n, hb) ==
  row[n].status = "deleting" /\ hb.decommissioned /\ row'[n] = Blank("removed")

\* What the panel does with the report hb of n.
Hears(n, hb) == Exists(n) /\ (Heard(n, hb) \/ Forgotten(n, hb))

\* A step that writes no other row and no profile.
OwnRow(n) ==
  /\ UNCHANGED <<revisions, deleted, req>>
  /\ \A m \in Nodes \ {n} : row'[m] = row[m]

\* The transaction of a heartbeat does one of the two.
LEMMA HeartbeatHears ==
  ASSUME StoreTypeOK, NEW n \in Nodes, NEW hb \in Report, Heartbeat(n, hb)
  PROVE  OwnRow(n) /\ Hears(n, hb)
<1> DEFINE deleting == row[n].status = "deleting"
           status == IF deleting THEN "deleting" ELSE "online"
           state == IF deleting THEN "decommissioning" ELSE hb.state
           target == IF hb.version >= row[n].target THEN 0 ELSE row[n].target
           ack == AckAfter(row[n], hb)
           reset == ResetAfter(row[n], hb)
           s == [row[n] EXCEPT
                   !.status = status, !.state = state,
                   !.applied = hb.rev, !.appliedProfile = hb.profile]
           r == [s EXCEPT !.version = hb.version, !.target = target,
                          !.ack = ack, !.reset = reset]
<1>1. row[n] \in Row BY DEF StoreTypeOK
<1>2. /\ r.status = status /\ r.target = target /\ r.ack = ack /\ r.reset = reset
      /\ r.nonce = row[n].nonce /\ r.profile = row[n].profile
      /\ r.desired = row[n].desired
      /\ r.applied = hb.rev /\ r.appliedProfile = hb.profile
  <2> HIDE DEF status, state, target, ack, reset
  <2>1. /\ s.status = status /\ s.applied = hb.rev /\ s.appliedProfile = hb.profile
        /\ s.nonce = row[n].nonce /\ s.profile = row[n].profile
        /\ s.desired = row[n].desired
    BY <1>1 DEF Row
  <2>2. DOMAIN s = DOMAIN row[n] OBVIOUS
  <2>3. {"version", "target", "ack", "reset"} \subseteq DOMAIN row[n] BY <1>1 DEF Row
  <2> HIDE DEF s
  <2> QED BY <2>1, <2>2, <2>3
<1>3. Exists(n) /\ UNCHANGED <<revisions, deleted, req>>
  BY DEF Heartbeat, MayReport
<1>4. Update(n, IF Forgets(row[n], hb) THEN Blank("removed") ELSE r)
  BY DEF Heartbeat
<1> HIDE DEF r
<1>5. /\ row'[n] = IF Forgets(row[n], hb) THEN Blank("removed") ELSE r
      /\ \A m \in Nodes \ {n} : row'[m] = row[m]
  BY <1>4 DEF Update, StoreTypeOK
<1>6. CASE Forgets(row[n], hb)
  BY <1>3, <1>5, <1>6 DEF OwnRow, Hears, Forgotten, Forgets
<1>7. CASE ~Forgets(row[n], hb)
  <2>1. row'[n] = r BY <1>5, <1>7
  <2>2. target \in {0, row[n].target} OBVIOUS
  <2>3. Heard(n, hb) BY <1>2, <2>1, <2>2 DEF Heard
  <2> QED BY <1>3, <1>5, <2>3 DEF OwnRow, Hears
<1> QED BY <1>6, <1>7

\* Sending a report changes the node's own row and late reports only.
LEMMA SentHears ==
  ASSUME TypeOK, NEW n \in Nodes, NEW hb \in Report,
         Delivered(n, hb) \/ Failed(n, hb)
  PROVE  /\ StoreTypeOK' /\ OwnRow(n)
         /\ row'[n] = row[n] \/ Hears(n, hb)
         /\ Delivered(n, hb) => Hears(n, hb)
         /\ late' \in [Nodes -> SUBSET Report]
         /\ \A m \in Nodes \ {n} : late'[m] = late[m]
         /\ late'[n] \subseteq late[n] \cup {hb}
<1>1. ASSUME Delivered(n, hb) PROVE StoreTypeOK' /\ OwnRow(n) /\ Hears(n, hb)
  BY <1>1, HeartbeatTypes, HeartbeatHears DEF Delivered, TypeOK
<1>2. CASE Failed(n, hb)
  <2>0. UNCHANGED <<revisions, deleted, row, req>> BY <1>2 DEF Failed, storeVars
  <2>1. StoreTypeOK' BY <2>0 DEF TypeOK, StoreTypeOK
  <2>2. OwnRow(n) /\ row'[n] = row[n] BY <2>0 DEF OwnRow
  <2>3. late' = late \/ late' = [late EXCEPT ![n] = late[n] \cup {hb}]
    BY <1>2 DEF Failed
  <2>4. late \in [Nodes -> SUBSET Report] BY DEF TypeOK
  <2>5. late[n] \cup {hb} \in SUBSET Report BY <2>4
  <2>6. /\ late' \in [Nodes -> SUBSET Report]
        /\ \A m \in Nodes \ {n} : late'[m] = late[m]
        /\ late'[n] \subseteq late[n] \cup {hb}
    BY <2>3, <2>4, <2>5
  <2> QED BY <1>1, <2>1, <2>2, <2>6
<1>3. CASE Delivered(n, hb)
  <2>1. late' = late BY <1>3 DEF Delivered
  <2>2. late \in [Nodes -> SUBSET Report] BY DEF TypeOK
  <2> QED BY <1>1, <1>3, <2>1, <2>2
<1> QED BY <1>2, <1>3

\* The row of a node that asked to be decommissioned.
MarkedDeleting(n) ==
  /\ Exists(n) /\ row'[n].status = "deleting"
  /\ row'[n].nonce = row[n].nonce /\ row'[n].ack = row[n].ack
  /\ row'[n].target = row[n].target /\ row'[n].reset = row[n].reset
  /\ row'[n].profile = row[n].profile /\ row'[n].desired = row[n].desired
  /\ row'[n].applied = row[n].applied /\ row'[n].appliedProfile = row[n].appliedProfile

\* The request to be decommissioned changes the status.
LEMMA MarkEffect ==
  ASSUME StoreTypeOK, NEW n \in Nodes, MarkDeleting(n)
  PROVE  StoreTypeOK' /\ OwnRow(n) /\ MarkedDeleting(n)
<1> DEFINE r == [row[n] EXCEPT !.status = "deleting", !.state = "decommissioning"]
<1>1. row[n] \in Row BY DEF StoreTypeOK
<1>2. r \in Row BY <1>1, StatusTypes DEF Statuses, ApplyStates
<1>3. /\ r.status = "deleting" /\ r.nonce = row[n].nonce /\ r.ack = row[n].ack
      /\ r.target = row[n].target /\ r.reset = row[n].reset
      /\ r.profile = row[n].profile /\ r.desired = row[n].desired
      /\ r.applied = row[n].applied /\ r.appliedProfile = row[n].appliedProfile
  BY <1>1 DEF Row
<1>4. Update(n, r) /\ Exists(n) /\ UNCHANGED <<revisions, deleted, req>>
  BY DEF MarkDeleting
<1> HIDE DEF r
<1>5. row' \in [Nodes -> Row] BY <1>2, <1>4, UpdateTypes
<1>6. row'[n] = r /\ \A m \in Nodes \ {n} : row'[m] = row[m]
  BY <1>4 DEF Update, StoreTypeOK
<1> QED BY <1>3, <1>4, <1>5, <1>6 DEF StoreTypeOK, OwnRow, MarkedDeleting

-----------------------------------------------------------------------------
(* What administrators do to rows and revisions                            *)

\* Every node was enrolled, and none is being created.
AllEnrolled ==
  /\ \A n \in Nodes : row[n].status # "absent"
  /\ \A h \in Handlers : req[h].op # "create"

\* Where the mark of a pending connection reset points after a statement.
Marked(m) ==
  \/ row'[m].reset = 0
  \/ row'[m].profile = NoProfile
  \/ /\ row'[m].profile = row[m].profile
     /\ row'[m].reset = row[m].reset
     /\ Current(row[m].profile)' = Current(row[m].profile)
  \/ /\ row'[m].profile = row[m].profile /\ row[m].profile \in Profiles
     /\ row'[m].reset = Current(row[m].profile) + 1
     /\ Current(row[m].profile)' = Current(row[m].profile) + 1

\* What an administrator's statement may do to the row of m.
AdminRow(m) ==
  \/ ~Exists(m) /\ row'[m] = row[m]
  \/ row[m].status = "deleting" /\ row'[m] = Blank("removed")
  \/ /\ Exists(m) /\ Exists(m)'
     /\ row'[m].nonce >= row[m].nonce /\ row'[m].ack = row[m].ack
     /\ row'[m].target \in {row[m].target, PanelVersion}
     /\ Marked(m)

\* Revisions of a profile appear one at a time and disappear together.
RevisionStep(q) ==
  \/ revisions'[q] = revisions[q]
  \/ /\ ~Live(q) /\ q \notin deleted
     /\ \E need \in Versions : revisions'[q] = <<need>>
  \/ Live(q) /\ \E need \in Versions : revisions'[q] = Append(revisions[q], need)
  \/ revisions'[q] = <<>> /\ q \in deleted'

\* A statement that writes nothing to rows and revisions.
LEMMA NoRow ==
  ASSUME StoreTypeOK, AllEnrolled, UNCHANGED <<revisions, deleted, row>>
  PROVE  /\ \A m \in Nodes : AdminRow(m)
         /\ \A q \in Profiles : RevisionStep(q)
<1>1. \A q : Current(q)' = Current(q) BY DEF Current
<1>2. \A m \in Nodes : row[m].nonce \in Nat BY DEF StoreTypeOK, Row
<1> QED BY <1>1, <1>2 DEF AdminRow, Marked, RevisionStep, Exists

\* A statement that writes one row and leaves where its mark points.
LEMMA OneAdminRow ==
  ASSUME StoreTypeOK, AllEnrolled, UNCHANGED <<revisions, deleted>>,
         NEW n \in Nodes, NEW r, Update(n, r), Exists(n),
         r.status \notin {"absent", "removed"},
         r.nonce >= row[n].nonce, r.ack = row[n].ack,
         r.target \in {row[n].target, PanelVersion},
         \/ r.reset = 0
         \/ r.reset = row[n].reset /\ r.profile = row[n].profile
  PROVE  /\ \A m \in Nodes : AdminRow(m)
         /\ \A q \in Profiles : RevisionStep(q)
<1>1. row'[n] = r /\ \A m \in Nodes \ {n} : row'[m] = row[m]
  BY DEF Update, StoreTypeOK
<1>2. \A q : Current(q)' = Current(q) BY DEF Current
<1>3. AdminRow(n) BY <1>1, <1>2 DEF AdminRow, Marked, Exists
<1>4. \A m \in Nodes : row[m].nonce \in Nat BY DEF StoreTypeOK, Row
<1>5. \A m \in Nodes \ {n} : AdminRow(m)
  BY <1>1, <1>2, <1>4 DEF AdminRow, Marked, Exists
<1> QED BY <1>3, <1>5 DEF RevisionStep

\* A publication moves the mark of every assigned node, or clears it.
LEMMA PublishRows ==
  ASSUME StoreTypeOK, NEW p \in Profiles, NEW need \in Versions,
         NEW reset \in BOOLEAN, PublishRevision(p, need, reset)
  PROVE  /\ \A m \in Nodes : AdminRow(m)
         /\ \A q \in Profiles : RevisionStep(q)
<1> DEFINE number == Current(p) + 1
           mark == ResetMark(p, reset)
           next(n) == [row[n] EXCEPT !.desired = number, !.reset = mark]
<1>1. revisions[p] \in Seq(Versions) /\ Current(p) \in Nat /\ Live(p)
  BY CurrentOK DEF StoreTypeOK, PublishRevision
<1>2. revisions'[p] = Append(revisions[p], need) /\ Current(p)' = number
  <2>1. revisions'[p] = Append(revisions[p], need)
    BY DEF PublishRevision, StoreTypeOK
  <2>2. Len(revisions'[p]) = Len(revisions[p]) + 1 BY <1>1, <2>1
  <2> QED BY <2>1, <2>2 DEF Current
<1>3. \A q \in Profiles \ {p} : revisions'[q] = revisions[q]
  BY DEF PublishRevision, StoreTypeOK
<1>4. mark \in {0, number} BY DEF ResetMark
<1>5. \A n \in Nodes : row'[n] = IF n \in Assigned(p) THEN next(n) ELSE row[n]
  BY DEF PublishRevision
<1> HIDE DEF number, mark
<1>6. \A n \in Nodes : /\ next(n).status = row[n].status
                       /\ next(n).profile = row[n].profile /\ next(n).reset = mark
                       /\ next(n).nonce = row[n].nonce /\ next(n).ack = row[n].ack
                       /\ next(n).target = row[n].target
  BY DEF StoreTypeOK, Row
<1> HIDE DEF next
<1>7. \A m \in Nodes : row[m].nonce \in Nat /\ row[m].profile \in Profiles \cup {NoProfile}
  BY DEF StoreTypeOK, Row
<1>8. ASSUME NEW m \in Nodes PROVE AdminRow(m)
  <2>1. CASE m \in Assigned(p)
    <3>1. Exists(m) /\ row[m].profile = p BY <2>1 DEF Assigned
    <3>2. row'[m] = next(m) BY <1>5, <2>1
    <3>3. Marked(m) BY <1>2, <1>4, <1>6, <3>1, <3>2 DEF Marked, number
    <3> QED BY <1>6, <1>7, <3>1, <3>2, <3>3 DEF AdminRow, Exists
  <2>2. CASE Exists(m) /\ m \notin Assigned(p)
    <3>1. row'[m] = row[m] /\ row[m].profile # p BY <1>5, <2>2 DEF Assigned
    <3>2. Marked(m) BY <1>3, <1>7, <3>1 DEF Marked, Current
    <3> QED BY <1>7, <2>2, <3>1, <3>2 DEF AdminRow, Exists
  <2>3. CASE ~Exists(m)
    <3>1. row'[m] = row[m] BY <1>5, <2>3 DEF Assigned
    <3> QED BY <2>3, <3>1 DEF AdminRow
  <2> QED BY <2>1, <2>2, <2>3
<1> QED BY <1>1, <1>2, <1>3, <1>8 DEF RevisionStep

\* A first revision is given to a profile no node points at.
LEMMA CreateRows ==
  ASSUME StoreTypeOK, RevisionInv, NEW p \in Profiles, NEW need \in Versions,
         CreateProfile(p, need)
  PROVE  /\ \A m \in Nodes : AdminRow(m)
         /\ \A q \in Profiles : RevisionStep(q)
<1>1. ~Live(p) /\ p \notin deleted /\ row' = row /\ revisions'[p] = <<need>>
      /\ \A q \in Profiles \ {p} : revisions'[q] = revisions[q]
  BY DEF CreateProfile, StoreTypeOK
<1>2. ASSUME NEW m \in Nodes PROVE AdminRow(m)
  <2>1. row[m].nonce \in Nat /\ row[m].profile \in Profiles \cup {NoProfile}
    BY DEF StoreTypeOK, Row
  <2>2. ASSUME Exists(m), row[m].profile # NoProfile
        PROVE  Current(row[m].profile)' = Current(row[m].profile)
    <3>1. row[m].profile # p
      BY <1>1, <2>2 DEF RevisionInv, DesiredExists, HasProfileRevision
    <3> QED BY <1>1, <2>1, <2>2, <3>1 DEF Current
  <2> QED BY <1>1, <2>1, <2>2 DEF AdminRow, Marked, Exists
<1> QED BY <1>1, <1>2 DEF RevisionStep

\* A deletion unassigns the nodes that pointed at the profile.
LEMMA DeleteRows ==
  ASSUME StoreTypeOK, NEW h \in Handlers, DeleteProfileDelete(h)
  PROVE  /\ \A m \in Nodes : AdminRow(m)
         /\ \A q \in Profiles : RevisionStep(q)
<1> DEFINE p == req[h].profile
           next(n) == [row[n] EXCEPT !.profile = NoProfile]
<1>1. p \in Profiles /\ revisions'[p] = <<>> /\ p \in deleted'
  BY DEF DeleteProfileDelete, Live, StoreTypeOK
<1>2. \A q \in Profiles \ {p} : revisions'[q] = revisions[q]
  BY DEF DeleteProfileDelete, StoreTypeOK
<1>3. \A n \in Nodes : row'[n] = IF n \in Assigned(p) THEN next(n) ELSE row[n]
  BY DEF DeleteProfileDelete, Unassign
<1>4. \A n \in Nodes : /\ next(n).status = row[n].status
                       /\ next(n).profile = NoProfile
                       /\ next(n).nonce = row[n].nonce /\ next(n).ack = row[n].ack
                       /\ next(n).target = row[n].target
  BY DEF StoreTypeOK, Row
<1> HIDE DEF p, next
<1>5. ASSUME NEW m \in Nodes PROVE AdminRow(m)
  <2>1. row[m].nonce \in Nat /\ row[m].profile \in Profiles \cup {NoProfile}
    BY DEF StoreTypeOK, Row
  <2>2. CASE m \in Assigned(p)
    <3>1. Exists(m) /\ row'[m] = next(m) BY <1>3, <2>2 DEF Assigned
    <3> QED BY <1>4, <2>1, <3>1 DEF AdminRow, Marked, Exists
  <2>3. CASE Exists(m) /\ m \notin Assigned(p)
    <3>1. row'[m] = row[m] /\ row[m].profile # p BY <1>3, <2>3 DEF Assigned
    <3>2. Marked(m) BY <1>2, <2>1, <3>1 DEF Marked, Current
    <3> QED BY <2>1, <2>3, <3>1, <3>2 DEF AdminRow, Exists
  <2>4. CASE ~Exists(m)
    <3>1. row'[m] = row[m] BY <1>3, <2>4 DEF Assigned
    <3> QED BY <2>4, <3>1 DEF AdminRow
  <2> QED BY <2>2, <2>3, <2>4
<1> QED BY <1>1, <1>2, <1>5 DEF RevisionStep

\* What any statement of an administrator handler does, when every node was
\* enrolled before.
LEMMA AdminSteps ==
  ASSUME StoreTypeOK, RevisionInv, AllEnrolled, AdminNext
  PROVE  /\ AllEnrolled'
         /\ deleted \subseteq deleted'
         /\ \A m \in Nodes : AdminRow(m)
         /\ \A q \in Profiles : RevisionStep(q)
<1> DEFINE Rows == /\ \A m \in Nodes : AdminRow(m)
                   /\ \A q \in Profiles : RevisionStep(q)
<1>1. ASSUME NEW p \in Profiles, NEW need \in Versions, CreateProfile(p, need)
      PROVE  Rows
  BY <1>1, CreateRows
<1>2. ASSUME NEW p \in Profiles, NEW need \in Versions, NEW reset \in BOOLEAN,
             PublishRevision(p, need, reset)
      PROVE  Rows
  BY <1>2, PublishRows
<1>3. ASSUME NEW p \in Profiles, NEW number \in 1 .. MaxRev, RollbackProfile(p, number)
      PROVE  Rows
  <2>1. revisions[p][number] \in Versions
    BY <1>3 DEF RollbackProfile, Current, StoreTypeOK
  <2> QED BY <1>2, <1>3, <2>1 DEF RollbackProfile
<1>4. ASSUME NEW h \in Handlers, DeleteProfileDelete(h) PROVE Rows
  BY <1>4, DeleteRows
<1>5. ASSUME UNCHANGED <<revisions, deleted, row>> PROVE Rows
  BY <1>5, NoRow
<1>6. ASSUME NEW h \in Handlers, NEW n \in Nodes, NEW p \in Profiles,
             CreateNodeRead(h, n, p)
      PROVE  FALSE
  BY <1>6 DEF CreateNodeRead, AllEnrolled
<1>7. ASSUME NEW h \in Handlers, NEW ip \in IPs, CreateNodeInsert(h, ip) PROVE FALSE
  BY <1>7 DEF CreateNodeInsert, AllEnrolled
<1>8. \A n \in Nodes : row[n] \in Row BY DEF StoreTypeOK
<1>9. \A h \in Handlers : req[h] \in Request /\ req[h].node \in Nodes
  BY DEF StoreTypeOK, Request
<1>10. ASSUME NEW h \in Handlers, AssignProfileUpdate(h) PROVE Rows
  <2> DEFINE n == req[h].node
             r == PointTo(row[n], req[h])
  <2>1. n \in Nodes /\ row[n] \in Row BY <1>8, <1>9
  <2>2. /\ r.status = row[n].status /\ r.nonce = row[n].nonce /\ r.ack = row[n].ack
        /\ r.target = row[n].target /\ r.reset = 0
    BY <2>1 DEF PointTo, Row
  <2>3. Update(n, r) /\ Exists(n) /\ UNCHANGED <<revisions, deleted>>
    BY <1>10 DEF AssignProfileUpdate
  <2>4. r.nonce >= row[n].nonce BY <2>1, <2>2 DEF Row
  <2> HIDE DEF r, n
  <2> QED BY <2>1, <2>2, <2>3, <2>4, OneAdminRow DEF Exists
<1>11. ASSUME NEW n \in Nodes, Exists(n), UNCHANGED <<revisions, deleted>>, NEW r,
              Update(n, r), r.status \notin {"absent", "removed"},
              r.nonce >= row[n].nonce, r.ack = row[n].ack,
              r.target \in {row[n].target, PanelVersion},
              r.reset = row[n].reset, r.profile = row[n].profile
       PROVE  Rows
  BY <1>11, OneAdminRow
<1>12. ASSUME NEW h \in Handlers, RotateStatus(h) \/ RevokeStatus(h) PROVE Rows
  <2>1. PICK s \in {"offline", "disabled"} :
          /\ Update(req[h].node, [row[req[h].node] EXCEPT !.status = s])
          /\ Exists(req[h].node) /\ UNCHANGED <<revisions, deleted>>
    BY <1>12 DEF RotateStatus, RevokeStatus
  <2> DEFINE n == req[h].node
             r == [row[n] EXCEPT !.status = s]
  <2>2. n \in Nodes /\ row[n] \in Row BY <1>8, <1>9
  <2>3. /\ r.status = s /\ r.nonce = row[n].nonce /\ r.ack = row[n].ack
        /\ r.target = row[n].target /\ r.reset = row[n].reset
        /\ r.profile = row[n].profile /\ row[n].nonce \in Nat
    BY <2>2 DEF Row
  <2>4. Update(n, r) /\ Exists(n) /\ UNCHANGED <<revisions, deleted>> BY <2>1
  <2> HIDE DEF r, n
  <2> QED BY <1>11, <2>2, <2>3, <2>4
<1>13. ASSUME NEW h \in Handlers, NEW n \in Nodes,
              RotateCredential(h, n) \/ RevokeCredential(h, n)
       PROVE  Rows
  <2>1. PICK c : /\ Update(n, [row[n] EXCEPT !.cred = c])
                 /\ Exists(n) /\ UNCHANGED <<revisions, deleted>>
    BY <1>13 DEF RotateCredential, RevokeCredential
  <2> DEFINE r == [row[n] EXCEPT !.cred = c]
  <2>2. /\ r.status = row[n].status /\ r.nonce = row[n].nonce /\ r.ack = row[n].ack
        /\ r.target = row[n].target /\ r.reset = row[n].reset
        /\ r.profile = row[n].profile /\ row[n].nonce \in Nat
    BY <1>8 DEF Row
  <2>3. Update(n, r) BY <2>1
  <2> HIDE DEF r
  <2> QED BY <1>11, <2>1, <2>2, <2>3 DEF Exists
<1>14. ASSUME NEW n \in Nodes, RequestNodeRestart(n) PROVE Rows
  <2> DEFINE more == row[n].nonce + 1
             r == [row[n] EXCEPT !.nonce = more]
  <2>1. row[n].nonce \in Nat BY <1>8 DEF Row
  <2>2. more \in Nat /\ more >= row[n].nonce BY <2>1
  <2>3. Update(n, r) /\ Exists(n) /\ UNCHANGED <<revisions, deleted>>
    BY <1>14 DEF RequestNodeRestart
  <2> HIDE DEF more
  <2>4. /\ r.status = row[n].status /\ r.nonce = more /\ r.ack = row[n].ack
        /\ r.target = row[n].target /\ r.reset = row[n].reset
        /\ r.profile = row[n].profile
    BY <1>8 DEF Row
  <2> HIDE DEF r
  <2> QED BY <1>11, <2>2, <2>3, <2>4 DEF Exists
<1>15. ASSUME NEW n \in Nodes, NEW x, Exists(n), UNCHANGED <<revisions, deleted>>,
              \/ Update(n, [row[n] EXCEPT !.probe = x])
              \/ Update(n, [row[n] EXCEPT !.ip = x])
              \/ Update(n, [row[n] EXCEPT !.tuning = x])
       PROVE  Rows
  <2>1. PICK r \in {[row[n] EXCEPT !.probe = x], [row[n] EXCEPT !.ip = x],
                    [row[n] EXCEPT !.tuning = x]} : Update(n, r)
    BY <1>15
  <2>2. /\ r.status = row[n].status /\ r.nonce = row[n].nonce /\ r.ack = row[n].ack
        /\ r.target = row[n].target /\ r.reset = row[n].reset
        /\ r.profile = row[n].profile /\ row[n].nonce \in Nat
    BY <1>8, <2>1 DEF Row
  <2> QED BY <1>11, <1>15, <2>1, <2>2 DEF Exists
<1>16. ASSUME NEW n \in Nodes, RequestNodeUpdate(n) PROVE Rows
  <2> DEFINE r == [row[n] EXCEPT !.target = PanelVersion]
  <2>1. /\ r.status = row[n].status /\ r.nonce = row[n].nonce /\ r.ack = row[n].ack
        /\ r.target = PanelVersion /\ r.reset = row[n].reset
        /\ r.profile = row[n].profile /\ row[n].nonce \in Nat
    BY <1>8 DEF Row
  <2>2. Update(n, r) /\ Exists(n) /\ UNCHANGED <<revisions, deleted>>
    BY <1>16 DEF RequestNodeUpdate
  <2> HIDE DEF r
  <2> QED BY <1>11, <2>1, <2>2 DEF Exists
<1>17. ASSUME NEW n \in Nodes, Exists(n), UNCHANGED <<revisions, deleted>>,
              NEW s \in {"deleting", "connecting", "disabled"}, NEW a,
              Update(n, [row[n] EXCEPT !.status = s, !.state = a])
       PROVE  Rows
  <2> DEFINE r == [row[n] EXCEPT !.status = s, !.state = a]
  <2>1. /\ r.status = s /\ r.nonce = row[n].nonce /\ r.ack = row[n].ack
        /\ r.target = row[n].target /\ r.reset = row[n].reset
        /\ r.profile = row[n].profile /\ row[n].nonce \in Nat
    BY <1>8 DEF Row
  <2>2. Update(n, r) BY <1>17
  <2> HIDE DEF r
  <2> QED BY <1>11, <1>17, <2>1, <2>2
<1>18. ASSUME NEW n \in Nodes, DeleteNode(n) \/ \E e \in BOOLEAN : SetNodeEnabled(n, e)
       PROVE  Rows
  BY <1>17, <1>18 DEF DeleteNode, MarkDeleting, SetNodeEnabled
<1>19. ASSUME NEW n \in Nodes, ForceDeleteNode(n) PROVE Rows
  <2>1. row'[n] = Blank("removed") /\ \A m \in Nodes \ {n} : row'[m] = row[m]
    BY <1>19 DEF ForceDeleteNode, Update, StoreTypeOK
  <2>2. AdminRow(n) BY <1>19, <2>1 DEF ForceDeleteNode, AdminRow
  <2>3. UNCHANGED <<revisions, deleted>> BY <1>19 DEF ForceDeleteNode
  <2>4. \A q : Current(q)' = Current(q) BY <2>3 DEF Current
  <2>5. \A m \in Nodes : row[m].nonce \in Nat BY <1>8 DEF Row
  <2>6. \A m \in Nodes \ {n} : AdminRow(m)
    BY <2>1, <2>4, <2>5 DEF AdminRow, Marked, Exists, AllEnrolled
  <2> QED BY <2>2, <2>3, <2>6 DEF RevisionStep
<1>20. Rows
  <2> HIDE DEF Rows
  <2>1. ASSUME NEW n \in Nodes, RequestHealthProbe(n) \/ (\E ip \in IPs : UpdateNode(n, ip))
                                \/ (\E t \in Tunings : UpdateTCPTuning(n, t))
        PROVE  Rows
    BY <1>15, <2>1 DEF RequestHealthProbe, UpdateNode, UpdateTCPTuning
  <2>2. ASSUME NEW h \in Handlers, NEW p \in Profiles, NEW n \in Nodes,
               AssignProfileRead(h, n, p)
        PROVE  Rows
    BY <1>5, <2>2 DEF AssignProfileRead
  <2>3. ASSUME NEW h \in Handlers, AssignProfileGate(h) \/ Abandon(h) PROVE Rows
    BY <1>5, <2>3 DEF AssignProfileGate, Abandon
  <2>4. ASSUME NEW h \in Handlers, NEW p \in Profiles, DeleteProfileCount(h, p)
        PROVE  Rows
    BY <1>5, <2>4 DEF DeleteProfileCount
  <2> QED
    BY <1>1, <1>2, <1>3, <1>4, <1>6, <1>7, <1>10, <1>12, <1>13, <1>14, <1>16, <1>18,
       <1>19, <2>1, <2>2, <2>3, <2>4 DEF AdminNext
<1>21. deleted \subseteq deleted'
  BY DEF AdminNext, CreateProfile, PublishRevision, RollbackProfile, DeleteProfileCount,
         DeleteProfileDelete, CreateNodeRead, AssignProfileRead, CreateNodeInsert,
         AssignProfileGate, AssignProfileUpdate, RotateStatus, RevokeStatus, Abandon,
         RotateCredential, RevokeCredential, RequestNodeRestart, RequestHealthProbe,
         RequestNodeUpdate, DeleteNode, MarkDeleting, ForceDeleteNode, UpdateNode,
         UpdateTCPTuning, SetNodeEnabled
<1>22. \A m \in Nodes : row'[m].status # "absent"
  <2>1. Blank("removed").status = "removed" BY DEF Blank
  <2>2. \A m \in Nodes : row'[m].status \in {row[m].status, "removed"} \/ Exists(m)'
    BY <1>20, <2>1 DEF AdminRow
  <2> QED BY <2>2 DEF AllEnrolled, Exists
<1>23. \A h \in Handlers : req'[h].op # "create"
  <2>1. ASSUME NEW h \in Handlers, Answers(h) PROVE \A g \in Handlers : req'[g].op # "create"
    BY <2>1 DEF Answers, StoreTypeOK, AllEnrolled, Idle
  <2>2. ASSUME NEW h \in Handlers, NEW op, op # "create",
               NEW n, NEW p, NEW rev, NEW need, Later(h, op, n, p, rev, need)
        PROVE  \A g \in Handlers : req'[g].op # "create"
    BY <2>2 DEF Later, StoreTypeOK, AllEnrolled
  <2>3. ASSUME UNCHANGED req PROVE \A g \in Handlers : req'[g].op # "create"
    BY <2>3 DEF AllEnrolled
  <2>4. ASSUME NEW h \in Handlers, AssignProfileGate(h)
        PROVE  \A g \in Handlers : req'[g].op # "create"
    BY <2>4, <1>9 DEF AssignProfileGate, StoreTypeOK, AllEnrolled, Request
  <2>5. ASSUME NEW h \in Handlers, NEW p \in Profiles, NEW n \in Nodes,
               AssignProfileRead(h, n, p)
        PROVE  \A g \in Handlers : req'[g].op # "create"
    <3>1. PICK op \in {"gate", "assign"} :
            \E rev, need : Later(h, op, n, p, rev, need)
      BY <2>5 DEF AssignProfileRead
    <3> QED BY <2>2, <3>1
  <2>6. ASSUME NEW h \in Handlers, NEW n \in Nodes,
               RotateCredential(h, n) \/ RevokeCredential(h, n)
        PROVE  \A g \in Handlers : req'[g].op # "create"
    BY <2>2, <2>6 DEF RotateCredential, RevokeCredential
  <2>7. ASSUME NEW h \in Handlers, NEW p \in Profiles, DeleteProfileCount(h, p)
        PROVE  \A g \in Handlers : req'[g].op # "create"
    BY <2>2, <2>7 DEF DeleteProfileCount
  <2>8. ASSUME NEW h \in Handlers, \/ DeleteProfileDelete(h) \/ AssignProfileUpdate(h)
                                   \/ RotateStatus(h) \/ RevokeStatus(h) \/ Abandon(h)
        PROVE  \A g \in Handlers : req'[g].op # "create"
    BY <2>1, <2>8 DEF DeleteProfileDelete, AssignProfileUpdate, RotateStatus,
                      RevokeStatus, Abandon
  <2>9. ASSUME NEW p \in Profiles, NEW need \in Versions,
               CreateProfile(p, need) \/ \E reset \in BOOLEAN : PublishRevision(p, need, reset)
        PROVE  UNCHANGED req
    BY <2>9 DEF CreateProfile, PublishRevision
  <2>10. ASSUME NEW p \in Profiles, NEW number \in 1 .. MaxRev, RollbackProfile(p, number)
         PROVE  UNCHANGED req
    BY <2>10 DEF RollbackProfile, PublishRevision
  <2>11. ASSUME NEW n \in Nodes,
                \/ RequestNodeRestart(n) \/ RequestHealthProbe(n) \/ RequestNodeUpdate(n)
                \/ DeleteNode(n) \/ ForceDeleteNode(n)
                \/ \E ip \in IPs : UpdateNode(n, ip)
                \/ \E t \in Tunings : UpdateTCPTuning(n, t)
                \/ \E e \in BOOLEAN : SetNodeEnabled(n, e)
         PROVE  UNCHANGED req
    BY <2>11 DEF RequestNodeRestart, RequestHealthProbe, RequestNodeUpdate, DeleteNode,
                 MarkDeleting, ForceDeleteNode, UpdateNode, UpdateTCPTuning, SetNodeEnabled
  <2> QED
    BY <1>6, <1>7, <2>3, <2>4, <2>5, <2>6, <2>7, <2>8, <2>9, <2>10, <2>11 DEF AdminNext
<1> QED BY <1>20, <1>21, <1>22, <1>23 DEF AllEnrolled

-----------------------------------------------------------------------------
(* What the steps of a node do, as far as the invariants see it            *)

Handling(n) == agent[n].pc \in {"got", "install", "apply"}

\* What is being handled is a desired state the panel can answer with, and an
\* update is always one to the panel's own release.
Handled(n) ==
  LET a == agent[n] IN
  /\ Handling(n) => a.d.profile \in Profiles /\ a.d.rev > 0
  /\ a.d.reset => a.d.profile \in Profiles
  /\ a.pc = "install" => a.d.update \in Versions
  /\ a.d.update \in {0, PanelVersion}
  /\ row[n].target \in {0, PanelVersion}

\* Every step of n is well typed and leaves the other nodes alone.
Frame(n) ==
  /\ OwnRow(n) /\ UNCHANGED undone /\ served \subseteq served'
  /\ \A m \in Nodes \ {n} :
       /\ agent'[m] = agent[m] /\ disk'[m] = disk[m] /\ dp'[m] = dp[m]
       /\ job'[m] = job[m] /\ restarts'[m] = restarts[m] /\ late'[m] = late[m]

\* The panel, the data plane and the state file, or systemd see nothing.
Quiet(n) == row'[n] = row[n] /\ late'[n] = late[n]
Kept(n) == disk'[n].conf = disk[n].conf /\ disk'[n].binary = disk[n].binary
Rests(n) == Kept(n) /\ dp'[n] = dp[n]
Waits(n) == job'[n] = job[n] /\ restarts'[n] = restarts[n]

\* The panel hears, now, later or never, a report with these values.
Carries(hb, conf, ack, decommissioned) ==
  /\ hb.profile = conf[1] /\ hb.rev = conf[2]
  /\ hb.ack = ack /\ hb.decommissioned = decommissioned
Says(n, conf, ack, decommissioned) ==
  \E hb \in Report :
    /\ Carries(hb, conf, ack, decommissioned)
    /\ row'[n] = row[n] \/ Hears(n, hb)
    /\ late'[n] \subseteq late[n] \cup {hb}
SaysSo(n) == Says(n, agent[n].applied, agent[n].ack, agent[n].decommissioned)

\* What is left of the data plane by a call that succeeds or stops halfway.
Applied(n) ==
  LET d == agent[n].d IN
  /\ Serves(dp'[n], Target(d)) /\ disk'[n].conf = Target(d)
  /\ disk'[n].binary = disk[n].binary
  /\ <<n, d.profile, d.rev, d.reset>> \in served'
Cleaned(n) ==
  /\ dp'[n].conf = Nothing /\ disk'[n].conf = Nothing
  /\ disk'[n].binary = disk[n].binary
PartlyApplied(n) ==
  /\ Kept(n)
  /\ dp'[n].conf \in {dp[n].conf, disk[n].conf, Target(agent[n].d), Broken, Nothing}
PartlyCleaned(n) ==
  /\ Kept(n) /\ dp'[n].conf \in {dp[n].conf, Nothing, Broken}
  /\ dp[n].conf = Nothing => dp'[n].conf = Nothing

\* reconcile returns with the apply state s.
Gives(n, pc, s) ==
  LET a == agent[n] IN
  Ends(n, pc, a.applied, s, a.ack, a.monitor, a.decommissioned)

Polls(n) ==
  LET a == agent[n] IN
  /\ a.pc = "idle" /\ HasDesired(n) /\ ~Withheld(n, DesiredState(n))
  /\ Turns(n, "got", DesiredState(n), a.applied, a.state, a.ack, a.refresh,
           a.monitor, a.decommissioned)
  /\ Quiet(n) /\ Rests(n) /\ Waits(n)

Talks(n) ==
  /\ SaysSo(n) /\ Rests(n) /\ Waits(n)
  /\ \E pc \in Points :
       /\ Moves(n, pc)
       /\ \/ pc = agent[n].pc
          \/ agent[n].pc = "report" /\ pc \in {"idle", "exited"}
          \/ Handles(n) /\ Updates(n) /\ pc = "install"

Installs(n) ==
  /\ agent[n].pc = "install"
  /\ \E pc \in {"idle", "report"} : Gives(n, pc, agent[n].state)
  /\ SaysSo(n)
  /\ dp'[n] = dp[n] /\ disk'[n].conf = disk[n].conf
  /\ disk'[n].binary = agent[n].d.update
  /\ restarts'[n] = restarts[n] /\ job'[n] \in {"update", job[n]}

GivesUp(n) ==
  /\ agent[n].pc \in {"install", "got"}
  /\ \E pc \in {"idle", "report"} : Gives(n, pc, agent[n].state)
  /\ Quiet(n) /\ Rests(n) /\ Waits(n)

Refreshes(n) ==
  LET a == agent[n] IN
  /\ Handles(n) /\ ~Differs(n) /\ (~a.monitor \/ a.refresh)
  /\ \/ Ends(n, "report", a.applied, "applied", a.ack, TRUE, a.decommissioned)
     \/ Gives(n, "report", "error")
  /\ Quiet(n) /\ Rests(n) /\ Waits(n)

Cleans(n) ==
  LET a == agent[n] IN
  /\ Handles(n) /\ a.d.decommission
  /\ Ends(n, "report", a.applied, "decommissioning", a.ack, a.monitor, TRUE)
  /\ Quiet(n) /\ Cleaned(n) /\ Waits(n)

FailsToClean(n) ==
  /\ Handles(n) /\ agent[n].d.decommission
  /\ Gives(n, "report", "error")
  /\ Quiet(n) /\ PartlyCleaned(n) /\ Waits(n)

TakesRestart(n) ==
  LET a == agent[n] IN
  /\ Handles(n) /\ Restarts(n)
  /\ \E pc \in {"idle", "report"} :
       Ends(n, pc, a.applied, a.state, a.d.restart, a.monitor, a.decommissioned)
  /\ Says(n, a.applied, a.d.restart, a.decommissioned)
  /\ Rests(n) /\ restarts'[n] = restarts[n]
  /\ \/ job'[n] = job[n]
     \/ /\ job'[n] = "restart" /\ Exists(n)
        /\ Exists(n)' => row'[n].ack >= a.d.restart

StartsApply(n) ==
  LET a == agent[n] IN
  /\ Handles(n) /\ ~Updates(n) /\ ~a.d.decommission
  /\ Turns(n, "apply", a.d, a.applied, "applying", a.ack, a.refresh,
           a.monitor, a.decommissioned)
  /\ SaysSo(n) /\ Rests(n) /\ Waits(n)

Applies(n) ==
  LET a == agent[n] IN
  /\ a.pc = "apply"
  /\ Ends(n, "report", Target(a.d), "applied", a.ack, TRUE, a.decommissioned)
  /\ Quiet(n) /\ Applied(n) /\ Waits(n)

FailsToApply(n) ==
  /\ agent[n].pc = "apply"
  /\ Gives(n, "report", "error")
  /\ Quiet(n) /\ PartlyApplied(n) /\ Waits(n)

Falls(n) ==
  /\ Starts(n, "down", Nothing, FALSE) /\ agent'[n].decommissioned = FALSE
  /\ Quiet(n)
  /\ job'[n] = "none"
  /\ restarts'[n] = restarts[n] + (IF job[n] = "restart" THEN 1 ELSE 0)
  /\ \/ Rests(n)
     \/ agent[n].pc = "apply" /\ (PartlyApplied(n) \/ Applied(n))
     \/ Handles(n) /\ agent[n].d.decommission /\ PartlyCleaned(n)

Reboots(n) ==
  /\ agent[n].pc \in {"down", "exited"} /\ agent' = agent
  /\ Quiet(n) /\ Kept(n) /\ dp'[n].conf = Nothing /\ Waits(n)

Restores(n) ==
  LET conf == disk[n].conf IN
  /\ agent[n].pc = "down" /\ Quiet(n) /\ Kept(n) /\ Waits(n)
  /\ agent'[n].decommissioned = FALSE
  /\ \/ /\ conf[2] > 0 /\ Serves(dp'[n], conf)
        /\ Starts(n, "idle", conf, TRUE) /\ agent'[n].state = "applied"
     \/ /\ conf[2] = 0 /\ dp'[n] = dp[n]
        /\ Starts(n, "idle", conf, FALSE) /\ agent'[n].state = "connecting"
     \/ /\ conf[2] > 0 /\ dp'[n].conf \in {dp[n].conf, Nothing, Broken, conf}
        /\ Starts(n, "idle", [conf EXCEPT ![2] = 0], FALSE)
        /\ agent'[n].state = "connecting"

HearsLate(n) ==
  /\ agent' = agent /\ Rests(n) /\ Waits(n)
  /\ late'[n] \subseteq late[n]
  /\ row'[n] = row[n] \/ \E hb \in late[n] : Hears(n, hb)

Uninstalls(n) ==
  /\ agent[n].pc \in {"down", "idle"}
  /\ Rests(n) /\ late'[n] = late[n]
  /\ job'[n] = "none" /\ restarts'[n] = restarts[n]
  /\ \/ MarkedDeleting(n) /\ (Moves(n, "clean") \/ Moves(n, "cleanlocal"))
     \/ row'[n] = row[n] /\ Moves(n, "cleanlocal")

UninstallerCleans(n) ==
  /\ agent[n].pc \in {"clean", "cleanlocal"}
  /\ Quiet(n) /\ Waits(n)
  /\ \/ /\ Cleaned(n)
        /\ \/ agent[n].pc = "clean" /\ Moves(n, "confirm")
           \/ Moves(n, "exited")
     \/ PartlyCleaned(n) /\ Moves(n, "down")

Confirms(n) ==
  /\ agent[n].pc = "confirm"
  /\ Starts(n, "exited", Nothing, FALSE) /\ agent'[n].decommissioned = TRUE
  /\ Says(n, Nothing, 0, TRUE) /\ Rests(n) /\ Waits(n)

\* One of these is what any step of n does.
Effect(n) ==
  \/ Polls(n) \/ Talks(n) \/ Installs(n) \/ GivesUp(n) \/ Refreshes(n)
  \/ Cleans(n) \/ FailsToClean(n) \/ TakesRestart(n)
  \/ StartsApply(n) \/ Applies(n) \/ FailsToApply(n)
  \/ Falls(n) \/ Reboots(n) \/ Restores(n) \/ HearsLate(n)
  \/ Uninstalls(n) \/ UninstallerCleans(n) \/ Confirms(n)

\* A step that leaves the panel and late reports alone.
LEMMA QuietOK ==
  ASSUME TypeOK, NEW n \in Nodes, UNCHANGED <<storeVars, late>>
  PROVE  /\ StoreTypeOK' /\ OwnRow(n) /\ Quiet(n)
         /\ late' \in [Nodes -> SUBSET Report]
         /\ \A m \in Nodes \ {n} : late'[m] = late[m]
BY DEF storeVars, TypeOK, StoreTypeOK, OwnRow, Quiet

\* A step that leaves the data plane and the state file alone.
LEMMA RestsOK ==
  ASSUME TypeOK, NEW n \in Nodes, UNCHANGED <<disk, dp>>
  PROVE  /\ disk' \in [Nodes -> Disk] /\ dp' \in [Nodes -> Planes]
         /\ Rests(n)
         /\ \A m \in Nodes \ {n} : disk'[m] = disk[m] /\ dp'[m] = dp[m]
BY DEF TypeOK, Rests, Kept

\* A step that leaves systemd alone.
LEMMA WaitsOK ==
  ASSUME TypeOK, NEW n \in Nodes, UNCHANGED <<job, restarts>>
  PROVE  /\ job' \in [Nodes -> {"none", "restart", "update"}]
         /\ restarts' \in [Nodes -> Nat] /\ Waits(n)
         /\ \A m \in Nodes \ {n} : job'[m] = job[m] /\ restarts'[m] = restarts[m]
BY DEF TypeOK, Waits

\* A report of the memory a, and what the panel hears of it.
LEMMA SaysOK ==
  ASSUME TypeOK, NEW n \in Nodes, NEW a \in Agent, Sent(n, a)
  PROVE  /\ StoreTypeOK' /\ OwnRow(n)
         /\ late' \in [Nodes -> SUBSET Report]
         /\ \A m \in Nodes \ {n} : late'[m] = late[m]
         /\ Says(n, a.applied, a.ack, a.decommissioned)
<1> DEFINE hb == ReportOf(a)
<1>1. hb \in Report /\ Carries(hb, a.applied, a.ack, a.decommissioned)
  BY ReportOK DEF Carries
<1>2. Delivered(n, hb) \/ Failed(n, hb) BY DEF Sent
<1> HIDE DEF hb
<1>3. /\ StoreTypeOK' /\ OwnRow(n)
      /\ row'[n] = row[n] \/ Hears(n, hb)
      /\ late' \in [Nodes -> SUBSET Report]
      /\ \A m \in Nodes \ {n} : late'[m] = late[m]
      /\ late'[n] \subseteq late[n] \cup {hb}
  BY <1>1, <1>2, SentHears
<1> QED BY <1>1, <1>3 DEF Says

\* A node, its memory and its state file are well typed.
LEMMA NodeOK ==
  ASSUME TypeOK, NEW n \in Nodes
  PROVE  /\ agent[n] \in Agent /\ disk[n] \in Disk /\ disk[n].conf \in Confs
         /\ agent[n].d \in Desired /\ row[n] \in Row /\ StoreTypeOK
         /\ Nothing \in Confs
<1>1. agent[n] \in Agent /\ disk[n] \in Disk /\ row[n] \in Row /\ StoreTypeOK
  BY DEF TypeOK, StoreTypeOK
<1> QED BY <1>1, NothingOK DEF Agent, Disk

\* Writing another configuration, or another binary, into disk.
LEMMA DiskOK ==
  ASSUME TypeOK, NEW n \in Nodes
  PROVE  /\ \A c \in Confs : disk' = [disk EXCEPT ![n].conf = c] =>
              /\ disk' \in [Nodes -> Disk] /\ disk'[n].conf = c
              /\ disk'[n].binary = disk[n].binary
              /\ \A m \in Nodes \ {n} : disk'[m] = disk[m]
         /\ \A v \in Versions : disk' = [disk EXCEPT ![n].binary = v] =>
              /\ disk' \in [Nodes -> Disk] /\ disk'[n].binary = v
              /\ disk'[n].conf = disk[n].conf
              /\ \A m \in Nodes \ {n} : disk'[m] = disk[m]
         /\ \A t \in Tunings : disk' = [disk EXCEPT ![n].tuning = t] =>
              /\ disk' \in [Nodes -> Disk] /\ Kept(n)
              /\ \A m \in Nodes \ {n} : disk'[m] = disk[m]
<1>1. disk \in [Nodes -> Disk] /\ disk[n] \in Disk BY DEF TypeOK
<1>2. ASSUME NEW c \in Confs, disk' = [disk EXCEPT ![n].conf = c]
      PROVE  /\ disk' \in [Nodes -> Disk] /\ disk'[n].conf = c
             /\ disk'[n].binary = disk[n].binary
             /\ \A m \in Nodes \ {n} : disk'[m] = disk[m]
  BY <1>1, <1>2 DEF Disk
<1>3. ASSUME NEW v \in Versions, disk' = [disk EXCEPT ![n].binary = v]
      PROVE  /\ disk' \in [Nodes -> Disk] /\ disk'[n].binary = v
             /\ disk'[n].conf = disk[n].conf
             /\ \A m \in Nodes \ {n} : disk'[m] = disk[m]
  BY <1>1, <1>3 DEF Disk
<1>4. ASSUME NEW t \in Tunings, disk' = [disk EXCEPT ![n].tuning = t]
      PROVE  /\ disk' \in [Nodes -> Disk] /\ Kept(n)
             /\ \A m \in Nodes \ {n} : disk'[m] = disk[m]
  BY <1>1, <1>4 DEF Disk, Kept
<1> QED BY <1>2, <1>3, <1>4

\* What is left is well typed when its parts are.
LEMMA StepOK ==
  ASSUME TypeOK, NEW n \in Nodes, StoreTypeOK', OwnRow(n),
         agent' \in [Nodes -> Agent], disk' \in [Nodes -> Disk],
         dp' \in [Nodes -> Planes],
         job' \in [Nodes -> {"none", "restart", "update"}],
         restarts' \in [Nodes -> Nat],
         late' \in [Nodes -> SUBSET Report],
         unit' \in [Nodes -> BOOLEAN], count' \in [ops: Nat, crashes: Nat],
         served' \in SUBSET (Nodes \X Profiles \X Nat \X BOOLEAN), served \subseteq served',
         UNCHANGED undone,
         \A m \in Nodes \ {n} :
           /\ agent'[m] = agent[m] /\ disk'[m] = disk[m] /\ dp'[m] = dp[m]
           /\ job'[m] = job[m] /\ restarts'[m] = restarts[m] /\ late'[m] = late[m]
  PROVE  TypeOK' /\ Frame(n)
BY DEF TypeOK, Frame

-----------------------------------------------------------------------------
(* Every action of a node has its effect                                   *)

\* A poll only fills the hands of the agent.
LEMMA PollEffect ==
  ASSUME TypeOK, NEW n \in Nodes, Poll(n)
  PROVE  TypeOK' /\ Frame(n) /\ Polls(n)
<1> DEFINE t == DesiredState(n).tuning
<1>1. /\ UNCHANGED <<storeVars, late>> /\ UNCHANGED <<job, restarts>>
      /\ UNCHANGED <<dp, unit, count, served, undone>>
      /\ disk' = [disk EXCEPT ![n].tuning = t]
      /\ agent[n].pc = "idle" /\ HasDesired(n) /\ ~Withheld(n, DesiredState(n))
  BY DEF Poll
<1>2. t \in Tunings BY <1>1, DesiredOK DEF TypeOK
<1>3. /\ disk' \in [Nodes -> Disk] /\ Kept(n)
      /\ \A m \in Nodes \ {n} : disk'[m] = disk[m]
  BY <1>1, <1>2, DiskOK
<1> HIDE DEF t
<1>4. LET a == agent[n] IN
      Turns(n, "got", DesiredState(n), a.applied, a.state, a.ack, a.refresh,
            a.monitor, a.decommissioned)
  BY PollTurns
<1>5. agent' \in [Nodes -> Agent] /\ \A m \in Nodes \ {n} : agent'[m] = agent[m]
  BY <1>4 DEF Turns
<1>6. Polls(n) BY <1>1, <1>3, <1>4, QuietOK, WaitsOK DEF Polls, Rests
<1> QED BY <1>1, <1>3, <1>5, <1>6, QuietOK, WaitsOK, StepOK DEF TypeOK

\* Reports of the main loop and of the stages of an update.
LEMMA TalkEffect ==
  ASSUME TypeOK, NEW n \in Nodes,
         \/ HeartbeatTick(n) \/ UpdateStage(n) \/ StartUpdate(n)
         \/ FinalReportDelivered(n) \/ FinalReportFails(n)
  PROVE  TypeOK' /\ Frame(n) /\ Talks(n)
<1>0. agent[n] \in Agent /\ agent[n].pc \in Points BY NodeOK DEF Agent, Points
<1>1. Sent(n, agent[n])
  BY DEF HeartbeatTick, UpdateStage, StartUpdate, FinalReportDelivered,
         FinalReportFails, Sent
<1>2. /\ UNCHANGED <<disk, dp>> /\ UNCHANGED <<job, restarts>>
      /\ UNCHANGED <<count, served, undone>>
  BY DEF HeartbeatTick, UpdateStage, StartUpdate, FinalReportDelivered,
         FinalReportFails, local
<1>3. unit' \in [Nodes -> BOOLEAN]
  <2>1. CASE FinalReportDelivered(n)
    <3>1. agent[n].decommissioned \in BOOLEAN BY <1>0 DEF Agent
    <3> QED BY <2>1, <3>1 DEF FinalReportDelivered, TypeOK
  <2>2. CASE ~FinalReportDelivered(n)
    <3>1. UNCHANGED unit
      BY <2>2 DEF HeartbeatTick, UpdateStage, StartUpdate, FinalReportFails, local
    <3> QED BY <3>1 DEF TypeOK
  <2> QED BY <2>1, <2>2
<1>4. \E pc \in Points :
        /\ Moves(n, pc)
        /\ \/ pc = agent[n].pc
           \/ agent[n].pc = "report" /\ pc \in {"idle", "exited"}
           \/ Handles(n) /\ Updates(n) /\ pc = "install"
  <2>1. CASE HeartbeatTick(n) \/ UpdateStage(n)
    <3>1. agent' = agent BY <2>1 DEF HeartbeatTick, UpdateStage
    <3>2. Moves(n, agent[n].pc) BY <3>1 DEF Moves, Turns, TypeOK
    <3> QED BY <1>0, <3>2
  <2>2. CASE StartUpdate(n)
    <3>1. Moves(n, "install") BY <2>2, MoveTurns DEF StartUpdate, Points
    <3> QED BY <2>2, <3>1 DEF StartUpdate, Points
  <2>3. CASE FinalReportDelivered(n)
    <3> DEFINE pc == IF agent[n].decommissioned THEN "exited" ELSE "idle"
    <3>1. pc \in {"idle", "exited"} OBVIOUS
    <3>2. Set(n, [agent[n] EXCEPT !.pc = pc]) /\ agent[n].pc = "report"
      BY <2>3 DEF FinalReportDelivered
    <3> HIDE DEF pc
    <3>3. Moves(n, pc) BY <3>1, <3>2, MoveTurns DEF Points
    <3> QED BY <3>1, <3>2, <3>3 DEF Points
  <2>4. CASE FinalReportFails(n)
    <3>1. Moves(n, "idle") BY <2>4, MoveTurns DEF FinalReportFails, Points
    <3> QED BY <2>4, <3>1 DEF FinalReportFails, Points
  <2> QED BY <2>1, <2>2, <2>3, <2>4
<1>5. agent' \in [Nodes -> Agent] /\ \A m \in Nodes \ {n} : agent'[m] = agent[m]
  BY <1>4 DEF Moves, Turns
<1>6. SaysSo(n) BY <1>0, <1>1, SaysOK DEF SaysSo
<1>7. Talks(n) BY <1>2, <1>4, <1>6, RestsOK, WaitsOK DEF Talks
<1> QED BY <1>0, <1>1, <1>2, <1>3, <1>5, <1>7, SaysOK, RestsOK, WaitsOK, StepOK DEF TypeOK

\* An installed release changes the binary, and perhaps asks systemd.
LEMMA InstallEffect ==
  ASSUME TypeOK, NEW n \in Nodes, Handled(n), UpdateInstalled(n)
  PROVE  TypeOK' /\ Frame(n) /\ Installs(n)
<1> DEFINE v == agent[n].d.update
<1>0. agent[n] \in Agent /\ agent[n].pc = "install" /\ v \in Versions
  BY NodeOK DEF UpdateInstalled, Handled
<1>1. /\ UNCHANGED <<dp, unit, count, restarts, served, undone>>
      /\ disk' = [disk EXCEPT ![n].binary = v] /\ Sent(n, agent[n])
  BY DEF UpdateInstalled
<1>2. /\ disk' \in [Nodes -> Disk] /\ disk'[n].binary = v
      /\ disk'[n].conf = disk[n].conf
      /\ \A m \in Nodes \ {n} : disk'[m] = disk[m]
  BY <1>0, <1>1, DiskOK
<1>3. /\ job' \in [Nodes -> {"none", "restart", "update"}]
      /\ job'[n] \in {"update", job[n]}
      /\ \A m \in Nodes \ {n} : job'[m] = job[m]
  BY DEF UpdateInstalled, TypeOK
<1>4. \E pc \in {"idle", "report"} : Gives(n, pc, agent[n].state)
  <2>1. PICK pc \in {"idle", "report"} : Set(n, Returns(agent[n], pc))
    BY DEF UpdateInstalled
  <2> QED BY <1>0, <2>1, ReturnTurns DEF Gives, Points
<1>5. agent' \in [Nodes -> Agent] /\ \A m \in Nodes \ {n} : agent'[m] = agent[m]
  BY <1>4 DEF Gives, Ends, Turns
<1>6. Installs(n) BY <1>0, <1>1, <1>2, <1>3, <1>4, SaysOK DEF Installs, SaysSo
<1> QED BY <1>0, <1>1, <1>2, <1>3, <1>5, <1>6, SaysOK, StepOK DEF TypeOK

\* A failed update, nothing to apply, or new health settings end reconcile.
LEMMA GiveUpEffect ==
  ASSUME TypeOK, NEW n \in Nodes, UpdateFails(n) \/ NothingToApply(n) \/ RefreshMonitor(n)
  PROVE  TypeOK' /\ Frame(n) /\ (GivesUp(n) \/ Refreshes(n))
<1>0. agent[n] \in Agent BY NodeOK
<1>1. /\ UNCHANGED <<storeVars, late>> /\ UNCHANGED <<disk, dp>>
      /\ UNCHANGED <<job, restarts>> /\ UNCHANGED <<unit, count, served, undone>>
  BY DEF UpdateFails, NothingToApply, RefreshMonitor, local
<1>2. CASE UpdateFails(n)
  <2>1. Gives(n, "report", agent[n].state)
    BY <1>0, <1>2, ReturnTurns DEF UpdateFails, Gives, Points
  <2>2. GivesUp(n) BY <1>1, <1>2, <2>1, QuietOK, RestsOK, WaitsOK DEF GivesUp, UpdateFails
  <2> QED BY <1>1, <2>1, <2>2, QuietOK, RestsOK, WaitsOK, StepOK
          DEF TypeOK, Gives, Ends, Turns
<1>3. CASE NothingToApply(n)
  <2>1. PICK pc \in {"report", "idle"} : Gives(n, pc, agent[n].state)
    BY <1>3, NothingTurns DEF Gives
  <2>2. agent[n].pc = "got" BY <1>3 DEF NothingToApply, Proceeds, Handles
  <2>3. GivesUp(n) BY <1>1, <2>1, <2>2, QuietOK, RestsOK, WaitsOK DEF GivesUp
  <2> QED BY <1>1, <2>1, <2>3, QuietOK, RestsOK, WaitsOK, StepOK
          DEF TypeOK, Gives, Ends, Turns
<1>4. CASE RefreshMonitor(n)
  <2>1. LET a == agent[n] IN
        \/ Ends(n, "report", a.applied, "applied", a.ack, TRUE, a.decommissioned)
        \/ Gives(n, "report", "error")
    BY <1>4, RefreshTurns DEF Gives
  <2>2. Handles(n) /\ ~Differs(n) /\ (~agent[n].monitor \/ agent[n].refresh)
    BY <1>4 DEF RefreshMonitor, Proceeds
  <2>3. Refreshes(n) BY <1>1, <2>1, <2>2, QuietOK, RestsOK, WaitsOK DEF Refreshes
  <2> QED BY <1>1, <2>1, <2>3, QuietOK, RestsOK, WaitsOK, StepOK
          DEF TypeOK, Gives, Ends, Turns
<1> QED BY <1>2, <1>3, <1>4

\* Decommission succeeds and leaves nothing.
LEMMA CleanEffect ==
  ASSUME TypeOK, NEW n \in Nodes, DecommissionSucceeds(n)
  PROVE  TypeOK' /\ Frame(n) /\ Cleans(n)
<1>1. /\ UNCHANGED <<storeVars, late>> /\ UNCHANGED <<job, restarts>>
      /\ UNCHANGED <<unit, count, served, undone>>
      /\ Handles(n) /\ agent[n].d.decommission
      /\ disk' = [disk EXCEPT ![n].conf = Nothing]
      /\ Leaves(n, Plane(n)!Served(Nothing))
  BY DEF DecommissionSucceeds
<1>2. /\ disk' \in [Nodes -> Disk] /\ disk'[n].conf = Nothing
      /\ disk'[n].binary = disk[n].binary
      /\ \A m \in Nodes \ {n} : disk'[m] = disk[m]
  BY <1>1, DiskOK, NodeOK
<1>3. /\ dp' \in [Nodes -> Planes]
      /\ dp'[n].conf = Nothing /\ \A m \in Nodes \ {n} : dp'[m] = dp[m]
  BY <1>1, LeavesServed, NodeOK DEF TypeOK
<1>4. LET a == agent[n] IN
      Ends(n, "report", a.applied, "decommissioning", a.ack, a.monitor, TRUE)
  BY CleanTurns
<1>5. agent' \in [Nodes -> Agent] /\ \A m \in Nodes \ {n} : agent'[m] = agent[m]
  BY <1>4 DEF Ends, Turns
<1>6. Cleans(n) BY <1>1, <1>2, <1>3, <1>4, QuietOK, WaitsOK DEF Cleans, Cleaned
<1> QED BY <1>1, <1>2, <1>3, <1>5, <1>6, QuietOK, WaitsOK, StepOK DEF TypeOK

\* What a call leaves that stops halfway while the state file stays.
LEMMA PartlyOK ==
  ASSUME TypeOK, NEW n \in Nodes, UNCHANGED disk
  PROVE  /\ disk' \in [Nodes -> Disk] /\ Kept(n)
         /\ \A m \in Nodes \ {n} : disk'[m] = disk[m]
         /\ \/ Leaves(n, Plane(n)!Partial(Target(agent[n].d)))
            \/ Leaves(n, Plane(n)!Halted(Nothing))
            \/ Leaves(n, Plane(n)!Halted(disk[n].conf))
            => /\ dp' \in [Nodes -> Planes]
               /\ \A m \in Nodes \ {n} : dp'[m] = dp[m]
         /\ Leaves(n, Plane(n)!Partial(Target(agent[n].d))) => PartlyApplied(n)
         /\ Leaves(n, Plane(n)!Halted(Nothing)) => PartlyCleaned(n)
         /\ Leaves(n, Plane(n)!Halted(disk[n].conf)) =>
              dp'[n].conf \in {dp[n].conf, Nothing, Broken, disk[n].conf}
<1>1. disk \in [Nodes -> Disk] /\ dp \in [Nodes -> Planes] BY DEF TypeOK
<1>2. Target(agent[n].d) \in Confs BY TargetOK, NodeOK
<1>3. Kept(n) BY DEF Kept
<1>4. ASSUME Leaves(n, Plane(n)!Partial(Target(agent[n].d)))
      PROVE  /\ dp' \in [Nodes -> Planes]
             /\ \A m \in Nodes \ {n} : dp'[m] = dp[m]
             /\ PartlyApplied(n)
  BY <1>1, <1>2, <1>3, <1>4, LeavesPartial DEF PartlyApplied
<1>5. ASSUME NEW c \in Confs, Leaves(n, Plane(n)!Halted(c))
      PROVE  /\ dp' \in [Nodes -> Planes]
             /\ \A m \in Nodes \ {n} : dp'[m] = dp[m]
             /\ dp'[n].conf \in {dp[n].conf, Nothing, Broken, c}
             /\ c = Nothing => PartlyCleaned(n)
  BY <1>1, <1>3, <1>5, LeavesHalted DEF PartlyCleaned
<1>6. Nothing \in Confs /\ disk[n].conf \in Confs BY <1>1, NothingOK DEF Disk
<1> QED BY <1>1, <1>3, <1>4, <1>5, <1>6

\* Decommission or Reconcile fails and leaves a part.
LEMMA FailEffect ==
  ASSUME TypeOK, NEW n \in Nodes, DecommissionFails(n) \/ ApplyFails(n)
  PROVE  TypeOK' /\ Frame(n) /\ (FailsToClean(n) \/ FailsToApply(n))
<1>1. /\ UNCHANGED <<storeVars, late>> /\ UNCHANGED <<job, restarts>>
      /\ UNCHANGED <<unit, count, served, undone>> /\ UNCHANGED disk
  BY DEF DecommissionFails, ApplyFails
<1>2. Gives(n, "report", "error")
  BY StateTurns DEF Gives, ApplyStates, DecommissionFails, ApplyFails
<1>3. agent' \in [Nodes -> Agent] /\ \A m \in Nodes \ {n} : agent'[m] = agent[m]
  BY <1>2 DEF Gives, Ends, Turns
<1>4. \/ agent[n].pc = "apply" /\ Leaves(n, Plane(n)!Partial(Target(agent[n].d)))
      \/ /\ Handles(n) /\ agent[n].d.decommission
         /\ Leaves(n, Plane(n)!Halted(Nothing))
  BY DEF DecommissionFails, ApplyFails
<1>5. FailsToClean(n) \/ FailsToApply(n)
  BY <1>1, <1>2, <1>4, PartlyOK, QuietOK, WaitsOK DEF FailsToClean, FailsToApply
<1>6. /\ dp' \in [Nodes -> Planes]
      /\ \A m \in Nodes \ {n} : dp'[m] = dp[m]
  BY <1>1, <1>4, PartlyOK
<1> QED BY <1>1, <1>3, <1>5, <1>6, PartlyOK, QuietOK, WaitsOK, StepOK DEF TypeOK

\* A restart asked for by the panel: acknowledged first, then done.
LEMMA RestartEffect ==
  ASSUME TypeOK, NEW n \in Nodes, RestartByPanel(n)
  PROVE  TypeOK' /\ Frame(n) /\ TakesRestart(n)
<1> DEFINE a == [agent[n] EXCEPT !.ack = agent[n].d.restart]
<1>0. /\ a \in Agent /\ a.ack = agent[n].d.restart
      /\ a.applied = agent[n].applied /\ a.decommissioned = agent[n].decommissioned
      /\ \A pc \in Points : Set(n, Returns(a, pc)) =>
           Ends(n, pc, a.applied, agent[n].state, a.ack, agent[n].monitor,
                a.decommissioned)
  <2>1. ASSUME NEW pc \in Points
        PROVE  /\ a \in Agent /\ a.ack = agent[n].d.restart
               /\ a.applied = agent[n].applied
               /\ a.decommissioned = agent[n].decommissioned
               /\ Set(n, Returns(a, pc)) =>
                    Ends(n, pc, a.applied, agent[n].state, a.ack, agent[n].monitor,
                         a.decommissioned)
    BY AckOK
  <2>2. "idle" \in Points BY DEF Points
  <2> HIDE DEF a
  <2> QED BY <2>1, <2>2
<1>1. /\ UNCHANGED <<disk, dp>> /\ UNCHANGED <<unit, count, restarts, served, undone>>
      /\ Handles(n) /\ Restarts(n)
  BY DEF RestartByPanel
<1>2. Sent(n, a) BY DEF RestartByPanel, Sent
<1>3. \E pc \in {"idle", "report"} : Set(n, Returns(a, pc)) BY DEF RestartByPanel
<1>4. \/ UNCHANGED job
      \/ job' = [job EXCEPT ![n] = "restart"] /\ Delivered(n, ReportOf(a))
  BY DEF RestartByPanel
<1> HIDE DEF a
<1>5. /\ job' \in [Nodes -> {"none", "restart", "update"}]
      /\ \A m \in Nodes \ {n} : job'[m] = job[m]
      /\ \/ job'[n] = job[n]
         \/ job'[n] = "restart" /\ Delivered(n, ReportOf(a))
  BY <1>4 DEF TypeOK
<1>6. ASSUME Delivered(n, ReportOf(a))
      PROVE  Exists(n) /\ (Exists(n)' => row'[n].ack >= a.ack)
  <2>1. ReportOf(a) \in Report /\ ReportOf(a).ack = a.ack BY <1>0, ReportOK
  <2>2. Hears(n, ReportOf(a)) BY <1>6, <2>1, SentHears
  <2>3. ASSUME Heard(n, ReportOf(a)) PROVE row'[n].ack >= a.ack
    <3>1. a.ack \in Nat /\ row[n].ack \in Nat BY <1>0, NodeOK DEF Agent, Row
    <3> QED BY <2>1, <2>3, <3>1 DEF Heard, AckAfter
  <2>4. ASSUME Forgotten(n, ReportOf(a)) PROVE ~Exists(n)'
    BY <2>4 DEF Forgotten, Blank, Exists
  <2> QED BY <2>2, <2>3, <2>4 DEF Hears
<1>7. \E pc \in {"idle", "report"} :
        LET b == agent[n] IN
        Ends(n, pc, b.applied, b.state, b.d.restart, b.monitor, b.decommissioned)
  BY <1>0, <1>3 DEF Points
<1>8. agent' \in [Nodes -> Agent] /\ \A m \in Nodes \ {n} : agent'[m] = agent[m]
  BY <1>7 DEF Ends, Turns
<1>9. TakesRestart(n)
  BY <1>0, <1>1, <1>2, <1>5, <1>6, <1>7, SaysOK, RestsOK DEF TakesRestart
<1> QED BY <1>0, <1>1, <1>2, <1>5, <1>8, <1>9, SaysOK, RestsOK, StepOK DEF TypeOK

\* Reconcile starts on a desired state this release can serve.
LEMMA StartApplyEffect ==
  ASSUME TypeOK, NEW n \in Nodes, StartApply(n)
  PROVE  TypeOK' /\ Frame(n) /\ StartsApply(n)
<1> DEFINE a == [agent[n] EXCEPT !.pc = "apply", !.state = "applying",
                                 !.probe = agent[n].d.probe]
<1>0. /\ a \in Agent /\ a.ack = agent[n].ack
      /\ a.applied = agent[n].applied /\ a.decommissioned = agent[n].decommissioned
      /\ LET old == agent[n] IN
         Set(n, a) => Turns(n, "apply", old.d, old.applied, "applying", old.ack,
                            old.refresh, old.monitor, old.decommissioned)
  BY ApplyOK
<1>1. /\ UNCHANGED <<disk, dp>> /\ UNCHANGED <<job, restarts>>
      /\ UNCHANGED <<unit, count, served, undone>>
      /\ Handles(n) /\ ~Updates(n) /\ ~agent[n].d.decommission
      /\ Sent(n, a) /\ Set(n, a)
  BY DEF StartApply, Proceeds, local
<1> HIDE DEF a
<1>2. agent' \in [Nodes -> Agent] /\ \A m \in Nodes \ {n} : agent'[m] = agent[m]
  BY <1>0, <1>1 DEF Turns
<1>3. StartsApply(n)
  BY <1>0, <1>1, SaysOK, RestsOK, WaitsOK DEF StartsApply, SaysSo
<1> QED BY <1>0, <1>1, <1>2, <1>3, SaysOK, RestsOK, WaitsOK, StepOK DEF TypeOK

\* Committing a configuration serves it, saves it and remembers its reset.
LEMMA CommitsOK ==
  ASSUME TypeOK, NEW n \in Nodes, Handled(n), agent[n].pc = "apply", Commits(n)
  PROVE  /\ disk' \in [Nodes -> Disk] /\ dp' \in [Nodes -> Planes]
         /\ \A m \in Nodes \ {n} : disk'[m] = disk[m] /\ dp'[m] = dp[m]
         /\ served' \in SUBSET (Nodes \X Profiles \X Nat \X BOOLEAN) /\ served \subseteq served'
         /\ Applied(n)
<1> DEFINE c == Target(agent[n].d)
           mark == <<n, agent[n].d.profile, agent[n].d.rev, agent[n].d.reset>>
<1>1. c \in Confs BY TargetOK, NodeOK
<1>2. /\ Leaves(n, Plane(n)!Served(c)) /\ disk' = [disk EXCEPT ![n].conf = c]
      /\ served' = served \cup {mark}
  BY DEF Commits
<1>3. mark \in Nodes \X Profiles \X Nat \X BOOLEAN
  BY NodeOK DEF Handled, Handling, Desired
<1> HIDE DEF c, mark
<1>4. /\ dp' \in [Nodes -> Planes] /\ Serves(dp'[n], c)
      /\ \A m \in Nodes \ {n} : dp'[m] = dp[m]
  BY <1>1, <1>2, LeavesServed DEF TypeOK
<1>5. /\ disk' \in [Nodes -> Disk] /\ disk'[n].conf = c
      /\ disk'[n].binary = disk[n].binary
      /\ \A m \in Nodes \ {n} : disk'[m] = disk[m]
  BY <1>1, <1>2, DiskOK
<1>6. /\ served' \in SUBSET (Nodes \X Profiles \X Nat \X BOOLEAN) /\ served \subseteq served'
      /\ mark \in served'
  <2>1. served \in SUBSET (Nodes \X Profiles \X Nat \X BOOLEAN) BY DEF TypeOK
  <2> QED BY <1>2, <1>3, <2>1
<1> QED BY <1>4, <1>5, <1>6 DEF Applied, c, mark

\* Reconcile succeeds.
LEMMA ApplyEffect ==
  ASSUME TypeOK, NEW n \in Nodes, Handled(n), ApplySucceeds(n)
  PROVE  TypeOK' /\ Frame(n) /\ Applies(n)
<1>1. /\ UNCHANGED <<storeVars, late>> /\ UNCHANGED <<job, restarts>>
      /\ UNCHANGED <<unit, count, undone>>
      /\ agent[n].pc = "apply" /\ Commits(n)
  BY DEF ApplySucceeds
<1>2. Ends(n, "report", Target(agent[n].d), "applied", agent[n].ack, TRUE,
           agent[n].decommissioned)
  BY AppliedTurns
<1>3. agent' \in [Nodes -> Agent] /\ \A m \in Nodes \ {n} : agent'[m] = agent[m]
  BY <1>2 DEF Ends, Turns
<1>4. Applies(n) BY <1>1, <1>2, QuietOK, WaitsOK, CommitsOK DEF Applies
<1> QED BY <1>1, <1>3, <1>4, QuietOK, WaitsOK, CommitsOK, StepOK DEF TypeOK

\* The process dies, killed by systemd or by itself.
LEMMA FallEffect ==
  ASSUME TypeOK, NEW n \in Nodes, Handled(n), JobRuns(n) \/ Crash(n)
  PROVE  TypeOK' /\ Frame(n) /\ Falls(n)
<1>1. Dies(n) /\ count' \in [ops: Nat, crashes: Nat]
  BY DEF JobRuns, Crash, TypeOK
<1>2. /\ UNCHANGED <<storeVars, late>> /\ UNCHANGED <<unit, undone>>
      /\ job' = [job EXCEPT ![n] = "none"]
      /\ restarts' = [restarts EXCEPT ![n] =
                        IF job[n] = "restart" THEN restarts[n] + 1 ELSE restarts[n]]
      /\ \/ UNCHANGED <<disk, dp, served>>
         \/ /\ agent[n].pc = "apply" /\ UNCHANGED <<disk, served>>
            /\ Leaves(n, Plane(n)!Partial(Target(agent[n].d)))
         \/ agent[n].pc = "apply" /\ Commits(n)
         \/ /\ Handles(n) /\ agent[n].d.decommission /\ UNCHANGED <<disk, served>>
            /\ Leaves(n, Plane(n)!Halted(Nothing))
  BY <1>1 DEF Dies
<1>3. /\ Starts(n, "down", Nothing, FALSE) /\ agent'[n].decommissioned = FALSE
      /\ agent' \in [Nodes -> Agent] /\ \A m \in Nodes \ {n} : agent'[m] = agent[m]
  BY <1>1, DiesTurns DEF Starts
<1>4. /\ job' \in [Nodes -> {"none", "restart", "update"}] /\ job'[n] = "none"
      /\ \A m \in Nodes \ {n} : job'[m] = job[m]
      /\ restarts' \in [Nodes -> Nat]
      /\ restarts'[n] = restarts[n] + (IF job[n] = "restart" THEN 1 ELSE 0)
      /\ \A m \in Nodes \ {n} : restarts'[m] = restarts[m]
  BY <1>2 DEF TypeOK
<1>5. /\ disk' \in [Nodes -> Disk] /\ dp' \in [Nodes -> Planes]
      /\ \A m \in Nodes \ {n} : disk'[m] = disk[m] /\ dp'[m] = dp[m]
      /\ served' \in SUBSET (Nodes \X Profiles \X Nat \X BOOLEAN) /\ served \subseteq served'
      /\ \/ Rests(n)
         \/ agent[n].pc = "apply" /\ (PartlyApplied(n) \/ Applied(n))
         \/ Handles(n) /\ agent[n].d.decommission /\ PartlyCleaned(n)
  <2>0. served \in SUBSET (Nodes \X Profiles \X Nat \X BOOLEAN) BY DEF TypeOK
  <2>1. CASE UNCHANGED <<disk, dp, served>> BY <2>0, <2>1, RestsOK
  <2>2. CASE /\ agent[n].pc = "apply" /\ UNCHANGED <<disk, served>>
             /\ Leaves(n, Plane(n)!Partial(Target(agent[n].d)))
    BY <2>0, <2>2, PartlyOK
  <2>3. CASE agent[n].pc = "apply" /\ Commits(n) BY <2>3, CommitsOK
  <2>4. CASE /\ Handles(n) /\ agent[n].d.decommission /\ UNCHANGED <<disk, served>>
             /\ Leaves(n, Plane(n)!Halted(Nothing))
    BY <2>0, <2>4, PartlyOK
  <2> QED BY <1>2, <2>1, <2>2, <2>3, <2>4
<1>6. Falls(n) BY <1>2, <1>3, <1>4, <1>5, QuietOK DEF Falls
<1> QED BY <1>1, <1>2, <1>3, <1>4, <1>5, <1>6, QuietOK, StepOK DEF TypeOK

\* The node reboots.
LEMMA RebootEffect ==
  ASSUME TypeOK, NEW n \in Nodes, Reboot(n)
  PROVE  TypeOK' /\ Frame(n) /\ Reboots(n)
<1>1. /\ UNCHANGED <<storeVars, late>> /\ UNCHANGED <<job, restarts>>
      /\ UNCHANGED <<agent, disk, unit, served, undone>>
      /\ dp' = [dp EXCEPT ![n] = Clean] /\ agent[n].pc \in {"down", "exited"}
  BY DEF Reboot
<1>2. count' \in [ops: Nat, crashes: Nat] BY DEF Reboot, TypeOK
<1>3. /\ dp' \in [Nodes -> Planes] /\ dp'[n].conf = Nothing
      /\ \A m \in Nodes \ {n} : dp'[m] = dp[m]
  <2>1. Clean \in Planes /\ Clean.conf = Nothing BY NothingOK DEF Clean, Planes
  <2>2. dp \in [Nodes -> Planes] BY DEF TypeOK, Planes
  <2> QED BY <1>1, <2>1, <2>2
<1>4. Reboots(n) BY <1>1, <1>3, QuietOK, WaitsOK DEF Reboots, Kept
<1> QED BY <1>1, <1>2, <1>3, <1>4, QuietOK, WaitsOK, StepOK DEF TypeOK

\* The agent starts and restores, or fails to restore, its state file.
LEMMA StartEffect ==
  ASSUME TypeOK, NEW n \in Nodes, Start(n) \/ StartUnrestored(n)
  PROVE  TypeOK' /\ Frame(n) /\ Restores(n)
<1> DEFINE conf == disk[n].conf
           less == [conf EXCEPT ![2] = 0]
           some == conf[2] > 0
<1>0. conf \in Confs /\ less \in Confs /\ conf[2] \in Nat /\ some \in BOOLEAN
  BY NodeOK, ConfOK
<1>1. /\ UNCHANGED <<storeVars, late>> /\ UNCHANGED <<job, restarts>>
      /\ UNCHANGED <<unit, count, served, undone>> /\ UNCHANGED disk
      /\ agent[n].pc = "down"
  BY DEF Start, StartUnrestored
<1>2. \/ /\ Set(n, Fresh(n, conf, some)) /\ some
         /\ Leaves(n, Plane(n)!Served(conf))
      \/ /\ Set(n, Fresh(n, conf, some)) /\ ~some /\ UNCHANGED dp
      \/ /\ Set(n, Fresh(n, less, FALSE)) /\ some
         /\ Leaves(n, Plane(n)!Halted(conf))
  BY DEF Start, StartUnrestored, Unrestored
<1> HIDE DEF conf, less, some
<1>3. CASE Set(n, Fresh(n, conf, some)) /\ some /\ Leaves(n, Plane(n)!Served(conf))
  <2>1. /\ Starts(n, "idle", conf, TRUE) /\ agent'[n].decommissioned = FALSE
        /\ agent'[n].state = "applied"
    BY <1>0, <1>3, StartTurns
  <2>2. /\ dp' \in [Nodes -> Planes] /\ Serves(dp'[n], conf)
        /\ \A m \in Nodes \ {n} : dp'[m] = dp[m]
    BY <1>0, <1>3, LeavesServed DEF TypeOK
  <2>3. Restores(n)
    BY <1>1, <1>3, <2>1, <2>2, QuietOK, WaitsOK, PartlyOK DEF Restores, conf, some
  <2> QED BY <1>1, <2>1, <2>2, <2>3, QuietOK, WaitsOK, PartlyOK, StepOK DEF TypeOK, Starts
<1>4. CASE Set(n, Fresh(n, conf, some)) /\ ~some /\ UNCHANGED dp
  <2>1. some = FALSE BY <1>0, <1>4
  <2>2. /\ Starts(n, "idle", conf, FALSE) /\ agent'[n].decommissioned = FALSE
        /\ agent'[n].state = "connecting"
    BY <1>0, <1>4, <2>1, StartTurns
  <2>3. conf[2] = 0 BY <1>0, <1>4 DEF some
  <2>4. UNCHANGED <<disk, dp>> BY <1>1, <1>4
  <2>5. Restores(n)
    BY <1>1, <2>2, <2>3, <2>4, QuietOK, WaitsOK, RestsOK DEF Restores, Rests, conf
  <2> QED BY <1>1, <2>2, <2>4, <2>5, QuietOK, WaitsOK, RestsOK, StepOK DEF TypeOK, Starts
<1>5. CASE Set(n, Fresh(n, less, FALSE)) /\ some /\ Leaves(n, Plane(n)!Halted(conf))
  <2>1. /\ Starts(n, "idle", less, FALSE) /\ agent'[n].decommissioned = FALSE
        /\ agent'[n].state = "connecting"
    BY <1>0, <1>5, StartTurns
  <2>2. /\ dp' \in [Nodes -> Planes]
        /\ dp'[n].conf \in {dp[n].conf, Nothing, Broken, conf}
        /\ \A m \in Nodes \ {n} : dp'[m] = dp[m]
    BY <1>1, <1>5, PartlyOK DEF conf
  <2>3. Restores(n)
    BY <1>1, <1>5, <2>1, <2>2, QuietOK, WaitsOK, PartlyOK DEF Restores, conf, some, less
  <2> QED BY <1>1, <2>1, <2>2, <2>3, QuietOK, WaitsOK, PartlyOK, StepOK DEF TypeOK, Starts
<1> QED BY <1>2, <1>3, <1>4, <1>5

\* A late report arrives or is lost.
LEMMA LateEffect ==
  ASSUME TypeOK, NEW n \in Nodes, LateArrives(n) \/ LateLost(n)
  PROVE  TypeOK' /\ Frame(n) /\ HearsLate(n)
<1>1. PICK hb \in late[n] : /\ late' = [late EXCEPT ![n] = late[n] \ {hb}]
                            /\ UNCHANGED storeVars \/ Heartbeat(n, hb)
                            /\ UNCHANGED <<agent, local>>
  BY DEF LateArrives, LateLost
<1>2. /\ UNCHANGED <<disk, dp>> /\ UNCHANGED <<job, restarts>>
      /\ UNCHANGED <<agent, unit, count, served, undone>>
  BY <1>1 DEF local
<1>3. late \in [Nodes -> SUBSET Report] /\ hb \in Report BY <1>1 DEF TypeOK
<1>4. /\ late' \in [Nodes -> SUBSET Report] /\ late'[n] \subseteq late[n]
      /\ \A m \in Nodes \ {n} : late'[m] = late[m]
  <2>1. late[n] \ {hb} \in SUBSET Report BY <1>3
  <2> QED BY <1>1, <1>3, <2>1
<1>5. /\ StoreTypeOK' /\ OwnRow(n)
      /\ row'[n] = row[n] \/ Hears(n, hb)
  <2>1. CASE UNCHANGED storeVars
    BY <2>1 DEF storeVars, TypeOK, StoreTypeOK, OwnRow
  <2>2. CASE Heartbeat(n, hb)
    BY <1>3, <2>2, NodeOK, HeartbeatTypes, HeartbeatHears
  <2> QED BY <1>1, <2>1, <2>2
<1>6. HearsLate(n) BY <1>1, <1>2, <1>4, <1>5, RestsOK, WaitsOK DEF HearsLate
<1> QED BY <1>2, <1>4, <1>5, <1>6, RestsOK, WaitsOK, StepOK DEF TypeOK

\* Somebody runs the uninstaller.
LEMMA UninstallEffect ==
  ASSUME TypeOK, NEW n \in Nodes, UninstallRequest(n)
  PROVE  TypeOK' /\ Frame(n) /\ Uninstalls(n)
<1>1. /\ UNCHANGED <<disk, dp>> /\ UNCHANGED <<unit, late, restarts, served, undone>>
      /\ agent[n].pc \in {"down", "idle"}
  BY DEF UninstallRequest
<1>2. /\ count' \in [ops: Nat, crashes: Nat]
      /\ job' \in [Nodes -> {"none", "restart", "update"}] /\ job'[n] = "none"
      /\ \A m \in Nodes \ {n} : job'[m] = job[m]
  BY DEF UninstallRequest, TypeOK
<1>3. /\ StoreTypeOK' /\ OwnRow(n)
      /\ \/ MarkedDeleting(n) /\ (Moves(n, "clean") \/ Moves(n, "cleanlocal"))
         \/ row'[n] = row[n] /\ Moves(n, "cleanlocal")
  <2>1. CASE MarkDeleting(n)
    <3>1. \/ Set(n, [agent[n] EXCEPT !.pc = "clean"])
          \/ Set(n, [agent[n] EXCEPT !.pc = "cleanlocal"])
      BY DEF UninstallRequest
    <3>2. Moves(n, "clean") \/ Moves(n, "cleanlocal") BY <3>1, MoveTurns DEF Points
    <3> QED BY <2>1, <3>2, NodeOK, MarkEffect
  <2>2. CASE UNCHANGED storeVars /\ Set(n, [agent[n] EXCEPT !.pc = "cleanlocal"])
    <3>1. Moves(n, "cleanlocal") BY <2>2, MoveTurns DEF Points
    <3> QED BY <2>2, <3>1 DEF storeVars, TypeOK, StoreTypeOK, OwnRow
  <2> QED BY <2>1, <2>2 DEF UninstallRequest
<1>4. agent' \in [Nodes -> Agent] /\ \A m \in Nodes \ {n} : agent'[m] = agent[m]
  BY <1>3 DEF Moves, Turns
<1>5. Uninstalls(n) BY <1>1, <1>2, <1>3, RestsOK DEF Uninstalls
<1> QED BY <1>1, <1>2, <1>3, <1>4, <1>5, RestsOK, StepOK DEF TypeOK

\* The uninstaller cleans, completely or not.
LEMMA UninstallerEffect ==
  ASSUME TypeOK, NEW n \in Nodes, UninstallClean(n)
  PROVE  TypeOK' /\ Frame(n) /\ UninstallerCleans(n)
<1>1. /\ UNCHANGED <<storeVars, late>> /\ UNCHANGED <<job, restarts>>
      /\ UNCHANGED <<count, served, undone>> /\ agent[n].pc \in {"clean", "cleanlocal"}
  BY DEF UninstallClean
<1>2. unit' \in [Nodes -> BOOLEAN]
  BY DEF UninstallClean, TypeOK
<1>3. CASE /\ Leaves(n, Plane(n)!Served(Nothing))
           /\ disk' = [disk EXCEPT ![n].conf = Nothing]
           /\ \/ agent[n].pc = "clean" /\ Set(n, [agent[n] EXCEPT !.pc = "confirm"])
              \/ Set(n, [agent[n] EXCEPT !.pc = "exited"])
  <2>1. /\ dp' \in [Nodes -> Planes] /\ dp'[n].conf = Nothing
        /\ \A m \in Nodes \ {n} : dp'[m] = dp[m]
    BY <1>3, NodeOK, LeavesServed DEF TypeOK
  <2>2. /\ disk' \in [Nodes -> Disk] /\ disk'[n].conf = Nothing
        /\ disk'[n].binary = disk[n].binary
        /\ \A m \in Nodes \ {n} : disk'[m] = disk[m]
    BY <1>3, NodeOK, DiskOK
  <2>3. (agent[n].pc = "clean" /\ Moves(n, "confirm")) \/ Moves(n, "exited")
    BY <1>3, MoveTurns DEF Points
  <2>4. UninstallerCleans(n)
    BY <1>1, <2>1, <2>2, <2>3, QuietOK, WaitsOK DEF UninstallerCleans, Cleaned
  <2> QED BY <1>1, <1>2, <2>1, <2>2, <2>3, <2>4, QuietOK, WaitsOK, StepOK
          DEF TypeOK, Moves, Turns
<1>4. CASE /\ Leaves(n, Plane(n)!Halted(Nothing)) /\ UNCHANGED disk
           /\ Set(n, [agent[n] EXCEPT !.pc = "down"])
  <2>1. Moves(n, "down") BY <1>4, MoveTurns DEF Points
  <2>2. UninstallerCleans(n)
    BY <1>1, <1>4, <2>1, QuietOK, WaitsOK, PartlyOK DEF UninstallerCleans
  <2> QED BY <1>1, <1>2, <1>4, <2>1, <2>2, QuietOK, WaitsOK, PartlyOK, StepOK
          DEF TypeOK, Moves, Turns
<1> QED BY <1>3, <1>4 DEF UninstallClean

\* The uninstaller tells the panel that the node is clean.
LEMMA ConfirmEffect ==
  ASSUME TypeOK, NEW n \in Nodes, UninstallConfirm(n)
  PROVE  TypeOK' /\ Frame(n) /\ Confirms(n)
<1> DEFINE a == [Fresh(n, Nothing, FALSE) EXCEPT !.state = "decommissioning",
                                                 !.decommissioned = TRUE]
<1>1. /\ a \in Agent /\ a.applied = Nothing /\ a.ack = 0 /\ a.decommissioned = TRUE
      /\ Set(n, [a EXCEPT !.pc = "exited"]) =>
           Starts(n, "exited", Nothing, FALSE) /\ agent'[n].decommissioned = TRUE
  BY ConfirmOK
<1>2. /\ UNCHANGED <<disk, dp>> /\ UNCHANGED <<job, restarts>>
      /\ UNCHANGED <<count, served, undone>>
      /\ agent[n].pc = "confirm" /\ Sent(n, a) /\ Set(n, [a EXCEPT !.pc = "exited"])
  BY DEF UninstallConfirm
<1>3. unit' \in [Nodes -> BOOLEAN] BY DEF UninstallConfirm, TypeOK
<1> HIDE DEF a
<1>4. Says(n, Nothing, 0, TRUE) BY <1>1, <1>2, SaysOK
<1>5. Confirms(n) BY <1>1, <1>2, <1>4, RestsOK, WaitsOK DEF Confirms
<1> QED BY <1>1, <1>2, <1>3, <1>5, SaysOK, RestsOK, WaitsOK, StepOK DEF TypeOK, Starts

\* A step of the loop is one of an administrator, or one of a node that is well
\* typed, leaves the other nodes alone and has one of the effects.
LEMMA NextEffect ==
  ASSUME TypeOK, \A n \in Nodes : Handled(n), Next
  PROVE  Admin \/ \E n \in Nodes : TypeOK' /\ Frame(n) /\ Effect(n)
<1>1. ASSUME NEW n \in Nodes,
             \/ Poll(n) \/ HeartbeatTick(n) \/ UpdateStage(n) \/ StartUpdate(n)
             \/ FinalReportDelivered(n) \/ FinalReportFails(n)
             \/ UpdateInstalled(n) \/ UpdateFails(n) \/ NothingToApply(n)
             \/ RefreshMonitor(n)
      PROVE  TypeOK' /\ Frame(n) /\ Effect(n)
  BY <1>1, PollEffect, TalkEffect, InstallEffect, GiveUpEffect DEF Effect
<1>2. ASSUME NEW n \in Nodes,
             \/ DecommissionSucceeds(n) \/ DecommissionFails(n) \/ RestartByPanel(n)
             \/ StartApply(n) \/ ApplySucceeds(n) \/ ApplyFails(n)
      PROVE  TypeOK' /\ Frame(n) /\ Effect(n)
  BY <1>2, CleanEffect, FailEffect, RestartEffect, StartApplyEffect, ApplyEffect
     DEF Effect
<1>3. ASSUME NEW n \in Nodes,
             \/ JobRuns(n) \/ Crash(n) \/ Reboot(n) \/ Start(n) \/ StartUnrestored(n)
             \/ LateArrives(n) \/ LateLost(n) \/ UninstallRequest(n)
             \/ UninstallClean(n) \/ UninstallConfirm(n)
      PROVE  TypeOK' /\ Frame(n) /\ Effect(n)
  BY <1>3, FallEffect, RebootEffect, StartEffect, LateEffect, UninstallEffect,
     UninstallerEffect, ConfirmEffect DEF Effect
<1> QED BY <1>1, <1>2, <1>3 DEF Next, ServiceNext, Handle

-----------------------------------------------------------------------------
(* Type correctness                                                        *)

\* TypeOK is not inductive: the binary an update installs and the revision a
\* reset is remembered for are well typed only because of what the panel can
\* answer a poll with, and that it answers with an existing revision is the
\* invariant of the store.
LoopInv ==
  /\ TypeOK
  /\ RevisionInv
  /\ AllEnrolled
  /\ \A n \in Nodes : Handled(n)

\* A step that leaves m alone.
Same(m) ==
  /\ row'[m] = row[m] /\ agent'[m] = agent[m] /\ disk'[m] = disk[m] /\ dp'[m] = dp[m]
  /\ job'[m] = job[m] /\ restarts'[m] = restarts[m] /\ late'[m] = late[m]
World == UNCHANGED <<revisions, deleted, undone>> /\ served \subseteq served'

\* The row of a node after one of its own steps.
RowStep(n) ==
  \/ row'[n] = row[n]
  \/ \E hb \in Report : Hears(n, hb)
  \/ MarkedDeleting(n)

\* A step of n leaves the others alone and makes its row take a row step.
LEMMA FrameSame ==
  ASSUME TypeOK, NEW n \in Nodes, Frame(n), Effect(n)
  PROVE  /\ World /\ UNCHANGED req /\ RowStep(n)
         /\ \A m \in Nodes \ {n} : Same(m)
<1>1. World /\ UNCHANGED req /\ \A m \in Nodes \ {n} : Same(m)
  BY DEF Frame, OwnRow, World, Same
<1>2. late[n] \subseteq Report BY DEF TypeOK
<1>3. RowStep(n)
  <2>1. CASE Quiet(n) BY <2>1 DEF Quiet, RowStep
  <2>2. CASE \E c, ack, gone : Says(n, c, ack, gone) BY <2>2 DEF Says, RowStep
  <2>3. CASE HearsLate(n) BY <1>2, <2>3 DEF HearsLate, RowStep
  <2>4. CASE Uninstalls(n) BY <2>4 DEF Uninstalls, RowStep
  <2>5. ASSUME Talks(n) \/ Installs(n) \/ TakesRestart(n) \/ StartsApply(n) \/ Confirms(n)
        PROVE  \E c, ack, gone : Says(n, c, ack, gone)
    BY <2>5 DEF Talks, Installs, TakesRestart, StartsApply, Confirms, SaysSo
  <2>6. ASSUME \/ Polls(n) \/ GivesUp(n) \/ Refreshes(n) \/ Cleans(n) \/ FailsToClean(n)
               \/ Applies(n) \/ FailsToApply(n) \/ Falls(n) \/ Reboots(n) \/ Restores(n)
               \/ UninstallerCleans(n)
        PROVE  Quiet(n)
    BY <2>6 DEF Polls, GivesUp, Refreshes, Cleans, FailsToClean, Applies, FailsToApply,
                Falls, Reboots, Restores, UninstallerCleans
  <2> QED BY <2>1, <2>2, <2>3, <2>4, <2>5, <2>6 DEF Effect
<1> QED BY <1>1, <1>3

\* Whatever happens to the row of a node, it still points where it pointed and
\* is to be updated to the panel's release, if at all.
LEMMA RowStepKeeps ==
  ASSUME StoreTypeOK, NEW n \in Nodes, RowStep(n)
  PROVE  /\ SamePlace(n)
         /\ row[n].status # "absent" => row'[n].status # "absent"
         /\ row'[n].target \in {0, row[n].target}
         /\ Exists(n)' => Exists(n)
<1>1. CASE row'[n] = row[n] BY <1>1 DEF SamePlace, Exists
<1>2. CASE \E hb \in Report : Hears(n, hb)
  <2>1. PICK hb \in Report : Hears(n, hb) BY <1>2
  <2>2. CASE Heard(n, hb)
    <3>1. row'[n].reset \in {0, row[n].reset} BY <2>2 DEF Heard, ResetAfter
    <3> QED BY <2>1, <2>2, <3>1 DEF Hears, Heard, SamePlace, Exists
  <2>3. CASE Forgotten(n, hb)
    <3>1. row'[n].status = "removed" /\ row'[n].reset = 0 /\ row'[n].target = 0
      BY <2>3 DEF Forgotten, Blank
    <3> QED BY <3>1 DEF SamePlace, Exists
  <2> QED BY <2>1, <2>2, <2>3 DEF Hears
<1>3. CASE MarkedDeleting(n)
  BY <1>3 DEF MarkedDeleting, SamePlace, Exists
<1> QED BY <1>1, <1>2, <1>3 DEF RowStep

\* What the agent holds of the panel after a step.
LEMMA HandledKept ==
  ASSUME LoopInv, NEW n \in Nodes, RowStep(n), Effect(n)
  PROVE  Handled(n)'
<1> DEFINE a == agent[n]
           b == agent'[n]
<1>0. /\ TypeOK /\ Handled(n) /\ a \in Agent /\ a.d \in Desired
      /\ PanelVersion \in Versions
  BY NodeOK, PanelStoreConstants DEF LoopInv, Versions
<1>1. row'[n].target \in {0, PanelVersion}
  <2>1. row'[n].target \in {0, row[n].target} BY <1>0, NodeOK, RowStepKeeps
  <2> QED BY <1>0, <2>1 DEF Handled
<1>2. ASSUME b.d = NoDesired, b.pc \notin {"got", "install", "apply"}
      PROVE  Handled(n)'
  BY <1>1, <1>2, NothingOK DEF Handled, Handling
<1>3. ASSUME b.d = a.d, \/ b.pc \notin {"got", "install", "apply"}
                        \/ b.pc = a.pc
                        \/ a.pc = "got" /\ b.pc = "apply"
      PROVE  Handled(n)'
  BY <1>0, <1>1, <1>3 DEF Handled, Handling
<1>4. CASE Polls(n)
  <2>1. LET d == DesiredState(n) IN
        d.profile \in Profiles /\ d.rev > 0 /\ d.update = row[n].target
    BY <1>0, <1>4, NodeOK, DesiredOK DEF Polls
  <2>2. b.pc = "got" /\ b.d = DesiredState(n) BY <1>4 DEF Polls, Turns
  <2> HIDE DEF b
  <2> QED BY <1>0, <1>1, <2>1, <2>2 DEF Handled, Handling, b
<1>5. CASE Talks(n)
  <2>1. PICK pc \in Points :
          /\ b.d = a.d /\ b.pc = pc
          /\ \/ pc = a.pc
             \/ a.pc = "report" /\ pc \in {"idle", "exited"}
             \/ Handles(n) /\ Updates(n) /\ pc = "install"
    BY <1>5 DEF Talks, Moves, Turns
  <2>2. CASE Handles(n) /\ Updates(n) /\ pc = "install"
    <3>1. a.d.update \in Versions
      BY <1>0, <2>2 DEF Updates, Desired, Agent, Versions
    <3>2. a.d.profile \in Profiles /\ a.d.rev > 0
      BY <1>0, <2>2 DEF Handled, Handling, Handles
    <3> QED BY <1>0, <1>1, <2>1, <2>2, <3>1, <3>2 DEF Handled, Handling
  <2> QED BY <1>3, <2>1, <2>2
<1>6. CASE \/ Installs(n) \/ GivesUp(n) \/ Refreshes(n) \/ Cleans(n) \/ FailsToClean(n)
           \/ TakesRestart(n) \/ Applies(n) \/ FailsToApply(n)
  <2>1. b.d = NoDesired /\ b.pc \in {"idle", "report"}
    BY <1>6 DEF Installs, GivesUp, Refreshes, Cleans, FailsToClean, TakesRestart, Applies,
                FailsToApply, Gives, Ends, Turns
  <2> QED BY <1>2, <2>1
<1>7. CASE StartsApply(n)
  <2>1. b.d = a.d /\ a.pc = "got" /\ b.pc = "apply"
    BY <1>7 DEF StartsApply, Turns, Handles
  <2> QED BY <1>3, <2>1
<1>8. CASE Falls(n) \/ Restores(n) \/ Confirms(n)
  <2>1. b.d = NoDesired /\ b.pc \in {"down", "idle", "exited"}
    BY <1>8 DEF Falls, Restores, Confirms, Starts
  <2> QED BY <1>2, <2>1
<1>9. CASE Reboots(n) \/ HearsLate(n)
  BY <1>3, <1>9 DEF Reboots, HearsLate
<1>10. CASE Uninstalls(n) \/ UninstallerCleans(n)
  <2>1. b.d = a.d /\ b.pc \in {"clean", "cleanlocal", "confirm", "exited", "down"}
    BY <1>10 DEF Uninstalls, UninstallerCleans, Moves, Turns
  <2> QED BY <1>3, <2>1
<1> QED BY <1>4, <1>5, <1>6, <1>7, <1>8, <1>9, <1>10 DEF Effect

\* What a node that nothing happens to holds of the panel.
LEMMA HandledSame ==
  ASSUME NEW m \in Nodes, Same(m), Handled(m)
  PROVE  Handled(m)'
BY DEF Same, Handled, Handling

\* A statement of an administrator leaves nodes alone but for their rows.
LEMMA AdminEffect ==
  ASSUME LoopInv, Admin
  PROVE  /\ LoopInv' /\ count'.ops = count.ops + 1
         /\ UNCHANGED <<agent, disk, dp, job, late, restarts, served>>
         /\ undone' = undone \cup {n \in Nodes : row[n].status = "deleting"
                                     /\ row'[n].status \notin {"deleting", "removed"}}
         /\ deleted \subseteq deleted'
         /\ \A m \in Nodes : AdminRow(m)
         /\ \A q \in Profiles : RevisionStep(q)
<1>1. /\ StoreTypeOK /\ RevisionInv /\ AllEnrolled /\ AdminNext
      /\ \A n \in Nodes : row[n].target \in {0, PanelVersion}
  BY DEF LoopInv, TypeOK, Admin, Handled
<1>2. /\ StoreTypeOK' /\ RevisionInv' /\ AllEnrolled'
      /\ deleted \subseteq deleted'
      /\ \A m \in Nodes : AdminRow(m)
      /\ \A q \in Profiles : RevisionStep(q)
  BY <1>1, AdminTypes, AdminKeeps, AdminSteps
<1>3. /\ UNCHANGED <<agent, disk, dp, job, unit, late, restarts, served>>
      /\ undone' = undone \cup {n \in Nodes : row[n].status = "deleting"
                                  /\ row'[n].status \notin {"deleting", "removed"}}
  BY DEF Admin
<1>4. count' \in [ops: Nat, crashes: Nat] /\ count'.ops = count.ops + 1
  BY DEF Admin, LoopInv, TypeOK
<1>5. undone' \subseteq Nodes BY <1>3 DEF LoopInv, TypeOK
<1>6. TypeOK' BY <1>2, <1>3, <1>4, <1>5 DEF LoopInv, TypeOK
<1>7. \A n \in Nodes : row'[n].target \in {0, PanelVersion}
  <2>1. Blank("removed").target = 0 BY DEF Blank
  <2> QED BY <1>1, <1>2, <2>1 DEF AdminRow
<1>8. \A n \in Nodes : Handled(n)'
  BY <1>3, <1>7 DEF LoopInv, Handled, Handling
<1> QED BY <1>2, <1>3, <1>4, <1>6, <1>8 DEF LoopInv

\* Every step keeps the invariant and is one of three: nothing happens, an
\* administrator acts, or one node takes a step of its own.
LEMMA LoopStep ==
  ASSUME LoopInv, [Next]_vars
  PROVE  /\ LoopInv'
         /\ \/ World /\ count' = count /\ \A m \in Nodes : Same(m)
            \/ Admin
            \/ \E n \in Nodes : /\ Effect(n) /\ RowStep(n) /\ World
                                /\ \A m \in Nodes \ {n} : Same(m)
<1>0. TypeOK /\ StoreTypeOK /\ RevisionInv BY DEF LoopInv, TypeOK
<1>1. CASE UNCHANGED vars
  <2>1. UNCHANGED storeVars /\ UNCHANGED agentVars BY <1>1 DEF vars
  <2>2. World /\ count' = count /\ \A m \in Nodes : Same(m)
    BY <2>1 DEF storeVars, agentVars, World, Same
  <2>3. TypeOK' BY <1>0, <2>1 DEF storeVars, agentVars, TypeOK, StoreTypeOK
  <2>4. RevisionInv' BY <1>0, <2>1, UnchangedKeeps
  <2>5. AllEnrolled' BY <2>1 DEF LoopInv, AllEnrolled, storeVars
  <2>6. \A m \in Nodes : Handled(m)' BY <2>2, HandledSame DEF LoopInv
  <2> QED BY <2>2, <2>3, <2>4, <2>5, <2>6 DEF LoopInv
<1>2. CASE Admin BY <1>2, AdminEffect
<1>3. ASSUME NEW n \in Nodes, TypeOK', Frame(n), Effect(n)
      PROVE  /\ LoopInv' /\ RowStep(n) /\ World
             /\ \A m \in Nodes \ {n} : Same(m)
  <2>1. /\ World /\ UNCHANGED req /\ RowStep(n)
        /\ \A m \in Nodes \ {n} : Same(m)
    BY <1>0, <1>3, FrameSame
  <2>2. \A m \in Nodes : RowStep(m) BY <2>1 DEF Same, RowStep
  <2>3. \A m \in Nodes : SamePlace(m) /\ (row[m].status # "absent" => row'[m].status # "absent")
    BY <1>0, <2>2, RowStepKeeps
  <2>4. \A h \in Handlers : SameReads(h) BY <1>0, <2>1, NoNewReads
  <2>5. RevisionInv' BY <1>0, <2>1, <2>3, <2>4, SamePlaceKeeps DEF World
  <2>6. AllEnrolled' BY <2>1, <2>3 DEF LoopInv, AllEnrolled
  <2>7. \A m \in Nodes : Handled(m)'
    BY <1>3, <2>1, HandledKept, HandledSame DEF LoopInv
  <2> QED BY <1>3, <2>1, <2>5, <2>6, <2>7 DEF LoopInv
<1>4. CASE Next
  <2>1. \A n \in Nodes : Handled(n) BY DEF LoopInv
  <2>2. Admin \/ \E n \in Nodes : TypeOK' /\ Frame(n) /\ Effect(n)
    BY <1>0, <1>4, <2>1, NextEffect
  <2> QED BY <1>2, <1>3, <2>2
<1> QED BY <1>1, <1>4

\* Every node starts enrolled on a profile that has one revision, with nothing
\* applied and its agent not yet started.
LEMMA InitLoop ==
  ASSUME Init
  PROVE  /\ LoopInv
         /\ \A n \in Nodes :
              /\ Exists(n) /\ row[n].ack = 0 /\ row[n].nonce = 0 /\ row[n].reset = 0
              /\ agent[n].pc = "down" /\ agent[n].d = NoDesired
              /\ agent[n].applied = Nothing /\ agent[n].ack = 0
              /\ agent[n].decommissioned = FALSE
              /\ disk[n].conf = Nothing /\ dp[n].conf = Nothing /\ job[n] = "none"
              /\ restarts[n] = 0 /\ late[n] = {}
<1> DEFINE first(p) == [Blank("connecting") EXCEPT !.profile = p, !.desired = 1,
                                                   !.cred = "agent"]
           t0 == CHOOSE t \in Tunings : TRUE
           a0 == [pc |-> "down", applied |-> Nothing, probe |-> 0, update |-> 0,
                  ack |-> 0, refresh |-> FALSE, monitor |-> FALSE,
                  decommissioned |-> FALSE, state |-> "connecting", version |-> 1,
                  d |-> NoDesired, retuned |-> FALSE]
           d0 == [conf |-> Nothing, binary |-> 1, tuning |-> t0]
<1>1. 1 \in Versions /\ t0 \in Tunings BY PanelStoreConstants DEF Versions
<1>2. \A p \in Profiles :
        /\ first(p) \in Row /\ first(p).status = "connecting"
        /\ first(p).profile = p /\ first(p).desired = 1 /\ first(p).reset = 0
        /\ first(p).ack = 0 /\ first(p).nonce = 0 /\ first(p).target = 0
  <2>1. Blank("connecting") \in Row BY BlankOK DEF Statuses
  <2>2. ASSUME NEW p \in Profiles PROVE first(p) \in Row
    BY <2>1 DEF Row, Credentials
  <2>3. ASSUME NEW p \in Profiles
        PROVE  /\ first(p).status = "connecting"
               /\ first(p).profile = p /\ first(p).desired = 1 /\ first(p).reset = 0
               /\ first(p).ack = 0 /\ first(p).nonce = 0 /\ first(p).target = 0
    BY DEF Blank
  <2> QED BY <2>2, <2>3
<1>3. a0 \in Agent
  <2>1. Nothing \in Confs /\ NoDesired \in Desired BY NothingOK
  <2> HIDE DEF t0
  <2> QED BY <1>1, <2>1 DEF Agent, ApplyStates
<1>4. a0.pc = "down" /\ a0.d = NoDesired /\ a0.applied = Nothing /\ a0.ack = 0
      /\ a0.decommissioned = FALSE
  OBVIOUS
<1>5. d0 \in Disk /\ d0.conf = Nothing
  BY <1>1, NothingOK DEF Disk
<1>6. /\ revisions = [p \in Profiles |-> <<1>>] /\ deleted = {}
      /\ req = [h \in Handlers |-> Idle]
      /\ row \in [Nodes -> {first(p) : p \in Profiles}]
      /\ agent = [n \in Nodes |-> a0] /\ disk = [n \in Nodes |-> d0]
      /\ dp = [n \in Nodes |-> Clean] /\ job = [n \in Nodes |-> "none"]
      /\ unit = [n \in Nodes |-> TRUE] /\ late = [n \in Nodes |-> {}]
      /\ count = [ops |-> 0, crashes |-> 0] /\ restarts = [n \in Nodes |-> 0]
      /\ served = {} /\ undone = {}
  BY DEF Init
<1> HIDE DEF first, a0, d0, t0
<1>7. \A n \in Nodes : \E p \in Profiles : row[n] = first(p) BY <1>6
<1>8. /\ revisions \in [Profiles -> Seq(Versions)]
      /\ \A p \in Profiles : Live(p) /\ Current(p) = 1
  BY <1>1, <1>6 DEF Live, Current
<1>9. StoreTypeOK
  <2>1. row \in [Nodes -> Row] BY <1>2, <1>6
  <2>2. req \in [Handlers -> Request] BY <1>6, IdleOK
  <2> QED BY <1>6, <1>8, <2>1, <2>2 DEF StoreTypeOK
<1>10. /\ agent \in [Nodes -> Agent] /\ disk \in [Nodes -> Disk]
       /\ dp \in [Nodes -> Planes]
  <2>1. Clean \in Planes BY NothingOK DEF Clean, Planes
  <2> QED BY <1>3, <1>5, <1>6, <2>1
<1>11. TypeOK BY <1>6, <1>9, <1>10 DEF TypeOK
<1>12. /\ \A h \in Handlers : req[h].op = "idle"
       /\ \A n \in Nodes : row[n].status = "connecting" /\ row[n].target = 0
  BY <1>2, <1>6, <1>7 DEF Idle
<1>13. AllEnrolled BY <1>12 DEF AllEnrolled
<1>14. RevisionInv
  <2>1. \A n \in Nodes : HasProfileRevision(n) /\ row[n].reset = 0
    BY <1>2, <1>7, <1>8 DEF HasProfileRevision
  <2> QED BY <1>6, <1>12, <2>1
          DEF RevisionInv, DesiredExists, ResetMarksDesired, RequestsStayValid,
              ReadingExisted, Reading, DeletedIsEmpty
<1>15. \A n \in Nodes : Handled(n)
  BY <1>4, <1>6, <1>12, NothingOK DEF Handled, Handling
<1>16. LoopInv BY <1>11, <1>13, <1>14, <1>15 DEF LoopInv
<1>17. \A n \in Nodes : dp[n].conf = Nothing BY <1>6 DEF Clean
<1> QED BY <1>2, <1>4, <1>5, <1>6, <1>7, <1>12, <1>16, <1>17 DEF Exists

\* A node that exists after a statement of an administrator existed before; its
\* restarts are asked for one after the other, and only its agent answers.
LEMMA AdminKeepsRow ==
  ASSUME NEW n \in Nodes, AdminRow(n), Exists(n)'
  PROVE  /\ Exists(n) /\ row'[n].nonce >= row[n].nonce /\ row'[n].ack = row[n].ack
         /\ row'[n].target \in {row[n].target, PanelVersion} /\ Marked(n)
<1>1. Blank("removed").status = "removed" BY DEF Blank
<1>2. ~(~Exists(n) /\ row'[n] = row[n]) BY DEF Exists
<1>3. row'[n] # Blank("removed") BY <1>1 DEF Exists
<1> QED BY <1>2, <1>3 DEF AdminRow

\* The base of all that follows holds in every reachable state.
THEOREM LoopSafety == Spec => []LoopInv
<1>1. Init => LoopInv BY InitLoop
<1>2. LoopInv /\ [Next]_vars => LoopInv' BY LoopStep
<1> QED BY <1>1, <1>2, PTL DEF Spec

\* Every value the agents, their disks and the network hold is well typed,
\* however many nodes, revisions, crashes and lost messages there are.
THEOREM LoopTypes == Spec => []TypeOK
<1>1. LoopInv => TypeOK BY DEF LoopInv
<1> QED BY <1>1, LoopSafety, PTL

\* The revision a node is to apply exists, and a pending reset belongs to it,
\* also while agents report, ask for their decommission and are forgotten.
THEOREM LoopRevisions == Spec => [](DesiredExists /\ ResetMarksDesired)
<1>1. LoopInv => DesiredExists /\ ResetMarksDesired BY DEF LoopInv, RevisionInv
<1> QED BY <1>1, LoopSafety, PTL

-----------------------------------------------------------------------------
(* An agent that says "applied" serves what it says                        *)

Holds(n, conf) == Serves(dp[n], conf) /\ disk[n].conf = conf

\* UnservedIsFlagged is not inductive: a process that restored its state file
\* says "applied" again when it refreshes its health monitor, after a state of
\* its own in which it must not have lost the configuration, and one without a
\* monitor has applied nothing, so that it has nothing to refresh.
ServedInv(n) ==
  LET a == agent[n] IN
  Up(n) =>
    /\ a.pc = "apply" => a.state = "applying"
    /\ a.pc # "apply" /\ (a.refresh \/ a.state = "applied") => Holds(n, a.applied)
    /\ ~a.monitor => a.applied[2] = 0

\* A step of the node itself keeps what its agent may claim.
LEMMA ServedStep ==
  ASSUME LoopInv, NEW n \in Nodes, Effect(n), ServedInv(n)
  PROVE  ServedInv(n)'
<1> DEFINE a == agent[n]
           b == agent'[n]
<1>0. /\ a \in Agent /\ disk[n].conf \in Confs /\ Handled(n)
      /\ Target(a.d)[2] = a.d.rev
  BY NodeOK, TargetOK DEF LoopInv
<1>1. ASSUME b.pc \notin {"idle", "got", "install", "apply", "report"}
      PROVE  ServedInv(n)'
  BY <1>1 DEF ServedInv, Up
<1>2. ASSUME Up(n), a.pc # "apply", Kept(n), dp'[n] = dp[n],
             b.pc \in {"idle", "got", "install", "report"}, b.applied = a.applied,
             b.refresh => a.refresh, b.state = "applied" => a.state = "applied",
             b.monitor = a.monitor
      PROVE  ServedInv(n)'
  BY <1>2 DEF ServedInv, Up, Holds, Kept
<1>3. ASSUME Up(n), b.pc = "report", b.applied = a.applied, b.refresh = FALSE,
             b.state \in {"error", "decommissioning"}, b.monitor = a.monitor
      PROVE  ServedInv(n)'
  BY <1>3 DEF ServedInv, Up, Holds
<1>4. CASE Polls(n)
  BY <1>2, <1>4 DEF Polls, Turns, Rests, Up
<1>5. CASE Talks(n)
  <2>1. PICK pc \in Points :
          /\ Moves(n, pc)
          /\ \/ pc = a.pc
             \/ a.pc = "report" /\ pc \in {"idle", "exited"}
             \/ Handles(n) /\ Updates(n) /\ pc = "install"
    BY <1>5 DEF Talks
  <2>2. /\ b.pc = pc /\ b.applied = a.applied /\ b.refresh = a.refresh
        /\ b.state = a.state /\ b.monitor = a.monitor
    BY <2>1 DEF Moves, Turns
  <2>3. Kept(n) /\ dp'[n] = dp[n] BY <1>5 DEF Talks, Rests
  <2> HIDE DEF a, b
  <2>4. CASE pc = a.pc
    BY <2>2, <2>3, <2>4 DEF ServedInv, Up, Holds, Kept, a, b
  <2>5. CASE a.pc = "report" /\ pc = "idle"
    BY <1>2, <2>2, <2>3, <2>5 DEF Up, a, b
  <2>6. CASE pc = "exited" BY <1>1, <2>2, <2>6 DEF b
  <2>7. CASE Handles(n) /\ Updates(n) /\ pc = "install"
    BY <1>2, <2>2, <2>3, <2>7 DEF Up, Handles, a, b
  <2> QED BY <2>1, <2>4, <2>5, <2>6, <2>7 DEF a
<1>6. CASE Installs(n)
  BY <1>6 DEF Installs, Gives, Ends, Turns, ServedInv, Up, Holds
<1>7. CASE GivesUp(n)
  BY <1>2, <1>7 DEF GivesUp, Gives, Ends, Turns, Rests, Up
<1>8. CASE Refreshes(n)
  <2>1. a.pc = "got" /\ Target(a.d) = a.applied /\ (~a.monitor \/ a.refresh)
    BY <1>8 DEF Refreshes, Handles, Differs
  <2>2. a.applied[2] > 0 BY <1>0, <2>1 DEF Handled, Handling
  <2>3. Holds(n, a.applied) BY <2>1, <2>2 DEF ServedInv, Up
  <2>4. Holds(n, a.applied)' BY <1>8, <2>3 DEF Refreshes, Gives, Ends, Turns, Rests, Kept, Holds
  <2>5. \/ /\ b.pc = "report" /\ b.applied = a.applied /\ b.refresh = FALSE
           /\ b.monitor = TRUE
        \/ /\ b.pc = "report" /\ b.applied = a.applied /\ b.refresh = FALSE
           /\ b.state = "error" /\ b.monitor = a.monitor
    BY <1>8 DEF Refreshes, Gives, Ends, Turns
  <2>6. Up(n) BY <2>1 DEF Up
  <2>7. CASE b.monitor = TRUE BY <2>4, <2>5, <2>7 DEF ServedInv, Up, Holds
  <2> QED BY <1>3, <2>5, <2>6, <2>7
<1>9. CASE Cleans(n) \/ FailsToClean(n) \/ FailsToApply(n)
  BY <1>3, <1>9 DEF Cleans, FailsToClean, FailsToApply, Gives, Ends, Turns, Up, Handles
<1>10. CASE TakesRestart(n)
  BY <1>2, <1>10 DEF TakesRestart, Ends, Turns, Rests, Up, Handles
<1>11. CASE StartsApply(n)
  BY <1>11 DEF StartsApply, Turns, Handles, ServedInv, Up
<1>12. CASE Applies(n)
  BY <1>12 DEF Applies, Applied, Ends, Turns, ServedInv, Up, Holds
<1>13. CASE Falls(n) \/ Confirms(n)
  BY <1>1, <1>13 DEF Falls, Confirms, Starts
<1>14. CASE Reboots(n)
  BY <1>1, <1>14 DEF Reboots
<1>15. CASE Restores(n)
  <2>1. LET less == [disk[n].conf EXCEPT ![2] = 0] IN less[2] = 0 BY <1>0, ConfOK
  <2> QED BY <1>15, <2>1 DEF Restores, Starts, Kept, ServedInv, Up, Holds
<1>16. CASE HearsLate(n)
  BY <1>16 DEF HearsLate, Rests, Kept, ServedInv, Up, Holds
<1>17. CASE Uninstalls(n) \/ UninstallerCleans(n)
  BY <1>1, <1>17 DEF Uninstalls, UninstallerCleans, Moves, Turns
<1> QED
  BY <1>4, <1>5, <1>6, <1>7, <1>8, <1>9, <1>10, <1>11, <1>12, <1>13, <1>14, <1>15,
     <1>16, <1>17 DEF Effect

\* What an agent may claim, in every reachable state.
THEOREM ServedSafety == Spec => [](\A n \in Nodes : ServedInv(n))
<1>1. Init => \A n \in Nodes : ServedInv(n)
  BY InitLoop DEF ServedInv, Up
<1>2. LoopInv /\ (\A n \in Nodes : ServedInv(n)) /\ [Next]_vars
        => (\A n \in Nodes : ServedInv(n))'
  <2> SUFFICES ASSUME LoopInv, \A n \in Nodes : ServedInv(n), [Next]_vars
               PROVE  \A n \in Nodes : ServedInv(n)'
    OBVIOUS
  <2>1. ASSUME NEW m \in Nodes, Same(m) PROVE ServedInv(m)'
    BY <2>1 DEF Same, ServedInv, Up, Holds
  <2>2. CASE Admin
    <3>1. UNCHANGED <<agent, disk, dp>> BY <2>2, AdminEffect
    <3> QED BY <3>1 DEF ServedInv, Up, Holds
  <2>3. ASSUME NEW n \in Nodes, Effect(n), \A m \in Nodes \ {n} : Same(m)
        PROVE  \A m \in Nodes : ServedInv(m)'
    BY <2>1, <2>3, ServedStep
  <2> QED BY <2>1, <2>2, <2>3, LoopStep
<1> QED BY <1>1, <1>2, LoopSafety, PTL DEF Spec

\* No agent reports "applied" unless the data plane serves, and the state file
\* holds, what it reports, whichever of its calls failed or was interrupted: only
\* a HAProxy that does not run what its file says is taken for one that does.
THEOREM AppliedIsServed == Spec => []UnservedIsFlagged
<1>1. LoopInv /\ (\A n \in Nodes : ServedInv(n)) => UnservedIsFlagged
  BY DEF ServedInv, UnservedIsFlagged, Holds, Serves
<1> QED BY <1>1, LoopSafety, ServedSafety, PTL

-----------------------------------------------------------------------------
(* A requested restart happens once                                        *)

\* Restarts that happened and the one systemd was asked for.
Asked(n) == restarts[n] + (IF job[n] = "restart" THEN 1 ELSE 0)

\* RestartsBounded is not inductive: that no report acknowledges more than the
\* panel asked for, and that the restart an agent is about to take was not
\* taken before, follow from the acknowledgement the panel keeps, which is
\* never behind the restarts.
RestartInv(n) ==
  LET a == agent[n] nonce == row[n].nonce IN
  Exists(n) =>
    /\ Asked(n) <= row[n].ack /\ row[n].ack <= nonce
    /\ a.ack <= nonce /\ a.d.restart <= nonce
    /\ \A hb \in late[n] : hb.ack <= nonce
    /\ a.pc = "got" /\ a.d.restart > a.ack => Asked(n) < a.d.restart

\* What a report does to the acknowledged nonce.
LEMMA HearsAck ==
  ASSUME TypeOK, NEW n \in Nodes, NEW hb \in Report, Hears(n, hb), Exists(n)',
         row[n].ack <= row[n].nonce, hb.ack <= row[n].nonce
  PROVE  /\ Exists(n) /\ row'[n].nonce = row[n].nonce
         /\ row'[n].ack >= row[n].ack /\ row'[n].ack <= row[n].nonce
<1>1. Exists(n) /\ ~Forgotten(n, hb) BY DEF Hears, Forgotten, Blank, Exists
<1>2. row[n].ack \in Nat /\ row[n].nonce \in Nat /\ hb.ack \in Nat
  BY NodeOK DEF Row, Report
<1> QED BY <1>1, <1>2 DEF Hears, Heard, AckAfter

\* A report that acknowledges no more than was asked for.
LEMMA SaysAck ==
  ASSUME TypeOK, NEW n \in Nodes, RestartInv(n), NEW c, NEW ack, NEW gone,
         Says(n, c, ack, gone), Exists(n)', Exists(n) => ack <= row[n].nonce
  PROVE  /\ Exists(n) /\ row'[n].nonce = row[n].nonce
         /\ row'[n].ack >= row[n].ack /\ row'[n].ack <= row[n].nonce
         /\ \A hb \in late'[n] : hb.ack <= row[n].nonce
<1>1. PICK hb \in Report : /\ hb.ack = ack
                           /\ row'[n] = row[n] \/ Hears(n, hb)
                           /\ late'[n] \subseteq late[n] \cup {hb}
  BY DEF Says, Carries
<1>2. row[n].ack \in Nat BY NodeOK DEF Row
<1>3. Exists(n) BY <1>1 DEF Hears, Exists
<1>4. row'[n] = row[n] \/ Hears(n, hb) BY <1>1
<1> QED BY <1>1, <1>2, <1>3, <1>4, HearsAck DEF RestartInv

\* A step of the node itself keeps the restarts behind the acknowledgement.
LEMMA RestartStep ==
  ASSUME LoopInv, NEW n \in Nodes, Effect(n), RowStep(n), RestartInv(n)
  PROVE  RestartInv(n)'
<1> DEFINE a == agent[n]
           b == agent'[n]
<1> SUFFICES ASSUME Exists(n)' PROVE RestartInv(n)'
  BY DEF RestartInv
<1>0. /\ TypeOK /\ a \in Agent /\ a.d \in Desired
      /\ restarts[n] \in Nat /\ row[n].ack \in Nat /\ row[n].nonce \in Nat
      /\ Asked(n) \in Nat /\ Exists(n)
  <2>1. /\ TypeOK /\ a \in Agent /\ a.d \in Desired
        /\ restarts[n] \in Nat /\ row[n].ack \in Nat /\ row[n].nonce \in Nat
    BY NodeOK DEF LoopInv, TypeOK, Row
  <2>2. Exists(n) BY <2>1, NodeOK, RowStepKeeps
  <2> QED BY <2>1, <2>2 DEF Asked
<1>a. a.ack \in Nat /\ a.d.restart \in Nat BY <1>0 DEF Agent, Desired
<1>b. NoDesired.restart = 0 BY NothingOK
\* The panel knows at least as much, and nothing new is asked of systemd.
<1>1. ASSUME row'[n].nonce = row[n].nonce, row'[n].ack >= row[n].ack,
             row'[n].ack <= row[n].nonce, \A hb \in late'[n] : hb.ack <= row[n].nonce,
             Asked(n)' <= Asked(n), row'[n].ack \in Nat, Asked(n)' \in Nat,
             b.ack \in {0, a.ack, a.d.restart}, b.d \in {a.d, NoDesired},
             b.pc = "got" /\ b.d # NoDesired => a.pc = "got" /\ b.ack = a.ack
      PROVE  RestartInv(n)'
  <2>1. /\ row[n].ack <= row[n].nonce /\ a.ack <= row[n].nonce
        /\ a.d.restart <= row[n].nonce /\ Asked(n) <= row[n].ack
        /\ a.pc = "got" /\ a.d.restart > a.ack => Asked(n) < a.d.restart
    BY <1>0 DEF RestartInv
  <2>2. b.ack \in Nat /\ b.ack <= row[n].nonce BY <1>0, <1>a, <1>1, <2>1
  <2>3. b.d.restart <= row[n].nonce BY <1>0, <1>a, <1>b, <1>1, <2>1
  <2>4. ASSUME b.pc = "got", b.d.restart > b.ack PROVE Asked(n)' < b.d.restart
    BY <1>0, <1>a, <1>b, <1>1, <2>1, <2>2, <2>4
  <2>5. Asked(n)' <= row'[n].ack BY <1>0, <1>1, <2>1
  <2> HIDE DEF b
  <2> QED BY <1>1, <2>2, <2>3, <2>4, <2>5 DEF RestartInv, b
<1>2. ASSUME row'[n] = row[n], late'[n] \subseteq late[n]
      PROVE  /\ row'[n].nonce = row[n].nonce /\ row'[n].ack >= row[n].ack
             /\ row'[n].ack <= row[n].nonce /\ row'[n].ack \in Nat
             /\ \A hb \in late'[n] : hb.ack <= row[n].nonce
  BY <1>0, <1>2 DEF RestartInv
<1>3. ASSUME NEW c, NEW ack, NEW gone, Says(n, c, ack, gone), ack <= row[n].nonce
      PROVE  /\ row'[n].nonce = row[n].nonce /\ row'[n].ack >= row[n].ack
             /\ row'[n].ack <= row[n].nonce /\ row'[n].ack \in Nat
             /\ \A hb \in late'[n] : hb.ack <= row[n].nonce
  <2>1. row'[n].ack \in Nat
    <3>1. PICK hb \in Report : row'[n] = row[n] \/ Hears(n, hb) BY <1>3 DEF Says
    <3>2. ASSUME Hears(n, hb) PROVE row'[n].ack \in Nat
      BY <1>0, <3>2 DEF Hears, Heard, Forgotten, AckAfter, Blank, Exists, Report
    <3> QED BY <1>0, <3>1, <3>2
  <2> QED BY <1>0, <1>3, <2>1, SaysAck
<1>4. a.ack <= row[n].nonce /\ a.d.restart <= row[n].nonce BY <1>0 DEF RestartInv
<1>5. ASSUME Waits(n) PROVE Asked(n)' = Asked(n) /\ Asked(n)' \in Nat
  BY <1>0, <1>5 DEF Waits, Asked
<1>6. CASE Polls(n)
  <2>1. DesiredState(n).restart = IF row[n].nonce > row[n].ack THEN row[n].nonce ELSE 0
    BY <1>0, <1>6, NodeOK, DesiredOK DEF Polls
  <2>2. b.pc = "got" /\ b.d.restart = DesiredState(n).restart /\ b.ack = a.ack
    BY <1>6 DEF Polls, Turns
  <2>3. row'[n] = row[n] /\ late'[n] = late[n] /\ Asked(n)' = Asked(n)
    BY <1>5, <1>6 DEF Polls, Quiet
  <2> HIDE DEF b
  <2> QED BY <1>0, <1>a, <2>1, <2>2, <2>3 DEF RestartInv, b
<1>7. CASE Talks(n)
  <2>1. Says(n, a.applied, a.ack, a.decommissioned) /\ Waits(n)
    BY <1>7 DEF Talks, SaysSo
  <2>2. /\ b.ack = a.ack /\ b.d = a.d
        /\ b.pc = a.pc \/ b.pc \in {"idle", "exited", "install"}
    BY <1>7 DEF Talks, Moves, Turns
  <2> QED BY <1>1, <1>3, <1>4, <1>5, <2>1, <2>2
<1>8. CASE Installs(n)
  <2>1. Says(n, a.applied, a.ack, a.decommissioned) BY <1>8 DEF Installs, SaysSo
  <2>2. b.ack = a.ack /\ b.d = NoDesired BY <1>8 DEF Installs, Gives, Ends, Turns
  <2>3. Asked(n)' <= Asked(n) /\ Asked(n)' \in Nat BY <1>0, <1>8 DEF Installs, Asked
  <2> QED BY <1>1, <1>3, <1>4, <2>1, <2>2, <2>3
<1>9. CASE \/ GivesUp(n) \/ Refreshes(n) \/ Cleans(n) \/ FailsToClean(n)
           \/ Applies(n) \/ FailsToApply(n)
  <2>1. /\ b.ack = a.ack /\ b.d = NoDesired /\ Waits(n)
        /\ row'[n] = row[n] /\ late'[n] = late[n]
    BY <1>9 DEF GivesUp, Refreshes, Cleans, FailsToClean, Applies, FailsToApply,
                Gives, Ends, Turns, Quiet
  <2> QED BY <1>0, <1>1, <1>2, <1>5, <2>1
<1>10. CASE TakesRestart(n)
  <2>1. /\ Says(n, a.applied, a.d.restart, a.decommissioned)
        /\ b.ack = a.d.restart /\ b.d = NoDesired
        /\ a.pc = "got" /\ a.d.restart > a.ack /\ restarts'[n] = restarts[n]
        /\ b.pc \in {"idle", "report"}
    BY <1>10 DEF TakesRestart, Ends, Turns, Handles, Restarts
  <2>2. CASE job'[n] = job[n]
    <3>1. Asked(n)' = Asked(n) BY <2>1, <2>2 DEF Asked
    <3> QED BY <1>0, <1>1, <1>3, <1>4, <2>1, <3>1
  <2>3. CASE job'[n] = "restart" /\ row'[n].ack >= a.d.restart
    <3>1. Asked(n) < a.d.restart BY <1>0, <2>1 DEF RestartInv
    <3>2. Asked(n)' <= Asked(n) + 1 /\ Asked(n)' \in Nat BY <1>0, <2>1, <2>3 DEF Asked
    <3>3. /\ row'[n].nonce = row[n].nonce /\ row'[n].ack <= row[n].nonce
          /\ row'[n].ack \in Nat
          /\ \A hb \in late'[n] : hb.ack <= row[n].nonce
      BY <1>3, <1>4, <2>1
    <3>4. Asked(n)' <= row'[n].ack BY <1>0, <1>a, <2>3, <3>1, <3>2, <3>3
    <3> HIDE DEF b
    <3> QED BY <1>0, <1>a, <1>b, <1>4, <2>1, <3>3, <3>4 DEF RestartInv, b
  <2> QED BY <1>10, <2>2, <2>3 DEF TakesRestart
<1>11. CASE StartsApply(n)
  <2>1. Says(n, a.applied, a.ack, a.decommissioned) /\ Waits(n)
    BY <1>11 DEF StartsApply, SaysSo
  <2>2. b.ack = a.ack /\ b.d = a.d /\ b.pc = "apply" BY <1>11 DEF StartsApply, Turns
  <2> QED BY <1>1, <1>3, <1>4, <1>5, <2>1, <2>2
<1>12. CASE Falls(n)
  <2>1. b.ack = 0 /\ b.d = NoDesired /\ row'[n] = row[n] /\ late'[n] = late[n]
    BY <1>12 DEF Falls, Starts, Quiet
  <2>2. Asked(n)' = Asked(n) BY <1>0, <1>12 DEF Falls, Asked
  <2> QED BY <1>0, <1>1, <1>2, <2>1, <2>2
<1>13. CASE Reboots(n)
  <2>1. b = a /\ row'[n] = row[n] /\ late'[n] = late[n] /\ Waits(n)
    BY <1>13 DEF Reboots, Quiet
  <2> QED BY <1>0, <1>1, <1>2, <1>5, <2>1
<1>14. CASE Restores(n)
  <2>1. /\ b.ack = 0 /\ b.d = NoDesired /\ Waits(n)
        /\ row'[n] = row[n] /\ late'[n] = late[n]
    BY <1>14 DEF Restores, Starts, Quiet
  <2> QED BY <1>0, <1>1, <1>2, <1>5, <2>1
<1>15. CASE HearsLate(n)
  <2>1. b = a /\ Waits(n) /\ late'[n] \subseteq late[n] BY <1>15 DEF HearsLate
  <2>2. CASE row'[n] = row[n] BY <1>0, <1>1, <1>2, <1>5, <2>1, <2>2
  <2>3. CASE \E hb \in late[n] : Hears(n, hb)
    <3>1. PICK hb \in late[n] : Hears(n, hb) BY <2>3
    <3>2. hb \in Report BY <1>0, <3>1 DEF TypeOK
    <3>3. hb.ack <= row[n].nonce /\ row[n].ack <= row[n].nonce
      BY <1>0, <3>1 DEF RestartInv
    <3>4. /\ row'[n].nonce = row[n].nonce /\ row'[n].ack >= row[n].ack
          /\ row'[n].ack <= row[n].nonce
      BY <1>0, <3>1, <3>2, <3>3, HearsAck
    <3>5. row'[n].ack \in Nat
      BY <1>0, <3>1, <3>2 DEF Hears, Heard, Forgotten, AckAfter, Blank, Exists, Report
    <3>6. \A k \in late'[n] : k.ack <= row[n].nonce BY <1>0, <2>1 DEF RestartInv
    <3> QED BY <1>1, <1>5, <2>1, <3>4, <3>5, <3>6
  <2> QED BY <1>15, <2>2, <2>3 DEF HearsLate
<1>16. CASE Uninstalls(n)
  <2>1. /\ b.ack = a.ack /\ b.d = a.d /\ b.pc \in {"clean", "cleanlocal"}
        /\ late'[n] = late[n]
    BY <1>16 DEF Uninstalls, Moves, Turns
  <2>2. Asked(n)' <= Asked(n) /\ Asked(n)' \in Nat BY <1>0, <1>16 DEF Uninstalls, Asked
  <2>3. row'[n].nonce = row[n].nonce /\ row'[n].ack = row[n].ack
    BY <1>16 DEF Uninstalls, MarkedDeleting
  <2>4. row[n].ack <= row[n].nonce /\ \A hb \in late[n] : hb.ack <= row[n].nonce
    BY <1>0 DEF RestartInv
  <2> QED BY <1>0, <1>1, <2>1, <2>2, <2>3, <2>4
<1>17. CASE UninstallerCleans(n)
  <2>1. /\ b.ack = a.ack /\ b.d = a.d /\ b.pc \in {"confirm", "exited", "down"}
        /\ row'[n] = row[n] /\ late'[n] = late[n] /\ Waits(n)
    BY <1>17 DEF UninstallerCleans, Moves, Turns, Quiet
  <2> QED BY <1>0, <1>1, <1>2, <1>5, <2>1
<1>18. CASE Confirms(n)
  <2>1. /\ b.ack = 0 /\ b.d = NoDesired /\ Waits(n) /\ Says(n, Nothing, 0, TRUE)
    BY <1>18 DEF Confirms, Starts
  <2>2. 0 <= row[n].nonce BY <1>0
  <2>3. /\ row'[n].nonce = row[n].nonce /\ row'[n].ack >= row[n].ack
        /\ row'[n].ack <= row[n].nonce /\ row'[n].ack \in Nat
        /\ \A hb \in late'[n] : hb.ack <= row[n].nonce
    BY <1>3, <2>1, <2>2
  <2>4. Asked(n)' <= Asked(n) /\ Asked(n)' \in Nat BY <1>0, <1>5, <2>1
  <2> QED BY <1>1, <2>1, <2>3, <2>4
<1> QED
  BY <1>6, <1>7, <1>8, <1>9, <1>10, <1>11, <1>12, <1>13, <1>14, <1>15, <1>16, <1>17,
     <1>18 DEF Effect

\* The restarts of a node, in every reachable state.
THEOREM RestartSafety == Spec => [](\A n \in Nodes : RestartInv(n))
<1>1. Init => \A n \in Nodes : RestartInv(n)
  <2> SUFFICES ASSUME Init, NEW n \in Nodes PROVE RestartInv(n)
    OBVIOUS
  <2>1. /\ row[n].ack = 0 /\ row[n].nonce = 0 /\ agent[n].ack = 0 /\ late[n] = {}
        /\ agent[n].d = NoDesired /\ restarts[n] = 0 /\ job[n] = "none"
    BY InitLoop
  <2>2. NoDesired.restart = 0 BY NothingOK
  <2>3. Asked(n) = 0 BY <2>1 DEF Asked
  <2> QED BY <2>1, <2>2, <2>3 DEF RestartInv
<1>2. LoopInv /\ (\A n \in Nodes : RestartInv(n)) /\ [Next]_vars
        => (\A n \in Nodes : RestartInv(n))'
  <2> SUFFICES ASSUME LoopInv, \A n \in Nodes : RestartInv(n), [Next]_vars
               PROVE  \A n \in Nodes : RestartInv(n)'
    OBVIOUS
  <2>1. ASSUME NEW m \in Nodes, Same(m) PROVE RestartInv(m)'
    BY <2>1 DEF Same, RestartInv, Exists, Asked
  <2>2. CASE Admin
    <3>1. UNCHANGED <<agent, job, late, restarts>> /\ \A m \in Nodes : AdminRow(m)
      BY <2>2, AdminEffect
    <3> SUFFICES ASSUME NEW m \in Nodes, Exists(m)' PROVE RestartInv(m)'
      BY DEF RestartInv
    <3>2. Exists(m) /\ row'[m].nonce >= row[m].nonce /\ row'[m].ack = row[m].ack
      BY <3>1, AdminKeepsRow
    <3>3. /\ row[m].nonce \in Nat /\ row[m].ack \in Nat /\ row'[m].nonce \in Nat
          /\ agent[m].ack \in Nat /\ agent[m].d.restart \in Nat
          /\ \A hb \in late[m] : hb.ack \in Nat
      <4>1. TypeOK /\ TypeOK' BY <2>2, AdminEffect DEF LoopInv
      <4>2. row'[m] \in Row BY <4>1 DEF TypeOK, StoreTypeOK
      <4>3. agent[m] \in Agent /\ agent[m].d \in Desired /\ row[m] \in Row BY <4>1, NodeOK
      <4>4. late[m] \subseteq Report BY <4>1 DEF TypeOK
      <4> QED BY <4>2, <4>3, <4>4 DEF Row, Agent, Desired, Report
    <3>4. Asked(m)' = Asked(m) BY <3>1 DEF Asked
    <3> QED BY <3>1, <3>2, <3>3, <3>4 DEF RestartInv
  <2>3. ASSUME NEW n \in Nodes, Effect(n), RowStep(n), \A m \in Nodes \ {n} : Same(m)
        PROVE  \A m \in Nodes : RestartInv(m)'
    BY <2>1, <2>3, RestartStep
  <2> QED BY <2>1, <2>2, <2>3, LoopStep
<1> QED BY <1>1, <1>2, LoopSafety, PTL DEF Spec

\* Every restart of an agent was asked for by an administrator, and none
\* happens twice, whatever heartbeats were lost or arrive late.
THEOREM RestartOnce == Spec => []RestartsBounded
<1>1. LoopInv /\ (\A n \in Nodes : RestartInv(n)) => RestartsBounded
  <2> SUFFICES ASSUME LoopInv, \A n \in Nodes : RestartInv(n), NEW n \in Nodes, Exists(n)
               PROVE  Asked(n) <= row[n].nonce
    BY DEF RestartsBounded, Asked
  <2>1. row[n].ack \in Nat /\ row[n].nonce \in Nat /\ Asked(n) \in Nat
    BY NodeOK DEF LoopInv, TypeOK, Row, Asked
  <2> QED BY <2>1 DEF RestartInv
<1> QED BY <1>1, LoopSafety, RestartSafety, PTL

-----------------------------------------------------------------------------
(* No agent serves a configuration that is too new for it                  *)

\* Revision r of p was published, and p was deleted since or still has it.
Extant(p, r) ==
  r > 0 => p \in Profiles /\ (p \in deleted \/ (Live(p) /\ r <= Current(p)))

\* An agent of version v can serve the configuration c.
Fits(c, v) ==
  /\ Extant(c[1], c[2])
  /\ c[2] > 0 /\ Live(c[1]) => revisions[c[1]][c[2]] <= v

\* What is served and what the state file holds; Broken is no configuration.
Served == Confs \cup {Broken}

\* What is served has a revision number.
LEMMA ServedOK == ASSUME NEW c \in Served PROVE c[2] \in Nat
<1>1. CASE c \in Confs BY <1>1, ConfOK
<1>2. CASE c = Broken BY <1>2, NothingOK
<1> QED BY <1>1, <1>2 DEF Served

\* A revision that was published stays what it was, until its profile is
\* deleted; a profile id is not used again.
LEMMA ExtantStays ==
  ASSUME LoopInv, LoopInv', deleted \subseteq deleted',
         \A q \in Profiles : RevisionStep(q), NEW p, NEW r \in Nat, Extant(p, r)
  PROVE  /\ Extant(p, r)'
         /\ r > 0 /\ Live(p)' => Live(p) /\ revisions'[p][r] = revisions[p][r]
<1> SUFFICES ASSUME r > 0
             PROVE  /\ Extant(p, r)'
                    /\ Live(p)' => Live(p) /\ revisions'[p][r] = revisions[p][r]
  BY DEF Extant
<1>1. p \in Profiles /\ (p \in deleted \/ (Live(p) /\ r <= Current(p)))
  BY DEF Extant
<1>2. CASE p \in deleted
  <2>1. p \in deleted' BY <1>2
  <2>2. revisions'[p] = <<>> BY <2>1 DEF LoopInv, RevisionInv, DeletedIsEmpty
  <2> QED BY <1>1, <2>1, <2>2 DEF Extant, Live
<1>3. CASE p \notin deleted
  <2>0. /\ Live(p) /\ r <= Current(p) /\ RevisionStep(p)
        /\ revisions[p] \in Seq(Versions) /\ Len(revisions[p]) \in Nat
    BY <1>1, <1>3 DEF LoopInv, TypeOK, StoreTypeOK
  <2>1. CASE revisions'[p] = revisions[p]
    BY <1>1, <2>0, <2>1 DEF Extant, Live, Current
  <2>2. ASSUME NEW need \in Versions, revisions'[p] = Append(revisions[p], need)
        PROVE  /\ Extant(p, r)'
               /\ Live(p) /\ revisions'[p][r] = revisions[p][r]
    <3>1. /\ Len(revisions'[p]) = Len(revisions[p]) + 1
          /\ revisions'[p][r] = revisions[p][r]
      BY <2>0, <2>2 DEF Current
    <3>2. revisions'[p] # <<>> BY <2>0, <3>1
    <3> QED BY <1>1, <2>0, <3>1, <3>2 DEF Extant, Live, Current
  <2>3. CASE revisions'[p] = <<>> /\ p \in deleted'
    BY <1>1, <2>3 DEF Extant, Live
  <2> QED BY <1>1, <2>0, <2>1, <2>2, <2>3 DEF RevisionStep
<1> QED BY <1>2, <1>3

\* What an agent can serve, it and every newer one can go on serving.
LEMMA FitsStays ==
  ASSUME LoopInv, LoopInv', deleted \subseteq deleted',
         \A q \in Profiles : RevisionStep(q), NEW c \in Served,
         NEW v \in Versions, NEW w \in Versions, v <= w, Fits(c, v)
  PROVE  Fits(c, w)'
<1>1. c[2] \in Nat BY ServedOK
<1>2. Extant(c[1], c[2]) BY DEF Fits
<1>3. /\ Extant(c[1], c[2])'
      /\ c[2] > 0 /\ Live(c[1])' =>
           Live(c[1]) /\ revisions'[c[1]][c[2]] = revisions[c[1]][c[2]]
  BY <1>1, <1>2, ExtantStays
<1>4. ASSUME c[2] > 0, Live(c[1])' PROVE revisions'[c[1]][c[2]] <= w
  <2>1. /\ Live(c[1]) /\ revisions'[c[1]][c[2]] = revisions[c[1]][c[2]]
        /\ revisions[c[1]][c[2]] <= v
    BY <1>3, <1>4 DEF Fits
  <2>2. c[1] \in Profiles /\ c[1] \notin deleted
    BY <2>1 DEF Live, LoopInv, RevisionInv, DeletedIsEmpty
  <2>3. /\ revisions[c[1]] \in Seq(Versions)
        /\ c[2] \in 1 .. Len(revisions[c[1]])
    BY <1>1, <1>2, <1>4, <2>1, <2>2 DEF Extant, Current, LoopInv, TypeOK, StoreTypeOK
  <2>4. revisions[c[1]][c[2]] \in Versions BY <2>3
  <2>5. revisions[c[1]][c[2]] \in Nat BY <2>4 DEF Versions
  <2> QED BY <2>1, <2>5 DEF Versions
<1> QED BY <1>3, <1>4 DEF Fits

\* NoUnsupportedApplied is not inductive: it rests on what the agent is about
\* to apply, on the state file a restarted agent restores, and on the binary
\* that restarts, which is never older than the process.
FitInv(n) ==
  LET a == agent[n] IN
  /\ Fits(dp[n].conf, disk[n].binary) /\ Fits(disk[n].conf, disk[n].binary)
  /\ Up(n) => /\ a.version <= disk[n].binary
              /\ Fits(dp[n].conf, a.version) /\ Fits(disk[n].conf, a.version)
  /\ a.pc = "got" => \/ Fits(Target(a.d), a.version)
                     \/ a.d.decommission \/ a.d.update > a.version
  /\ a.pc = "apply" => Fits(Target(a.d), a.version)

\* No configuration needs an agent, and every agent can serve it.
LEMMA NothingFits == \A v : Fits(Nothing, v) /\ Fits(Broken, v)
BY NothingOK DEF Fits, Extant

\* A poll the panel does not withhold brings a configuration that fits, or one
\* the agent will not apply before it is newer.
LEMMA PollFits ==
  ASSUME LoopInv, NEW n \in Nodes, Polls(n)
  PROVE  LET d == DesiredState(n) IN
         \/ Fits(Target(d), agent[n].version)
         \/ d.decommission \/ d.update > agent[n].version
<1> DEFINE d == DesiredState(n)
<1>1. /\ TypeOK /\ StoreTypeOK /\ agent[n].version \in Versions
      /\ row[n].target \in {0, PanelVersion}
  BY NodeOK DEF LoopInv, Agent, Handled
<1>2. /\ d \in Desired /\ d.update = row[n].target /\ d.profile \in Profiles
      /\ d.rev > 0 /\ d.rev <= Current(d.profile) /\ Live(d.profile)
      /\ d.rev \in Nat
  BY <1>1, DesiredOK DEF Polls, Desired
<1>3. Target(d)[1] = d.profile /\ Target(d)[2] = d.rev BY <1>2, TargetOK
<1>4. \/ revisions[d.profile][d.rev] <= agent[n].version
      \/ d.decommission \/ d.update # 0
  <2>1. revisions[d.profile][d.rev] \in Versions
    BY <1>1, <1>2 DEF StoreTypeOK, Current
  <2>2. \/ ~(revisions[d.profile][d.rev] > agent[n].version)
        \/ d.decommission \/ d.update # 0
    BY DEF Polls, Withheld
  <2> QED BY <1>1, <2>1, <2>2 DEF Versions
<1>5. d.update # 0 => \/ d.update > agent[n].version
                      \/ revisions[d.profile][d.rev] <= agent[n].version
  <2>1. revisions[d.profile][d.rev] \in Versions
    BY <1>1, <1>2 DEF StoreTypeOK, Current
  <2> QED BY <1>1, <1>2, <2>1, PanelStoreConstants DEF Versions
<1> HIDE DEF d
<1>6. revisions[d.profile][d.rev] <= agent[n].version => Fits(Target(d), agent[n].version)
  BY <1>2, <1>3 DEF Fits, Extant
<1> QED BY <1>4, <1>5, <1>6 DEF d

\* What a node serves and can serve after a step, by name: x is served, y saved,
\* u the version of the process, w that of the binary.
LEMMA FitNext ==
  ASSUME NEW n \in Nodes, NEW x \in Served, NEW y \in Served, NEW u, NEW w,
         dp'[n].conf = x, disk'[n].conf = y, disk'[n].binary = w, agent'[n].version = u,
         Fits(x, w)', Fits(y, w)',
         Up(n)' => u <= w /\ Fits(x, u)' /\ Fits(y, u)',
         NEW t, t = Target(agent'[n].d),
         agent'[n].pc = "got" => \/ Fits(t, u)'
                                 \/ agent'[n].d.decommission \/ agent'[n].d.update > u,
         agent'[n].pc = "apply" => Fits(t, u)'
  PROVE  FitInv(n)'
<1>1. Fits(dp[n].conf, disk[n].binary)' /\ Fits(disk[n].conf, disk[n].binary)'
  BY DEF Fits, Extant
<1>2. Up(n)' => /\ agent'[n].version <= disk'[n].binary
                /\ Fits(dp[n].conf, agent[n].version)'
                /\ Fits(disk[n].conf, agent[n].version)'
  BY DEF Fits, Extant
<1>3. Fits(t, u)' => Fits(Target(agent[n].d), agent[n].version)'
  BY DEF Fits, Extant
<1> QED BY <1>1, <1>2, <1>3 DEF FitInv

\* A step of the node itself keeps what it serves within what it can serve.
LEMMA FitStep ==
  ASSUME LoopInv, LoopInv', NEW n \in Nodes, Effect(n), World, FitInv(n)
  PROVE  FitInv(n)'
<1> DEFINE a == agent[n]
           b == agent'[n]
<1>0. PICK v \in Versions, u \in Versions, z \in Versions, w \in Versions,
           o \in Served, x \in Served, c \in Served, y \in Served,
           s \in Served, t \in Served :
        /\ v = a.version /\ u = b.version
        /\ z = disk[n].binary /\ w = disk'[n].binary
        /\ o = dp[n].conf /\ x = dp'[n].conf /\ c = disk[n].conf /\ y = disk'[n].conf
        /\ s = Target(a.d) /\ t = Target(b.d)
  <2>1. TypeOK /\ TypeOK' BY DEF LoopInv
  <2>2. a \in Agent /\ b \in Agent /\ disk[n] \in Disk /\ disk'[n] \in Disk
    BY <2>1 DEF TypeOK
  <2>3. dp[n].conf \in Served /\ dp'[n].conf \in Served BY <2>1 DEF TypeOK, Planes, Served
  <2>4. a.d \in Desired /\ b.d \in Desired /\ a.version \in Versions
        /\ b.version \in Versions
    BY <2>2 DEF Agent
  <2>5. Target(a.d) \in Served /\ Target(b.d) \in Served
    BY <2>4, TargetOK DEF Served
  <2>6. /\ disk[n].conf \in Served /\ disk'[n].conf \in Served
        /\ disk[n].binary \in Versions /\ disk'[n].binary \in Versions
    BY <2>2 DEF Disk, Served
  <2> QED BY <2>3, <2>4, <2>5, <2>6
<1>1. \A k \in Served, i \in Versions, j \in Versions :
        i <= j /\ Fits(k, i) => Fits(k, j)'
  <2>1. deleted \subseteq deleted' /\ \A q \in Profiles : RevisionStep(q)
    BY DEF World, RevisionStep
  <2> QED BY <2>1, FitsStays
<1>2. /\ \A i : Fits(Nothing, i)' /\ Fits(Broken, i)'
      /\ Nothing \in Served /\ Broken \in Served
  BY NothingOK DEF Fits, Extant, Served
<1>3. /\ Fits(o, z) /\ Fits(c, z)
      /\ Up(n) => v <= z /\ Fits(o, v) /\ Fits(c, v)
      /\ a.pc = "got" => Fits(s, v) \/ a.d.decommission \/ a.d.update > v
      /\ a.pc = "apply" => Fits(s, v)
  BY <1>0 DEF FitInv
<1>4. \A i \in Versions : i \in Nat /\ i <= i BY DEF Versions
<1>5. a.pc = "apply" => Up(n) BY DEF Up
\* What may be served and saved after a step that does not start the process.
<1>6. ASSUME NEW k \in Served,
             k \in {o, c, Nothing, Broken} \/ (a.pc = "apply" /\ k = s), z <= w
      PROVE  Fits(k, w)' /\ (Up(n) => Fits(k, v)')
  <2>1. CASE k \in {Nothing, Broken} BY <1>2, <2>1
  <2>2. CASE k \in {o, c} BY <1>1, <1>3, <1>4, <1>6, <2>2
  <2>3. CASE a.pc = "apply" /\ k = s
    <3>1. v <= z /\ Fits(s, v) BY <1>3, <1>5, <2>3
    <3>2. v <= w BY <1>4, <1>6, <3>1
    <3> QED BY <1>1, <1>4, <2>3, <3>1, <3>2
  <2> QED BY <1>6, <2>1, <2>2, <2>3
<1>7. ASSUME \/ x \in {o, c, Nothing, Broken}
             \/ a.pc = "apply" /\ x = s,
             \/ y \in {c, Nothing}
             \/ a.pc = "apply" /\ y = s,
             z <= w,
             b.pc \in {"idle", "got", "install", "apply", "report"} => Up(n) /\ u = v,
             b.pc = "got" => a.pc = "got" /\ b.d = a.d,
             b.pc = "apply" => \/ a.pc = "apply" /\ b.d = a.d
                               \/ Fits(s, v) /\ b.d = a.d
      PROVE  FitInv(n)'
  <2>1. /\ Fits(x, w)' /\ (Up(n) => Fits(x, v)')
        /\ Fits(y, w)' /\ (Up(n) => Fits(y, v)')
    BY <1>6, <1>7
  <2>2. Up(n)' => Up(n) /\ u = v BY <1>7 DEF Up
  <2>3. Up(n)' => u <= w /\ Fits(x, u)' /\ Fits(y, u)'
    BY <1>3, <1>4, <1>7, <2>1, <2>2
  <2>4. Fits(s, v) => Fits(s, v)' BY <1>1, <1>4
  <2>5. b.pc = "got" => Fits(t, u)' \/ b.d.decommission \/ b.d.update > u
    BY <1>0, <1>3, <1>7, <2>4
  <2>6. b.pc = "apply" => Fits(t, u)' BY <1>0, <1>3, <1>7, <2>4
  <2> QED BY <1>0, <2>1, <2>3, <2>5, <2>6, FitNext
<1>8. ASSUME Rests(n), b.pc \notin {"got", "apply"}, Up(n)' => Up(n) /\ u = v
      PROVE  FitInv(n)'
  BY <1>0, <1>4, <1>7, <1>8 DEF Rests, Kept, Up
<1>9. CASE Polls(n)
  <2>1. \/ Fits(Target(DesiredState(n)), a.version)
        \/ DesiredState(n).decommission \/ DesiredState(n).update > a.version
    BY <1>9, PollFits
  <2>2. a.pc = "idle" /\ b.pc = "got" /\ b.d = DesiredState(n) /\ u = v
    BY <1>0, <1>9 DEF Polls, Turns
  <2>3. x = o /\ y = c /\ w = z /\ Up(n) BY <1>0, <1>9 DEF Polls, Rests, Kept, Up
  <2>4. Fits(t, v) \/ b.d.decommission \/ b.d.update > v BY <1>0, <2>1, <2>2
  <2>5. Fits(x, w)' /\ Fits(y, w)' /\ Fits(x, u)' /\ Fits(y, u)' /\ u <= w
    BY <1>3, <1>4, <1>6, <2>2, <2>3
  <2>6. Fits(t, u)' \/ b.d.decommission \/ b.d.update > u
    BY <1>1, <1>4, <2>2, <2>4
  <2> QED BY <1>0, <2>2, <2>5, <2>6, FitNext
<1>10. CASE Talks(n)
  <2>1. PICK pc \in Points :
          /\ b.pc = pc /\ b.d = a.d /\ b.version = a.version
          /\ \/ pc = a.pc
             \/ a.pc = "report" /\ pc \in {"idle", "exited"}
             \/ a.pc = "got" /\ pc = "install"
    BY <1>10 DEF Talks, Moves, Turns, Handles
  <2>2. x = o /\ y = c /\ w = z BY <1>0, <1>10 DEF Talks, Rests, Kept
  <2> HIDE DEF b
  <2>3. b.pc \in {"idle", "got", "install", "apply", "report"} => Up(n)
    BY <2>1 DEF Up
  <2> QED BY <1>0, <1>4, <1>7, <2>1, <2>2, <2>3
<1>11. CASE Installs(n)
  <2>1. w = PanelVersion /\ x = o /\ y = c
    BY <1>0, <1>11 DEF Installs, LoopInv, Handled, Versions
  <2>2. z <= w BY <2>1, PanelStoreConstants DEF Versions
  <2>3. Up(n) /\ b.pc \in {"idle", "report"} /\ u = v
    BY <1>0, <1>11 DEF Installs, Gives, Ends, Turns, Up
  <2> QED BY <1>7, <2>1, <2>2, <2>3
<1>12. CASE GivesUp(n) \/ Refreshes(n) \/ TakesRestart(n)
  <2>1. Rests(n) /\ Up(n) /\ b.pc \in {"idle", "report"} /\ b.version = a.version
    BY <1>12 DEF GivesUp, Refreshes, TakesRestart, Gives, Ends, Turns, Handles, Up
  <2> QED BY <1>0, <1>8, <2>1
<1>13. CASE Cleans(n) \/ FailsToClean(n)
  <2>1. Up(n) /\ b.pc = "report" /\ b.version = a.version
    BY <1>13 DEF Cleans, FailsToClean, Gives, Ends, Turns, Handles, Up
  <2>2. /\ x \in {o, Nothing, Broken} /\ y \in {c, Nothing} /\ w = z
    BY <1>0, <1>13 DEF Cleans, FailsToClean, Cleaned, PartlyCleaned, Kept
  <2> QED BY <1>0, <1>4, <1>7, <2>1, <2>2
<1>14. CASE StartsApply(n)
  <2>1. a.pc = "got" /\ ~(a.d.update > v) /\ ~a.d.decommission
    BY <1>0, <1>14 DEF StartsApply, Handles, Updates
  <2>2. /\ b.pc = "apply" /\ b.d = a.d /\ u = v /\ Up(n)
        /\ x = o /\ y = c /\ w = z
    BY <1>0, <1>14, <2>1 DEF StartsApply, Turns, Rests, Kept, Up
  <2> QED BY <1>3, <1>4, <1>7, <2>1, <2>2
<1>15. CASE Applies(n) \/ FailsToApply(n)
  <2>1. a.pc = "apply" /\ b.pc = "report" /\ b.version = a.version
    BY <1>15 DEF Applies, FailsToApply, Gives, Ends, Turns
  <2>2. /\ x \in {o, c, s, Broken, Nothing} /\ y \in {c, s} /\ w = z
    BY <1>0, <1>15 DEF Applies, FailsToApply, Applied, PartlyApplied, Kept, Serves
  <2> QED BY <1>0, <1>4, <1>5, <1>7, <2>1, <2>2
<1>16. CASE Falls(n)
  <2>1. b.pc = "down" BY <1>16 DEF Falls, Starts
  <2>2. w = z BY <1>0, <1>16 DEF Falls, Rests, PartlyApplied, Applied, PartlyCleaned, Kept
  <2>3. CASE Rests(n) \/ PartlyCleaned(n)
    <3>1. x \in {o, Nothing, Broken} /\ y = c
      BY <1>0, <2>3 DEF Rests, PartlyCleaned, Kept
    <3> QED BY <1>4, <1>7, <2>1, <2>2, <3>1
  <2>4. CASE a.pc = "apply" /\ (PartlyApplied(n) \/ Applied(n))
    <3>1. x \in {o, c, s, Broken, Nothing} /\ y \in {c, s}
      BY <1>0, <2>4 DEF PartlyApplied, Applied, Kept, Serves
    <3> QED BY <1>4, <1>7, <2>1, <2>2, <2>4, <3>1
  <2> QED BY <1>16, <2>3, <2>4 DEF Falls
<1>17. CASE Reboots(n)
  <2>1. b.pc \in {"down", "exited"} /\ x = Nothing /\ y = c /\ w = z
    BY <1>0, <1>17 DEF Reboots, Kept
  <2> QED BY <1>4, <1>7, <2>1
<1>18. CASE Restores(n)
  <2>1. /\ b.pc = "idle" /\ u = z
        /\ x \in {o, c, Nothing, Broken} /\ y = c /\ w = z
    BY <1>0, <1>18 DEF Restores, Starts, Kept, Serves
  <2>2. Fits(x, w)' /\ Fits(y, w)' BY <1>4, <1>6, <2>1
  <2> QED BY <1>0, <1>4, <2>1, <2>2, FitNext
<1>19. CASE HearsLate(n)
  <2>1. b = a /\ x = o /\ y = c /\ w = z BY <1>0, <1>19 DEF HearsLate, Rests, Kept
  <2> QED BY <1>0, <1>4, <1>7, <2>1 DEF Up
<1>20. CASE Uninstalls(n) \/ UninstallerCleans(n) \/ Confirms(n)
  <2>1. b.pc \in {"clean", "cleanlocal", "confirm", "exited", "down"}
    BY <1>20 DEF Uninstalls, UninstallerCleans, Confirms, Moves, Turns, Starts
  <2>2. x \in {o, Nothing, Broken} /\ y \in {c, Nothing} /\ w = z
    BY <1>0, <1>20 DEF Uninstalls, UninstallerCleans, Confirms, Rests, Kept,
                       Cleaned, PartlyCleaned
  <2> QED BY <1>4, <1>7, <2>1, <2>2
<1> QED
  BY <1>9, <1>10, <1>11, <1>12, <1>13, <1>14, <1>15, <1>16, <1>17, <1>18, <1>19, <1>20
     DEF Effect

\* What a node serves and what it can serve, in every reachable state.
THEOREM FitSafety == Spec => [](\A n \in Nodes : FitInv(n))
<1>1. Init => \A n \in Nodes : FitInv(n)
  BY InitLoop, NothingFits DEF FitInv, Up
<1>2. LoopInv /\ (\A n \in Nodes : FitInv(n)) /\ [Next]_vars
        => (\A n \in Nodes : FitInv(n))'
  <2> SUFFICES ASSUME LoopInv, \A n \in Nodes : FitInv(n), [Next]_vars
               PROVE  \A n \in Nodes : FitInv(n)'
    OBVIOUS
  <2>0. LoopInv' BY LoopStep
  \* A node whose agent, disk and data plane do not change, whatever is published.
  <2>1. ASSUME NEW m \in Nodes, deleted \subseteq deleted',
               \A q \in Profiles : RevisionStep(q),
               agent'[m] = agent[m], disk'[m] = disk[m], dp'[m] = dp[m]
        PROVE  FitInv(m)'
    <3>1. PICK v \in Versions, z \in Versions, x \in Served, y \in Served, t \in Served :
            /\ v = agent[m].version /\ z = disk[m].binary
            /\ x = dp[m].conf /\ y = disk[m].conf /\ t = Target(agent[m].d)
      <4>1. TypeOK /\ agent[m].d \in Desired BY NodeOK DEF LoopInv
      <4>2. agent[m] \in Agent /\ disk[m] \in Disk /\ dp[m].conf \in Served
        BY <4>1 DEF TypeOK, Planes, Served
      <4>3. Target(agent[m].d) \in Served BY <4>1, TargetOK DEF Served
      <4> QED BY <4>2, <4>3 DEF Agent, Disk, Served
    <3>2. \A k \in Served, i \in Versions : Fits(k, i) => Fits(k, i)'
      <4>1. \A i \in Versions : i <= i BY DEF Versions
      <4> QED BY <2>0, <2>1, <4>1, FitsStays
    <3>3. /\ Fits(x, z) /\ Fits(y, z)
          /\ Up(m) => v <= z /\ Fits(x, v) /\ Fits(y, v)
          /\ agent[m].pc = "got" => \/ Fits(t, v)
                                    \/ agent[m].d.decommission \/ agent[m].d.update > v
          /\ agent[m].pc = "apply" => Fits(t, v)
      BY <3>1 DEF FitInv
    <3>4. Up(m)' => Up(m) BY <2>1 DEF Up
    <3> QED BY <2>1, <3>1, <3>2, <3>3, <3>4, FitNext
  <2>2. ASSUME NEW m \in Nodes, World, Same(m) PROVE FitInv(m)'
    BY <2>1, <2>2 DEF Same, World, RevisionStep
  <2>3. CASE Admin
    <3>1. /\ UNCHANGED <<agent, disk, dp>> /\ deleted \subseteq deleted'
          /\ \A q \in Profiles : RevisionStep(q)
      BY <2>3, AdminEffect
    <3> QED BY <2>1, <3>1
  <2>4. ASSUME NEW n \in Nodes, Effect(n), World, \A m \in Nodes \ {n} : Same(m)
        PROVE  \A m \in Nodes : FitInv(m)'
    BY <2>0, <2>2, <2>4, FitStep
  <2> QED BY <2>2, <2>3, <2>4, LoopStep
<1> QED BY <1>1, <1>2, LoopSafety, PTL DEF Spec

\* No data plane ever serves a configuration its running agent is too old for,
\* whatever is published, assigned, updated or restarted.
THEOREM NoOldAgentServes == Spec => []NoUnsupportedApplied
<1>1. (\A n \in Nodes : FitInv(n)) => NoUnsupportedApplied
  BY DEF FitInv, Fits, NoUnsupportedApplied
<1> QED BY <1>1, FitSafety, PTL

-----------------------------------------------------------------------------
(* A node is forgotten only when it is clean                               *)

\* The agent, or a report still on its way, says that n is decommissioned.
Doomed(n) == agent[n].decommissioned \/ \E hb \in late[n] : hb.decommissioned

\* Nothing of a configuration is served, nor named by the state file.
Empty(n) == dp[n].conf = Nothing /\ disk[n].conf = Nothing

\* CleanBeforeForgotten needs to know, of every node whose decommission was not
\* cancelled, that whoever says it is decommissioned has cleaned it, and that
\* no desired state that arrives afterwards can put anything back: the panel
\* says "deleting" from then on, and the agent cleans instead of applying.
DoomInv(n) ==
  LET a == agent[n] deleting == row[n].status = "deleting" IN
  /\ Exists(n) /\ n \notin undone =>
       /\ a.pc \in {"clean", "confirm"} => deleting
       /\ a.d.decommission => deleting
       /\ Doomed(n) => /\ deleting /\ Empty(n)
                       /\ Handling(n) => a.d.decommission
  /\ a.pc = "confirm" => Empty(n)
  /\ a.pc = "apply" => ~a.d.decommission

\* A heartbeat does not take a node out of "deleting".
LEMMA StaysDeleting ==
  ASSUME NEW n \in Nodes, RowStep(n), Exists(n)', row[n].status = "deleting"
  PROVE  row'[n].status = "deleting"
<1>1. Blank("removed").status = "removed" BY DEF Blank
<1>2. CASE \E hb \in Report : Hears(n, hb)
  <2>1. PICK hb \in Report : Hears(n, hb) BY <1>2
  <2>2. row'[n] # Blank("removed") BY <1>1 DEF Exists
  <2> QED BY <2>1, <2>2 DEF Hears, Heard, Forgotten
<1>3. CASE MarkedDeleting(n) BY <1>3 DEF MarkedDeleting
<1> QED BY <1>2, <1>3 DEF RowStep

\* A report that says no more than its agent dooms nobody else.
LEMMA SaysDoom ==
  ASSUME NEW n \in Nodes, NEW c, NEW ack, NEW gone, Says(n, c, ack, gone)
  PROVE  \A hb \in late'[n] : hb.decommissioned =>
           gone \/ \E old \in late[n] : old.decommissioned
BY DEF Says, Carries

\* A step of the node itself keeps it clean once somebody says that it is.
LEMMA DoomStep ==
  ASSUME LoopInv, NEW n \in Nodes, Effect(n), RowStep(n), World, DoomInv(n)
  PROVE  DoomInv(n)'
<1> DEFINE a == agent[n]
           b == agent'[n]
           deleting == row[n].status = "deleting"
           watched == Exists(n)' /\ n \notin undone
<1>0. /\ TypeOK /\ a \in Agent /\ Nothing[2] = 0
      /\ undone' = undone /\ NoDesired.decommission = FALSE
      /\ watched => Exists(n)
      /\ watched /\ deleting => row'[n].status = "deleting"
  BY NodeOK, NothingOK, RowStepKeeps, StaysDeleting DEF LoopInv, World
<1>1. /\ watched => /\ a.pc \in {"clean", "confirm"} => deleting
                    /\ a.d.decommission => deleting
                    /\ Doomed(n) => /\ deleting /\ Empty(n)
                                    /\ Handling(n) => a.d.decommission
      /\ a.pc = "confirm" => Empty(n)
      /\ a.pc = "apply" => ~a.d.decommission
  BY <1>0 DEF DoomInv
\* A step that dooms nobody, sets nothing up and handles nothing new.
<1>2. ASSUME watched /\ Doomed(n)' => Doomed(n) /\ Empty(n)',
             b.pc \notin {"clean", "confirm"},
             b.d = a.d \/ b.d = NoDesired,
             Handling(n)' => Handling(n) /\ b.d = a.d,
             b.pc = "apply" => ~b.d.decommission
      PROVE  DoomInv(n)'
  <2>1. watched => (b.d.decommission => row'[n].status = "deleting")
    BY <1>0, <1>1, <1>2
  <2>2. watched /\ Doomed(n)' => /\ row'[n].status = "deleting" /\ Empty(n)'
                                 /\ Handling(n)' => b.d.decommission
    BY <1>0, <1>1, <1>2
  <2> QED BY <1>0, <1>2, <2>1, <2>2 DEF DoomInv
<1>3. ASSUME Rests(n) PROVE Empty(n) => Empty(n)'
  BY <1>3 DEF Rests, Kept, Empty
<1>4. ASSUME late'[n] \subseteq late[n], b.decommissioned => a.decommissioned
      PROVE  Doomed(n)' => Doomed(n)
  BY <1>4 DEF Doomed
<1>5. ASSUME NEW c, NEW ack, Says(n, c, ack, a.decommissioned),
             b.decommissioned => a.decommissioned
      PROVE  Doomed(n)' => Doomed(n)
  BY <1>5, SaysDoom DEF Doomed
<1>6. CASE Polls(n)
  <2>1. /\ b.pc = "got" /\ b.d = DesiredState(n)
        /\ b.decommissioned = a.decommissioned /\ row'[n] = row[n] /\ late'[n] = late[n]
    BY <1>6 DEF Polls, Turns, Quiet
  <2>2. b.d.decommission = deleting BY <1>0, <1>6, <2>1, NodeOK, DesiredOK DEF Polls
  <2>3. Doomed(n)' => Doomed(n) BY <1>4, <2>1
  <2>4. Empty(n) => Empty(n)' BY <1>3, <1>6 DEF Polls
  <2> HIDE DEF b
  <2> QED BY <1>0, <1>1, <2>1, <2>2, <2>3, <2>4 DEF DoomInv, b
<1>7. CASE Talks(n)
  <2>1. PICK pc \in Points :
          /\ b.pc = pc /\ b.d = a.d /\ b.decommissioned = a.decommissioned
          /\ \/ pc = a.pc
             \/ a.pc = "report" /\ pc \in {"idle", "exited"}
             \/ a.pc = "got" /\ pc = "install"
    BY <1>7 DEF Talks, Moves, Turns, Handles
  <2>2. Doomed(n)' => Doomed(n) BY <1>5, <1>7, <2>1 DEF Talks, SaysSo
  <2>3. Empty(n) => Empty(n)' BY <1>3, <1>7 DEF Talks
  <2>4. b.pc \in {"clean", "confirm"} => b.pc = a.pc BY <2>1
  <2>5. Handling(n)' => Handling(n) BY <2>1 DEF Handling
  <2> QED BY <1>0, <1>1, <2>1, <2>2, <2>3, <2>4, <2>5 DEF DoomInv
<1>8. CASE Installs(n)
  <2>1. /\ b.pc \in {"idle", "report"} /\ b.d = NoDesired
        /\ b.decommissioned = a.decommissioned
    BY <1>8 DEF Installs, Gives, Ends, Turns
  <2>2. Doomed(n)' => Doomed(n) BY <1>5, <1>8, <2>1 DEF Installs, SaysSo
  <2>3. Empty(n) => Empty(n)' BY <1>8 DEF Installs, Empty
  <2> QED BY <1>1, <1>2, <2>1, <2>2, <2>3 DEF Handling
<1>9. CASE GivesUp(n) \/ Refreshes(n)
  <2>1. /\ b.pc \in {"idle", "report"} /\ b.d = NoDesired
        /\ b.decommissioned = a.decommissioned /\ late'[n] = late[n] /\ Rests(n)
    BY <1>9 DEF GivesUp, Refreshes, Gives, Ends, Turns, Quiet
  <2> QED BY <1>1, <1>2, <1>3, <1>4, <2>1 DEF Handling
<1>10. CASE Cleans(n)
  <2>1. /\ b.pc = "report" /\ b.d = NoDesired /\ Empty(n)'
        /\ a.d.decommission
    BY <1>10 DEF Cleans, Ends, Turns, Cleaned, Empty
  <2>2. watched => row'[n].status = "deleting" BY <1>0, <1>1, <2>1
  <2> QED BY <1>0, <2>1, <2>2 DEF DoomInv, Handling
<1>11. CASE FailsToClean(n)
  <2>1. /\ b.pc = "report" /\ b.d = NoDesired
        /\ b.decommissioned = a.decommissioned /\ late'[n] = late[n]
    BY <1>11 DEF FailsToClean, Gives, Ends, Turns, Quiet
  <2>2. Empty(n) => Empty(n)'
    BY <1>11 DEF FailsToClean, PartlyCleaned, Kept, Empty
  <2> QED BY <1>1, <1>2, <1>4, <2>1, <2>2 DEF Handling
<1>12. CASE TakesRestart(n)
  <2>1. /\ b.pc \in {"idle", "report"} /\ b.d = NoDesired /\ Rests(n)
        /\ b.decommissioned = a.decommissioned
    BY <1>12 DEF TakesRestart, Ends, Turns
  <2>2. Doomed(n)' => Doomed(n) BY <1>5, <1>12, <2>1 DEF TakesRestart
  <2> QED BY <1>1, <1>2, <1>3, <2>1, <2>2 DEF Handling
<1>13. CASE StartsApply(n)
  <2>1. /\ a.pc = "got" /\ b.pc = "apply" /\ b.d = a.d /\ ~a.d.decommission /\ Rests(n)
        /\ b.decommissioned = a.decommissioned
    BY <1>13 DEF StartsApply, Turns, Handles
  <2>2. Doomed(n)' => Doomed(n) BY <1>5, <1>13, <2>1 DEF StartsApply, SaysSo
  <2>3. Handling(n) BY <2>1 DEF Handling
  <2> QED BY <1>1, <1>2, <1>3, <2>1, <2>2, <2>3
<1>14. CASE Applies(n) \/ FailsToApply(n)
  <2>1. /\ a.pc = "apply" /\ b.pc = "report" /\ b.d = NoDesired
        /\ b.decommissioned = a.decommissioned /\ late'[n] = late[n]
    BY <1>14 DEF Applies, FailsToApply, Gives, Ends, Turns, Quiet
  <2>2. Handling(n) BY <2>1 DEF Handling
  <2>3. watched => ~Doomed(n) BY <1>1, <2>1, <2>2
  <2> QED BY <1>2, <1>4, <2>1, <2>3 DEF Handling
<1>15. CASE Falls(n)
  <2>1. /\ b.pc = "down" /\ b.d = NoDesired /\ b.decommissioned = FALSE
        /\ late'[n] = late[n]
    BY <1>15 DEF Falls, Starts, Quiet
  <2>2. ASSUME watched, Doomed(n) PROVE Empty(n)'
    <3>1. a.pc # "apply" BY <1>1, <2>2 DEF Handling
    <3>2. Empty(n) BY <1>1, <2>2
    <3>3. CASE Rests(n) BY <1>3, <3>2, <3>3
    <3>4. CASE PartlyCleaned(n) BY <3>2, <3>4 DEF PartlyCleaned, Kept, Empty
    <3> QED BY <1>15, <3>1, <3>3, <3>4 DEF Falls
  <2> QED BY <1>2, <1>4, <2>1, <2>2 DEF Handling
<1>16. CASE Reboots(n)
  <2>1. /\ b = a /\ a.pc \in {"down", "exited"} /\ late'[n] = late[n]
        /\ Empty(n) => Empty(n)'
    BY <1>16 DEF Reboots, Quiet, Kept, Empty
  <2> QED BY <1>1, <1>2, <1>4, <2>1 DEF Handling
<1>17. CASE Restores(n)
  <2>1. /\ b.pc = "idle" /\ b.d = NoDesired /\ b.decommissioned = FALSE
        /\ late'[n] = late[n]
    BY <1>17 DEF Restores, Starts, Quiet
  <2>2. ASSUME Empty(n) PROVE Empty(n)'
    <3>1. disk[n].conf = Nothing /\ disk[n].conf[2] = 0 BY <1>0, <2>2 DEF Empty
    <3>2. dp'[n] = dp[n] /\ Kept(n) BY <1>17, <3>1 DEF Restores
    <3> QED BY <2>2, <3>1, <3>2 DEF Kept, Empty
  <2> QED BY <1>1, <1>2, <1>4, <2>1, <2>2 DEF Handling
<1>18. CASE HearsLate(n)
  <2>1. b = a /\ late'[n] \subseteq late[n] /\ Rests(n) BY <1>18 DEF HearsLate
  <2>2. Doomed(n)' => Doomed(n) BY <1>4, <2>1
  <2>3. Empty(n) => Empty(n)' BY <1>3, <2>1
  <2>4. Handling(n)' => Handling(n) BY <2>1 DEF Handling
  <2> QED BY <1>0, <1>1, <2>1, <2>2, <2>3, <2>4 DEF DoomInv
<1>19. CASE Uninstalls(n)
  <2>1. /\ b.pc \in {"clean", "cleanlocal"} /\ b.d = a.d
        /\ b.decommissioned = a.decommissioned /\ late'[n] = late[n] /\ Rests(n)
        /\ b.pc = "clean" => row'[n].status = "deleting"
    BY <1>19 DEF Uninstalls, Moves, Turns, MarkedDeleting
  <2>2. Doomed(n)' => Doomed(n) BY <1>4, <2>1
  <2>3. Empty(n) => Empty(n)' BY <1>3, <2>1
  <2> QED BY <1>0, <1>1, <2>1, <2>2, <2>3 DEF DoomInv, Handling
<1>20. CASE UninstallerCleans(n)
  <2>1. /\ b.pc \in {"confirm", "exited", "down"} /\ b.d = a.d
        /\ b.decommissioned = a.decommissioned /\ late'[n] = late[n]
        /\ b.pc = "confirm" => a.pc = "clean" /\ Empty(n)'
        /\ Empty(n) => Empty(n)'
    BY <1>20 DEF UninstallerCleans, Moves, Turns, Quiet, Cleaned, PartlyCleaned, Kept, Empty
  <2>2. Doomed(n)' => Doomed(n) BY <1>4, <2>1
  <2> QED BY <1>0, <1>1, <2>1, <2>2 DEF DoomInv, Handling
<1>21. CASE Confirms(n)
  <2>1. a.pc = "confirm" /\ b.pc = "exited" /\ b.d = NoDesired /\ Rests(n)
    BY <1>21 DEF Confirms, Starts
  <2>2. Empty(n)' BY <1>1, <1>3, <2>1
  <2>3. watched => row'[n].status = "deleting" BY <1>0, <1>1, <2>1
  <2> QED BY <1>0, <2>1, <2>2, <2>3 DEF DoomInv, Handling
<1> QED
  BY <1>6, <1>7, <1>8, <1>9, <1>10, <1>11, <1>12, <1>13, <1>14, <1>15, <1>16, <1>17,
     <1>18, <1>19, <1>20, <1>21 DEF Effect

\* A node the panel forgets without force is clean.
LEMMA ForgottenClean ==
  ASSUME NEW n \in Nodes, Effect(n), DoomInv(n), Exists(n), n \notin undone,
         row'[n].status = "removed"
  PROVE  dp[n].conf = Nothing
<1>1. row'[n] # row[n] /\ ~MarkedDeleting(n) BY DEF Exists, MarkedDeleting
<1>2. ASSUME NEW hb, Hears(n, hb) PROVE hb.decommissioned
  BY <1>2 DEF Hears, Heard, Forgotten
<1>3. ASSUME NEW c, NEW ack, NEW gone, Says(n, c, ack, gone) PROVE gone
  BY <1>1, <1>2, <1>3 DEF Says, Carries
<1>4. Doomed(n) => dp[n].conf = Nothing BY DEF DoomInv, Empty
<1>5. CASE SaysSo(n) BY <1>3, <1>4, <1>5 DEF SaysSo, Doomed
<1>6. CASE TakesRestart(n) BY <1>3, <1>4, <1>6 DEF TakesRestart, Doomed
<1>7. CASE HearsLate(n) BY <1>1, <1>2, <1>4, <1>7 DEF HearsLate, Doomed
<1>8. CASE Confirms(n) BY <1>8 DEF Confirms, DoomInv, Empty
<1>9. CASE Uninstalls(n) BY <1>1, <1>9 DEF Uninstalls
<1>10. CASE Quiet(n) BY <1>1, <1>10 DEF Quiet
<1>11. ASSUME Talks(n) \/ Installs(n) \/ StartsApply(n) PROVE SaysSo(n)
  BY <1>11 DEF Talks, Installs, StartsApply
<1>12. ASSUME \/ Polls(n) \/ GivesUp(n) \/ Refreshes(n) \/ Cleans(n) \/ FailsToClean(n)
              \/ Applies(n) \/ FailsToApply(n) \/ Falls(n) \/ Reboots(n) \/ Restores(n)
              \/ UninstallerCleans(n)
       PROVE  Quiet(n)
  BY <1>12 DEF Polls, GivesUp, Refreshes, Cleans, FailsToClean, Applies, FailsToApply,
               Falls, Reboots, Restores, UninstallerCleans
<1> QED BY <1>5, <1>6, <1>7, <1>8, <1>9, <1>10, <1>11, <1>12 DEF Effect

\* A statement of an administrator that cancels a decommission is remembered.
LEMMA DoomAdmin ==
  ASSUME LoopInv, Admin, NEW m \in Nodes, DoomInv(m)
  PROVE  DoomInv(m)'
<1>1. /\ UNCHANGED <<agent, disk, dp, late>> /\ AdminRow(m)
      /\ undone' = undone \cup {n \in Nodes : row[n].status = "deleting"
                                  /\ row'[n].status \notin {"deleting", "removed"}}
  BY AdminEffect
<1>2. ASSUME Exists(m)', m \notin undone'
      PROVE  /\ Exists(m) /\ m \notin undone
             /\ row[m].status = "deleting" => row'[m].status = "deleting"
  BY <1>1, <1>2, AdminKeepsRow DEF Exists
<1> QED BY <1>1, <1>2 DEF DoomInv, Doomed, Empty, Handling

\* Nothing happens to a node, nor to what is remembered of it.
LEMMA DoomSame ==
  ASSUME NEW m \in Nodes, World, Same(m), DoomInv(m)
  PROVE  DoomInv(m)'
BY DEF World, Same, DoomInv, Doomed, Empty, Handling, Exists

\* Who may say that a node is decommissioned, in every reachable state.
THEOREM DoomSafety == Spec => [](\A n \in Nodes : DoomInv(n))
<1>1. Init => \A n \in Nodes : DoomInv(n)
  BY InitLoop, NothingOK DEF DoomInv, Doomed, Empty
<1>2. LoopInv /\ (\A n \in Nodes : DoomInv(n)) /\ [Next]_vars
        => (\A n \in Nodes : DoomInv(n))'
  <2> SUFFICES ASSUME LoopInv, \A n \in Nodes : DoomInv(n), [Next]_vars
               PROVE  \A n \in Nodes : DoomInv(n)'
    OBVIOUS
  <2>1. ASSUME NEW n \in Nodes, Effect(n), RowStep(n), World,
               \A m \in Nodes \ {n} : Same(m)
        PROVE  \A m \in Nodes : DoomInv(m)'
    BY <2>1, DoomSame, DoomStep
  <2> QED BY <2>1, DoomAdmin, DoomSame, LoopStep
<1> QED BY <1>1, <1>2, LoopSafety, PTL DEF Spec

\* The panel forgets a node, other than by force, only when it serves nothing
\* of its configuration, whatever reports were lost or late and wherever its agent crashed,
\* unless an administrator cancelled the decommission in between.
THEOREM ForgetsCleanNodes == Spec => CleanBeforeForgotten
<1> DEFINE Promise == \A n \in Nodes :
             Exists(n) /\ row'[n].status = "removed" /\ count'.ops = count.ops
               => dp[n].conf = Nothing \/ n \in undone
<1>1. LoopInv /\ (\A n \in Nodes : DoomInv(n)) /\ [Next]_vars => [Promise]_vars
  <2> SUFFICES ASSUME LoopInv, \A n \in Nodes : DoomInv(n), [Next]_vars,
                      NEW n \in Nodes, Exists(n), row'[n].status = "removed",
                      count'.ops = count.ops, n \notin undone
               PROVE  dp[n].conf = Nothing
    OBVIOUS
  <2>1. ~Same(n) BY DEF Same, Exists
  <2>2. ~Admin
    <3>1. count.ops \in Nat BY DEF LoopInv, TypeOK
    <3> QED BY <3>1, AdminEffect
  <2>3. Effect(n) BY <2>1, <2>2, LoopStep
  <2> QED BY <2>3, ForgottenClean
<1> QED BY <1>1, LoopSafety, DoomSafety, PTL DEF Spec, CleanBeforeForgotten

-----------------------------------------------------------------------------
(* A connection reset is cleared by an agent that performed it             *)

\* A connection reset waits for a node that has a profile.
Pending(n) == Exists(n) /\ row[n].reset > 0 /\ row[n].profile \in Profiles

\* Revision r of p, unless r is 0, was once committed by n.
Was(n, p, r) == r > 0 => \E reset \in BOOLEAN : <<n, p, r, reset>> \in served

\* A revision an agent has committed: with the reset, if one is pending for it.
Committed(n, p, r) ==
  /\ Extant(p, r)
  /\ Was(n, p, r)
  /\ Pending(n) /\ p = row[n].profile /\ r = row[n].reset => <<n, p, r, TRUE>> \in served

\* A desired state in the hands of an agent: it says so when a reset is pending.
Due(n, d) ==
  /\ Extant(d.profile, d.rev)
  /\ Pending(n) /\ d.profile = row[n].profile /\ d.rev = row[n].reset => d.reset

\* ResetPerformed rests on everything that can become a report: what the agent
\* applied, what a restart would restore, what is on its way, and what is being
\* handled; and on the marker being the newest revision, so that no report of
\* another revision of the profile clears it.
ResetInv(n) ==
  LET a == agent[n] conf == disk[n].conf IN
  /\ Committed(n, a.applied[1], a.applied[2])
  /\ Committed(n, conf[1], conf[2])
  /\ \A hb \in late[n] : Committed(n, hb.profile, hb.rev)
  /\ Handling(n) => Due(n, a.d)
  /\ Pending(n) => row[n].reset = Current(row[n].profile)

\* Nothing was committed yet, and a revision 0 is no revision.
LEMMA NotCommitted ==
  ASSUME NEW n \in Nodes, NEW p
  PROVE  Committed(n, p, 0) /\ Committed(n, p, 0)'
BY DEF Committed, Extant, Pending, Was

\* No step of a node makes a reset pending for it.
LEMMA PendingStays ==
  ASSUME StoreTypeOK, NEW n \in Nodes, RowStep(n), Pending(n)'
  PROVE  Pending(n) /\ row'[n].profile = row[n].profile /\ row'[n].reset = row[n].reset
BY RowStepKeeps DEF Pending, SamePlace, Exists

\* What was committed, or handled, is after a step of the node itself.
LEMMA CommittedStays ==
  ASSUME StoreTypeOK, NEW n \in Nodes, RowStep(n), World, NEW p, NEW r
  PROVE  /\ Committed(n, p, r) => Committed(n, p, r)'
         /\ \A d : d.profile = p /\ d.rev = r /\ Due(n, d) => Due(n, d)'
         /\ (Pending(n) => row[n].reset = Current(row[n].profile))
              => (Pending(n)' => row'[n].reset = Current(row[n].profile)')
<1>1. Extant(p, r) => Extant(p, r)' BY DEF Extant, World, Live, Current
<1>2. Pending(n)' => /\ Pending(n) /\ row'[n].profile = row[n].profile
                     /\ row'[n].reset = row[n].reset
  BY PendingStays
<1>3. served \subseteq served' /\ revisions' = revisions BY DEF World
<1>4. ASSUME Committed(n, p, r) PROVE Committed(n, p, r)'
  <2>1. Was(n, p, r)' BY <1>3, <1>4 DEF Committed, Was
  <2> QED BY <1>1, <1>2, <1>3, <1>4, <2>1 DEF Committed
<1>5. ASSUME NEW d, d.profile = p, d.rev = r, Due(n, d) PROVE Due(n, d)'
  BY <1>1, <1>2, <1>5 DEF Due
<1>6. ASSUME Pending(n) => row[n].reset = Current(row[n].profile), Pending(n)'
      PROVE  row'[n].reset = Current(row[n].profile)'
  BY <1>2, <1>3, <1>6 DEF Current
<1> QED BY <1>4, <1>5, <1>6

\* A published revision of a profile some node is assigned to.
LEMMA AssignedIsLive ==
  ASSUME LoopInv, NEW n \in Nodes, Exists(n), row[n].profile \in Profiles
  PROVE  Live(row[n].profile) /\ row[n].profile \notin deleted
<1>1. row[n].profile # NoProfile BY PanelStoreConstants
<1>2. Live(row[n].profile)
  BY <1>1 DEF LoopInv, RevisionInv, DesiredExists, HasProfileRevision
<1> QED BY <1>2 DEF Live, LoopInv, RevisionInv, DeletedIsEmpty

\* A publication with a reset marks a revision no agent can have committed.
LEMMA CommittedAdmin ==
  ASSUME LoopInv, Admin, NEW n \in Nodes, NEW p, NEW r \in Nat,
         Pending(n) => row[n].reset = Current(row[n].profile)
  PROVE  /\ Committed(n, p, r) => Committed(n, p, r)'
         /\ \A d : d.profile = p /\ d.rev = r /\ Due(n, d) => Due(n, d)'
         /\ Pending(n)' => row'[n].reset = Current(row[n].profile)'
<1>1. /\ LoopInv' /\ served' = served /\ deleted \subseteq deleted'
      /\ AdminRow(n) /\ \A q \in Profiles : RevisionStep(q)
  BY AdminEffect
<1>2. /\ Extant(p, r) => Extant(p, r)'
      /\ Was(n, p, r) => Was(n, p, r)'
  BY <1>1, ExtantStays DEF Was
<1>3. CASE ~Pending(n)'
  <2>1. Committed(n, p, r) => Committed(n, p, r)' BY <1>2, <1>3 DEF Committed
  <2>2. \A d : d.profile = p /\ d.rev = r /\ Due(n, d) => Due(n, d)'
    BY <1>2, <1>3 DEF Due
  <2> QED BY <1>3, <2>1, <2>2
<1>4. CASE Pending(n)'
  <2>1. /\ Exists(n) /\ Marked(n) /\ row'[n].reset > 0
        /\ row'[n].profile \in Profiles /\ NoProfile \notin Profiles
    BY <1>1, <1>4, AdminKeepsRow, PanelStoreConstants DEF Pending
  <2>2. row'[n].profile = row[n].profile BY <2>1 DEF Marked
  <2>3. CASE /\ row'[n].reset = row[n].reset
             /\ Current(row[n].profile)' = Current(row[n].profile)
    <3>1. Pending(n) BY <2>1, <2>2, <2>3 DEF Pending
    <3>2. Committed(n, p, r) => Committed(n, p, r)'
      BY <1>1, <1>2, <2>2, <2>3, <3>1 DEF Committed
    <3>3. \A d : d.profile = p /\ d.rev = r /\ Due(n, d) => Due(n, d)'
      BY <1>2, <2>2, <2>3, <3>1 DEF Due
    <3> QED BY <2>3, <3>1, <3>2, <3>3
  <2>4. CASE /\ row'[n].reset = Current(row[n].profile) + 1
             /\ Current(row[n].profile)' = Current(row[n].profile) + 1
    <3>1. Live(row[n].profile) /\ row[n].profile \notin deleted
      BY <2>1, <2>2, AssignedIsLive
    <3>2. Current(row[n].profile) \in Nat
      BY <2>1, <2>2, CurrentOK DEF LoopInv, TypeOK
    <3>3. Extant(p, r) /\ p = row[n].profile => r # row'[n].reset
      BY <2>1, <2>4, <3>1, <3>2 DEF Extant
    <3>4. Committed(n, p, r) => Committed(n, p, r)'
      BY <1>2, <2>2, <3>3 DEF Committed
    <3>5. \A d : d.profile = p /\ d.rev = r /\ Due(n, d) => Due(n, d)'
      BY <1>2, <2>2, <3>3 DEF Due
    <3> QED BY <2>4, <3>4, <3>5
  <2> QED BY <2>1, <2>2, <2>3, <2>4 DEF Marked
<1> QED BY <1>3, <1>4

\* What is committed on a node after a step, by name: c is what its agent says,
\* k what its state file holds, d what is being handled.
LEMMA ResetNext ==
  ASSUME NEW n \in Nodes, NEW c, NEW k, NEW d,
         agent'[n].applied = c, disk'[n].conf = k, agent'[n].d = d,
         Committed(n, c[1], c[2])', Committed(n, k[1], k[2])',
         \A hb \in late'[n] : \E p, r : p = hb.profile /\ r = hb.rev /\ Committed(n, p, r)',
         Handling(n)' => Due(n, d)',
         Pending(n)' => row'[n].reset = Current(row[n].profile)'
  PROVE  ResetInv(n)'
<1>1. Committed(n, agent[n].applied[1], agent[n].applied[2])'
  BY DEF Committed, Extant, Was
<1>2. Committed(n, disk[n].conf[1], disk[n].conf[2])' BY DEF Committed, Extant, Was
<1>3. (\A hb \in late[n] : Committed(n, hb.profile, hb.rev))'
  BY DEF Committed, Extant, Was
<1>4. (Handling(n) => Due(n, agent[n].d))' BY DEF Due, Extant
<1> QED BY <1>1, <1>2, <1>3, <1>4 DEF ResetInv

\* A step of the node itself says and commits no pending reset it did not do.
LEMMA ResetStep ==
  ASSUME LoopInv, NEW n \in Nodes, Effect(n), RowStep(n), World, ResetInv(n)
  PROVE  ResetInv(n)'
<1> DEFINE a == agent[n]
           b == agent'[n]
<1>0. PICK c, e, k, y, d, f :
        /\ c = a.applied /\ e = b.applied /\ k = disk[n].conf /\ y = disk'[n].conf
        /\ d = a.d /\ f = b.d
  OBVIOUS
<1>1. /\ TypeOK /\ StoreTypeOK /\ Nothing[2] = 0
      /\ Target(d)[1] = d.profile /\ Target(d)[2] = d.rev
      /\ [k EXCEPT ![2] = 0][2] = 0
  <2>1. TypeOK BY DEF LoopInv
  <2>2. StoreTypeOK /\ k \in Confs /\ d \in Desired BY <1>0, <2>1, NodeOK
  <2> QED BY <2>1, <2>2, NothingOK, TargetOK, ConfOK
<1>2. /\ Committed(n, c[1], c[2]) /\ Committed(n, k[1], k[2])
      /\ \A hb \in late[n] : Committed(n, hb.profile, hb.rev)
      /\ Handling(n) => Due(n, d)
      /\ Pending(n) => row[n].reset = Current(row[n].profile)
  BY <1>0 DEF ResetInv
<1>3. /\ Committed(n, c[1], c[2])' /\ Committed(n, k[1], k[2])'
      /\ Pending(n)' => row'[n].reset = Current(row[n].profile)'
  BY <1>1, <1>2, CommittedStays
<1>4. \A p, r : Committed(n, p, r) => Committed(n, p, r)'
  BY <1>1, CommittedStays
<1>5. Handling(n) => Due(n, d)' BY <1>1, <1>2, CommittedStays
\* A step that commits nothing new and reports nothing but what was committed.
<1>6. ASSUME e \in {c, k} \/ e[2] = 0, y \in {k} \/ y[2] = 0,
             \A hb \in late'[n] : \/ hb \in late[n]
                                  \/ hb.profile = c[1] /\ hb.rev = c[2]
                                  \/ hb.rev = 0,
             Handling(n)' => Handling(n) /\ f = d
      PROVE  ResetInv(n)'
  <2>1. Committed(n, e[1], e[2])' BY <1>3, <1>6, NotCommitted
  <2>2. Committed(n, y[1], y[2])' BY <1>3, <1>6, NotCommitted
  <2>3. ASSUME NEW hb \in late'[n]
        PROVE  \E p, r : p = hb.profile /\ r = hb.rev /\ Committed(n, p, r)'
    <3>1. PICK p, r : p = hb.profile /\ r = hb.rev OBVIOUS
    <3>2. CASE hb \in late[n]
      <4>1. Committed(n, p, r) BY <1>2, <3>1, <3>2
      <4> QED BY <1>4, <3>1, <4>1
    <3>3. CASE p = c[1] /\ r = c[2]
      <4>1. Committed(n, p, r) BY <1>2, <3>3
      <4> QED BY <1>4, <3>1, <4>1
    <3>4. CASE r = 0 BY <3>1, <3>4, NotCommitted
    <3> QED BY <1>6, <3>1, <3>2, <3>3, <3>4
  <2> QED BY <1>0, <1>3, <1>5, <1>6, <2>1, <2>2, <2>3, ResetNext
<1>7. ASSUME NEW conf, NEW ack, NEW gone, Says(n, conf, ack, gone),
             conf = c \/ conf[2] = 0
      PROVE  \A hb \in late'[n] : \/ hb \in late[n]
                                  \/ hb.profile = c[1] /\ hb.rev = c[2]
                                  \/ hb.rev = 0
  BY <1>7 DEF Says, Carries
<1>8. CASE Polls(n)
  <2>1. /\ a.pc = "idle" /\ f = DesiredState(n) /\ e = c /\ y = k
        /\ late'[n] = late[n] /\ row'[n] = row[n]
    BY <1>0, <1>8 DEF Polls, Turns, Quiet, Rests, Kept
  <2>2. /\ f.profile = row[n].profile /\ f.rev = row[n].desired
        /\ f.reset = (row[n].reset = row[n].desired)
        /\ f.profile \in Profiles /\ f.rev <= Current(f.profile) /\ Live(f.profile)
    BY <1>1, <1>8, <2>1, DesiredOK DEF Polls
  <2>3. Due(n, f) BY <2>2 DEF Due, Extant
  <2>4. Due(n, f)' BY <1>1, <2>3, CommittedStays
  <2>5. ASSUME NEW hb \in late'[n]
        PROVE  \E p, r : p = hb.profile /\ r = hb.rev /\ Committed(n, p, r)'
    <3>1. PICK p, r : p = hb.profile /\ r = hb.rev OBVIOUS
    <3>2. Committed(n, p, r) BY <1>2, <2>1, <3>1
    <3> QED BY <1>4, <3>1, <3>2
  <2> QED BY <1>0, <1>3, <2>1, <2>4, <2>5, ResetNext
<1>9. CASE Talks(n)
  <2>1. PICK pc \in Points :
          /\ b.pc = pc /\ f = d /\ e = c
          /\ \/ pc = a.pc
             \/ a.pc = "report" /\ pc \in {"idle", "exited"}
             \/ a.pc = "got" /\ pc = "install"
    BY <1>0, <1>9 DEF Talks, Moves, Turns, Handles
  <2>2. y = k BY <1>0, <1>9 DEF Talks, Rests, Kept
  <2>3. Says(n, c, a.ack, a.decommissioned) BY <1>0, <1>9 DEF Talks, SaysSo
  <2>4. Handling(n)' => Handling(n) BY <2>1 DEF Handling
  <2> QED BY <1>6, <1>7, <2>1, <2>2, <2>3, <2>4
<1>10. CASE Installs(n) \/ TakesRestart(n)
  <2>1. b.pc \in {"idle", "report"} /\ e = c /\ y = k
    BY <1>0, <1>10 DEF Installs, TakesRestart, Gives, Ends, Turns, Rests, Kept
  <2>2. \E ack, gone : Says(n, c, ack, gone)
    BY <1>0, <1>10 DEF Installs, TakesRestart, SaysSo
  <2> QED BY <1>6, <1>7, <2>1, <2>2 DEF Handling
<1>11. CASE \/ GivesUp(n) \/ Refreshes(n) \/ Cleans(n) \/ FailsToClean(n)
            \/ FailsToApply(n)
  <2>1. /\ b.pc \in {"idle", "report"} /\ e = c /\ late'[n] = late[n]
        /\ y \in {k, Nothing}
    BY <1>0, <1>11 DEF GivesUp, Refreshes, Cleans, FailsToClean, FailsToApply,
                       Gives, Ends, Turns, Quiet, Rests, Kept, Cleaned, PartlyCleaned,
                       PartlyApplied
  <2> QED BY <1>1, <1>6, <2>1 DEF Handling
<1>12. CASE StartsApply(n)
  <2>1. a.pc = "got" /\ f = d /\ e = c /\ y = k
    BY <1>0, <1>12 DEF StartsApply, Turns, Handles, Rests, Kept
  <2>2. Says(n, c, a.ack, a.decommissioned) BY <1>0, <1>12 DEF StartsApply, SaysSo
  <2>3. Handling(n) BY <2>1 DEF Handling
  <2> QED BY <1>6, <1>7, <2>1, <2>2, <2>3
\* What Reconcile commits, it commits with the reset that was asked for.
<1>13. ASSUME Applied(n), a.pc = "apply" PROVE Committed(n, d.profile, d.rev)'
  <2>1. Handling(n) /\ Due(n, d) BY <1>2, <1>13 DEF Handling
  <2>2. /\ Was(n, d.profile, d.rev)'
        /\ d.reset => <<n, d.profile, d.rev, TRUE>> \in served'
    <3>1. <<n, d.profile, d.rev, d.reset>> \in served' BY <1>0, <1>13 DEF Applied
    <3>2. d.reset \in BOOLEAN BY <1>0, <1>1, NodeOK DEF Desired
    <3> QED BY <3>1, <3>2 DEF Was
  <2>3. Due(n, d)' BY <1>5, <2>1
  <2> QED BY <2>2, <2>3 DEF Due, Committed
<1>14. ASSUME Applied(n), a.pc = "apply", e \in {Target(d), Nothing},
              b.pc \in {"report", "down"}, late'[n] = late[n]
       PROVE  ResetInv(n)'
  <2>1. PICK p, r : p = d.profile /\ r = d.rev OBVIOUS
  <2>2. Committed(n, p, r)' BY <1>13, <1>14, <2>1 DEF Committed, Extant, Was
  <2>3. y = Target(d) BY <1>0, <1>14 DEF Applied
  <2>4. y[1] = p /\ y[2] = r BY <1>1, <2>1, <2>3
  <2>5. Committed(n, y[1], y[2])' BY <2>2, <2>4
  <2>6. Committed(n, e[1], e[2])' BY <1>1, <1>14, <2>3, <2>5, NotCommitted
  <2>7. ASSUME NEW hb \in late'[n]
        PROVE  \E q, s : q = hb.profile /\ s = hb.rev /\ Committed(n, q, s)'
    <3>1. PICK q, s : q = hb.profile /\ s = hb.rev OBVIOUS
    <3>2. Committed(n, q, s) BY <1>2, <1>14, <3>1
    <3> QED BY <1>4, <3>1, <3>2
  <2>8. ~Handling(n)' BY <1>14 DEF Handling
  <2> QED BY <1>0, <1>3, <2>5, <2>6, <2>7, <2>8, ResetNext
<1>15. CASE Applies(n)
  BY <1>0, <1>14, <1>15 DEF Applies, Ends, Turns, Quiet
<1>16. CASE Falls(n)
  <2>1. b.pc = "down" /\ e = Nothing /\ late'[n] = late[n]
    BY <1>0, <1>16 DEF Falls, Starts, Quiet
  <2>2. CASE a.pc = "apply" /\ Applied(n) BY <1>14, <2>1, <2>2
  <2>3. CASE y = k BY <1>1, <1>6, <2>1, <2>3 DEF Handling
  <2>4. Rests(n) \/ PartlyApplied(n) \/ PartlyCleaned(n) => y = k
    BY <1>0 DEF Rests, PartlyApplied, PartlyCleaned, Kept
  <2> QED BY <1>16, <2>2, <2>3, <2>4 DEF Falls
<1>17. CASE Reboots(n) \/ HearsLate(n)
  <2>1. b = a /\ late'[n] \subseteq late[n] /\ y = k
    BY <1>0, <1>17 DEF Reboots, HearsLate, Quiet, Rests, Kept
  <2>2. Handling(n)' => Handling(n) BY <2>1 DEF Handling
  <2> QED BY <1>0, <1>6, <2>1, <2>2
<1>18. CASE Restores(n)
  <2>1. /\ b.pc = "idle" /\ late'[n] = late[n] /\ y = k
        /\ e \in {k, [k EXCEPT ![2] = 0]}
    BY <1>0, <1>18 DEF Restores, Starts, Quiet, Kept
  <2> QED BY <1>1, <1>6, <2>1 DEF Handling
<1>19. CASE Uninstalls(n) \/ UninstallerCleans(n)
  <2>1. /\ b.pc \in {"clean", "cleanlocal", "confirm", "exited", "down"}
        /\ e = c /\ late'[n] = late[n] /\ y \in {k, Nothing}
    BY <1>0, <1>19 DEF Uninstalls, UninstallerCleans, Moves, Turns, Quiet, Rests, Kept,
                       Cleaned, PartlyCleaned
  <2> QED BY <1>1, <1>6, <2>1 DEF Handling
<1>20. CASE Confirms(n)
  <2>1. b.pc = "exited" /\ e = Nothing /\ y = k /\ Says(n, Nothing, 0, TRUE)
    BY <1>0, <1>20 DEF Confirms, Starts, Rests, Kept
  <2> QED BY <1>1, <1>6, <1>7, <2>1 DEF Handling
<1> QED
  BY <1>8, <1>9, <1>10, <1>11, <1>12, <1>15, <1>16, <1>17, <1>18, <1>19, <1>20 DEF Effect

\* What was committed with which resets, in every reachable state.
THEOREM ResetSafety == Spec => [](\A n \in Nodes : ResetInv(n))
<1>1. Init => \A n \in Nodes : ResetInv(n)
  <2> SUFFICES ASSUME Init, NEW n \in Nodes PROVE ResetInv(n)
    OBVIOUS
  <2>1. /\ row[n].reset = 0 /\ agent[n].applied = Nothing /\ disk[n].conf = Nothing
        /\ late[n] = {} /\ ~Handling(n)
    BY InitLoop DEF Handling
  <2>2. Committed(n, Nothing[1], Nothing[2]) BY NothingOK, NotCommitted
  <2> QED BY <2>1, <2>2 DEF ResetInv, Pending
<1>2. LoopInv /\ (\A n \in Nodes : ResetInv(n)) /\ [Next]_vars
        => (\A n \in Nodes : ResetInv(n))'
  <2> SUFFICES ASSUME LoopInv, \A n \in Nodes : ResetInv(n), [Next]_vars
               PROVE  \A n \in Nodes : ResetInv(n)'
    OBVIOUS
  <2>1. ASSUME NEW m \in Nodes, World, Same(m) PROVE ResetInv(m)'
    <3>1. \A p, r : Was(m, p, r) => Was(m, p, r)' BY <2>1 DEF World, Was
    <3>2. \A p, r : Committed(m, p, r) => Committed(m, p, r)'
      BY <2>1, <3>1 DEF World, Same, Committed, Pending, Extant, Live, Current, Exists
    <3>3. Handling(m)' => Due(m, agent[m].d)'
      BY <2>1 DEF World, Same, ResetInv, Due, Pending, Extant, Live, Current, Handling,
                  Exists
    <3>4. Pending(m)' => row'[m].reset = Current(row[m].profile)'
      BY <2>1 DEF World, Same, ResetInv, Pending, Current, Exists
    <3>5. PICK c, k, d : c = agent[m].applied /\ k = disk[m].conf /\ d = agent[m].d
      OBVIOUS
    <3>6. Committed(m, c[1], c[2])' /\ Committed(m, k[1], k[2])'
      BY <3>2, <3>5 DEF ResetInv
    <3>7. ASSUME NEW hb \in late'[m]
          PROVE  \E p, r : p = hb.profile /\ r = hb.rev /\ Committed(m, p, r)'
      BY <2>1, <3>2, <3>7 DEF Same, ResetInv
    <3>8. Handling(m)' => Due(m, d)' BY <2>1, <3>3, <3>5 DEF Same, Due, Extant
    <3> QED BY <2>1, <3>4, <3>5, <3>6, <3>7, <3>8, ResetNext DEF Same
  <2>2. ASSUME Admin, NEW m \in Nodes PROVE ResetInv(m)'
    <3>1. UNCHANGED <<agent, disk, late>> BY <2>2, AdminEffect
    <3>2. /\ agent[m].applied[2] \in Nat /\ disk[m].conf[2] \in Nat
          /\ agent[m].d.rev \in Nat /\ \A hb \in late[m] : hb.rev \in Nat
      <4>1. /\ agent[m] \in Agent /\ agent[m].d \in Desired /\ disk[m].conf \in Confs
            /\ late[m] \subseteq Report
        BY NodeOK DEF LoopInv, TypeOK
      <4> QED BY <4>1, ConfOK DEF Agent, Desired, Report
    <3>3. /\ \A p, r : r \in Nat /\ Committed(m, p, r) => Committed(m, p, r)'
          /\ \A d : d.rev \in Nat /\ Due(m, d) => Due(m, d)'
          /\ Pending(m)' => row'[m].reset = Current(row[m].profile)'
      <4>1. Pending(m) => row[m].reset = Current(row[m].profile) BY DEF ResetInv
      <4>2. ASSUME NEW p, NEW r, r \in Nat, Committed(m, p, r) PROVE Committed(m, p, r)'
        BY <2>2, <4>1, <4>2, CommittedAdmin
      <4>3. ASSUME NEW d, d.rev \in Nat, Due(m, d) PROVE Due(m, d)'
        <5>1. PICK p, r : p = d.profile /\ r = d.rev OBVIOUS
        <5> QED BY <2>2, <4>1, <4>3, <5>1, CommittedAdmin
      <4>4. 0 \in Nat OBVIOUS
      <4>5. Pending(m)' => row'[m].reset = Current(row[m].profile)'
        BY <2>2, <4>1, <4>4, CommittedAdmin
      <4> QED BY <4>2, <4>3, <4>5
    <3>4. PICK c, k, d : c = agent[m].applied /\ k = disk[m].conf /\ d = agent[m].d
      OBVIOUS
    <3>5. Committed(m, c[1], c[2])' /\ Committed(m, k[1], k[2])'
      BY <3>2, <3>3, <3>4 DEF ResetInv
    <3>6. Handling(m)' => Due(m, d)'
      <4>1. Handling(m)' => Handling(m) BY <3>1 DEF Handling
      <4> QED BY <3>2, <3>3, <3>4, <4>1 DEF ResetInv
    <3>7. ASSUME NEW hb \in late'[m]
          PROVE  \E p, r : p = hb.profile /\ r = hb.rev /\ Committed(m, p, r)'
      <4>1. PICK p, r : p = hb.profile /\ r = hb.rev OBVIOUS
      <4>2. Committed(m, p, r) /\ r \in Nat BY <3>1, <3>2, <4>1 DEF ResetInv
      <4> QED BY <3>3, <4>1, <4>2
    <3> QED BY <3>1, <3>3, <3>4, <3>5, <3>6, <3>7, ResetNext
  <2>3. ASSUME NEW n \in Nodes, Effect(n), RowStep(n), World,
               \A m \in Nodes \ {n} : Same(m)
        PROVE  \A m \in Nodes : ResetInv(m)'
    BY <2>1, <2>3, ResetStep
  <2> QED BY <2>1, <2>2, <2>3, LoopStep
<1> QED BY <1>1, <1>2, LoopSafety, PTL DEF Spec

\* A report that clears a pending reset and is of the node's own profile is of
\* the marked revision.
LEMMA ClearedBy ==
  ASSUME LoopInv, NEW n \in Nodes, ResetInv(n), Exists(n), row[n].reset > 0,
         NEW p, NEW r \in Nat, Committed(n, p, r), r >= row[n].reset, p = row[n].profile
  PROVE  <<n, row[n].profile, row[n].reset, TRUE>> \in served
<1>1. row[n].reset \in Nat BY NodeOK DEF LoopInv, TypeOK, Row
<1>2. r > 0 BY <1>1
<1>3. p \in Profiles BY <1>2 DEF Committed, Extant
<1>4. p \notin deleted BY <1>3, AssignedIsLive
<1>5. r <= Current(p) BY <1>2, <1>4 DEF Committed, Extant
<1>6. Pending(n) BY <1>3 DEF Pending
<1>7. r = row[n].reset BY <1>1, <1>5, <1>6 DEF ResetInv
<1> QED BY <1>6, <1>7 DEF Committed

\* A step of the node that clears its mark does so by such a report.
LEMMA ClearedStep ==
  ASSUME LoopInv, NEW n \in Nodes, Effect(n), ResetInv(n), Exists(n),
         row'[n].status # "removed", row[n].reset > 0, row'[n].reset = 0,
         row'[n].appliedProfile = row[n].profile
  PROVE  <<n, row[n].profile, row[n].reset, TRUE>> \in served
<1> DEFINE a == agent[n]
<1>1. row'[n] # row[n] /\ ~MarkedDeleting(n) BY DEF MarkedDeleting
<1>2. /\ a.applied \in Confs /\ a.applied[2] \in Nat /\ late[n] \subseteq Report
      /\ row[n].reset \in Nat /\ Nothing[2] = 0
  <2>1. a \in Agent /\ row[n] \in Row /\ late[n] \subseteq Report
    BY NodeOK DEF LoopInv, TypeOK
  <2> QED BY <2>1, ConfOK, NothingOK DEF Agent, Row
<1>3. ASSUME NEW hb, Hears(n, hb)
      PROVE  hb.rev >= row[n].reset /\ hb.profile = row[n].profile
  <2>1. Blank("removed").status = "removed" BY DEF Blank
  <2>2. Heard(n, hb) BY <1>3, <2>1 DEF Hears, Forgotten
  <2> QED BY <1>2, <2>2 DEF Heard, ResetAfter
<1>4. ASSUME NEW c, NEW ack, NEW gone, Says(n, c, ack, gone)
      PROVE  c[2] >= row[n].reset /\ c[1] = row[n].profile
  BY <1>1, <1>3, <1>4 DEF Says, Carries
<1>5. ASSUME NEW ack, NEW gone, Says(n, a.applied, ack, gone)
      PROVE  <<n, row[n].profile, row[n].reset, TRUE>> \in served
  <2>1. Committed(n, a.applied[1], a.applied[2]) BY DEF ResetInv
  <2>2. a.applied[2] >= row[n].reset /\ a.applied[1] = row[n].profile BY <1>4, <1>5
  <2> QED BY <1>2, <2>1, <2>2, ClearedBy
<1>6. CASE SaysSo(n) BY <1>5, <1>6 DEF SaysSo
<1>7. CASE TakesRestart(n) BY <1>5, <1>7 DEF TakesRestart
<1>8. CASE HearsLate(n)
  <2>1. PICK hb \in late[n] : Hears(n, hb) BY <1>1, <1>8 DEF HearsLate
  <2>2. hb.rev >= row[n].reset /\ hb.profile = row[n].profile BY <1>3, <2>1
  <2>3. Committed(n, hb.profile, hb.rev) BY DEF ResetInv
  <2>4. hb.rev \in Nat BY <1>2 DEF Report
  <2> QED BY <2>2, <2>3, <2>4, ClearedBy
<1>9. CASE Confirms(n)
  <2>1. Nothing[2] >= row[n].reset BY <1>4, <1>9 DEF Confirms
  <2> QED BY <1>2, <2>1
<1>10. CASE Uninstalls(n) BY <1>1, <1>10 DEF Uninstalls
<1>11. CASE Quiet(n) BY <1>1, <1>11 DEF Quiet
<1>12. ASSUME Talks(n) \/ Installs(n) \/ StartsApply(n) PROVE SaysSo(n)
  BY <1>12 DEF Talks, Installs, StartsApply
<1>13. ASSUME \/ Polls(n) \/ GivesUp(n) \/ Refreshes(n) \/ Cleans(n) \/ FailsToClean(n)
              \/ Applies(n) \/ FailsToApply(n) \/ Falls(n) \/ Reboots(n) \/ Restores(n)
              \/ UninstallerCleans(n)
       PROVE  Quiet(n)
  BY <1>13 DEF Polls, GivesUp, Refreshes, Cleans, FailsToClean, Applies, FailsToApply,
               Falls, Reboots, Restores, UninstallerCleans
<1> QED BY <1>6, <1>7, <1>8, <1>9, <1>10, <1>11, <1>12, <1>13 DEF Effect

\* The mark of a connection reset is cleared by a report of the node's own
\* profile only after its agent committed that revision and reset the
\* connections, whichever reports were lost or late and wherever it crashed.
THEOREM ResetsArePerformed == Spec => ResetPerformed
<1> DEFINE Promise == \A n \in Nodes :
             /\ Exists(n) /\ row'[n].status # "removed" /\ count'.ops = count.ops
             /\ row[n].reset > 0 /\ row'[n].reset = 0
             => \/ <<n, row[n].profile, row[n].reset, TRUE>> \in served
                \/ row'[n].appliedProfile # row[n].profile
<1>1. LoopInv /\ (\A n \in Nodes : ResetInv(n)) /\ [Next]_vars => [Promise]_vars
  <2> SUFFICES ASSUME LoopInv, \A n \in Nodes : ResetInv(n), [Next]_vars, NEW n \in Nodes,
                      Exists(n), row'[n].status # "removed", count'.ops = count.ops,
                      row[n].reset > 0, row'[n].reset = 0,
                      row'[n].appliedProfile = row[n].profile
               PROVE  <<n, row[n].profile, row[n].reset, TRUE>> \in served
    OBVIOUS
  <2>1. ~Same(n) BY DEF Same
  <2>2. ~Admin
    <3>1. count.ops \in Nat BY DEF LoopInv, TypeOK
    <3> QED BY <3>1, AdminEffect
  <2>3. Effect(n) BY <2>1, <2>2, LoopStep
  <2> QED BY <2>3, ClearedStep
<1> QED BY <1>1, LoopSafety, ResetSafety, PTL DEF Spec, ResetPerformed

-----------------------------------------------------------------------------
(* What the panel shows as applied was served                              *)

\* ShownWasServed rests on ResetInv, which says of everything that can become a
\* report that it was committed, and on what the row shows having been so too.
ShownInv(n) == Was(n, row[n].appliedProfile, row[n].applied)

\* What the row of m shows is left as it is, or nothing.
ShownKept(m) ==
  \/ row'[m].applied = 0
  \/ /\ row'[m].applied = row[m].applied
     /\ row'[m].appliedProfile = row[m].appliedProfile

\* A statement that writes one row keeps what every row shows when it keeps it
\* in that one.
LEMMA UpdateShows ==
  ASSUME StoreTypeOK, NEW n, NEW r, Update(n, r),
         n \in Nodes => \/ r.applied = 0
                        \/ /\ r.applied = row[n].applied
                           /\ r.appliedProfile = row[n].appliedProfile
  PROVE  \A m \in Nodes : ShownKept(m)
BY DEF Update, StoreTypeOK, ShownKept

\* No statement of an administrator makes a row show another revision.
LEMMA AdminShows ==
  ASSUME StoreTypeOK, AllEnrolled, AdminNext
  PROVE  \A m \in Nodes : ShownKept(m)
<1> DEFINE AllKept == \A m \in Nodes : ShownKept(m)
           same(n, r) == r.applied = row[n].applied /\ r.appliedProfile = row[n].appliedProfile
<1>0. \A n \in Nodes : row[n] \in Row BY DEF StoreTypeOK
<1>1. ASSUME UNCHANGED row PROVE AllKept BY <1>1 DEF ShownKept
<1>2. ASSUME NEW p \in Profiles, NEW need \in Versions, NEW reset \in BOOLEAN,
             PublishRevision(p, need, reset)
      PROVE  AllKept
  <2> DEFINE next(n) == [row[n] EXCEPT !.desired = Current(p) + 1,
                                       !.reset = ResetMark(p, reset)]
  <2>1. \A n \in Nodes : row'[n] = IF n \in Assigned(p) THEN next(n) ELSE row[n]
    BY <1>2 DEF PublishRevision
  <2>2. \A n \in Nodes : same(n, next(n)) BY <1>0 DEF Row
  <2> HIDE DEF next
  <2> QED BY <2>1, <2>2 DEF ShownKept
<1>3. ASSUME NEW p \in Profiles, NEW number \in 1 .. MaxRev, RollbackProfile(p, number)
      PROVE  AllKept
  <2>1. revisions[p][number] \in Versions
    BY <1>3 DEF RollbackProfile, Current, StoreTypeOK
  <2> QED BY <1>2, <1>3, <2>1 DEF RollbackProfile
<1>4. ASSUME NEW h \in Handlers, DeleteProfileDelete(h) PROVE AllKept
  <2> DEFINE next(n) == [row[n] EXCEPT !.profile = NoProfile]
  <2>1. \A n \in Nodes : row'[n] = IF n \in Assigned(req[h].profile) THEN next(n) ELSE row[n]
    BY <1>4 DEF DeleteProfileDelete, Unassign
  <2>2. \A n \in Nodes : same(n, next(n)) BY <1>0 DEF Row
  <2> HIDE DEF next
  <2> QED BY <2>1, <2>2 DEF ShownKept
<1>5. ASSUME NEW h \in Handlers, AssignProfileUpdate(h) PROVE AllKept
  <2> DEFINE n == req[h].node
             r == PointTo(row[n], req[h])
  <2>1. Update(n, r) BY <1>5 DEF AssignProfileUpdate
  <2>2. n \in Nodes => same(n, r) BY <1>0 DEF PointTo, Row
  <2> HIDE DEF n, r
  <2> QED BY <2>1, <2>2, UpdateShows
<1>6. ASSUME NEW n, NEW r, Update(n, r),
             \/ \E s : r = [row[n] EXCEPT !.status = s]
             \/ \E c : r = [row[n] EXCEPT !.cred = c]
             \/ \E x : r = [row[n] EXCEPT !.nonce = x]
             \/ \E x : r = [row[n] EXCEPT !.probe = x]
             \/ \E x : r = [row[n] EXCEPT !.ip = x]
             \/ \E x : r = [row[n] EXCEPT !.tuning = x]
             \/ \E x : r = [row[n] EXCEPT !.target = x]
             \/ \E s, a : r = [row[n] EXCEPT !.status = s, !.state = a]
      PROVE  AllKept
  <2>1. n \in Nodes => same(n, r) BY <1>0, <1>6 DEF Row
  <2> QED BY <1>6, <2>1, UpdateShows
<1>7. ASSUME NEW h \in Handlers, RotateStatus(h) \/ RevokeStatus(h) PROVE AllKept
  BY <1>6, <1>7 DEF RotateStatus, RevokeStatus
<1>8. ASSUME NEW h \in Handlers, NEW n \in Nodes,
             RotateCredential(h, n) \/ RevokeCredential(h, n)
      PROVE  AllKept
  BY <1>6, <1>8 DEF RotateCredential, RevokeCredential
<1>9. ASSUME NEW n \in Nodes,
             \/ RequestNodeRestart(n) \/ RequestHealthProbe(n) \/ RequestNodeUpdate(n)
             \/ \E ip \in IPs : UpdateNode(n, ip)
             \/ \E t \in Tunings : UpdateTCPTuning(n, t)
      PROVE  AllKept
  BY <1>6, <1>9 DEF RequestNodeRestart, RequestHealthProbe, RequestNodeUpdate, UpdateNode,
                    UpdateTCPTuning
<1>10. ASSUME NEW n \in Nodes, DeleteNode(n) \/ \E e \in BOOLEAN : SetNodeEnabled(n, e)
       PROVE  AllKept
  BY <1>6, <1>10 DEF DeleteNode, MarkDeleting, SetNodeEnabled
<1>11. ASSUME NEW n \in Nodes, ForceDeleteNode(n) PROVE AllKept
  <2>1. Update(n, Blank("removed")) /\ Blank("removed").applied = 0
    BY <1>11 DEF ForceDeleteNode, Blank
  <2> QED BY <2>1, UpdateShows
<1>12. ASSUME NEW h \in Handlers, NEW n \in Nodes, NEW p \in Profiles,
              \/ CreateNodeRead(h, n, p) \/ AssignProfileRead(h, n, p)
              \/ DeleteProfileCount(h, p) \/ AssignProfileGate(h) \/ Abandon(h)
       PROVE  AllKept
  <2>1. ~CreateNodeRead(h, n, p) BY DEF CreateNodeRead, AllEnrolled
  <2> QED BY <1>1, <1>12, <2>1 DEF AssignProfileRead, DeleteProfileCount,
                                   AssignProfileGate, Abandon
<1>13. ASSUME NEW h \in Handlers,
              \/ \E p \in Profiles : DeleteProfileCount(h, p)
              \/ AssignProfileGate(h) \/ Abandon(h)
       PROVE  AllKept
  BY <1>1, <1>13 DEF DeleteProfileCount, AssignProfileGate, Abandon
<1>14. ASSUME NEW h \in Handlers, NEW ip \in IPs, CreateNodeInsert(h, ip) PROVE FALSE
  BY <1>14 DEF CreateNodeInsert, AllEnrolled
<1>15. ASSUME NEW p \in Profiles, NEW need \in Versions, CreateProfile(p, need) PROVE AllKept
  BY <1>1, <1>15 DEF CreateProfile
<1> HIDE DEF AllKept
<1>16. AllKept
  BY <1>2, <1>3, <1>4, <1>5, <1>7, <1>8, <1>9, <1>10, <1>11, <1>12, <1>13, <1>14, <1>15
     DEF AdminNext
<1> QED BY <1>16 DEF AllKept

\* A row that a step of its node changes, other than to be decommissioned,
\* changes by a report of what that node committed.
LEMMA HeardWasCommitted ==
  ASSUME LoopInv, NEW n \in Nodes, Effect(n), ResetInv(n)
  PROVE  \/ row'[n] = row[n]
         \/ MarkedDeleting(n)
         \/ \E hb \in Report : Hears(n, hb) /\ Was(n, hb.profile, hb.rev)
<1> DEFINE a == agent[n]
           Goal == \/ row'[n] = row[n]
                   \/ \E hb \in Report : Hears(n, hb) /\ Was(n, hb.profile, hb.rev)
<1>1. Was(n, a.applied[1], a.applied[2]) BY DEF ResetInv, Committed
<1>2. Was(n, Nothing[1], Nothing[2]) BY NothingOK DEF Was
<1>3. late[n] \subseteq Report BY NodeOK DEF LoopInv, TypeOK
<1>4. ASSUME NEW c, NEW ack, NEW gone, Says(n, c, ack, gone), Was(n, c[1], c[2])
      PROVE  Goal
  <2>1. PICK hb \in Report : Carries(hb, c, ack, gone) /\ (row'[n] = row[n] \/ Hears(n, hb))
    BY <1>4 DEF Says
  <2>2. Was(n, hb.profile, hb.rev) BY <1>4, <2>1 DEF Carries, Was
  <2> QED BY <2>1, <2>2
<1>5. CASE \/ Talks(n) \/ Installs(n) \/ StartsApply(n) \/ TakesRestart(n)
  BY <1>1, <1>4, <1>5 DEF Talks, Installs, StartsApply, TakesRestart, SaysSo
<1>6. CASE HearsLate(n)
  <2>1. \A hb \in late[n] : Was(n, hb.profile, hb.rev) BY DEF ResetInv, Committed
  <2> QED BY <1>3, <1>6, <2>1 DEF HearsLate
<1>7. CASE Confirms(n) BY <1>2, <1>4, <1>7 DEF Confirms
<1>8. CASE Uninstalls(n) BY <1>8 DEF Uninstalls
<1>9. CASE \/ Polls(n) \/ GivesUp(n) \/ Refreshes(n) \/ Cleans(n) \/ FailsToClean(n)
           \/ Applies(n) \/ FailsToApply(n) \/ Falls(n) \/ Reboots(n) \/ Restores(n)
           \/ UninstallerCleans(n)
  BY <1>9 DEF Polls, GivesUp, Refreshes, Cleans, FailsToClean, Applies, FailsToApply,
              Falls, Reboots, Restores, UninstallerCleans, Quiet
<1> QED BY <1>5, <1>6, <1>7, <1>8, <1>9 DEF Effect

\* What a row shows after a step, if it shows what it did, or something served.
LEMMA ShownStays ==
  ASSUME NEW m \in Nodes, ShownInv(m), served \subseteq served',
         \/ ShownKept(m)
         \/ Was(m, row'[m].appliedProfile, row'[m].applied)
  PROVE  ShownInv(m)'
<1>1. \A p, r : Was(m, p, r) => Was(m, p, r)' BY DEF Was
<1> QED BY <1>1 DEF ShownInv, ShownKept, Was

\* The panel never shows a revision as applied that no reconciliation of the node
\* completed, whichever reports were lost or late, whatever failed, and
\* wherever the agent crashed, was restored, or was uninstalled.
THEOREM ShownIsServed == Spec => []ShownWasServed
<1> DEFINE Inv == \A n \in Nodes : ShownInv(n)
<1>1. Init => Inv
  <2> SUFFICES ASSUME Init, NEW n \in Nodes PROVE ShownInv(n)
    OBVIOUS
  <2> DEFINE first(p) == [Blank("connecting") EXCEPT !.profile = p, !.desired = 1,
                                                     !.cred = "agent"]
  <2>1. \A p : first(p).applied = 0 BY DEF Blank
  <2>2. row \in [Nodes -> {first(p) : p \in Profiles}] BY DEF Init
  <2> HIDE DEF first
  <2>3. row[n].applied = 0 BY <2>1, <2>2
  <2> QED BY <2>3 DEF ShownInv, Was
<1>2. LoopInv /\ (\A n \in Nodes : ResetInv(n)) /\ Inv /\ [Next]_vars => Inv'
  <2> SUFFICES ASSUME LoopInv, \A n \in Nodes : ResetInv(n), Inv, [Next]_vars
               PROVE  Inv'
    OBVIOUS
  <2>1. ASSUME World, NEW m \in Nodes, Same(m) PROVE ShownInv(m)'
    BY <2>1, ShownStays DEF World, Same, ShownKept
  <2>2. ASSUME Admin PROVE Inv'
    <3>1. /\ StoreTypeOK /\ AllEnrolled /\ AdminNext /\ served' = served
      BY <2>2, AdminEffect DEF LoopInv, TypeOK, Admin
    <3> QED BY <3>1, AdminShows, ShownStays
  <2>3. ASSUME NEW n \in Nodes, Effect(n), World PROVE ShownInv(n)'
    <3>1. CASE row'[n] = row[n] \/ MarkedDeleting(n)
      BY <2>3, <3>1, ShownStays DEF World, ShownKept, MarkedDeleting
    <3>2. CASE \E hb \in Report : Hears(n, hb) /\ Was(n, hb.profile, hb.rev)
      <4>1. PICK hb \in Report : Hears(n, hb) /\ Was(n, hb.profile, hb.rev) BY <3>2
      <4>2. Blank("removed").applied = 0 BY DEF Blank
      <4>3. ShownKept(n) \/ Was(n, row'[n].appliedProfile, row'[n].applied)
        BY <4>1, <4>2 DEF Hears, Heard, Forgotten, ShownKept
      <4> QED BY <2>3, <4>3, ShownStays DEF World
    <3> QED BY <2>3, <3>1, <3>2, HeardWasCommitted
  <2> QED BY <2>1, <2>2, <2>3, LoopStep
<1>3. Inv => ShownWasServed BY DEF ShownInv, Was, ShownWasServed
<1> QED BY <1>1, <1>2, <1>3, LoopSafety, ResetSafety, PTL DEF Spec

=============================================================================
