-------------------------- MODULE Reconciler_proofs --------------------------
(***************************************************************************)
(* The reconciler, command by command, for any configurations, any number  *)
(* of calls, refused commands and crashes.                                 *)
(***************************************************************************)
EXTENDS Reconciler, FiniteSetTheorems, SequenceTheorems, TLAPS

\* What the state file can name.
MConfs == Confs \cup {Nothing}
\* What haproxy.cfg can have been written for.
Files == {NoTCP} \cup {Of(c).tcp : c \in Confs}
\* The items EzhikLB can put on a node.
Items == UNION {Parts(c) : c \in Confs}
\* The services of the panel.
AllServices == UNION {Services(c) : c \in Confs}
\* The items a command can speak of.
Universe == Foreign \cup Items \cup {Proxy(t) : t \in DOMAIN Ports}
              \cup {Jump(k) : k \in {"filter", "nat", "input", "mark"}}
\* The commands of the model.
Commands == [needs: SUBSET Universe, clash: SUBSET Universe, drop: SUBSET Universe,
             add: SUBSET Items, cfg: SUBSET Files, save: SUBSET MConfs]
\* The kinds of phases.
Dos == {"none", "checks", "firewall", "ipvs", "haproxy", "input", "noinput", "rates",
        "unchain", "wipe", "save"}

\* What a phase of each kind has left, and when it is run at all.
PhaseOK(ph) ==
  /\ ph.left \subseteq (IF ph.do = "ipvs" THEN Services(ph.from) \cup Services(ph.to)
                        ELSE IF ph.do = "wipe" THEN Services(ph.from) ELSE {})
  /\ ph.do = "input" => Of(ph.to).hidden
  /\ ph.do = "firewall" => Confs # {}
  /\ ph.do = "wipe" => ph.to = Nothing
\* The phases a call can be made of.
Phases == {ph \in [do: Dos, from: MConfs, to: MConfs, left: SUBSET AllServices] : PhaseOK(ph)}

\* Parts(c) by the component that holds them: IPVS, the managed chains, the limiters, the
\* inbound firewall, HAProxy.
Base(c) == {Svc(s) : s \in Services(c)} \cup Rules("dst", c)
Chains(c) == Rules("filter", c) \cup Rules("nat", c)
Limits(c) == {Rate(s) : s \in Of(c).limited} \cup Marks(c)
               \cup (IF Of(c).limited = {} THEN {} ELSE {Jump("mark")})
Inputs(c) == IF Of(c).hidden THEN {<<"input", Services(c)>>, Jump("input")} ELSE {}
Proxies(c) == IF HasTCP(c) THEN {Proxy(Of(c).tcp)} ELSE {}
\* Items of some kinds.
Tagged(kinds) == {x \in Items : x[1] \in kinds}

\* What a phase adds.
Provides(ph) ==
  CASE ph.do = "firewall" -> Chains(ph.from) \cup Chains(ph.to) \cup {Jump("filter"), Jump("nat")}
    [] ph.do = "ipvs"     -> Base(ph.to)
    [] ph.do = "haproxy"  -> Proxies(ph.to)
    [] ph.do = "input"    -> {<<"input", Services(ph.to)>>, Jump("input")}
    [] ph.do = "rates"    -> Limits(ph.to)
    [] OTHER              -> {}

\* The IPVS items that go when c gives way to d.
Gone(c, d) == {x \in Tagged({"svc", "dst"}) : x[2] \in Services(c) \ Services(d)}
                \cup {x \in Tagged({"dst"}) : /\ x[2] \in Services(c) \cap Services(d)
                                             /\ x[3] \in Dests(c, x[2]) \ Dests(d, x[2])}

\* What a phase may take away.
Erases(ph) ==
  CASE ph.do = "firewall" -> Tagged({"filter", "nat"}) \ Provides(ph)
    [] ph.do = "ipvs"     -> Gone(ph.from, ph.to)
    [] ph.do = "haproxy"  -> Tagged({"proxy"}) \ Provides(ph)
    [] ph.do = "input"    -> Tagged({"input"}) \ Provides(ph)
    [] ph.do = "noinput"  -> Tagged({"input"}) \cup {Jump("input")}
    [] ph.do = "rates"    ->
         IF Of(ph.from).limited \cup Of(ph.to).limited = {} THEN {}
         ELSE (Tagged({"mark"}) \cup {Jump("mark")} \cup {Rate(s) : s \in Of(ph.from).limited})
                \ Limits(ph.to)
    [] ph.do = "unchain"  -> Tagged({"filter", "nat"}) \cup {Jump("filter"), Jump("nat")}
    [] ph.do = "wipe"     -> {x \in Tagged({"svc", "dst"}) : x[2] \in ph.left}
    [] OTHER              -> {}

\* Concatenation, kept opaque so that the provers treat it by its elements.
Cat(A, B) == A \o B
Joins(q, A, B) == q = Cat(A, B)
\* What phases provide and erase, what commands add and drop.
Brought(q) == UNION {Provides(ph) : ph \in Range(q)}
Shed(q) == UNION {Erases(ph) : ph \in Range(q)}
Added(q) == UNION {cmd.add : cmd \in Range(q)}
Dropped(q) == UNION {cmd.drop \ cmd.add : cmd \in Range(q)}

\* The workers of HAProxy.
IsProxy(x) == x[1] = "proxy"

\* A command of a phase changes what the phase may change.
Suits(cmd, ph) ==
  /\ cmd \in Commands
  /\ cmd.add \subseteq Provides(ph)
  /\ ph.do # "wipe" => cmd.drop \ cmd.add \subseteq Erases(ph)
  /\ cmd.cfg # {} => ph.do = "haproxy" /\ cmd.cfg = {Of(ph.to).tcp}
  /\ cmd.save # {} => ph.do = "save" /\ cmd.save = {ph.to}

\* A plan whose commands suit its phase.
Sane(q, ph) == q \in Seq(Commands) /\ \A cmd \in Range(q) : Suits(cmd, ph)

\* A plan that is carried out provides and erases what the phase is for.
Complete(q, ph) ==
  /\ Provides(ph) \subseteq present \cup Added(q)
  /\ Erases(ph) \cap present \subseteq Dropped(q)

\* The shape of a state.
ShapeInv ==
  /\ saved \in MConfs /\ goal \in MConfs /\ cfgFile \in Files
  /\ present \subseteq Foreign \cup Items
  /\ up \in BOOLEAN /\ undoing \in BOOLEAN
  /\ count \in [calls: 0 .. MaxCalls, faults: 0 .. MaxFaults, crashes: 0 .. MaxCrashes]
  /\ plan \in Seq(Commands) /\ todo \in Seq(Phases) /\ phase \in Phases
  /\ call \in [op: {"none", "reconcile", "restore", "decommission"}, old: MConfs,
               new: MConfs, reset: BOOLEAN]
  /\ call.op = "none" <=> ~Busy
  /\ call.op = "reconcile" => call.new \in Confs
  /\ ~Busy => plan = <<>> /\ todo = <<>> /\ ~undoing /\ phase = NoPhase
  /\ \A cmd \in Range(plan) : Suits(cmd, phase)

\* Left for the running phase: what of x its services to come will touch.
Waits(x) == phase.left # {} /\ x[1] \in {"svc", "dst"} /\ x[2] \in phase.left

\* q brings what T has, and what q takes or adds beyond T, it repairs later.
Sound(q, T, b, s) ==
  \A i \in DOMAIN q :
    /\ \A x \in Erases(q[i]) \cap Parts(T) :
         x \in b \/ \E j \in DOMAIN q : j > i /\ x \in Provides(q[j])
    /\ \A x \in Provides(q[i]) \ Parts(T) :
         x \in s \/ \E j \in DOMAIN q : j > i /\ x \in Erases(q[j])

\* Plane!Dirty when the call began.
Dirty == before.dp.orphans \/ before.dp.conf \notin {Nothing, Broken, before.saved}

\* A phase that goes service by service starts with all of them.
Fresh(ph) == ph.do = "ipvs" => ph.left = Services(ph.from) \cup Services(ph.to)

\* A Restore that has nothing to restore.
Nought == call.op = "restore" /\ ~HasServices(call.old)

\* HAProxy was running something else than its file when the call began, still does, and
\* the call is not about to load the file.
Skipped ==
  before.dp.stale /\ Stale /\ call.new # Nothing /\ (phase.do = "haproxy" => plan = <<>>)
Excused(x) == Skipped /\ IsProxy(x)

\* A call goes forward: what it brings and sheds adds up to its configuration.
ForwardInv ==
  Busy /\ ~undoing /\ ~Nought =>
    LET T == call.new IN
    /\ \A ph \in Range(todo) : ph.do = "haproxy" => ph.to = T
    /\ \A ph \in Range(todo) : Fresh(ph)
    /\ Sound(todo, T, {}, {})
    /\ (Erases(phase) \cap Parts(T)) \subseteq Brought(todo)
    /\ (Provides(phase) \ Parts(T)) \subseteq Shed(todo)
    /\ \A x \in Parts(T) :
         \/ x \in present \cup Added(plan) \cup Brought(todo)
         \/ x \in Provides(phase) /\ Waits(x)
         \/ Excused(x)
    /\ ~Dirty => \A x \in present \ (Foreign \cup Parts(T)) :
         \/ x \in Dropped(plan) \cup Shed(todo)
         \/ phase.do = "ipvs" /\ x \in Erases(phase) /\ Waits(x)
         \/ phase.do = "wipe" /\ Waits(x)
         \/ Excused(x)
    /\ phase.do = "wipe" \/ (\E ph \in Range(todo) : ph.do = "wipe") => T = Nothing
    /\ call.op = "decommission" /\ Jump("filter") \in present
         => Jump("filter") \in Dropped(plan) \cup Shed(todo)

\* A Restore of nothing does nothing.
IdleInv ==
  Busy /\ Nought =>
    todo = <<>> /\ plan = <<>> /\ phase.left = {} /\ Observed = before.dp

\* The state file is what it was when the call began until the call has done everything.
SaveInv ==
  Busy =>
    /\ before.saved = call.old
    /\ call.op = "restore" => call.new = call.old
    /\ call.op = "decommission" => call.new = Nothing
    /\ saved # call.old => Finished /\ ~undoing /\ saved = call.new
    /\ \A i \in DOMAIN todo : todo[i].do = "save" =>
         i = Len(todo) /\ ~undoing /\ todo[i].to = call.new
    /\ phase.do = "save" /\ plan # <<>> =>
         todo = <<>> /\ ~undoing /\ Len(plan) = 1 /\ Head(plan).save = {call.new}
    /\ ~undoing => \/ saved = call.new
                   \/ phase.do = "save" /\ plan # <<>>
                   \/ \E i \in DOMAIN todo : todo[i].do = "save"

\* Until the first Reconcile there is nothing of EzhikLB on the node.
GoalInv ==
  /\ call.op = "reconcile" => goal = call.new
  /\ goal = Nothing =>
       /\ saved = Nothing /\ present \subseteq Foreign
       /\ Brought(todo) = {} /\ Provides(phase) = {}

\* What may be left of the plan of a haproxy phase.
Load(t) == [Look EXCEPT !.cfg = {t}]
Stop == Command({}, {}, Kind("proxy"), {})
Reload(t) == Command({}, {}, Kind("proxy"), {Proxy(t)})
Loading(q, t) ==
  \/ q = <<>>
  \/ q = <<Look, Load(t), Reload(t)>>
  \/ q = <<Load(t), Reload(t)>>
  \/ q = <<Reload(t)>> /\ cfgFile = t
  \/ q = <<Stop, Load(t)>>
  \/ q = <<Load(t)>> /\ Kind("proxy") = {}

\* HAProxy ran what haproxy.cfg held when the call began, and does so whenever no phase is
\* on the way from one configuration to the next.
ProxyInv ==
  /\ phase.do = "haproxy" => Loading(plan, Of(phase.to).tcp)
  /\ Busy => before.dp.stale \in BOOLEAN
  /\ Busy /\ ~undoing /\ ~before.dp.stale => ~Stale \/ (phase.do = "haproxy" /\ plan # <<>>)

\* What both configurations have stays, and no phase that is to come takes it away.
GapInv ==
  CleanRun /\ ~call.reset =>
    /\ (Parts(call.old) \cap Parts(call.new)) \subseteq present
    /\ phase.do # "wipe" /\ Erases(phase) \cap Parts(call.new) = {}
    /\ \A ph \in Range(todo) : ph.do # "wipe" /\ Erases(ph) \cap Parts(call.new) = {}


\* The commands of a plan do not undo what a later one needs.
Peace(q) == \A i, j \in DOMAIN q : i < j =>
  q[i].add \cap q[j].clash = {} /\ q[i].drop \cap q[j].needs = {}

\* IPVS and the managed chains, without the jumps to these.
Core == Tagged({"svc", "dst", "filter", "nat"})
\* What they hold before and after a phase of a Reconcile from o to n, if all went well.
Both(o, n) == Chains(o) \cup Chains(n)
From(ph, o, n) ==
  CASE ph.do \in {"none", "checks"} -> Base(o) \cup Chains(o)
    [] ph.do = "firewall" -> IF ph.from = n THEN Base(n) \cup Both(o, n)
                                            ELSE Base(o) \cup Chains(o)
    [] ph.do = "ipvs"     -> Base(ph.from) \cup Both(o, n)
    [] ph.do = "haproxy"  -> Base(n) \cup Both(o, n)
    [] OTHER              -> Base(n) \cup Chains(n)
Into(ph, o, n) ==
  CASE ph.do = "firewall" -> IF ph.from = n THEN Base(n) \cup Chains(n)
                                            ELSE Base(o) \cup Both(o, n)
    [] ph.do = "ipvs"     -> Base(ph.to) \cup Both(o, n)
    [] OTHER              -> From(ph, o, n)

\* Destinations with the rules that let their connections through.
Covered(S, R) == \A x \in S : x[1] = "dst" =>
  <<"filter", x[2], x[3]>> \in R /\ <<"nat", x[2], x[3]>> \in R

\* A phase that does what its milestones say, and never exposes a destination.
Tidy(ph, o, n) ==
  /\ ph \in Phases /\ ph.do # "wipe"
  /\ \A x \in Into(ph, o, n) : x \notin Erases(ph)
  /\ \A x \in Provides(ph) : x \in Core => x \in Into(ph, o, n)
  /\ \A x \in From(ph, o, n) : x \in Into(ph, o, n) \/ x \in Erases(ph)
  /\ \A x \in Into(ph, o, n) : x \in From(ph, o, n) \/ x \in Provides(ph)
  /\ Covered(From(ph, o, n) \cup Into(ph, o, n), From(ph, o, n) \cap Into(ph, o, n))

\* Phases of which each begins where the one before ends.
Route(q, o, n, a, b) ==
  /\ q \in Seq(Phases)
  /\ \A ph \in Range(q) : Tidy(ph, o, n) /\ Fresh(ph)
  /\ q = <<>> => a = b
  /\ q # <<>> => From(q[1], o, n) = a /\ Into(q[Len(q)], o, n) = b
  /\ \A i \in DOMAIN q : i + 1 \in DOMAIN q => From(q[i + 1], o, n) = Into(q[i], o, n)

\* Where IPVS and chains are on the way of a Reconcile on a clean node.
StepInv ==
  CleanRun =>
    LET o == call.old
        n == call.new
        from == From(phase, o, n)
        into == Into(phase, o, n)
    IN
    /\ Tidy(phase, o, n) /\ Route(todo, o, n, into, Base(n) \cup Chains(n))
    /\ \A x \in from \cap into : x \in present
    /\ \A x \in present \cap Core : x \in from \cup into
    /\ \A x \in into : x \in present \/ x \in Added(plan) \/ Waits(x)
    /\ \A x \in present \cap Core : x \in into \/ x \in Dropped(plan) \/ Waits(x)
    /\ \A x \in from \cup into : Waits(x) => (x \in present <=> x \in from)
    /\ \A cmd \in Range(plan) : \A x \in cmd.add \cup cmd.drop : ~Waits(x)

\* The commands of a Reconcile on a clean node are accepted, in their order.
FitInv ==
  CleanRun =>
    /\ \A i \in DOMAIN todo : todo[i].do = "checks" =>
         i = 1 /\ plan = <<>> /\ phase.left = {} /\ present \subseteq Foreign \cup Parts(call.old)
    /\ \A cmd \in Range(plan) : Accepted(cmd)
    /\ Peace(plan)

\* A command that nothing on the node makes fail.
Mild(cmd) == cmd.needs = {} /\ cmd.clash = {}
\* A call that checks the ports before anything else, or not at all.
First(q) == q \in Seq(Phases) /\ \A i \in DOMAIN q : q[i].do = "checks" => i = 1
-----------------------------------------------------------------------------
(* Sequences                                                               *)

\* A sequence is a function on 1 .. n.
LEMMA FunctionSeq ==
  ASSUME NEW S, NEW n \in Nat, NEW f \in [1 .. n -> S]
  PROVE  f \in Seq(S) /\ Len(f) = n /\ DOMAIN f = 1 .. n
OBVIOUS

\* What a concatenation holds.
LEMMA RangeConcat ==
  ASSUME NEW S, NEW A \in Seq(S), NEW B \in Seq(S)
  PROVE  Cat(A, B) \in Seq(S) /\ Range(Cat(A, B)) = Range(A) \cup Range(B)
<1> DEFINE C == A \o B
<1>1. C \in Seq(S) /\ Len(C) = Len(A) + Len(B)
      /\ \A i \in 1 .. Len(C) : C[i] = IF i <= Len(A) THEN A[i] ELSE B[i - Len(A)]
  BY ConcatProperties
<1>2. DOMAIN A = 1 .. Len(A) /\ DOMAIN B = 1 .. Len(B) /\ DOMAIN C = 1 .. Len(C)
      /\ Len(A) \in Nat /\ Len(B) \in Nat
  BY <1>1, LenProperties
<1> HIDE DEF C
<1>3. Range(C) \subseteq Range(A) \cup Range(B)
  <2> SUFFICES ASSUME NEW i \in 1 .. Len(C)
               PROVE  C[i] \in Range(A) \cup Range(B)
    BY <1>2 DEF Range
  <2>1. CASE i <= Len(A)
    BY <2>1, <1>1, <1>2 DEF Range
  <2>2. CASE ~(i <= Len(A))
    <3>1. i - Len(A) \in DOMAIN B /\ C[i] = B[i - Len(A)]
      BY <2>2, <1>1, <1>2
    <3>2. QED BY <3>1 DEF Range
  <2>3. QED BY <2>1, <2>2
<1>4. \A i \in 1 .. Len(A) : A[i] \in Range(C)
  BY <1>1, <1>2 DEF Range
<1>5. ASSUME NEW i \in 1 .. Len(B) PROVE B[i] \in Range(C)
  <2>1. i + Len(A) \in 1 .. Len(C) /\ C[i + Len(A)] = B[i]
    BY <1>1, <1>2
  <2>2. QED BY <2>1, <1>2 DEF Range
<1>6. Range(A) \cup Range(B) \subseteq Range(C)
  BY <1>2, <1>4, <1>5 DEF Range
<1>7. Cat(A, B) = C
  BY DEF C, Cat
<1>8. QED BY <1>1, <1>3, <1>6, <1>7

\* What is left after the first element.
LEMMA RangeTail ==
  ASSUME NEW S, NEW q \in Seq(S), q # <<>>
  PROVE  /\ Head(q) \in S /\ Tail(q) \in Seq(S) /\ Head(q) \in Range(q)
         /\ Range(q) = {Head(q)} \cup Range(Tail(q))
         /\ Len(Tail(q)) = Len(q) - 1 /\ Len(q) \in Nat \ {0} /\ Head(q) = q[1]
         /\ \A i \in 1 .. Len(q) - 1 : Tail(q)[i] = q[i + 1]
<1>1. /\ Head(q) \in S /\ Tail(q) \in Seq(S) /\ Len(Tail(q)) = Len(q) - 1
      /\ \A i \in 1 .. Len(Tail(q)) : Tail(q)[i] = q[i + 1]
  BY HeadTailProperties
<1>2. Len(q) \in Nat \ {0} /\ DOMAIN q = 1 .. Len(q) /\ DOMAIN Tail(q) = 1 .. Len(Tail(q))
  BY <1>1, EmptySeq, LenProperties
<1>3. Head(q) = q[1]
  OBVIOUS
<1>4. Range(q) \subseteq {Head(q)} \cup Range(Tail(q))
  <2> SUFFICES ASSUME NEW i \in 1 .. Len(q), i # 1
               PROVE  q[i] \in Range(Tail(q))
    BY <1>2, <1>3 DEF Range
  <2>1. i - 1 \in 1 .. Len(Tail(q)) /\ Tail(q)[i - 1] = q[i]
    BY <1>1, <1>2
  <2>2. QED BY <2>1, <1>2 DEF Range
<1>5. Range(Tail(q)) \subseteq Range(q) /\ Head(q) \in Range(q)
  BY <1>1, <1>2, <1>3 DEF Range
<1>6. QED BY <1>1, <1>2, <1>3, <1>4, <1>5

\* Short sequences.
LEMMA RangeShort ==
  /\ Range(<<>>) = {}
  /\ \A x : Range(<<x>>) = {x}
  /\ \A x, y : Range(<<x, y>>) = {x, y}
  /\ \A x, y, z : Range(<<x, y, z>>) = {x, y, z}
  /\ \A x, y, z, w : Range(<<x, y, z, w>>) = {x, y, z, w}
BY DEF Range

\* The short sequences that plans and calls are made of.
LEMMA ShortSeq ==
  ASSUME NEW S
  PROVE  /\ <<>> \in Seq(S)
         /\ \A x \in S : <<x>> \in Seq(S)
         /\ \A x, y \in S : <<x, y>> \in Seq(S)
         /\ \A x, y, z \in S : <<x, y, z>> \in Seq(S)
         /\ \A x, y, z, w \in S : <<x, y, z, w>> \in Seq(S)
OBVIOUS

\* SetToSeq lists a finite set, each element once.
LEMMA Listed ==
  ASSUME NEW S, IsFiniteSet(S)
  PROVE  /\ SetToSeq(S) \in Seq(S) /\ Range(SetToSeq(S)) = S
         /\ \A i, j \in DOMAIN SetToSeq(S) : SetToSeq(S)[i] = SetToSeq(S)[j] => i = j
         /\ SetToSeq(S) = <<>> <=> S = {}
<1> DEFINE n == Cardinality(S)
           q == SetToSeq(S)
<1>1. n \in Nat /\ ExistsBijection(1 .. n, S)
  BY FS_CardinalityType
<1>2. \E f \in [1 .. n -> S] : IsInjective(f)
  BY <1>1 DEF ExistsBijection, Bijection, Injection, IsInjective
<1>3. q \in [1 .. n -> S] /\ IsInjective(q)
  BY <1>2 DEF SetToSeq
<1> HIDE DEF q
<1>4. q \in Seq(S) /\ Len(q) = n /\ DOMAIN q = 1 .. n
  BY <1>1, <1>3, FunctionSeq
<1>5. q \in Injection(1 .. n, S)
  BY <1>3 DEF Injection, IsInjective
<1>6. IsFiniteSet(1 .. n) /\ Cardinality(1 .. n) = n
  BY <1>1, FS_Interval
<1>7. q \in Surjection(1 .. n, S)
  BY <1>5, <1>6, FS_Injection
<1>8. Range(q) = S
  BY <1>3, <1>7 DEF Range, Surjection
<1>9. q = <<>> <=> S = {}
  <2>1. S = {} => q = <<>>
    BY <1>3, <1>4, <1>1, FS_EmptySet
  <2>2. q = <<>> => S = {}
    BY <1>8 DEF Range
  <2>3. QED BY <2>1, <2>2
<1>10. QED BY <1>3, <1>4, <1>8, <1>9 DEF q, IsInjective
-----------------------------------------------------------------------------
(* Items                                                                   *)

\* What is finite, and what nothing configured has.
LEMMA Configured ==
  ASSUME NEW c
  PROVE  /\ IsFiniteSet(Services(c)) /\ IsFiniteSet(Of(c).limited)
         /\ \A s : IsFiniteSet(Dests(c, s))
         /\ Of(c).hidden \in BOOLEAN
<1>1. CASE c \in Confs
  BY <1>1, ReconcilerConstants, FS_EmptySet DEF ReconcilerConstants, Services, Dests, Of
<1>2. CASE c \notin Confs
  <2>1. Of(c) = Empty
    BY <1>2 DEF Of
  <2>2. DOMAIN <<>> = {}
    OBVIOUS
  <2>3. Services(c) = {} /\ Of(c).limited = {} /\ Of(c).hidden = FALSE
    BY <2>1, <2>2 DEF Empty, Services
  <2>4. QED BY <2>3, FS_EmptySet DEF Dests
<1>3. QED BY <1>1, <1>2

\* What is no configuration has no parts.
LEMMA Unconfigured ==
  ASSUME NEW c, c \notin Confs
  PROVE  /\ Services(c) = {} /\ Of(c).limited = {} /\ ~Of(c).hidden /\ Of(c).tcp = NoTCP
         /\ \A s : Dests(c, s) = {}
         /\ ~HasTCP(c) /\ Parts(c) = {} /\ Base(c) = {} /\ Chains(c) = {} /\ Limits(c) = {}
         /\ Proxies(c) = {} /\ Inputs(c) = {} /\ Marks(c) = {}
<1>1. Of(c) = Empty
  BY DEF Of
<1>2. DOMAIN <<>> = {}
  OBVIOUS
<1>3. Services(c) = {} /\ Of(c).limited = {} /\ ~Of(c).hidden /\ Of(c).tcp = NoTCP
  BY <1>1, <1>2 DEF Empty, Services
<1>4. ~HasTCP(c) /\ Parts(c) = {} /\ Marks(c) = {}
  BY <1>3 DEF HasTCP, Parts, Marks
<1>5. \A kind : Rules(kind, c) = {}
  BY <1>3 DEF Rules
<1>6. Base(c) = {} /\ Chains(c) = {} /\ Limits(c) = {} /\ Proxies(c) = {} /\ Inputs(c) = {}
  BY <1>3, <1>4, <1>5 DEF Base, Chains, Limits, Proxies, Inputs
<1>7. QED BY <1>3, <1>4, <1>6 DEF Dests

\* The parts of a configuration, phase by phase.
LEMMA PartsSplit ==
  ASSUME NEW c \in Confs
  PROVE  Parts(c) = Base(c) \cup Chains(c) \cup {Jump("filter"), Jump("nat")}
                      \cup Proxies(c) \cup Inputs(c) \cup Limits(c)
BY DEF Parts, PartsOf, Base, Chains, Proxies, Inputs, Limits, HasTCP

\* What the tag of an item says.
LEMMA RuleShape ==
  ASSUME NEW kind, NEW c, NEW x \in Rules(kind, c)
  PROVE  /\ x[1] = kind /\ x[2] \in Services(c) /\ x[3] \in Dests(c, x[2])
         /\ x = <<kind, x[2], x[3]>>
BY DEF Rules

\* An IPVS item of a configuration.
LEMMA BaseShape ==
  ASSUME NEW c, NEW x \in Base(c)
  PROVE  /\ x[1] \in {"svc", "dst"} /\ x[2] \in Services(c)
         /\ x[1] = "svc" => x = Svc(x[2])
         /\ x[1] = "dst" => x = Dst(x[2], x[3]) /\ x[3] \in Dests(c, x[2])
BY RuleShape DEF Base, Svc, Dst

\* A rule of the managed chains.
LEMMA ChainShape ==
  ASSUME NEW c, NEW x \in Chains(c)
  PROVE  /\ x[1] \in {"filter", "nat"} /\ x[2] \in Services(c) /\ x[3] \in Dests(c, x[2])
         /\ x = <<x[1], x[2], x[3]>>
BY RuleShape DEF Chains

\* What belongs to the rate limiters.
LEMMA LimitShape ==
  ASSUME NEW c, NEW x \in Limits(c)
  PROVE  /\ x[1] \in {"rate", "mark", "jump"}
         /\ x[1] = "rate" => x = Rate(x[2]) /\ x[2] \in Of(c).limited
         /\ x[1] = "mark" => x \in Marks(c)
         /\ x[1] = "jump" => x = Jump("mark") /\ Of(c).limited # {}
BY DEF Limits, Rate, Marks, Jump

\* What HAProxy runs, and the inbound firewall.
LEMMA EdgeShape ==
  ASSUME NEW c
  PROVE  /\ \A x \in Proxies(c) : x[1] = "proxy" /\ x = Proxy(Of(c).tcp)
         /\ \A x \in Inputs(c) : x = Jump("input") \/ (x[1] = "input" /\ x = <<"input", Services(c)>>)
<1>1. ASSUME NEW x \in Proxies(c) PROVE x[1] = "proxy" /\ x = Proxy(Of(c).tcp)
  BY <1>1 DEF Proxies, Proxy
<1>2. ASSUME NEW x \in Inputs(c)
      PROVE  x = Jump("input") \/ (x[1] = "input" /\ x = <<"input", Services(c)>>)
  <2>1. x = Jump("input") \/ x = <<"input", Services(c)>>
    BY <1>2 DEF Inputs
  <2>2. QED BY <2>1
<1>3. QED BY <1>1, <1>2

\* A jump by its chain.
LEMMA JumpShape ==
  \A k : Jump(k)[1] = "jump" /\ Jump(k)[2] = k
BY DEF Jump

\* The items of a configuration, built from its services and destinations.
LEMMA Introduced ==
  /\ \A s : Svc(s)[1] = "svc" /\ Svc(s)[2] = s
  /\ \A s, d : Dst(s, d)[1] = "dst" /\ Dst(s, d)[2] = s /\ Dst(s, d)[3] = d
  /\ \A s : Rate(s)[1] = "rate" /\ Rate(s)[2] = s
  /\ \A t : Proxy(t)[1] = "proxy" /\ Proxy(t)[2] = t
  /\ \A c : \A s \in Services(c) : Svc(s) \in Base(c)
  /\ \A c : \A s \in Services(c) : \A d \in Dests(c, s) : Dst(s, d) \in Base(c)
  /\ \A kind, c : \A s \in Services(c) : \A d \in Dests(c, s) : <<kind, s, d>> \in Rules(kind, c)
BY DEF Svc, Dst, Rate, Proxy, Base, Rules

\* An item is one of some configuration, by its tag.
LEMMA ItemShape ==
  ASSUME NEW x \in Items
  PROVE  /\ x[1] \in {"svc", "dst", "filter", "nat", "jump", "proxy", "input", "rate", "mark"}
         /\ x[1] \in {"svc", "dst"} => \E c \in Confs : x \in Base(c)
         /\ x[1] \in {"filter", "nat"} => \E c \in Confs : x \in Chains(c)
         /\ x[1] = "proxy" => x = Proxy(x[2])
         /\ x[1] = "jump" => x = Jump(x[2])
<1>1. PICK c \in Confs : x \in Parts(c)
  BY DEF Items
<1>2. x \in Base(c) \cup Chains(c) \cup {Jump("filter"), Jump("nat")}
             \cup Proxies(c) \cup Inputs(c) \cup Limits(c)
  BY <1>1, PartsSplit
<1>3. CASE x \in Base(c)
  BY <1>3, BaseShape
<1>4. CASE x \in Chains(c)
  BY <1>4, ChainShape
<1>5. CASE x \in {Jump("filter"), Jump("nat")}
  BY <1>5 DEF Jump
<1>6. CASE x \in Proxies(c)
  BY <1>6, EdgeShape, Introduced
<1>7. CASE x \in Inputs(c)
  BY <1>7, EdgeShape, JumpShape
<1>8. CASE x \in Limits(c)
  BY <1>8, LimitShape, JumpShape
<1>9. QED BY <1>2, <1>3, <1>4, <1>5, <1>6, <1>7, <1>8

\* The host's own items are not EzhikLB's.
LEMMA Apart == Foreign \cap Items = {}
<1> SUFFICES ASSUME NEW x \in Foreign, x \in Items PROVE FALSE
  OBVIOUS
<1>1. x[1] \in {"svc", "dst"} /\ \E c \in Confs : x \in Base(c)
  BY ItemShape, ReconcilerConstants DEF ReconcilerConstants
<1>2. PICK c \in Confs : x \in Base(c)
  BY <1>1
<1>3. x[2] \in Services(c)
  BY <1>2, BaseShape
<1>4. x[2] \in DOMAIN Content[c].udp
  BY <1>3 DEF Services, Of
<1>5. QED BY <1>1, <1>4, ReconcilerConstants DEF ReconcilerConstants

\* What a phase provides are items.
LEMMA ItemsOf ==
  ASSUME NEW c \in MConfs
  PROVE  /\ Base(c) \subseteq Items /\ Chains(c) \subseteq Items /\ Limits(c) \subseteq Items
         /\ Proxies(c) \subseteq Items /\ Inputs(c) \subseteq Items
         /\ Parts(c) \subseteq Items
         /\ Confs # {} => Jump("filter") \in Items /\ Jump("nat") \in Items
<1>1. \A d \in Confs : Parts(d) \subseteq Items
  BY DEF Items
<1>2. Confs # {} => Jump("filter") \in Items /\ Jump("nat") \in Items
  BY <1>1, PartsSplit
<1>3. CASE c \in Confs
  BY <1>1, <1>2, <1>3, PartsSplit
<1>4. CASE c \notin Confs
  BY <1>2, <1>4, Unconfigured
<1>5. QED BY <1>3, <1>4
-----------------------------------------------------------------------------
(* What the plan of a phase does                                           *)

\* The fields of a command.
LEMMA CommandFields ==
  ASSUME NEW needs, NEW clash, NEW drop, NEW add
  PROVE  /\ Command(needs, clash, drop, add).needs = needs
         /\ Command(needs, clash, drop, add).clash = clash
         /\ Command(needs, clash, drop, add).drop = drop
         /\ Command(needs, clash, drop, add).add = add
         /\ Command(needs, clash, drop, add).cfg = {}
         /\ Command(needs, clash, drop, add).save = {}
         /\ needs \subseteq Universe /\ clash \subseteq Universe /\ drop \subseteq Universe
              /\ add \subseteq Items
            => Command(needs, clash, drop, add) \in Commands
BY DEF Command, Commands

\* The fields of the commands that add, or only look.
LEMMA PutFields ==
  ASSUME NEW i
  PROVE  /\ Put(i).needs = {} /\ Put(i).clash = {} /\ Put(i).drop = {} /\ Put(i).add = {i}
         /\ Add(i).needs = {} /\ Add(i).clash = {i} /\ Add(i).drop = {} /\ Add(i).add = {i}
         /\ Look.needs = {} /\ Look.clash = {} /\ Look.drop = {} /\ Look.add = {}
BY CommandFields DEF Put, Add, Look

\* The items of EzhikLB of a managed kind.
LEMMA KindIs ==
  ASSUME present \subseteq Foreign \cup Items,
         NEW kind \in {"filter", "nat", "proxy", "input", "mark"}
  PROVE  Kind(kind) = present \cap Tagged({kind}) /\ Kind(kind) \subseteq Universe
<1>1. \A x \in Foreign : x[1] # kind
  BY ReconcilerConstants DEF ReconcilerConstants
<1>2. Kind(kind) = present \cap Tagged({kind})
  BY <1>1 DEF Kind, Tagged
<1>3. QED BY <1>2 DEF Tagged, Universe

\* A command that changes items only belongs to a phase that provides and erases them.
LEMMA SuitsChange ==
  ASSUME NEW ph, NEW needs \in SUBSET Universe, NEW clash \in SUBSET Universe,
         NEW drop \in SUBSET Universe, NEW add \in SUBSET Items,
         add \subseteq Provides(ph), ph.do # "wipe" => drop \ add \subseteq Erases(ph)
  PROVE  Suits(Command(needs, clash, drop, add), ph)
BY CommandFields DEF Suits

\* Adding what a phase provides suits the phase.
LEMMA SuitsPut ==
  ASSUME NEW ph, NEW i \in Items, i \in Provides(ph)
  PROVE  Suits(Put(i), ph) /\ Suits(Add(i), ph)
<1>1. {i} \subseteq Universe
  BY DEF Universe
<1>2. QED BY <1>1, SuitsChange DEF Put, Add

\* Looking suits every phase.
LEMMA SuitsLook ==
  ASSUME NEW ph
  PROVE  Suits(Look, ph)
BY SuitsChange DEF Look

\* A plan whose every command suits.
LEMMA ShortPlan ==
  ASSUME NEW ph
  PROVE  /\ Sane(<<>>, ph)
         /\ \A x : Suits(x, ph) => Sane(<<x>>, ph)
         /\ \A x, y : Suits(x, ph) /\ Suits(y, ph) => Sane(<<x, y>>, ph)
         /\ \A x, y, z : Suits(x, ph) /\ Suits(y, ph) /\ Suits(z, ph) => Sane(<<x, y, z>>, ph)
         /\ \A x, y, z, w : Suits(x, ph) /\ Suits(y, ph) /\ Suits(z, ph) /\ Suits(w, ph)
                              => Sane(<<x, y, z, w>>, ph)
<1>1. Sane(<<>>, ph)
  BY RangeShort, ShortSeq DEF Sane
<1>2. ASSUME NEW x, Suits(x, ph) PROVE Sane(<<x>>, ph)
  BY <1>2, RangeShort, ShortSeq DEF Sane, Suits
<1>3. ASSUME NEW x, NEW y, Suits(x, ph), Suits(y, ph) PROVE Sane(<<x, y>>, ph)
  BY <1>3, RangeShort, ShortSeq DEF Sane, Suits
<1>4. ASSUME NEW x, NEW y, NEW z, Suits(x, ph), Suits(y, ph), Suits(z, ph)
      PROVE  Sane(<<x, y, z>>, ph)
  <2>1. Range(<<x, y, z>>) = {x, y, z}
    BY DEF Range
  <2>2. <<x, y, z>> \in Seq(Commands)
    BY <1>4 DEF Suits
  <2>3. QED BY <1>4, <2>1, <2>2 DEF Sane
<1>5. ASSUME NEW x, NEW y, NEW z, NEW w, Suits(x, ph), Suits(y, ph), Suits(z, ph), Suits(w, ph)
      PROVE  Sane(<<x, y, z, w>>, ph)
  <2>1. Range(<<x, y, z, w>>) = {x, y, z, w}
    BY DEF Range
  <2>2. <<x, y, z, w>> \in Seq(Commands)
    BY <1>5 DEF Suits
  <2>3. QED BY <1>5, <2>1, <2>2 DEF Sane
<1>6. QED BY <1>1, <1>2, <1>3, <1>4, <1>5

\* A plan made of two plans.
LEMMA SaneConcat ==
  ASSUME NEW ph, NEW A, NEW B, NEW q, Joins(q, A, B), Sane(A, ph), Sane(B, ph)
  PROVE  /\ Sane(q, ph) /\ Range(q) = Range(A) \cup Range(B)
         /\ Added(q) = Added(A) \cup Added(B) /\ Dropped(q) = Dropped(A) \cup Dropped(B)
<1>0. q = Cat(A, B)
  BY DEF Joins
<1>1. Range(q) = Range(A) \cup Range(B)
  BY <1>0, RangeConcat DEF Sane
<1>2. Sane(q, ph)
  BY <1>0, <1>1, RangeConcat DEF Sane
<1>3. QED BY <1>1, <1>2 DEF Added, Dropped

\* A command of a plan for each of a list.
LEMMA SaneMap ==
  ASSUME NEW ph, NEW S, NEW list \in Seq(S), NEW f \in [DOMAIN list -> Commands],
         \A i \in DOMAIN list : Suits(f[i], ph)
  PROVE  Sane(f, ph) /\ Range(f) = {f[i] : i \in DOMAIN list}
<1>1. DOMAIN list = 1 .. Len(list) /\ Len(list) \in Nat
  BY LenProperties
<1>2. f \in Seq(Commands)
  BY <1>1, FunctionSeq
<1>3. QED BY <1>2 DEF Sane, Range

\* The checks change nothing.
LEMMA PlanChecks ==
  ASSUME NEW ph \in Phases, ph.do = "checks"
  PROVE  Sane(Checks(ph.to), ph) /\ Complete(Checks(ph.to), ph)
<1>1. Provides(ph) = {} /\ Erases(ph) = {}
  BY DEF Provides, Erases
<1>2. PICK T \in SUBSET (DOMAIN Ports) :
        Checks(ph.to) = <<Command({}, {Proxy(t) : t \in T}, {}, {})>>
  BY DEF Checks
<1>3. {Proxy(t) : t \in T} \in SUBSET Universe
  BY DEF Universe
<1>4. Suits(Command({}, {Proxy(t) : t \in T}, {}, {}), ph)
  BY <1>1, <1>3, SuitsChange
<1>5. Sane(Checks(ph.to), ph)
  BY <1>2, <1>4, ShortPlan
<1>6. QED BY <1>1, <1>5 DEF Complete

\* A firewall phase installs the rules of both its configurations and no others.
LEMMA PlanFirewall ==
  ASSUME present \subseteq Foreign \cup Items, NEW ph \in Phases, ph.do = "firewall"
  PROVE  Sane(Firewall(ph.from, ph.to), ph) /\ Complete(Firewall(ph.from, ph.to), ph)
<1> DEFINE F == Rules("filter", ph.from) \cup Rules("filter", ph.to)
           N == Rules("nat", ph.from) \cup Rules("nat", ph.to)
<1>1. ph.from \in MConfs /\ ph.to \in MConfs /\ Confs # {}
  BY DEF Phases, PhaseOK
<1>2. Provides(ph) = F \cup N \cup {Jump("filter"), Jump("nat")}
      /\ Erases(ph) = Tagged({"filter", "nat"}) \ Provides(ph)
  BY DEF Provides, Erases, Chains
<1>3. F \subseteq Items /\ N \subseteq Items /\ Jump("filter") \in Items /\ Jump("nat") \in Items
  BY <1>1, ItemsOf DEF Chains
<1>4. /\ Kind("filter") = present \cap Tagged({"filter"}) /\ Kind("filter") \subseteq Universe
      /\ Kind("nat") = present \cap Tagged({"nat"}) /\ Kind("nat") \subseteq Universe
  BY KindIs
<1>5. (\A x \in F : x[1] = "filter") /\ (\A x \in N : x[1] = "nat")
      /\ \A k : Jump(k)[1] = "jump"
  BY RuleShape, JumpShape
<1>6. Suits(Replace("filter", F), ph) /\ Suits(Replace("nat", N), ph)
  <2>1. Kind("filter") \ F \subseteq Erases(ph) /\ Kind("nat") \ N \subseteq Erases(ph)
    BY <1>2, <1>4, <1>5 DEF Tagged
  <2>2. F \subseteq Provides(ph) /\ N \subseteq Provides(ph)
    BY <1>2
  <2>3. QED BY <1>3, <1>4, <2>1, <2>2, SuitsChange DEF Replace
<1>7. Suits(Put(Jump("filter")), ph) /\ Suits(Put(Jump("nat")), ph)
  BY <1>2, <1>3, SuitsPut
<1> DEFINE q == Firewall(ph.from, ph.to)
<1>8. q = <<Replace("filter", F), Replace("nat", N), Put(Jump("filter")), Put(Jump("nat"))>>
  BY DEF Firewall
<1>9. Range(q) = {Replace("filter", F), Replace("nat", N), Put(Jump("filter")), Put(Jump("nat"))}
  <2>1. \A x, y, z, w : q = <<x, y, z, w>> => Range(q) = {x, y, z, w}
    BY DEF Range
  <2>2. QED BY <1>8, <2>1
<1>10. Sane(q, ph)
  BY <1>6, <1>7, <1>8, ShortPlan
<1>11. /\ Replace("filter", F).add = F /\ Replace("nat", N).add = N
       /\ Put(Jump("filter")).add = {Jump("filter")} /\ Put(Jump("nat")).add = {Jump("nat")}
       /\ Replace("filter", F).drop = Kind("filter") /\ Replace("nat", N).drop = Kind("nat")
  BY CommandFields DEF Replace, Put
<1> HIDE DEF q, F, N
<1>12. Provides(ph) \subseteq Added(q)
  BY <1>2, <1>9, <1>11 DEF Added
<1>13. ASSUME NEW x \in Erases(ph) \cap present PROVE x \in Dropped(q)
  <2>1. x \notin F /\ x \notin N /\ x \in Kind("filter") \cup Kind("nat")
    BY <1>2, <1>4 DEF Tagged
  <2>2. QED BY <2>1, <1>9, <1>11 DEF Dropped
<1>14. QED BY <1>10, <1>12, <1>13 DEF q, Complete

\* Saving changes no item.
LEMMA PlanSave ==
  ASSUME NEW ph \in Phases, ph.do = "save"
  PROVE  /\ Sane(<<[Look EXCEPT !.save = {ph.to}]>>, ph)
         /\ Complete(<<[Look EXCEPT !.save = {ph.to}]>>, ph)
<1>1. Provides(ph) = {} /\ Erases(ph) = {}
  BY DEF Provides, Erases
<1>2. ph.to \in MConfs
  BY DEF Phases
<1>3. Suits([Look EXCEPT !.save = {ph.to}], ph)
  BY <1>2 DEF Suits, Look, Command, Commands
<1>4. QED BY <1>1, <1>3, ShortPlan DEF Complete

\* Removing a managed chain.
LEMMA UnchainIs ==
  ASSUME present \subseteq Foreign \cup Items, NEW kind \in {"filter", "nat", "input", "mark"},
         NEW ph, ph.do # "wipe", Jump(kind) \in Erases(ph), Kind(kind) \subseteq Erases(ph)
  PROVE  /\ Sane(Unchain(kind), ph)
         /\ {Jump(kind)} \cup Kind(kind) \subseteq Dropped(Unchain(kind))
         /\ Range(Unchain(kind)) = {Purge(Jump(kind)), Command({}, {}, Kind(kind), {})}
<1>1. Purge(Jump(kind)) = Command({}, {}, {Jump(kind)}, {})
  BY JumpShape DEF Purge
<1>2. Unchain(kind) = <<Command({}, {}, {Jump(kind)}, {}), Command({}, {}, Kind(kind), {})>>
  BY <1>1 DEF Unchain
<1>3. Kind(kind) \subseteq Universe /\ {Jump(kind)} \subseteq Universe
  BY KindIs DEF Universe
<1>4. Suits(Command({}, {}, {Jump(kind)}, {}), ph) /\ Suits(Command({}, {}, Kind(kind), {}), ph)
  BY <1>3, SuitsChange
<1>5. Range(Unchain(kind)) = {Command({}, {}, {Jump(kind)}, {}), Command({}, {}, Kind(kind), {})}
  BY <1>2, RangeShort
<1>6. {Jump(kind)} \cup Kind(kind) \subseteq Dropped(Unchain(kind))
  BY <1>5, CommandFields DEF Dropped
<1>7. QED BY <1>1, <1>2, <1>4, <1>5, <1>6, ShortPlan

\* Removing the inbound firewall removes its chain and its jump.
LEMMA PlanNoInput ==
  ASSUME present \subseteq Foreign \cup Items, NEW ph \in Phases, ph.do = "noinput"
  PROVE  Sane(Unchain("input"), ph) /\ Complete(Unchain("input"), ph)
<1>1. Provides(ph) = {} /\ Erases(ph) = Tagged({"input"}) \cup {Jump("input")}
  BY DEF Provides, Erases
<1>2. Kind("input") = present \cap Tagged({"input"})
  BY KindIs
<1>3. QED BY <1>1, <1>2, UnchainIs DEF Complete

\* Removing the managed chains removes both chains and both jumps.
LEMMA PlanUnchain ==
  ASSUME present \subseteq Foreign \cup Items, NEW ph \in Phases, ph.do = "unchain"
  PROVE  /\ Sane(Unchain("filter") \o Unchain("nat"), ph)
         /\ Complete(Unchain("filter") \o Unchain("nat"), ph)
<1>1. Provides(ph) = {}
      /\ Erases(ph) = Tagged({"filter", "nat"}) \cup {Jump("filter"), Jump("nat")}
  BY DEF Provides, Erases
<1>2. Kind("filter") = present \cap Tagged({"filter"}) /\ Kind("nat") = present \cap Tagged({"nat"})
  BY KindIs
<1>3. Kind("filter") \subseteq Erases(ph) /\ Kind("nat") \subseteq Erases(ph)
  BY <1>1, <1>2 DEF Tagged
<1>4. /\ Sane(Unchain("filter"), ph) /\ Sane(Unchain("nat"), ph)
      /\ {Jump("filter")} \cup Kind("filter") \subseteq Dropped(Unchain("filter"))
      /\ {Jump("nat")} \cup Kind("nat") \subseteq Dropped(Unchain("nat"))
  BY <1>1, <1>3, UnchainIs
<1> DEFINE A == Unchain("filter")
           B == Unchain("nat")
           q == A \o B
<1>5. Sane(A, ph) /\ Sane(B, ph) /\ Joins(q, A, B)
  BY <1>4 DEF Joins, Cat
<1>6. Erases(ph) \cap present \subseteq {Jump("filter")} \cup Kind("filter")
                                         \cup {Jump("nat")} \cup Kind("nat")
  BY <1>1, <1>2 DEF Tagged
<1>7. Sane(q, ph) /\ Dropped(q) = Dropped(A) \cup Dropped(B)
  <2> HIDE DEF A, B, q
  <2>1. QED BY <1>5, SaneConcat
<1>8. QED BY <1>1, <1>4, <1>6, <1>7 DEF Complete

\* An input phase installs the inbound firewall of its configuration.
LEMMA PlanInput ==
  ASSUME present \subseteq Foreign \cup Items, NEW ph \in Phases, ph.do = "input"
  PROVE  Sane(Input(ph.to), ph) /\ Complete(Input(ph.to), ph)
<1> DEFINE T == {<<"input", Services(ph.to)>>}
           C == Replace("input", T)
           P == Put(Jump("input"))
<1>1. Provides(ph) = T \cup {Jump("input")} /\ Erases(ph) = Tagged({"input"}) \ Provides(ph)
  BY DEF Provides, Erases
<1>2. T \cup {Jump("input")} \subseteq Items
  <2>1. ph.to \in MConfs /\ Of(ph.to).hidden
    BY DEF Phases, PhaseOK
  <2>2. QED BY <2>1, ItemsOf DEF Inputs
<1>3. Kind("input") = present \cap Tagged({"input"}) /\ Kind("input") \subseteq Universe
  BY KindIs
<1>4. Input(ph.to) = <<Look, C, P>>
  BY DEF Input
<1>5. Jump("input") \notin Kind("input")
  BY JumpShape DEF Kind
<1> HIDE DEF T
<1>6. Kind("input") \ T \subseteq Erases(ph) /\ T \subseteq Provides(ph) /\ T \subseteq Items
      /\ Jump("input") \in Provides(ph) /\ Jump("input") \in Items
  BY <1>1, <1>2, <1>3, <1>5
<1>7. Suits(C, ph)
  BY <1>3, <1>6, SuitsChange DEF Replace
<1>8. Suits(P, ph)
  BY <1>6, SuitsPut
<1>9. /\ C.add = T /\ C.drop = Kind("input") /\ P.add = {Jump("input")}
  BY CommandFields DEF Replace, Put
<1> HIDE DEF C, P
<1>10. Sane(Input(ph.to), ph)
  BY <1>4, <1>7, <1>8, SuitsLook, ShortPlan
<1>11. C \in Range(Input(ph.to)) /\ P \in Range(Input(ph.to))
  BY <1>4, RangeShort
<1>12. Provides(ph) \subseteq Added(Input(ph.to))
  BY <1>1, <1>9, <1>11 DEF Added
<1>13. Erases(ph) \cap present \subseteq Dropped(Input(ph.to))
  BY <1>1, <1>3, <1>9, <1>11 DEF Dropped
<1>14. QED BY <1>10, <1>12, <1>13 DEF Complete

\* HAProxy.  That it is enough to do nothing needs the running configuration to
\* be that of the file, and a configuration with TCP services.
LEMMA PlanHAProxy ==
  ASSUME ShapeInv, NEW ph \in Phases, ph.do = "haproxy", NEW q \in HAProxy(ph.to)
  PROVE  /\ Sane(q, ph)
         /\ ~Stale \/ q # <<>> \/ ph.to = Nothing => Complete(q, ph)
<1> DEFINE c == ph.to
           t == Of(c).tcp
           K == Kind("proxy")
           stop == Command({}, {}, K, {})
           reload == Command({}, {}, K, {Proxy(t)})
           file == [Look EXCEPT !.cfg = {t}]
<1>1. c \in MConfs /\ present \subseteq Foreign \cup Items
  BY DEF Phases, ShapeInv
<1>2. Provides(ph) = Proxies(c) /\ Erases(ph) = Tagged({"proxy"}) \ Proxies(c)
      /\ Proxies(c) \subseteq Items
  BY <1>1, ItemsOf DEF Provides, Erases
<1>3. K = present \cap Tagged({"proxy"}) /\ K \subseteq Universe
  BY <1>1, KindIs
<1>4. Proxies(c) = IF t = NoTCP THEN {} ELSE {Proxy(t)}
  BY DEF Proxies, HasTCP
<1>5. t \in Files
  BY <1>1, Unconfigured DEF Files, MConfs
<1>6. t = NoTCP => q = <<stop, file>>
  BY DEF HAProxy
<1>7. t # NoTCP => \/ q = <<>> /\ cfgFile = t /\ K # {}
                   \/ q = <<Look, file, reload>>
  BY DEF HAProxy
<1>8. /\ stop.add = {} /\ stop.drop = K /\ reload.add = {Proxy(t)} /\ reload.drop = K
      /\ file.add = {} /\ file.drop = {} /\ file.cfg = {t} /\ file.save = {}
  BY CommandFields DEF Look, Command
<1>9. t = NoTCP => Suits(stop, ph) /\ Suits(file, ph)
  <2> SUFFICES ASSUME t = NoTCP PROVE Suits(stop, ph) /\ Suits(file, ph)
    OBVIOUS
  <2>1. Suits(stop, ph)
    BY <1>2, <1>3, <1>4, SuitsChange
  <2>2. file \in Commands
    BY <1>5 DEF Look, Command, Commands
  <2>3. QED BY <2>1, <2>2, <1>8 DEF Suits
<1>10. t # NoTCP => Suits(reload, ph) /\ Suits(file, ph)
  <2> SUFFICES ASSUME t # NoTCP PROVE Suits(reload, ph) /\ Suits(file, ph)
    OBVIOUS
  <2>1. {Proxy(t)} \subseteq Items /\ {Proxy(t)} \subseteq Provides(ph)
        /\ K \ {Proxy(t)} \subseteq Erases(ph)
    BY <1>2, <1>3, <1>4
  <2>2. Suits(reload, ph)
    BY <1>3, <2>1, SuitsChange
  <2>3. file \in Commands
    BY <1>5 DEF Look, Command, Commands
  <2>4. QED BY <2>1, <2>2, <2>3, <1>8 DEF Suits
<1> HIDE DEF stop, reload, file
<1>11. Sane(q, ph)
  BY <1>6, <1>7, <1>9, <1>10, SuitsLook, ShortPlan
<1>12. ASSUME ~Stale \/ q # <<>> \/ c = Nothing
       PROVE  Complete(q, ph)
  <2>1. CASE t = NoTCP
    <3>1. K \subseteq Dropped(q)
      BY <2>1, <1>6, <1>8, RangeShort DEF Dropped
    <3>2. QED BY <2>1, <3>1, <1>2, <1>3, <1>4 DEF Complete
  <2>2. CASE t # NoTCP /\ q = <<Look, file, reload>>
    <3>1. reload \in Range(q)
      BY <2>2, RangeShort
    <3>2. K \ {Proxy(t)} \subseteq Dropped(q) /\ Proxy(t) \in Added(q)
      BY <3>1, <1>8 DEF Dropped, Added
    <3>3. QED BY <2>2, <3>2, <1>2, <1>3, <1>4 DEF Complete
  <2>3. CASE t # NoTCP /\ q = <<>> /\ cfgFile = t /\ K # {}
    <3>1. ~Stale
      BY <1>12, <2>3, Unconfigured, ReconcilerConstants DEF ReconcilerConstants
    <3>2. K = {Proxy(t)}
      BY <2>3, <3>1 DEF Stale
    <3>3. Proxy(t) \in present
      BY <3>2 DEF Kind
    <3>4. QED BY <2>3, <3>2, <3>3, <1>2, <1>3, <1>4 DEF Complete
  <2>4. QED BY <1>7, <2>1, <2>2, <2>3
<1>13. QED BY <1>11, <1>12

\* A limiter for each of a list, and none any more.
LEMMA PutRates ==
  ASSUME NEW ph, NEW L, NEW new \in Seq(L), Range(new) = L,
         \A s \in L : Suits(Put(Rate(s)), ph),
         NEW f \in [DOMAIN new -> Commands], \A i \in DOMAIN new : f[i] = Put(Rate(new[i]))
  PROVE  Sane(f, ph) /\ {Rate(s) : s \in L} \subseteq Added(f)
<1>1. \A i \in DOMAIN new : new[i] \in L
  BY DEF Range
<1>2. \A i \in DOMAIN new : f[i] = Put(Rate(new[i])) /\ Suits(f[i], ph)
  BY <1>1
<1>3. Sane(f, ph)
  BY <1>2, SaneMap
<1>0. \A i \in DOMAIN new : f[i] \in Range(f)
  BY DEF Range
<1>4. ASSUME NEW s \in L PROVE Rate(s) \in Added(f)
  <2>1. PICK i \in DOMAIN new : new[i] = s
    BY DEF Range
  <2>2. f[i] \in Range(f) /\ f[i] = Put(Rate(s))
    BY <2>1, <1>2, <1>0
  <2>3. f[i].add = {Rate(s)}
    BY <2>2, PutFields
  <2>4. QED BY <2>2, <2>3 DEF Added
<1>5. QED BY <1>3, <1>4

\* The limiters that go.
LEMMA PurgeRates ==
  ASSUME NEW ph, NEW G, NEW old \in Seq(G), Range(old) = G,
         \A s \in G : Suits(Purge(Rate(s)), ph),
         NEW f \in [DOMAIN old -> Commands], \A i \in DOMAIN old : f[i] = Purge(Rate(old[i]))
  PROVE  Sane(f, ph) /\ {Rate(s) : s \in G} \subseteq Dropped(f)
<1>1. \A i \in DOMAIN old : old[i] \in G
  BY DEF Range
<1>2. \A i \in DOMAIN old : f[i] = Purge(Rate(old[i])) /\ Suits(f[i], ph)
  BY <1>1
<1>3. Sane(f, ph)
  BY <1>2, SaneMap
<1>0. \A i \in DOMAIN old : f[i] \in Range(f)
  BY DEF Range
<1>4. \A s : Purge(Rate(s)) = Command({}, {}, {Rate(s)}, {})
  BY Introduced DEF Purge
<1>5. ASSUME NEW s \in G PROVE Rate(s) \in Dropped(f)
  <2>1. PICK i \in DOMAIN old : old[i] = s
    BY DEF Range
  <2>2. f[i] \in Range(f) /\ f[i] = Command({}, {}, {Rate(s)}, {})
    BY <2>1, <1>2, <1>0, <1>4
  <2> DEFINE C == Command({}, {}, {Rate(s)}, {})
  <2>3. C.add = {} /\ C.drop = {Rate(s)}
    BY CommandFields
  <2>5. f[i] = C
    BY <2>2
  <2> HIDE DEF C
  <2>4. QED BY <2>2, <2>3, <2>5 DEF Dropped
<1>6. QED BY <1>3, <1>5

\* The chain that marks packets, of limited services.
LEMMA MarkRates ==
  ASSUME present \subseteq Foreign \cup Items, NEW ph, NEW to \in MConfs, ph.do # "wipe",
         Of(to).limited # {},
         Limits(to) \subseteq Provides(ph), Kind("mark") \ Limits(to) \subseteq Erases(ph),
         NEW q, q = <<Replace("mark", Marks(to)), Put(Jump("mark"))>>
  PROVE  /\ Sane(q, ph) /\ Marks(to) \cup {Jump("mark")} \subseteq Added(q)
         /\ Kind("mark") \ Limits(to) \subseteq Dropped(q)
<1> DEFINE C == Replace("mark", Marks(to))
           P == Put(Jump("mark"))
<1>1. Jump("mark") \in Limits(to) /\ Marks(to) \subseteq Limits(to) /\ Limits(to) \subseteq Items
  BY ItemsOf DEF Limits
<1>2. Kind("mark") \cap Limits(to) \subseteq Marks(to) /\ Kind("mark") \subseteq Universe
  BY LimitShape, KindIs DEF Kind
<1>3. Suits(C, ph) /\ Suits(P, ph)
  BY <1>1, <1>2, SuitsChange, SuitsPut DEF Replace
<1>4. C.add = Marks(to) /\ C.drop = Kind("mark") /\ P.add = {Jump("mark")}
  BY CommandFields DEF Replace, Put
<1>5. q = <<C, P>>
  OBVIOUS
<1> HIDE DEF C, P
<1>6. Sane(q, ph) /\ Range(q) = {C, P}
  BY <1>3, <1>5, ShortPlan, RangeShort
<1>7. Marks(to) \cup {Jump("mark")} \subseteq Added(q)
  BY <1>4, <1>6 DEF Added
<1>8. Kind("mark") \ Marks(to) \subseteq Dropped(q)
  BY <1>4, <1>6 DEF Dropped
<1>9. QED BY <1>1, <1>6, <1>7, <1>8

\* Traffic control.
LEMMA PlanRates ==
  ASSUME present \subseteq Foreign \cup Items, NEW ph \in Phases, ph.do = "rates"
  PROVE  Sane(Rates(ph.from, ph.to), ph) /\ Complete(Rates(ph.from, ph.to), ph)
<1> DEFINE from == ph.from
           to == ph.to
           L == Of(to).limited
           G == Of(from).limited \ L
           new == SetToSeq(L)
           old == SetToSeq(G)
           marks == IF new = <<>> THEN Unchain("mark")
                                  ELSE <<Replace("mark", Marks(to)), Put(Jump("mark"))>>
           puts == [i \in DOMAIN new |-> Put(Rate(new[i]))]
           purges == [i \in DOMAIN old |-> Purge(Rate(old[i]))]
           q == Rates(from, to)
           theirs == {Rate(s) : s \in Of(from).limited}
<1>1. from \in MConfs /\ to \in MConfs /\ IsFiniteSet(L) /\ IsFiniteSet(G)
  <2>1. IsFiniteSet(Of(from).limited) /\ IsFiniteSet(L)
    BY Configured
  <2>2. QED BY <2>1, FS_Subset DEF Phases
<1>2. Provides(ph) = Limits(to)
      /\ Erases(ph) = IF Of(from).limited \cup L = {} THEN {}
                      ELSE (Tagged({"mark"}) \cup {Jump("mark")} \cup theirs) \ Limits(to)
  BY DEF Provides, Erases
<1>3. Limits(to) = {Rate(s) : s \in L} \cup Marks(to) \cup (IF L = {} THEN {} ELSE {Jump("mark")})
      /\ (L = {} => Marks(to) = {})
  BY DEF Limits, Marks
<1>4. Limits(to) \subseteq Items /\ theirs \subseteq Items
  BY <1>1, ItemsOf DEF Limits
<1>5. Kind("mark") = present \cap Tagged({"mark"}) /\ Kind("mark") \subseteq Universe
  BY KindIs
<1>6. /\ new \in Seq(L) /\ Range(new) = L /\ (new = <<>> <=> L = {})
      /\ old \in Seq(G) /\ Range(old) = G
  <2> HIDE DEF L, G
  <2>1. QED BY <1>1, Listed
<1>7. CASE Of(from).limited \cup L = {}
  <2>1. q = <<>>
    BY <1>7 DEF Rates
  <2>2. Provides(ph) = {} /\ Erases(ph) = {}
    BY <1>2, <1>3, <1>7
  <2>3. Sane(q, ph)
    BY <2>1, ShortPlan
  <2>4. QED BY <2>2, <2>3 DEF Complete
<1>8. CASE Of(from).limited \cup L # {}
  <2>1. q = (<<Look>> \o puts) \o marks \o purges
    BY <1>8 DEF Rates
  <2>2. Erases(ph) = (Tagged({"mark"}) \cup {Jump("mark")} \cup theirs) \ Limits(to)
    BY <1>2, <1>8
  <2>3. ASSUME NEW s \in L PROVE Suits(Put(Rate(s)), ph)
    <3>1. Rate(s) \in Items /\ Rate(s) \in Provides(ph)
      BY <1>2, <1>3, <1>4
    <3>2. QED BY <3>1, SuitsPut
  <2>4. Sane(puts, ph) /\ {Rate(s) : s \in L} \subseteq Added(puts)
    <3>1. puts \in [DOMAIN new -> Commands] /\ \A i \in DOMAIN new : puts[i] = Put(Rate(new[i]))
      <4>1. \A i \in DOMAIN new : new[i] \in L
        BY <1>6 DEF Range
      <4>2. QED BY <2>3, <4>1 DEF Suits
    <3> HIDE DEF L, new, puts
    <3>2. QED BY <3>1, <1>6, <2>3, PutRates
  <2>5. ASSUME NEW s \in G PROVE Suits(Purge(Rate(s)), ph)
    <3>1. Rate(s) \in theirs /\ Rate(s) \notin Limits(to)
      BY LimitShape, Introduced
    <3>2. {Rate(s)} \in SUBSET Universe /\ {Rate(s)} \ {} \subseteq Erases(ph)
      BY <3>1, <1>4, <2>2 DEF Universe
    <3>3. Purge(Rate(s)) = Command({}, {}, {Rate(s)}, {})
      BY Introduced DEF Purge
    <3>4. QED BY <3>2, <3>3, SuitsChange
  <2>6. Sane(purges, ph) /\ {Rate(s) : s \in G} \subseteq Dropped(purges)
    <3>1. /\ purges \in [DOMAIN old -> Commands]
          /\ \A i \in DOMAIN old : purges[i] = Purge(Rate(old[i]))
      <4>1. \A i \in DOMAIN old : old[i] \in G
        BY <1>6 DEF Range
      <4>2. QED BY <2>5, <4>1 DEF Suits
    <3> HIDE DEF G, old, purges
    <3>2. QED BY <3>1, <1>6, <2>5, PurgeRates
  <2>7. Kind("mark") \ Limits(to) \subseteq Erases(ph)
    BY <2>2, <1>5
  <2>8. /\ Sane(marks, ph) /\ Marks(to) \subseteq Added(marks)
        /\ Kind("mark") \ Limits(to) \subseteq Dropped(marks)
        /\ L # {} => Jump("mark") \in Added(marks)
        /\ L = {} => Jump("mark") \in Dropped(marks)
    <3>1. CASE L = {}
      <4>1. Jump("mark") \notin Limits(to)
        <5>1. Jump("mark")[1] = "jump"
          BY JumpShape
        <5>2. QED BY <3>1, <5>1, LimitShape
      <4>2. Kind("mark") \cap Limits(to) = {}
        <5>1. \A x \in Limits(to) : x[1] = "mark" => x \in Marks(to)
          BY LimitShape
        <5>2. QED BY <3>1, <5>1, <1>3 DEF Kind
      <4>3. Jump("mark") \in Erases(ph) /\ Kind("mark") \subseteq Erases(ph)
        BY <2>2, <2>7, <4>1, <4>2
      <4>4. marks = Unchain("mark")
        BY <3>1, <1>6
      <4>5. /\ Sane(Unchain("mark"), ph)
            /\ {Jump("mark")} \cup Kind("mark") \subseteq Dropped(Unchain("mark"))
        BY <4>3, UnchainIs
      <4> HIDE DEF marks, L
      <4>6. QED BY <3>1, <4>4, <4>5, <1>3
    <3>2. CASE L # {}
      <4>1. marks = <<Replace("mark", Marks(to)), Put(Jump("mark"))>>
        BY <3>2, <1>6
      <4>2. Of(to).limited # {} /\ Limits(to) \subseteq Provides(ph)
        BY <3>2, <1>2
      <4> HIDE DEF marks, to, L
      <4>3. QED BY <1>1, <2>7, <3>2, <4>1, <4>2, MarkRates
    <3>3. QED BY <3>1, <3>2
  <2>9. Sane(<<Look>>, ph)
    BY SuitsLook, ShortPlan
  <2> DEFINE look == <<Look>>
             A == look \o puts
             D == A \o marks
  <2>10. Joins(A, look, puts) /\ Joins(D, A, marks) /\ Joins(q, D, purges)
    BY <2>1 DEF Joins, Cat
  <2>11. Sane(look, ph) /\ Sane(puts, ph) /\ Sane(marks, ph) /\ Sane(purges, ph)
    BY <2>4, <2>6, <2>8, <2>9
  <2> HIDE DEF q, look, puts, marks, purges, L, theirs, A, D
  <2>12. /\ Sane(q, ph) /\ Added(q) = Added(A) \cup Added(marks) \cup Added(purges)
         /\ Dropped(q) = Dropped(A) \cup Dropped(marks) \cup Dropped(purges)
         /\ Added(puts) \subseteq Added(A)
    <3>1. Sane(A, ph) /\ Added(A) = Added(look) \cup Added(puts)
      BY <2>10, <2>11, SaneConcat
    <3>2. /\ Sane(D, ph) /\ Added(D) = Added(A) \cup Added(marks)
          /\ Dropped(D) = Dropped(A) \cup Dropped(marks)
      BY <2>10, <2>11, <3>1, SaneConcat
    <3>3. /\ Sane(q, ph) /\ Added(q) = Added(D) \cup Added(purges)
          /\ Dropped(q) = Dropped(D) \cup Dropped(purges)
      BY <2>10, <2>11, <3>2, SaneConcat
    <3>4. QED BY <3>1, <3>2, <3>3
  <2>13. Provides(ph) \subseteq Added(q)
    BY <1>2, <1>3, <2>4, <2>8, <2>12
  <2>14. ASSUME NEW x \in Erases(ph) \cap present PROVE x \in Dropped(q)
    <3>1. CASE x \in theirs
      <4>1. PICK s \in Of(from).limited : x = Rate(s)
        BY <3>1 DEF theirs
      <4>2. s \in G
        BY <4>1, <2>2, <1>3
      <4>3. QED BY <4>1, <4>2, <2>6, <2>12
    <3>2. CASE x = Jump("mark")
      BY <3>2, <2>2, <2>8, <2>12, <1>3
    <3>3. CASE x \in Tagged({"mark"})
      BY <3>3, <2>2, <2>8, <2>12, <1>5
    <3>4. QED BY <3>1, <3>2, <3>3, <2>2
  <2>15. Sane(q, ph) /\ Complete(q, ph)
    BY <2>12, <2>13, <2>14 DEF Complete
  <2>16. QED BY <2>15 DEF q
<1>9. QED BY <1>7, <1>8

\* The destinations of a service, one by one.
LEMMA PutDests ==
  ASSUME NEW ph, NEW L, NEW list \in Seq(L), Range(list) = L,
         NEW f \in [DOMAIN list -> Commands], \A i \in DOMAIN list : Suits(f[i], ph)
  PROVE  /\ Sane(f, ph)
         /\ \A s : (\A i \in DOMAIN list : f[i].add = {Dst(s, list[i])})
                     => \A d \in L : Dst(s, d) \in Added(f)
<1>1. Sane(f, ph)
  BY SaneMap
<1>2. \A i \in DOMAIN list : f[i] \in Range(f)
  BY DEF Range
<1>3. ASSUME NEW s, \A i \in DOMAIN list : f[i].add = {Dst(s, list[i])}, NEW d \in L
      PROVE  Dst(s, d) \in Added(f)
  <2>1. PICK i \in DOMAIN list : list[i] = d
    BY DEF Range
  <2>2. f[i] \in Range(f) /\ f[i].add = {Dst(s, d)}
    BY <1>2, <1>3, <2>1
  <2>3. QED BY <2>2 DEF Added
<1>4. QED BY <1>1, <1>3

\* The destinations that go.
LEMMA DeleteDests ==
  ASSUME NEW ph, NEW L, NEW list \in Seq(L), Range(list) = L,
         NEW f \in [DOMAIN list -> Commands],
         \A i \in DOMAIN list : Suits(f[i], ph) /\ f[i].add = {}
  PROVE  /\ Sane(f, ph)
         /\ \A s : (\A i \in DOMAIN list : f[i].drop = {Dst(s, list[i])})
                     => \A d \in L : Dst(s, d) \in Dropped(f)
<1>1. Sane(f, ph)
  BY SaneMap
<1>2. \A i \in DOMAIN list : f[i] \in Range(f)
  BY DEF Range
<1>3. ASSUME NEW s, \A i \in DOMAIN list : f[i].drop = {Dst(s, list[i])}, NEW d \in L
      PROVE  Dst(s, d) \in Dropped(f)
  <2>1. PICK i \in DOMAIN list : list[i] = d
    BY DEF Range
  <2>2. f[i] \in Range(f) /\ f[i].add = {} /\ f[i].drop = {Dst(s, d)}
    BY <1>2, <1>3, <2>1
  <2>3. QED BY <2>2 DEF Dropped
<1>4. QED BY <1>1, <1>3

\* A service goes with what is under it, which is never the host's.
LEMMA UnderIs ==
  ASSUME present \subseteq Foreign \cup Items, NEW c, NEW s \in Services(c)
  PROVE  /\ Under(s) = {x \in present \cap Tagged({"svc", "dst"}) : x[2] = s}
         /\ Under(s) \subseteq Universe
<1>1. c \in Confs
  BY Unconfigured
<1>2. \A x \in Foreign : x[1] \in {"svc", "dst"} => x[2] # s
  BY <1>1, ReconcilerConstants DEF ReconcilerConstants, Services, Of
<1>3. Under(s) = {x \in present \cap Tagged({"svc", "dst"}) : x[2] = s}
  BY <1>2 DEF Under, Tagged
<1>4. QED BY <1>3 DEF Tagged, Universe

\* A service that is kept or new.
LEMMA PlanService ==
  ASSUME present \subseteq Foreign \cup Items, NEW ph, ph.do = "ipvs",
         ph.from \in MConfs, ph.to \in MConfs, NEW s \in Services(ph.to)
  PROVE  LET q == Service(ph.from, ph.to, s) IN
         /\ Sane(q, ph)
         /\ \A x \in Provides(ph) : x[2] = s => x \in Added(q)
         /\ \A x \in Erases(ph) \cap present : x[2] = s => x \in Dropped(q)
<1> DEFINE old == Dests(ph.from, s)
           new == Dests(ph.to, s)
           ensure == SetToSeq(new)
           extra == old \ new
           obsolete == SetToSeq(extra)
           head == <<IF s \in Services(ph.from) THEN Put(Svc(s)) ELSE Add(Svc(s))>>
           puts == [i \in DOMAIN ensure |-> IF ensure[i] \in old THEN Put(Dst(s, ensure[i]))
                                                                 ELSE Add(Dst(s, ensure[i]))]
           dels == [i \in DOMAIN obsolete |-> Delete(Dst(s, obsolete[i]))]
           A == head \o puts
           q == Service(ph.from, ph.to, s)
<1>1. Provides(ph) = Base(ph.to) /\ Erases(ph) = Gone(ph.from, ph.to)
  BY DEF Provides, Erases
<1>2. /\ ensure \in Seq(new) /\ Range(ensure) = new
      /\ obsolete \in Seq(extra) /\ Range(obsolete) = extra
  <2>1. IsFiniteSet(new) /\ IsFiniteSet(extra)
    BY Configured, FS_Subset
  <2> HIDE DEF old, new, extra
  <2>2. QED BY <2>1, Listed
<1>3. Svc(s) \in Base(ph.to) /\ Svc(s) \in Items
      /\ \A d \in new : Dst(s, d) \in Base(ph.to) /\ Dst(s, d) \in Items
  BY Introduced, ItemsOf
<1>4. ASSUME NEW d \in extra
      PROVE  Dst(s, d) \in Items /\ Dst(s, d) \in Gone(ph.from, ph.to)
  <2>1. s \in Services(ph.from) \cap Services(ph.to)
    BY DEF Dests
  <2>2. Dst(s, d) \in Items
    BY <2>1, Introduced, ItemsOf
  <2>3. Dst(s, d)[1] = "dst" /\ Dst(s, d)[2] = s /\ Dst(s, d)[3] = d
    BY Introduced
  <2>4. Dst(s, d) \in Tagged({"dst"})
    BY <2>2, <2>3 DEF Tagged
  <2>5. QED BY <2>1, <2>2, <2>3, <2>4 DEF Gone
<1>5. Sane(head, ph) /\ Svc(s) \in Added(head)
  <2>1. Suits(Put(Svc(s)), ph) /\ Suits(Add(Svc(s)), ph)
    BY <1>1, <1>3, SuitsPut
  <2>2. PICK cmd : head = <<cmd>> /\ cmd \in {Put(Svc(s)), Add(Svc(s))}
    OBVIOUS
  <2>3. Suits(cmd, ph) /\ cmd.add = {Svc(s)}
    BY <2>1, <2>2, PutFields
  <2> HIDE DEF head
  <2>4. Range(head) = {cmd} /\ Sane(head, ph)
    BY <2>2, <2>3, RangeShort, ShortPlan
  <2>5. QED BY <2>3, <2>4 DEF Added
<1>6. Sane(puts, ph) /\ \A d \in new : Dst(s, d) \in Added(puts)
  <2>1. \A i \in DOMAIN ensure : ensure[i] \in new
    BY <1>2 DEF Range
  <2>2. ASSUME NEW d \in new
        PROVE  /\ Suits(Put(Dst(s, d)), ph) /\ Suits(Add(Dst(s, d)), ph)
               /\ Put(Dst(s, d)).add = {Dst(s, d)} /\ Add(Dst(s, d)).add = {Dst(s, d)}
    BY <1>1, <1>3, SuitsPut, PutFields
  <2>3. \A i \in DOMAIN ensure : Suits(puts[i], ph) /\ puts[i].add = {Dst(s, ensure[i])}
    BY <2>1, <2>2
  <2>4. puts \in [DOMAIN ensure -> Commands]
    BY <2>3 DEF Suits
  <2> HIDE DEF puts, ensure, new
  <2>5. QED BY <1>2, <2>3, <2>4, PutDests
<1>7. Sane(dels, ph) /\ \A d \in extra : Dst(s, d) \in Dropped(dels)
  <2>1. \A i \in DOMAIN obsolete : obsolete[i] \in extra
    BY <1>2 DEF Range
  <2>2. ASSUME NEW d \in extra
        PROVE  /\ Suits(Delete(Dst(s, d)), ph)
               /\ Delete(Dst(s, d)).add = {} /\ Delete(Dst(s, d)).drop = {Dst(s, d)}
    <3>1. Dst(s, d)[1] = "dst"
      BY Introduced
    <3>2. Delete(Dst(s, d)) = Command({Dst(s, d)}, {}, {Dst(s, d)}, {})
      BY <3>1 DEF Delete
    <3>3. {Dst(s, d)} \in SUBSET Universe /\ {Dst(s, d)} \ {} \subseteq Erases(ph)
      BY <1>1, <1>4 DEF Universe
    <3>4. Suits(Command({Dst(s, d)}, {}, {Dst(s, d)}, {}), ph)
      BY <3>3, SuitsChange
    <3>5. QED BY <3>2, <3>4, CommandFields
  <2>3. \A i \in DOMAIN obsolete :
          /\ Suits(dels[i], ph) /\ dels[i].add = {} /\ dels[i].drop = {Dst(s, obsolete[i])}
    BY <2>1, <2>2
  <2>4. dels \in [DOMAIN obsolete -> Commands]
    BY <2>3 DEF Suits
  <2>5. obsolete \in Seq(extra) /\ Range(obsolete) = extra
    BY <1>2
  <2>6. \A i \in DOMAIN obsolete : Suits(dels[i], ph) /\ dels[i].add = {}
    BY <2>3
  <2>7. \A i \in DOMAIN obsolete : dels[i].drop = {Dst(s, obsolete[i])}
    BY <2>3
  <2> HIDE DEF dels, obsolete, extra
  <2>8. Sane(dels, ph)
    BY <2>4, <2>5, <2>6, DeleteDests
  <2>9. \A d \in extra : Dst(s, d) \in Dropped(dels)
    BY <2>4, <2>5, <2>6, <2>7, DeleteDests
  <2>10. QED BY <2>8, <2>9
<1>8. Joins(A, head, puts) /\ Joins(q, A, dels)
  BY DEF Service, Joins, Cat
<1> HIDE DEF head, puts, dels, A, q, ensure, obsolete
<1>9. Sane(A, ph) /\ Added(A) = Added(head) \cup Added(puts)
  BY <1>5, <1>6, <1>8, SaneConcat
<1>10. /\ Sane(q, ph) /\ Added(q) = Added(A) \cup Added(dels)
       /\ Dropped(q) = Dropped(A) \cup Dropped(dels)
  BY <1>7, <1>8, <1>9, SaneConcat
<1>11. ASSUME NEW x \in Provides(ph), x[2] = s PROVE x \in Added(q)
  <2>1. x = Svc(s) \/ \E d \in new : x = Dst(s, d)
    BY <1>1, <1>11, BaseShape
  <2>2. QED BY <2>1, <1>5, <1>6, <1>9, <1>10
<1>12. ASSUME NEW x \in Erases(ph) \cap present, x[2] = s PROVE x \in Dropped(q)
  <2>1. x \in Items /\ x[1] = "dst" /\ x[3] \in extra
    BY <1>1, <1>12 DEF Gone, Tagged
  <2>2. x = Dst(s, x[3])
    BY <1>12, <2>1, ItemShape, BaseShape
  <2>3. QED BY <2>1, <2>2, <1>7, <1>10
<1>13. QED BY <1>10, <1>11, <1>12 DEF q

\* A service that goes.
LEMMA PlanGone ==
  ASSUME present \subseteq Foreign \cup Items, NEW ph, ph.do = "ipvs",
         NEW s \in Services(ph.from) \ Services(ph.to)
  PROVE  LET q == <<Delete(Svc(s))>> IN
         /\ Sane(q, ph)
         /\ \A x \in Provides(ph) : x[2] = s => x \in Added(q)
         /\ \A x \in Erases(ph) \cap present : x[2] = s => x \in Dropped(q)
<1> DEFINE C == Command({Svc(s)}, {}, Under(s), {})
           q == <<Delete(Svc(s))>>
<1>1. Provides(ph) = Base(ph.to) /\ Erases(ph) = Gone(ph.from, ph.to)
  BY DEF Provides, Erases
<1>2. q = <<C>>
  BY Introduced DEF Delete
<1>3. /\ Under(s) = {x \in present \cap Tagged({"svc", "dst"}) : x[2] = s}
      /\ Under(s) \subseteq Universe
  BY UnderIs
<1>4. Under(s) \subseteq Gone(ph.from, ph.to)
  BY <1>3 DEF Gone
<1>5. Svc(s) \in Items
  <2>1. ph.from \in Confs
    BY Unconfigured
  <2>2. QED BY <2>1, Introduced, ItemsOf DEF MConfs
<1>6. Suits(C, ph)
  <2>1. {Svc(s)} \in SUBSET Universe /\ Under(s) \ {} \subseteq Erases(ph)
    BY <1>1, <1>4, <1>5 DEF Universe
  <2>2. QED BY <1>3, <2>1, SuitsChange
<1>7. C.add = {} /\ C.drop = Under(s)
  BY CommandFields
<1> HIDE DEF C, q
<1>8. Sane(q, ph) /\ Range(q) = {C}
  BY <1>2, <1>6, ShortPlan, RangeShort
<1>9. Dropped(q) = Under(s)
  BY <1>7, <1>8 DEF Dropped
<1>10. ASSUME NEW x \in Provides(ph), x[2] = s PROVE FALSE
  BY <1>1, <1>10, BaseShape
<1>11. ASSUME NEW x \in Erases(ph) \cap present, x[2] = s PROVE x \in Under(s)
  BY <1>1, <1>3, <1>11 DEF Gone, Tagged
<1>12. QED BY <1>8, <1>9, <1>10, <1>11 DEF q

\* Removing a service removes all that is under it.
LEMMA PlanWipe ==
  ASSUME present \subseteq Foreign \cup Items, NEW ph, ph.do = "wipe",
         NEW c, NEW s \in Services(c)
  PROVE  LET q == <<Purge(Svc(s))>> IN
         /\ Sane(q, ph) /\ Under(s) \subseteq Dropped(q) /\ Provides(ph) = {}
<1> DEFINE C == Command({}, {}, Under(s), {})
           q == <<Purge(Svc(s))>>
<1>1. Provides(ph) = {}
  BY DEF Provides
<1>2. q = <<C>>
  BY Introduced DEF Purge
<1>3. Under(s) \subseteq Universe
  BY UnderIs
<1>4. Suits(C, ph)
  BY <1>3, SuitsChange
<1>5. C.add = {} /\ C.drop = Under(s)
  BY CommandFields
<1> HIDE DEF C, q
<1>6. Sane(q, ph) /\ Range(q) = {C}
  BY <1>2, <1>4, ShortPlan, RangeShort
<1>7. Under(s) \subseteq Dropped(q)
  BY <1>5, <1>6 DEF Dropped
<1>8. QED BY <1>1, <1>6, <1>7 DEF q

\* The plans of a phase.
LEMMA PlanFacts ==
  ASSUME ShapeInv, NEW ph \in Phases, NEW q \in Plans(ph)
  PROVE  /\ Sane(q, ph)
         /\ ph.do \notin {"ipvs", "wipe"}
              /\ (~Stale \/ q # <<>> \/ ph.to = Nothing)
              => Complete(q, ph)
         /\ ph.do \notin {"ipvs", "wipe", "haproxy"} => Complete(q, ph)
         /\ ph.do \in {"ipvs", "wipe"} => q = <<>>
<1>1. ph.do \in Dos /\ present \subseteq Foreign \cup Items
  BY DEF Phases, ShapeInv
<1>2. CASE ph.do = "checks"
  BY <1>1, <1>2, PlanChecks DEF Plans
<1>3. CASE ph.do = "firewall"
  BY <1>1, <1>3, PlanFirewall DEF Plans
<1>4. CASE ph.do = "haproxy"
  BY <1>1, <1>4, PlanHAProxy DEF Plans
<1>5. CASE ph.do = "input"
  BY <1>1, <1>5, PlanInput DEF Plans
<1>6. CASE ph.do = "noinput"
  BY <1>1, <1>6, PlanNoInput DEF Plans
<1>7. CASE ph.do = "rates"
  BY <1>1, <1>7, PlanRates DEF Plans
<1>8. CASE ph.do = "unchain"
  <2>1. q = Unchain("filter") \o Unchain("nat")
    BY <1>8 DEF Plans
  <2>2. QED BY <1>1, <1>8, <2>1, PlanUnchain
<1>9. CASE ph.do = "save"
  BY <1>1, <1>9, PlanSave DEF Plans
<1>10. CASE ph.do \in {"none", "ipvs", "wipe"}
  <2>1. q = <<>>
    BY <1>10 DEF Plans
  <2>2. ph.do = "none" => Provides(ph) = {} /\ Erases(ph) = {}
    BY DEF Provides, Erases
  <2>3. Sane(q, ph)
    BY <2>1, ShortPlan
  <2>4. QED BY <1>10, <2>1, <2>2, <2>3 DEF Complete
<1>11. QED
  BY <1>1, <1>2, <1>3, <1>4, <1>5, <1>6, <1>7, <1>8, <1>9, <1>10 DEF Dos
-----------------------------------------------------------------------------
(* Sequences of phases                                                     *)

\* The elements of a concatenation.
LEMMA JoinsSeq ==
  ASSUME NEW S, NEW A \in Seq(S), NEW B \in Seq(S), NEW q, Joins(q, A, B)
  PROVE  q \in Seq(S) /\ Range(q) = Range(A) \cup Range(B)
<1>1. q = Cat(A, B)
  BY DEF Joins
<1>2. QED BY <1>1, RangeConcat

\* The services of a configuration are services of the panel.
LEMMA ServicesOf ==
  ASSUME NEW c \in MConfs
  PROVE  Services(c) \subseteq AllServices
BY Unconfigured DEF AllServices, MConfs

\* A phase as the calls make it.
LEMMA PhaseFields ==
  ASSUME NEW do, NEW from, NEW to
  PROVE  /\ Phase(do, from, to).do = do /\ Phase(do, from, to).from = from
         /\ Phase(do, from, to).to = to
         /\ do = "ipvs" => Phase(do, from, to).left = Services(from) \cup Services(to)
         /\ do # "ipvs" => Phase(do, from, to).left = {}
BY DEF Phase

\* The phases a call is made of are phases.
LEMMA PhaseIn ==
  ASSUME NEW do \in Dos, NEW from \in MConfs, NEW to \in MConfs,
         do = "input" => Of(to).hidden, do = "firewall" => Confs # {}, do # "wipe"
  PROVE  Phase(do, from, to) \in Phases
<1> DEFINE ph == Phase(do, from, to)
<1>1. ph \in [do: Dos, from: MConfs, to: MConfs, left: SUBSET AllServices]
  <2>1. Services(from) \cup Services(to) \subseteq AllServices
    BY ServicesOf
  <2>2. QED BY <2>1 DEF Phase
<1>2. PhaseOK(ph)
  <2>1. ph.left \subseteq (IF do = "ipvs" THEN Services(from) \cup Services(to) ELSE {})
    BY PhaseFields
  <2>2. ph.do = do /\ ph.from = from /\ ph.to = to
    BY PhaseFields
  <2> HIDE DEF ph
  <2>3. QED BY <2>1, <2>2 DEF PhaseOK
<1>3. QED BY <1>1, <1>2 DEF Phases

\* The part a tag belongs to.
LEMMA PartTag ==
  ASSUME NEW c, NEW x \in Parts(c)
  PROVE  /\ c \in Confs
         /\ x[1] \in {"svc", "dst"} => x \in Base(c)
         /\ x[1] \in {"filter", "nat"} => x \in Chains(c)
         /\ x[1] = "proxy" => x \in Proxies(c)
         /\ x[1] = "input" \/ x = Jump("input") => x \in Inputs(c)
         /\ x[1] \in {"rate", "mark"} \/ x = Jump("mark") => x \in Limits(c)
<1>1. c \in Confs
  BY Unconfigured
<1>2. x \in Base(c) \cup Chains(c) \cup {Jump("filter"), Jump("nat")}
             \cup Proxies(c) \cup Inputs(c) \cup Limits(c)
  BY <1>1, PartsSplit
<1>3. Jump("input")[1] = "jump" /\ Jump("input")[2] = "input"
      /\ Jump("mark")[1] = "jump" /\ Jump("mark")[2] = "mark"
      /\ Jump("filter")[1] = "jump" /\ Jump("filter")[2] = "filter"
      /\ Jump("nat")[1] = "jump" /\ Jump("nat")[2] = "nat"
  BY JumpShape
<1>4. CASE x \in Base(c)
  BY <1>1, <1>3, <1>4, BaseShape
<1>5. CASE x \in Chains(c)
  BY <1>1, <1>3, <1>5, ChainShape
<1>6. CASE x \in {Jump("filter"), Jump("nat")}
  BY <1>1, <1>3, <1>6
<1>7. CASE x \in Proxies(c)
  BY <1>1, <1>3, <1>7, EdgeShape
<1>8. CASE x \in Inputs(c)
  BY <1>1, <1>3, <1>8, EdgeShape
<1>9. CASE x \in Limits(c)
  BY <1>1, <1>3, <1>9, LimitShape
<1>10. QED BY <1>2, <1>4, <1>5, <1>6, <1>7, <1>8, <1>9

\* A phase erases nothing of the configuration it leads to.
LEMMA Targeted ==
  ASSUME NEW ph, ph.do \in Dos \ {"unchain", "wipe"}, ph.do = "noinput" => ~Of(ph.to).hidden
  PROVE  Erases(ph) \cap Parts(ph.to) = {}
<1> SUFFICES ASSUME NEW x \in Erases(ph), x \in Parts(ph.to) PROVE FALSE
  OBVIOUS
<1>1. CASE ph.do = "firewall"
  BY <1>1, PartTag DEF Erases, Provides, Tagged
<1>2. CASE ph.do = "ipvs"
  <2>1. x \in Gone(ph.from, ph.to)
    BY <1>2 DEF Erases
  <2>2. x[1] \in {"svc", "dst"}
    BY <2>1 DEF Gone, Tagged
  <2>3. x \in Base(ph.to)
    BY <2>2, PartTag
  <2>4. x[2] \in Services(ph.to) /\ (x[1] = "dst" => x[3] \in Dests(ph.to, x[2]))
    BY <2>3, BaseShape
  <2>5. QED BY <2>1, <2>4 DEF Gone, Tagged
<1>3. CASE ph.do = "haproxy"
  BY <1>3, PartTag DEF Erases, Provides, Tagged
<1>4. CASE ph.do = "input"
  BY <1>4, PartTag DEF Erases, Provides, Tagged, Inputs
<1>5. CASE ph.do = "noinput"
  <2>1. x \in Inputs(ph.to)
    BY <1>5, PartTag DEF Erases, Tagged
  <2>2. QED BY <1>5, <2>1 DEF Inputs
<1>6. CASE ph.do = "rates"
  <2>1. x[1] = "mark" \/ x = Jump("mark") \/ x[1] = "rate"
    BY <1>6, Introduced DEF Erases, Tagged
  <2>2. x \in Limits(ph.to)
    BY <2>1, PartTag
  <2>3. QED BY <1>6, <2>2 DEF Erases
<1>7. CASE ph.do \in {"none", "checks", "save"}
  BY <1>7 DEF Erases
<1>8. QED BY <1>1, <1>2, <1>3, <1>4, <1>5, <1>6, <1>7 DEF Dos


\* A phase provides parts of the configuration it leads to.
LEMMA Provided ==
  ASSUME NEW ph \in Phases, ph.do = "firewall" => ph.from = ph.to /\ ph.to \in Confs
  PROVE  Provides(ph) \subseteq Parts(ph.to)
<1>1. ph.to \in MConfs /\ (ph.do = "input" => Of(ph.to).hidden)
  BY DEF Phases, PhaseOK
<1>2. CASE ph.to \in Confs
  <2>1. Parts(ph.to) = Base(ph.to) \cup Chains(ph.to) \cup {Jump("filter"), Jump("nat")}
                      \cup Proxies(ph.to) \cup Inputs(ph.to) \cup Limits(ph.to)
    BY <1>2, PartsSplit
  <2>2. ph.do = "input" => Provides(ph) = Inputs(ph.to)
    BY <1>1 DEF Provides, Inputs
  <2>3. ph.do # "input" =>
          Provides(ph) \subseteq Base(ph.to) \cup Chains(ph.to) \cup {Jump("filter"), Jump("nat")}
                                   \cup Proxies(ph.to) \cup Limits(ph.to)
    BY DEF Provides
  <2>4. QED BY <2>1, <2>2, <2>3
<1>3. CASE ph.to \notin Confs
  BY <1>1, <1>3, Unconfigured DEF Provides
<1>4. QED BY <1>2, <1>3

\* A phase that takes nothing of T and brings nothing else.
Neat(ph, T) == Erases(ph) \cap Parts(T) = {} /\ Provides(ph) \subseteq Parts(T)

\* A phase that ends in its target configuration neither takes of it nor adds beyond it.
LEMMA NeatPhase ==
  ASSUME NEW do \in Dos \ {"unchain", "wipe"}, NEW from \in MConfs, NEW to \in MConfs,
         do = "input" => Of(to).hidden, do = "noinput" => ~Of(to).hidden,
         do = "firewall" => from = to /\ to \in Confs
  PROVE  Neat(Phase(do, from, to), to)
<1> DEFINE ph == Phase(do, from, to)
<1>1. ph \in Phases
  BY PhaseIn
<1>2. ph.do = do /\ ph.from = from /\ ph.to = to
  BY PhaseFields
<1> HIDE DEF ph
<1>3. Provides(ph) \subseteq Parts(to)
  BY <1>1, <1>2, Provided
<1>4. Erases(ph) \cap Parts(to) = {}
  BY <1>2, Targeted
<1>5. QED BY <1>3, <1>4 DEF Neat, ph

\* The elements of a concatenation, by their places.
LEMMA JoinsAt ==
  ASSUME NEW S, NEW A \in Seq(S), NEW B \in Seq(S), NEW q, Joins(q, A, B)
  PROVE  /\ Len(A) \in Nat /\ Len(B) \in Nat /\ Len(q) = Len(A) + Len(B)
         /\ DOMAIN A = 1 .. Len(A) /\ DOMAIN B = 1 .. Len(B) /\ DOMAIN q = 1 .. Len(A) + Len(B)
         /\ \A i \in DOMAIN q : i <= Len(A) => q[i] = A[i]
         /\ \A i \in DOMAIN q : i > Len(A) => q[i] = B[i - Len(A)]
<1>1. q = A \o B
  BY DEF Joins, Cat
<1>2. /\ q \in Seq(S) /\ Len(q) = Len(A) + Len(B)
      /\ \A i \in 1 .. Len(q) : q[i] = IF i <= Len(A) THEN A[i] ELSE B[i - Len(A)]
  BY <1>1, ConcatProperties
<1>3. /\ DOMAIN A = 1 .. Len(A) /\ DOMAIN B = 1 .. Len(B) /\ DOMAIN q = 1 .. Len(q)
      /\ Len(A) \in Nat /\ Len(B) \in Nat
  BY <1>2, LenProperties
<1>4. QED BY <1>2, <1>3

\* Soundness of a concatenation, from its parts.
LEMMA SoundJoin ==
  ASSUME NEW A \in Seq(Phases), NEW B \in Seq(Phases), NEW q, Joins(q, A, B),
         NEW T, NEW b, NEW s, Sound(B, T, b, s), Sound(A, T, b \cup Brought(B), s \cup Shed(B))
  PROVE  Sound(q, T, b, s)
<1> DEFINE n == Len(A)
<1>1. /\ n \in Nat /\ Len(B) \in Nat /\ DOMAIN A = 1 .. n /\ DOMAIN B = 1 .. Len(B)
      /\ DOMAIN q = 1 .. n + Len(B)
      /\ \A i \in DOMAIN q : i <= n => q[i] = A[i]
      /\ \A i \in DOMAIN q : i > n => q[i] = B[i - n]
  BY JoinsAt
<1> HIDE DEF n
<1>2. \A k \in DOMAIN B : k + n \in DOMAIN q /\ q[k + n] = B[k] /\ k + n > n
  <2> TAKE k \in DOMAIN B
  <2>1. k \in Nat /\ k + n \in DOMAIN q /\ k + n > n /\ (k + n) - n = k
    BY <1>1
  <2>2. QED BY <1>1, <2>1
<1>3. \A k \in DOMAIN A : k \in DOMAIN q /\ q[k] = A[k]
  BY <1>1
<1> SUFFICES ASSUME NEW i \in DOMAIN q
             PROVE  /\ \A x \in Erases(q[i]) \cap Parts(T) :
                         x \in b \/ \E j \in DOMAIN q : j > i /\ x \in Provides(q[j])
                    /\ \A x \in Provides(q[i]) \ Parts(T) :
                         x \in s \/ \E j \in DOMAIN q : j > i /\ x \in Erases(q[j])
  BY DEF Sound
<1>4. CASE i <= n
  <2>1. i \in DOMAIN A /\ q[i] = A[i] /\ i \in Nat
    BY <1>1, <1>4
  <2>2. ASSUME NEW x \in Erases(q[i]) \cap Parts(T)
        PROVE  x \in b \/ \E j \in DOMAIN q : j > i /\ x \in Provides(q[j])
    <3>1. x \in b \cup Brought(B) \/ \E j \in DOMAIN A : j > i /\ x \in Provides(A[j])
      BY <2>1, <2>2 DEF Sound
    <3>2. CASE x \in Brought(B)
      <4>1. PICK k \in DOMAIN B : x \in Provides(B[k])
        BY <3>2 DEF Brought, Range
      <4>2. k + n \in DOMAIN q /\ k + n > i /\ x \in Provides(q[k + n])
        <5>1. k + n > i
          BY <1>1, <1>4, <2>1
        <5>2. QED BY <1>2, <4>1, <5>1
      <4>3. QED BY <4>2
    <3>3. QED BY <1>3, <3>1, <3>2
  <2>3. ASSUME NEW x \in Provides(q[i]) \ Parts(T)
        PROVE  x \in s \/ \E j \in DOMAIN q : j > i /\ x \in Erases(q[j])
    <3>1. x \in s \cup Shed(B) \/ \E j \in DOMAIN A : j > i /\ x \in Erases(A[j])
      BY <2>1, <2>3 DEF Sound
    <3>2. CASE x \in Shed(B)
      <4>1. PICK k \in DOMAIN B : x \in Erases(B[k])
        BY <3>2 DEF Shed, Range
      <4>2. k + n \in DOMAIN q /\ k + n > i /\ x \in Erases(q[k + n])
        <5>1. k + n > i
          BY <1>1, <1>4, <2>1
        <5>2. QED BY <1>2, <4>1, <5>1
      <4>3. QED BY <4>2
    <3>3. QED BY <1>3, <3>1, <3>2
  <2>4. QED BY <2>2, <2>3
<1>5. CASE ~(i <= n)
  <2>1. i - n \in DOMAIN B /\ q[i] = B[i - n] /\ i \in Nat
    BY <1>1, <1>5
  <2>2. \A k \in DOMAIN B : k > i - n => k + n > i
    BY <1>1, <2>1
  <2>3. ASSUME NEW x \in Erases(q[i]) \cap Parts(T)
        PROVE  x \in b \/ \E j \in DOMAIN q : j > i /\ x \in Provides(q[j])
    <3>1. x \in b \/ \E k \in DOMAIN B : k > i - n /\ x \in Provides(B[k])
      BY <2>1, <2>3 DEF Sound
    <3>2. QED BY <1>2, <2>2, <3>1
  <2>4. ASSUME NEW x \in Provides(q[i]) \ Parts(T)
        PROVE  x \in s \/ \E j \in DOMAIN q : j > i /\ x \in Erases(q[j])
    <3>1. x \in s \/ \E k \in DOMAIN B : k > i - n /\ x \in Erases(B[k])
      BY <2>1, <2>4 DEF Sound
    <3>2. QED BY <1>2, <2>2, <3>1
  <2>5. QED BY <2>3, <2>4
<1>6. QED BY <1>4, <1>5

\* Phases that are neat need no repair.
LEMMA AllNeat ==
  ASSUME NEW q, NEW T, \A ph \in Range(q) : Neat(ph, T)
  PROVE  \A b, s : Sound(q, T, b, s)
<1>1. \A i \in DOMAIN q : q[i] \in Range(q)
  BY DEF Range
<1>2. QED BY <1>1 DEF Sound, Neat

\* Soundness of a concatenation whose second part is neat.
LEMMA SoundNeat ==
  ASSUME NEW A \in Seq(Phases), NEW B \in Seq(Phases), NEW q, Joins(q, A, B),
         NEW T, NEW b, NEW s, \A ph \in Range(B) : Neat(ph, T),
         NEW b2, NEW s2, b2 \subseteq b \cup Brought(B), s2 \subseteq s \cup Shed(B),
         Sound(A, T, b2, s2)
  PROVE  Sound(q, T, b, s)
<1>1. Sound(A, T, b \cup Brought(B), s \cup Shed(B))
  BY DEF Sound
<1>2. Sound(B, T, b, s)
  BY AllNeat
<1>3. QED BY <1>1, <1>2, SoundJoin

\* The state file is saved once, in the last phase.
Closing(q, T) ==
  /\ \A i \in DOMAIN q : q[i].do = "save" => i = Len(q) /\ q[i].to = T
  /\ \E i \in DOMAIN q : q[i].do = "save"

\* A call that ends by saving.
LEMMA ClosingJoin ==
  ASSUME NEW A \in Seq(Phases), NEW B \in Seq(Phases), NEW q, Joins(q, A, B), NEW T,
         \A ph \in Range(A) : ph.do # "save"
  PROVE  Len(B) = 2 /\ B[1].do # "save" /\ B[2].do = "save" /\ B[2].to = T => Closing(q, T)
<1> DEFINE n == Len(A)
<1>0. /\ n \in Nat /\ Len(q) = n + Len(B) /\ DOMAIN q = 1 .. n + Len(B) /\ DOMAIN A = 1 .. n
      /\ \A i \in DOMAIN q : i <= n => q[i] = A[i]
      /\ \A i \in DOMAIN q : i > n => q[i] = B[i - n]
  BY JoinsAt
<1> HIDE DEF n
<1> SUFFICES ASSUME Len(B) = 2, B[1].do # "save", B[2].do = "save", B[2].to = T
             PROVE  Closing(q, T)
  OBVIOUS
<1>1. /\ n \in Nat /\ Len(q) = n + 2 /\ DOMAIN q = 1 .. n + 2 /\ DOMAIN A = 1 .. n
      /\ \A i \in DOMAIN q : i <= n => q[i] = A[i]
      /\ \A i \in DOMAIN q : i > n => q[i] = B[i - n]
  BY <1>0
<1>2. q[n + 1] = B[1] /\ q[n + 2] = B[2] /\ n + 2 \in DOMAIN q
  <2>1. n + 1 \in DOMAIN q /\ n + 2 \in DOMAIN q /\ n + 1 > n /\ n + 2 > n
        /\ (n + 1) - n = 1 /\ (n + 2) - n = 2
    BY <1>1
  <2>2. q[n + 1] = B[(n + 1) - n] /\ q[n + 2] = B[(n + 2) - n]
    BY <1>1, <2>1
  <2>3. QED BY <2>1, <2>2
<1>3. ASSUME NEW i \in DOMAIN q, q[i].do = "save" PROVE i = n + 2
  <2>1. i > n
    <3> SUFFICES ASSUME ~(i > n) PROVE FALSE
      OBVIOUS
    <3>1. i <= n /\ i \in DOMAIN A
      BY <1>1
    <3>2. q[i] \in Range(A)
      BY <1>1, <3>1 DEF Range
    <3>3. QED BY <1>3, <3>2
  <2>2. i = n + 1 \/ i = n + 2
    BY <1>1, <2>1
  <2>3. QED BY <1>2, <1>3, <2>2
<1>4. QED BY <1>1, <1>2, <1>3 DEF Closing


\* The old chains stay until the last firewall of a Reconcile.
LEMMA ReconcileStart ==
  ASSUME NEW old \in MConfs, NEW new \in Confs, NEW reset \in BOOLEAN,
         NEW A, A = <<Phase("checks", old, new), Phase("firewall", old, new)>>,
         NEW B, B = IF reset THEN <<Phase("ipvs", old, Nothing), Phase("ipvs", Nothing, new)>>
                             ELSE <<Phase("ipvs", old, new)>>,
         A \in Seq(Phases), B \in Seq(Phases), NEW q, Joins(q, A, B)
  PROVE  Sound(q, new, {}, Erases(Phase("firewall", new, new)))
<1> DEFINE S == Erases(Phase("firewall", new, new))
           check == Phase("checks", old, new)
           union == Phase("firewall", old, new)
<1>1. new \in MConfs /\ Nothing \in MConfs
  BY DEF MConfs
<1>2. Neat(check, new) /\ Neat(Phase("ipvs", old, new), new) /\ Neat(Phase("ipvs", Nothing, new), new)
  BY <1>1, NeatPhase DEF Dos
<1>3. Erases(union) \cap Parts(new) = {}
  BY PhaseFields, Targeted DEF Dos
<1>4. ASSUME NEW x \in Provides(union) \ Parts(new) PROVE x \in S
  <2>1. Provides(union) = Chains(old) \cup Chains(new) \cup {Jump("filter"), Jump("nat")}
    BY PhaseFields DEF Provides
  <2>2. Chains(new) \cup {Jump("filter"), Jump("nat")} \subseteq Parts(new)
    BY PartsSplit
  <2>3. x \in Chains(old) /\ x \notin Chains(new) \cup {Jump("filter"), Jump("nat")}
    BY <1>4, <2>1, <2>2
  <2>4. x \in Tagged({"filter", "nat"})
    BY <2>3, ChainShape, ItemsOf DEF Tagged
  <2>5. S = Tagged({"filter", "nat"}) \ (Chains(new) \cup {Jump("filter"), Jump("nat")})
    BY PhaseFields DEF Erases, Provides
  <2>6. QED BY <2>3, <2>4, <2>5
<1>5. \A b : Sound(A, new, b, S \cup Shed(B))
  <2>1. DOMAIN A = {1, 2} /\ A[1] = check /\ A[2] = union
    OBVIOUS
  <2> HIDE DEF S, check, union
  <2>2. QED BY <1>2, <1>3, <1>4, <2>1 DEF Sound, Neat
<1>6. Sound(B, new, {}, S)
  <2>1. CASE ~reset
    <3>1. Range(B) = {Phase("ipvs", old, new)}
      BY <2>1, RangeShort
    <3>2. QED BY <1>2, <3>1, AllNeat
  <2>2. CASE reset
    <3> DEFINE off == Phase("ipvs", old, Nothing)
               on == Phase("ipvs", Nothing, new)
    <3>1. DOMAIN B = {1, 2} /\ B[1] = off /\ B[2] = on
      BY <2>2
    <3>2. Provides(off) = {}
      <4>1. Provides(off) = Base(Nothing)
        BY PhaseFields DEF Provides
      <4>2. QED BY <4>1, Unconfigured, ReconcilerConstants DEF ReconcilerConstants
    <3>3. ASSUME NEW x \in Erases(off) \cap Parts(new) PROVE x \in Provides(on)
      <4>1. x[1] \in {"svc", "dst"}
        BY <3>3, PhaseFields DEF Erases, Gone, Tagged
      <4>2. x \in Base(new)
        BY <3>3, <4>1, PartTag
      <4>3. QED BY <4>2, PhaseFields DEF Provides
    <3> HIDE DEF off, on, S
    <3>4. QED BY <1>2, <3>1, <3>2, <3>3 DEF Sound, Neat, on
  <2>3. QED BY <2>1, <2>2
<1> HIDE DEF S
<1>7. Sound(q, new, {}, S)
  BY <1>5, <1>6, SoundJoin
<1>8. QED BY <1>7 DEF S
-----------------------------------------------------------------------------
(* The shape of the state                                                  *)

\* Removing the services of c, one by one.
LEMMA WipeMade ==
  ASSUME NEW c \in MConfs
  PROVE  /\ WipeAll(c) \in Seq(Phases)
         /\ \A ph \in Range(WipeAll(c)) :
              /\ ph.do = "wipe" /\ ph.from = c /\ ph.to = Nothing
              /\ \E s \in Services(c) : ph.left = {s}
         /\ \A s \in Services(c) : \E ph \in Range(WipeAll(c)) : ph.left = {s}
<1> DEFINE q == SetToSeq(Services(c))
           w == [i \in DOMAIN q |-> [Phase("wipe", c, Nothing) EXCEPT !.left = {q[i]}]]
<1>1. q \in Seq(Services(c)) /\ Range(q) = Services(c)
  BY Configured, Listed
<1>2. WipeAll(c) = w
  BY DEF WipeAll
<1>3. \A i \in DOMAIN q : q[i] \in Services(c) /\ q[i] \in AllServices
  BY <1>1, ServicesOf DEF Range
<1>4. \A i \in DOMAIN q : /\ w[i].do = "wipe" /\ w[i].from = c /\ w[i].to = Nothing
                          /\ w[i].left = {q[i]}
  BY DEF Phase
<1>5. ASSUME NEW i \in DOMAIN q PROVE w[i] \in Phases
  <2>1. w[i] \in [do: Dos, from: MConfs, to: MConfs, left: SUBSET AllServices]
    BY <1>3 DEF Phase, Dos, MConfs
  <2>2. PhaseOK(w[i])
    BY <1>3, <1>4 DEF PhaseOK
  <2>3. QED BY <2>1, <2>2 DEF Phases
<1>6. DOMAIN q = 1 .. Len(q) /\ Len(q) \in Nat
  BY <1>1, LenProperties
<1>7. w \in Seq(Phases) /\ DOMAIN w = DOMAIN q
  <2>1. w \in [1 .. Len(q) -> Phases]
    BY <1>5, <1>6
  <2>2. DOMAIN w = DOMAIN q
    OBVIOUS
  <2> HIDE DEF w, q
  <2>3. QED BY <1>6, <2>1, <2>2, FunctionSeq
<1> HIDE DEF w, q
<1>8. \A ph \in Range(w) : \E i \in DOMAIN q : ph = w[i]
  BY <1>7 DEF Range
<1>9. \A s \in Services(c) : \E i \in DOMAIN q : q[i] = s /\ w[i] \in Range(w)
  BY <1>1, <1>7 DEF Range
<1>10. QED BY <1>2, <1>3, <1>4, <1>7, <1>8, <1>9

\* A phase that runs on a condition.
LEMMA WhenOne ==
  ASSUME NEW p, NEW ph, p => ph \in Phases, p \in BOOLEAN
  PROVE  /\ When(p, <<ph>>) \in Seq(Phases)
         /\ Range(When(p, <<ph>>)) = IF p THEN {ph} ELSE {}
BY RangeShort, ShortSeq DEF When

\* The phases of a Reconcile.
LEMMA ReconcileMade ==
  ASSUME NEW old \in MConfs, NEW new \in Confs, NEW reset \in BOOLEAN
  PROVE  LET q == ReconcilePhases(old, new, reset) IN
         /\ q \in Seq(Phases)
         /\ Range(q) =
              {Phase("checks", old, new), Phase("firewall", old, new)}
                \cup (IF reset THEN {Phase("ipvs", old, Nothing), Phase("ipvs", Nothing, new)}
                              ELSE {Phase("ipvs", old, new)})
                \cup (IF HasTCP(old) \/ HasTCP(new) THEN {Phase("haproxy", old, new)} ELSE {})
                \cup {Phase("firewall", new, new)}
                \cup (IF Of(new).hidden THEN {Phase("input", old, new)} ELSE {})
                \cup (IF Of(old).hidden /\ ~Of(new).hidden THEN {Phase("noinput", old, new)} ELSE {})
                \cup {Phase("rates", old, new), Phase("save", old, new)}
         /\ Closing(q, new) /\ Sound(q, new, {}, {})
<1> DEFINE a == <<Phase("checks", old, new), Phase("firewall", old, new)>>
           b == IF reset THEN <<Phase("ipvs", old, Nothing), Phase("ipvs", Nothing, new)>>
                         ELSE <<Phase("ipvs", old, new)>>
           ph1 == Phase("haproxy", old, new)
           c == When(HasTCP(old) \/ HasTCP(new), <<ph1>>)
           d == <<Phase("firewall", new, new)>>
           ph2 == Phase("input", old, new)
           e == When(Of(new).hidden, <<ph2>>)
           ph3 == Phase("noinput", old, new)
           f == When(Of(old).hidden /\ ~Of(new).hidden, <<ph3>>)
           g == <<Phase("rates", old, new), Phase("save", old, new)>>
           q1 == a \o b
           q2 == q1 \o c
           q3 == q2 \o d
           q4 == q3 \o e
           q5 == q4 \o f
           q == ReconcilePhases(old, new, reset)
<1>1. new \in MConfs /\ Nothing \in MConfs /\ Confs # {}
  BY DEF MConfs
<1>2. /\ Phase("checks", old, new) \in Phases /\ Phase("firewall", old, new) \in Phases
      /\ Phase("firewall", new, new) \in Phases
      /\ Phase("ipvs", old, Nothing) \in Phases /\ Phase("ipvs", Nothing, new) \in Phases
      /\ Phase("ipvs", old, new) \in Phases /\ ph1 \in Phases /\ ph3 \in Phases
      /\ Phase("rates", old, new) \in Phases /\ Phase("save", old, new) \in Phases
      /\ Of(new).hidden => ph2 \in Phases
  BY <1>1, PhaseIn DEF Dos
<1>3. a \in Seq(Phases) /\ Range(a) = {Phase("checks", old, new), Phase("firewall", old, new)}
  BY <1>2, RangeShort, ShortSeq
<1>4. /\ b \in Seq(Phases)
      /\ Range(b) = IF reset THEN {Phase("ipvs", old, Nothing), Phase("ipvs", Nothing, new)}
                             ELSE {Phase("ipvs", old, new)}
  BY <1>2, RangeShort, ShortSeq
<1>5. c \in Seq(Phases) /\ Range(c) = IF HasTCP(old) \/ HasTCP(new) THEN {ph1} ELSE {}
  <2>1. HasTCP(old) \/ HasTCP(new) \in BOOLEAN
    BY DEF HasTCP
  <2> HIDE DEF ph1
  <2>2. QED BY <1>2, <2>1, WhenOne
<1>6. d \in Seq(Phases) /\ Range(d) = {Phase("firewall", new, new)}
  BY <1>2, RangeShort, ShortSeq
<1>7. /\ e \in Seq(Phases) /\ Range(e) = IF Of(new).hidden THEN {ph2} ELSE {}
      /\ f \in Seq(Phases)
      /\ Range(f) = IF Of(old).hidden /\ ~Of(new).hidden THEN {ph3} ELSE {}
  <2>1. Of(new).hidden \in BOOLEAN /\ (Of(old).hidden /\ ~Of(new).hidden) \in BOOLEAN
    BY Configured
  <2> HIDE DEF ph2, ph3
  <2>2. QED BY <1>2, <2>1, WhenOne
<1>8. g \in Seq(Phases) /\ Range(g) = {Phase("rates", old, new), Phase("save", old, new)}
  BY <1>2, RangeShort, ShortSeq
<1>9. /\ Joins(q1, a, b) /\ Joins(q2, q1, c) /\ Joins(q3, q2, d) /\ Joins(q4, q3, e)
      /\ Joins(q5, q4, f) /\ Joins(q, q5, g)
  BY DEF Joins, Cat, ReconcilePhases
<1>18. Sound(q1, new, {}, Shed(d))
  <2>1. Shed(d) = Erases(Phase("firewall", new, new))
    BY <1>6 DEF Shed
  <2> DEFINE aa == a
             bb == b
             qq == q1
  <2>2. /\ aa = <<Phase("checks", old, new), Phase("firewall", old, new)>>
        /\ bb = IF reset THEN <<Phase("ipvs", old, Nothing), Phase("ipvs", Nothing, new)>>
                         ELSE <<Phase("ipvs", old, new)>>
        /\ aa \in Seq(Phases) /\ bb \in Seq(Phases) /\ Joins(qq, aa, bb)
    BY <1>3, <1>4, <1>9
  <2> HIDE DEF aa, bb, qq
  <2>3. Sound(qq, new, {}, Erases(Phase("firewall", new, new)))
    BY <2>2, ReconcileStart
  <2>4. QED BY <2>1, <2>3 DEF qq
<1>19. /\ Neat(ph1, new) /\ Neat(Phase("firewall", new, new), new)
       /\ Of(new).hidden => Neat(ph2, new)
       /\ ~Of(new).hidden => Neat(ph3, new)
       /\ Neat(Phase("rates", old, new), new) /\ Neat(Phase("save", old, new), new)
  BY <1>1, NeatPhase DEF Dos
<1>20. /\ \A ph \in Range(c) \cup Range(d) \cup Range(e) \cup Range(f) \cup Range(g) : Neat(ph, new)
       /\ \A ph \in Range(a) \cup Range(b) \cup Range(c) \cup Range(d) \cup Range(e) \cup Range(f) :
            ph.do # "save"
  <2>1. /\ ph1.do # "save" /\ ph2.do # "save" /\ ph3.do # "save"
        /\ \A do, from, to : do # "save" => Phase(do, from, to).do # "save"
    BY PhaseFields
  <2> HIDE DEF ph1, ph2, ph3, a, b, c, d, e, f, g
  <2>2. QED BY <1>3, <1>4, <1>5, <1>6, <1>7, <1>8, <1>19, <2>1
<1>21. Len(g) = 2 /\ g[1].do # "save" /\ g[2].do = "save" /\ g[2].to = new
  BY PhaseFields
<1> HIDE DEF a, b, c, d, e, f, g, q, q1, q2, q3, q4, q5
<1>10. q1 \in Seq(Phases) /\ Range(q1) = Range(a) \cup Range(b)
  BY <1>3, <1>4, <1>9, JoinsSeq
<1>11. q2 \in Seq(Phases) /\ Range(q2) = Range(q1) \cup Range(c)
  BY <1>5, <1>10, <1>9, JoinsSeq
<1>12. q3 \in Seq(Phases) /\ Range(q3) = Range(q2) \cup Range(d)
  BY <1>6, <1>11, <1>9, JoinsSeq
<1>13. q4 \in Seq(Phases) /\ Range(q4) = Range(q3) \cup Range(e)
  BY <1>7, <1>12, <1>9, JoinsSeq
<1>14. q5 \in Seq(Phases) /\ Range(q5) = Range(q4) \cup Range(f)
  BY <1>7, <1>13, <1>9, JoinsSeq
<1>15. q \in Seq(Phases) /\ Range(q) = Range(q5) \cup Range(g)
  BY <1>8, <1>14, <1>9, JoinsSeq
<1>16. Range(q) = Range(a) \cup Range(b) \cup Range(c) \cup Range(d) \cup Range(e)
                    \cup Range(f) \cup Range(g)
  BY <1>10, <1>11, <1>12, <1>13, <1>14, <1>15
<1>22. Closing(q, new)
  <2>1. \A ph \in Range(q5) : ph.do # "save"
    BY <1>10, <1>11, <1>12, <1>13, <1>14, <1>20
  <2>2. QED BY <1>8, <1>9, <1>14, <1>21, <2>1, ClosingJoin
<1>23. Sound(q, new, {}, {})
  <2> DEFINE S == Shed(d)
  <2>1. S \subseteq {} \cup Shed(d) /\ S \subseteq S \cup Shed(c) /\ \A X : {} \subseteq {} \cup X
    OBVIOUS
  <2> HIDE DEF S
  <2>2. Sound(q2, new, {}, S)
    BY <1>5, <1>9, <1>10, <1>18, <1>20, <2>1, SoundNeat DEF S
  <2>3. Sound(q3, new, {}, {})
    BY <1>6, <1>9, <1>11, <1>20, <2>1, <2>2, SoundNeat
  <2>4. Sound(q4, new, {}, {})
    BY <1>7, <1>9, <1>12, <1>20, <2>1, <2>3, SoundNeat
  <2>5. Sound(q5, new, {}, {})
    BY <1>7, <1>9, <1>13, <1>20, <2>1, <2>4, SoundNeat
  <2>6. QED BY <1>8, <1>9, <1>14, <1>20, <2>1, <2>5, SoundNeat
<1>17. QED BY <1>15, <1>16, <1>3, <1>4, <1>5, <1>6, <1>7, <1>8, <1>22, <1>23, Zenon DEF q, ph1, ph2, ph3

\* The phases of a Restore.
LEMMA RestoreMade ==
  ASSUME NEW c \in MConfs
  PROVE  LET q == RestorePhases(c) IN
         /\ q \in Seq(Phases)
         /\ Range(q) =
              IF ~HasServices(c) THEN {}
              ELSE {Phase("checks", c, Nothing), Phase("firewall", c, c), Phase("ipvs", c, c)}
                     \cup (IF HasTCP(c) THEN {Phase("haproxy", c, c)} ELSE {})
                     \cup (IF Of(c).hidden THEN {Phase("input", c, c)} ELSE {})
                     \cup {Phase("rates", c, c), Phase("save", c, c)}
         /\ HasServices(c) => Closing(q, c)
         /\ ~HasServices(c) => q = <<>>
         /\ c = Nothing => ~HasServices(c)
         /\ Sound(q, c, {}, {})
<1>0. c = Nothing => ~HasServices(c)
  BY Unconfigured, ReconcilerConstants DEF ReconcilerConstants, HasServices
<1>1. CASE ~HasServices(c)
  <2>1. RestorePhases(c) = <<>>
    BY <1>1 DEF RestorePhases, When
  <2>2. Range(<<>>) = {} /\ <<>> \in Seq(Phases)
    BY RangeShort, ShortSeq
  <2>3. Sound(<<>>, c, {}, {})
    BY <2>2, AllNeat
  <2>4. QED BY <1>0, <1>1, <2>1, <2>2, <2>3
<1>2. CASE HasServices(c)
  <2> DEFINE a == <<Phase("checks", c, Nothing), Phase("firewall", c, c), Phase("ipvs", c, c)>>
             ph1 == Phase("haproxy", c, c)
             b == When(HasTCP(c), <<ph1>>)
             ph2 == Phase("input", c, c)
             d == When(Of(c).hidden, <<ph2>>)
             e == <<Phase("rates", c, c), Phase("save", c, c)>>
             q1 == a \o b
             q2 == q1 \o d
             q == RestorePhases(c)
  <2>1. Nothing \in MConfs /\ Confs # {}
    BY <1>0, <1>2 DEF MConfs
  <2>2. /\ Phase("checks", c, Nothing) \in Phases /\ Phase("firewall", c, c) \in Phases
        /\ Phase("ipvs", c, c) \in Phases /\ ph1 \in Phases
        /\ Phase("rates", c, c) \in Phases /\ Phase("save", c, c) \in Phases
        /\ Of(c).hidden => ph2 \in Phases
    BY <2>1, PhaseIn DEF Dos
  <2>3. /\ a \in Seq(Phases)
        /\ Range(a) = {Phase("checks", c, Nothing), Phase("firewall", c, c), Phase("ipvs", c, c)}
        /\ e \in Seq(Phases) /\ Range(e) = {Phase("rates", c, c), Phase("save", c, c)}
    <3>1. \A x, y, z \in Phases : <<x, y, z>> \in Seq(Phases) /\ <<x, y>> \in Seq(Phases)
      OBVIOUS
    <3>2. \A x, y, z : Range(<<x, y, z>>) = {x, y, z} /\ Range(<<x, y>>) = {x, y}
      BY DEF Range
    <3>3. a \in Seq(Phases) /\ e \in Seq(Phases)
      BY <2>2, <3>1
    <3>4. QED BY <3>2, <3>3, Zenon
  <2>4. /\ b \in Seq(Phases) /\ Range(b) = (IF HasTCP(c) THEN {ph1} ELSE {})
        /\ d \in Seq(Phases) /\ Range(d) = (IF Of(c).hidden THEN {ph2} ELSE {})
    <3>1. HasTCP(c) \in BOOLEAN /\ Of(c).hidden \in BOOLEAN
      BY Configured DEF HasTCP
    <3> HIDE DEF ph1, ph2
    <3>2. QED BY <2>2, <3>1, WhenOne
  <2>5. Joins(q1, a, b) /\ Joins(q2, q1, d) /\ Joins(q, q2, e)
    BY <1>2 DEF Joins, Cat, RestorePhases, When
  <2> HIDE DEF a, b, d, e, q1, q2, q
  <2>6. q1 \in Seq(Phases) /\ Range(q1) = Range(a) \cup Range(b)
    BY <2>3, <2>4, <2>5, JoinsSeq
  <2>7. q2 \in Seq(Phases) /\ Range(q2) = Range(q1) \cup Range(d)
    BY <2>4, <2>5, <2>6, JoinsSeq
  <2>8. q \in Seq(Phases) /\ Range(q) = Range(q2) \cup Range(e)
    BY <2>3, <2>5, <2>7, JoinsSeq
  <2>9. Range(q) = Range(a) \cup Range(b) \cup Range(d) \cup Range(e)
    BY <2>6, <2>7, <2>8
  <2>10. c \in Confs
    BY <1>0, <1>2 DEF MConfs
  <2>11. /\ Neat(Phase("checks", c, Nothing), c) /\ Neat(Phase("firewall", c, c), c)
         /\ Neat(Phase("ipvs", c, c), c) /\ Neat(ph1, c) /\ (Of(c).hidden => Neat(ph2, c))
         /\ Neat(Phase("rates", c, c), c) /\ Neat(Phase("save", c, c), c)
    <3>1. Neat(Phase("checks", c, Nothing), c)
      BY PhaseFields DEF Neat, Provides, Erases
    <3>2. QED BY <2>10, <3>1, NeatPhase DEF Dos, ph1, ph2
  <2>12. \A ph \in Range(q) : Neat(ph, c)
    BY <2>3, <2>4, <2>9, <2>11
  <2>13. Sound(q, c, {}, {})
    BY <2>12, AllNeat
  <2>14. Closing(q, c)
    <3>1. \A ph \in Range(q2) : ph.do # "save"
      <4>1. /\ ph1.do # "save" /\ ph2.do # "save"
            /\ \A do, from, to : do # "save" => Phase(do, from, to).do # "save"
        BY PhaseFields DEF ph1, ph2
      <4>2. QED BY <2>3, <2>4, <2>6, <2>7, <4>1
    <3>2. Len(e) = 2 /\ e[1].do # "save" /\ e[2].do = "save" /\ e[2].to = c
      BY PhaseFields DEF e
    <3>3. QED BY <2>3, <2>5, <2>7, <3>1, <3>2, ClosingJoin
  <2>15. Range(q) = {Phase("checks", c, Nothing), Phase("firewall", c, c), Phase("ipvs", c, c)}
                     \cup (IF HasTCP(c) THEN {ph1} ELSE {})
                     \cup (IF Of(c).hidden THEN {ph2} ELSE {})
                     \cup {Phase("rates", c, c), Phase("save", c, c)}
    BY <2>3, <2>4, <2>9, Zenon
  <2>16. QED BY <1>0, <1>2, <2>8, <2>13, <2>14, <2>15 DEF q, ph1, ph2
<1>3. QED BY <1>1, <1>2

\* The phases of a Decommission.
LEMMA DecommissionMade ==
  ASSUME NEW c \in MConfs
  PROVE  LET q == DecommissionPhases(c) IN
         /\ q \in Seq(Phases)
         /\ Range(q) = Range(WipeAll(c))
              \cup (IF HasTCP(c) THEN {Phase("haproxy", c, Nothing)} ELSE {})
              \cup {Phase("unchain", c, Nothing)}
              \cup (IF Of(c).hidden THEN {Phase("noinput", c, Nothing)} ELSE {})
              \cup {Phase("rates", c, Nothing), Phase("save", c, Nothing)}
         /\ Closing(q, Nothing) /\ Sound(q, Nothing, {}, {})
         /\ \A ph \in Range(q) : Provides(ph) = {}
<1> DEFINE a == WipeAll(c)
           ph1 == Phase("haproxy", c, Nothing)
           b == When(HasTCP(c), <<ph1>>)
           d == <<Phase("unchain", c, Nothing)>>
           ph2 == Phase("noinput", c, Nothing)
           e == When(Of(c).hidden, <<ph2>>)
           f == <<Phase("rates", c, Nothing), Phase("save", c, Nothing)>>
           q1 == a \o b
           q2 == q1 \o d
           q3 == q2 \o e
           q == DecommissionPhases(c)
<1>1. /\ Phase("unchain", c, Nothing) \in Phases /\ ph1 \in Phases /\ ph2 \in Phases
      /\ Phase("rates", c, Nothing) \in Phases /\ Phase("save", c, Nothing) \in Phases
  BY PhaseIn DEF Dos, MConfs
<1>2. /\ d \in Seq(Phases) /\ Range(d) = {Phase("unchain", c, Nothing)}
      /\ f \in Seq(Phases) /\ Range(f) = {Phase("rates", c, Nothing), Phase("save", c, Nothing)}
  BY <1>1, RangeShort, ShortSeq
<1>3. /\ b \in Seq(Phases) /\ Range(b) = (IF HasTCP(c) THEN {ph1} ELSE {})
      /\ e \in Seq(Phases) /\ Range(e) = (IF Of(c).hidden THEN {ph2} ELSE {})
  <2>1. HasTCP(c) \in BOOLEAN /\ Of(c).hidden \in BOOLEAN
    BY Configured DEF HasTCP
  <2> HIDE DEF ph1, ph2
  <2>2. QED BY <1>1, <2>1, WhenOne
<1>4. a \in Seq(Phases)
  BY WipeMade
<1>5. Joins(q1, a, b) /\ Joins(q2, q1, d) /\ Joins(q3, q2, e) /\ Joins(q, q3, f)
  BY DEF Joins, Cat, DecommissionPhases
<1> HIDE DEF a, b, d, e, f, q1, q2, q3, q
<1>6. q1 \in Seq(Phases) /\ Range(q1) = Range(a) \cup Range(b)
  BY <1>3, <1>4, <1>5, JoinsSeq
<1>7. q2 \in Seq(Phases) /\ Range(q2) = Range(q1) \cup Range(d)
  BY <1>2, <1>5, <1>6, JoinsSeq
<1>8. q3 \in Seq(Phases) /\ Range(q3) = Range(q2) \cup Range(e)
  BY <1>3, <1>5, <1>7, JoinsSeq
<1>9. q \in Seq(Phases) /\ Range(q) = Range(q3) \cup Range(f)
  BY <1>2, <1>5, <1>8, JoinsSeq
<1>10. Range(q) = Range(a) \cup Range(b) \cup Range(d) \cup Range(e) \cup Range(f)
  BY <1>6, <1>7, <1>8, <1>9
<1>11. \A ph \in Range(q) : Provides(ph) = {}
  <2>1. \A ph \in Range(a) : Provides(ph) = {}
    BY WipeMade DEF a, Provides
  <2>2. /\ Provides(Phase("unchain", c, Nothing)) = {} /\ Provides(Phase("save", c, Nothing)) = {}
        /\ Provides(ph2) = {}
    BY PhaseFields DEF Provides, ph2
  <2>3. Nothing \notin Confs
    BY ReconcilerConstants DEF ReconcilerConstants
  <2>4. Provides(ph1) = {} /\ Provides(Phase("rates", c, Nothing)) = {}
    BY <2>3, PhaseFields, Unconfigured DEF Provides, ph1
  <2>5. QED BY <1>2, <1>3, <1>10, <2>1, <2>2, <2>4
<1>12. Sound(q, Nothing, {}, {})
  <2>1. Parts(Nothing) = {}
    BY Unconfigured, ReconcilerConstants DEF ReconcilerConstants
  <2>2. \A ph \in Range(q) : Neat(ph, Nothing)
    BY <1>11, <2>1 DEF Neat
  <2>3. QED BY <2>2, AllNeat
<1>13. Closing(q, Nothing)
  <2>1. \A ph \in Range(q3) : ph.do # "save"
    <3>1. \A do, from, to : do # "save" => Phase(do, from, to).do # "save"
      BY PhaseFields
    <3>2. \A ph \in Range(a) : ph.do # "save"
      BY WipeMade DEF a
    <3>3. ph1.do # "save" /\ ph2.do # "save"
      BY PhaseFields DEF ph1, ph2
    <3>4. QED BY <1>2, <1>3, <1>6, <1>7, <1>8, <3>1, <3>2, <3>3
  <2>2. Len(f) = 2 /\ f[1].do # "save" /\ f[2].do = "save" /\ f[2].to = Nothing
    BY PhaseFields DEF f
  <2>3. QED BY <1>2, <1>5, <1>8, <2>1, <2>2, ClosingJoin
<1>14. QED BY <1>2, <1>3, <1>9, <1>10, <1>11, <1>12, <1>13, Zenon DEF q, a, ph1, ph2

\* Only a failed Reconcile has something to roll back; nothing is saved.
LEMMA RollbackMade ==
  ASSUME ShapeInv, NEW ph \in Phases
  PROVE  /\ Rollback(ph) \in Seq(Phases)
         /\ call.op # "reconcile" => Rollback(ph) = <<>>
         /\ \A x \in Range(Rollback(ph)) : x.do # "save"
<1>1. call.old \in MConfs /\ call.new \in MConfs /\ Nothing \in MConfs
      /\ (call.op = "reconcile" => Confs # {})
  BY DEF ShapeInv, MConfs
<1>2. call.op # "reconcile" => Rollback(ph) = <<>>
  BY DEF Rollback
<1>3. CASE call.op # "reconcile"
  BY <1>2, <1>3, RangeShort, ShortSeq
<1>4. CASE call.op = "reconcile"
  <2> DEFINE old == call.old
             new == call.new
             services == <<Phase("ipvs", new, old), Phase("firewall", old, old)>>
             again == <<Phase("ipvs", old, old), Phase("firewall", old, old)>>
             Fine(q) == q \in Seq(Phases) /\ \A x \in Range(q) : x.do # "save"
  <2>1. \A from, to \in MConfs, do \in Dos \ {"save", "input", "wipe"} :
          Phase(do, from, to) \in Phases /\ Phase(do, from, to).do # "save"
    BY <1>1, <1>4, PhaseIn, PhaseFields
  <2>2. /\ Fine(<<>>) /\ (\A x \in Phases : x.do # "save" => Fine(<<x>>))
        /\ \A x, y \in Phases : x.do # "save" /\ y.do # "save" => Fine(<<x, y>>)
    BY RangeShort, ShortSeq
  <2>3. Fine(services) /\ Fine(again)
    BY <1>1, <2>1, <2>2 DEF Dos
  <2>4. ASSUME NEW A, NEW B, Fine(A), Fine(B) PROVE Fine(A \o B)
    <3>1. Joins(A \o B, A, B)
      BY DEF Joins, Cat
    <3>2. QED BY <2>4, <3>1, JoinsSeq
  <2>5. Fine(When(ph.to # Nothing, WipeAll(new)))
    <3>1. Fine(WipeAll(new))
      BY <1>1, WipeMade
    <3>2. QED BY <2>2, <3>1 DEF When
  <2>6. Fine(<<Phase("haproxy", new, old)>>)
    BY <1>1, <2>1, <2>2 DEF Dos
  <2>7. Fine(<<Phase(IF Of(old).hidden THEN "input" ELSE "noinput", new, old),
              Phase("haproxy", new, old)>>)
    <3>1. Phase("haproxy", new, old) \in Phases /\ Phase("haproxy", new, old).do # "save"
      BY <1>1, <2>1 DEF Dos
    <3>2. ASSUME NEW x, x = Phase(IF Of(old).hidden THEN "input" ELSE "noinput", new, old)
          PROVE  x \in Phases /\ x.do # "save"
      <4>1. CASE Of(old).hidden
        BY <1>1, <4>1, <3>2, PhaseIn, PhaseFields DEF Dos
      <4>2. CASE ~Of(old).hidden
        BY <1>1, <4>2, <3>2, <2>1 DEF Dos
      <4>3. QED BY <4>1, <4>2
    <3>3. QED BY <2>2, <3>1, <3>2
  <2>8. Fine(<<Phase("rates", IF Head(plan) = Look THEN Nothing ELSE new, old)>>)
    <3>1. (IF Head(plan) = Look THEN Nothing ELSE new) \in MConfs
      BY <1>1
    <3>2. QED BY <1>1, <2>1, <2>2, <3>1 DEF Dos
  <2>9. \/ Rollback(ph) = services \/ Rollback(ph) = <<>>
        \/ Rollback(ph) = When(ph.to # Nothing, WipeAll(new)) \o again
        \/ Rollback(ph) = <<Phase("haproxy", new, old)>> \o services
        \/ Rollback(ph) = <<Phase(IF Of(old).hidden THEN "input" ELSE "noinput", new, old),
                            Phase("haproxy", new, old)>> \o services
        \/ Rollback(ph) =
             <<Phase("rates", IF Head(plan) = Look THEN Nothing ELSE new, old)>> \o services
    BY <1>4 DEF Rollback
  <2> HIDE DEF Fine
  <2>10. Fine(Rollback(ph))
    BY <2>2, <2>3, <2>4, <2>5, <2>6, <2>7, <2>8, <2>9
  <2>11. QED BY <1>4, <2>10 DEF Fine
<1>5. QED BY <1>3, <1>4

\* A service's turn.
LEMMA TurnIs ==
  ASSUME NEW ph, NEW s \in Turn(ph)
  PROVE  s \in ph.left
BY DEF Turn

\* The plan of one service, and the phase without it.
LEMMA ServiceFacts ==
  ASSUME ShapeInv, NEW s \in phase.left
  PROVE  LET ph == [phase EXCEPT !.left = @ \ {s}]
             q == ServicePlan(phase, s)
         IN
         /\ ph \in Phases /\ ph.do = phase.do /\ ph.from = phase.from /\ ph.to = phase.to
         /\ ph.left = phase.left \ {s}
         /\ Provides(ph) = Provides(phase) /\ phase.do \in {"ipvs", "wipe"}
         /\ Sane(q, ph)
         /\ phase.do = "ipvs" =>
              /\ Erases(ph) = Erases(phase)
              /\ \A x \in Provides(ph) : x[2] = s => x \in Added(q)
              /\ \A x \in Erases(ph) \cap present : x[2] = s => x \in Dropped(q)
         /\ phase.do = "wipe" => Under(s) \subseteq Dropped(q) /\ Provides(ph) = {}
<1> DEFINE ph == [phase EXCEPT !.left = @ \ {s}]
           q == ServicePlan(phase, s)
<1>1. /\ phase \in [do: Dos, from: MConfs, to: MConfs, left: SUBSET AllServices]
      /\ PhaseOK(phase) /\ present \subseteq Foreign \cup Items
  BY DEF ShapeInv, Phases
<1>2. /\ ph.do = phase.do /\ ph.from = phase.from /\ ph.to = phase.to
      /\ ph.left = phase.left \ {s}
      /\ ph \in [do: Dos, from: MConfs, to: MConfs, left: SUBSET AllServices]
  BY <1>1
<1>3. PhaseOK(ph)
  <2> HIDE DEF ph
  <2>1. QED BY <1>1, <1>2 DEF PhaseOK
<1>4. ph \in Phases
  BY <1>2, <1>3 DEF Phases
<1> HIDE DEF ph
<1>5. phase.do \in {"ipvs", "wipe"}
  BY <1>1 DEF PhaseOK
<1>6. CASE phase.do = "ipvs"
  <2>1. Provides(ph) = Provides(phase) /\ Erases(ph) = Erases(phase)
    BY <1>2, <1>6 DEF Provides, Erases
  <2>2. s \in Services(phase.from) \cup Services(phase.to)
    BY <1>1, <1>6 DEF PhaseOK
  <2>3. CASE s \in Services(phase.to)
    <3>1. q = Service(ph.from, ph.to, s)
      BY <1>2, <1>6, <2>3 DEF ServicePlan
    <3>2. ph.do = "ipvs" /\ ph.from \in MConfs /\ ph.to \in MConfs /\ s \in Services(ph.to)
      BY <1>1, <1>2, <1>6, <2>3
    <3> HIDE DEF q
    <3>3. /\ Sane(q, ph)
          /\ \A x \in Provides(ph) : x[2] = s => x \in Added(q)
          /\ \A x \in Erases(ph) \cap present : x[2] = s => x \in Dropped(q)
      BY <1>1, <3>1, <3>2, PlanService
    <3>4. QED BY <1>2, <1>4, <1>6, <2>1, <3>3 DEF q, ph
  <2>4. CASE s \notin Services(phase.to)
    <3>1. q = <<Delete(Svc(s))>>
      BY <1>6, <2>4 DEF ServicePlan
    <3>2. ph.do = "ipvs" /\ s \in Services(ph.from) \ Services(ph.to)
      BY <1>2, <1>6, <2>2, <2>4
    <3> HIDE DEF q
    <3>3. /\ Sane(q, ph)
          /\ \A x \in Provides(ph) : x[2] = s => x \in Added(q)
          /\ \A x \in Erases(ph) \cap present : x[2] = s => x \in Dropped(q)
      BY <1>1, <3>1, <3>2, PlanGone
    <3>4. QED BY <1>2, <1>4, <1>6, <2>1, <3>3 DEF q, ph
  <2>5. QED BY <2>3, <2>4
<1>7. CASE phase.do = "wipe"
  <2>1. Provides(ph) = {} /\ Provides(phase) = {}
    BY <1>2, <1>7 DEF Provides
  <2>2. s \in Services(ph.from) /\ phase.to = Nothing
    BY <1>1, <1>2, <1>7 DEF PhaseOK
  <2>3. q = <<Purge(Svc(s))>>
    <3>1. s \notin Services(phase.to)
      BY <2>2, Unconfigured, ReconcilerConstants DEF ReconcilerConstants
    <3>2. QED BY <1>7, <3>1 DEF ServicePlan
  <2> HIDE DEF q
  <2>4. Sane(q, ph) /\ Under(s) \subseteq Dropped(q)
    BY <1>1, <1>2, <1>7, <2>2, <2>3, PlanWipe
  <2>5. QED BY <1>2, <1>4, <1>7, <2>1, <2>4 DEF q, ph
<1>8. QED BY <1>5, <1>6, <1>7

\* Between calls no phase runs.
LEMMA NoPhaseFields ==
  /\ NoPhase \in Phases /\ NoPhase.do = "none" /\ NoPhase.left = {}
  /\ Provides(NoPhase) = {} /\ Erases(NoPhase) = {}
<1>1. NoPhase.do = "none" /\ NoPhase.left = {}
  BY PhaseFields DEF NoPhase
<1>2. NoPhase \in Phases
  BY PhaseIn DEF NoPhase, Dos, MConfs
<1>3. QED BY <1>1, <1>2 DEF Provides, Erases

\* The shape holds at first.
LEMMA ShapeInit == Init => ShapeInv
<1> SUFFICES ASSUME Init PROVE ShapeInv
  OBVIOUS
<1>1. saved \in MConfs /\ goal \in MConfs /\ cfgFile \in Files /\ present \subseteq Foreign \cup Items
  BY DEF Init, MConfs, Files
<1>2. /\ up \in BOOLEAN /\ undoing \in BOOLEAN
      /\ count \in [calls: 0 .. MaxCalls, faults: 0 .. MaxFaults, crashes: 0 .. MaxCrashes]
  <2>1. MaxCalls \in Nat /\ MaxFaults \in Nat /\ MaxCrashes \in Nat
    BY ReconcilerConstants DEF ReconcilerConstants
  <2>2. 0 \in 0 .. MaxCalls /\ 0 \in 0 .. MaxFaults /\ 0 \in 0 .. MaxCrashes
    BY <2>1
  <2>3. QED BY <2>2 DEF Init
<1>3. /\ plan = <<>> /\ todo = <<>> /\ ~undoing /\ phase = NoPhase /\ call = Idle
  BY DEF Init
<1>4. /\ call \in [op: {"none", "reconcile", "restore", "decommission"}, old: MConfs,
               new: MConfs, reset: BOOLEAN]
      /\ call.op = "none"
  BY <1>3 DEF Idle, MConfs
<1>5. plan \in Seq(Commands) /\ todo \in Seq(Phases) /\ Range(plan) = {}
  BY <1>3, ShortSeq, RangeShort
<1>6. QED BY <1>1, <1>2, <1>3, <1>4, <1>5, NoPhaseFields DEF ShapeInv, Busy

\* A call begins.
LEMMA ShapeBegin ==
  ASSUME ShapeInv, NEW op \in {"reconcile", "restore", "decommission"}, NEW new \in MConfs,
         NEW reset \in BOOLEAN, NEW phases \in Seq(Phases), Begin(op, new, reset, phases),
         op = "reconcile" => new \in Confs, goal' \in MConfs, up' \in BOOLEAN
  PROVE  ShapeInv'
<1>1. /\ plan' = <<>> /\ phase' = NoPhase /\ todo' = phases /\ ~undoing'
      /\ saved' = saved /\ cfgFile' = cfgFile /\ present' = present
  BY DEF Begin, ShapeInv
<1>2. count' \in [calls: 0 .. MaxCalls, faults: 0 .. MaxFaults, crashes: 0 .. MaxCrashes]
  BY ReconcilerConstants DEF Begin, ShapeInv, ReconcilerConstants
<1>3. /\ call' \in [op: {"none", "reconcile", "restore", "decommission"}, old: MConfs,
                    new: MConfs, reset: BOOLEAN]
      /\ call'.op = op /\ call'.new = new
  BY DEF Begin, ShapeInv
<1>4. call' # Idle
  BY <1>3 DEF Idle
<1>5. plan' \in Seq(Commands) /\ Range(plan') = {}
  BY <1>1, ShortSeq, RangeShort
<1>6. up' \in BOOLEAN /\ undoing' \in BOOLEAN /\ goal' \in MConfs /\ phase' \in Phases
  BY <1>1, NoPhaseFields DEF Begin, ShapeInv
<1>7. /\ saved' \in MConfs /\ cfgFile' \in Files /\ present' \subseteq Foreign \cup Items
      /\ todo' \in Seq(Phases)
  BY <1>1 DEF ShapeInv
<1>8. QED BY <1>2, <1>3, <1>4, <1>5, <1>6, <1>7 DEF ShapeInv, Busy

\* Starting a phase keeps the shape.
LEMMA ShapeStart ==
  ASSUME ShapeInv, StartPhase
  PROVE  ShapeInv'
<1>1. /\ todo # <<>> /\ todo \in Seq(Phases) /\ phase' = Head(todo) /\ todo' = Tail(todo)
      /\ plan' \in Plans(Head(todo))
      /\ UNCHANGED <<present, cfgFile, saved, up, call, undoing, count, goal, before, reported>>
  BY DEF StartPhase, ShapeInv
<1>2. Head(todo) \in Phases /\ Tail(todo) \in Seq(Phases)
  BY <1>1, RangeTail
<1>3. Sane(plan', phase')
  BY <1>1, <1>2, PlanFacts
<1>4. Busy
  BY <1>1 DEF ShapeInv
<1>5. QED BY <1>1, <1>2, <1>3, <1>4 DEF ShapeInv, Sane, Busy

\* Coming to a service keeps the shape.
LEMMA ShapeService ==
  ASSUME ShapeInv, NextService
  PROVE  ShapeInv'
<1>1. PICK s \in Turn(phase) : /\ plan' = ServicePlan(phase, s)
                               /\ phase' = [phase EXCEPT !.left = @ \ {s}]
  BY DEF NextService
<1>2. s \in phase.left
  BY <1>1, TurnIs
<1>3. phase' \in Phases /\ Sane(plan', phase')
  BY <1>1, <1>2, ServiceFacts
<1>4. Busy
  BY <1>2, NoPhaseFields DEF ShapeInv
<1>5. UNCHANGED <<present, cfgFile, saved, up, call, todo, undoing, count, goal, before, reported>>
  BY DEF NextService
<1>6. QED BY <1>3, <1>4, <1>5 DEF ShapeInv, Sane, Busy

\* A command that is carried out.
LEMMA RunFacts ==
  ASSUME ShapeInv, RunCommand
  PROVE  /\ Head(plan) \in Commands /\ Suits(Head(plan), phase) /\ Head(plan) \in Range(plan)
         /\ plan' = Tail(plan) /\ Tail(plan) \in Seq(Commands)
         /\ Range(plan) = {Head(plan)} \cup Range(Tail(plan))
         /\ present' = (present \ Head(plan).drop) \cup Head(plan).add
         /\ Head(plan).cfg = {} => cfgFile' = cfgFile
         /\ Head(plan).cfg # {} => cfgFile' \in Head(plan).cfg
         /\ Head(plan).save = {} => saved' = saved
         /\ Head(plan).save # {} => saved' \in Head(plan).save
         /\ plan # <<>> /\ Busy
         /\ UNCHANGED <<up, call, todo, phase, undoing, count, goal, before, reported>>
<1>1. plan # <<>> /\ plan \in Seq(Commands) /\ Busy
  BY DEF RunCommand, ShapeInv
<1>2. /\ Head(plan) \in Commands /\ Tail(plan) \in Seq(Commands) /\ Head(plan) \in Range(plan)
      /\ Range(plan) = {Head(plan)} \cup Range(Tail(plan))
  BY <1>1, RangeTail
<1>3. Suits(Head(plan), phase)
  BY <1>2 DEF ShapeInv
<1>4. QED BY <1>1, <1>2, <1>3 DEF RunCommand

\* A command that is carried out keeps the shape.
LEMMA ShapeRun ==
  ASSUME ShapeInv, RunCommand
  PROVE  ShapeInv'
<1> DEFINE cmd == Head(plan)
<1>1. cmd.add \subseteq Items /\ cmd.cfg \subseteq Files /\ cmd.save \subseteq MConfs
  BY RunFacts DEF Commands
<1>2. present' \subseteq Foreign \cup Items /\ cfgFile' \in Files /\ saved' \in MConfs
  BY <1>1, RunFacts DEF ShapeInv
<1>3. plan' \in Seq(Commands) /\ \A x \in Range(plan') : Suits(x, phase')
  BY RunFacts DEF ShapeInv
<1>4. UNCHANGED <<up, call, todo, phase, undoing, count, goal, before, reported>> /\ Busy
  BY RunFacts
<1>5. QED BY <1>2, <1>3, <1>4 DEF ShapeInv, Busy

\* A command that fails keeps the shape.
LEMMA ShapeFail ==
  ASSUME ShapeInv, CommandFails
  PROVE  ShapeInv'
<1>1. plan # <<>> /\ Busy
  BY DEF CommandFails, ShapeInv
<1>2. phase' \in Phases
  <2>1. phase \in [do: Dos, from: MConfs, to: MConfs, left: SUBSET AllServices] /\ PhaseOK(phase)
    BY DEF ShapeInv, Phases
  <2>2. phase' = [phase EXCEPT !.left = {}]
    BY DEF CommandFails
  <2>3. /\ phase' \in [do: Dos, from: MConfs, to: MConfs, left: SUBSET AllServices]
        /\ phase'.do = phase.do /\ phase'.to = phase.to /\ phase'.left = {}
    BY <2>1, <2>2
  <2>4. PhaseOK(phase')
    BY <2>1, <2>3 DEF PhaseOK
  <2>5. QED BY <2>3, <2>4 DEF Phases
<1>3. todo' \in Seq(Phases)
  BY RollbackMade DEF CommandFails, ShapeInv
<1>4. plan' \in Seq(Commands) /\ Range(plan') = {}
  BY ShortSeq, RangeShort DEF CommandFails
<1>5. count' \in [calls: 0 .. MaxCalls, faults: 0 .. MaxFaults, crashes: 0 .. MaxCrashes]
  BY ReconcilerConstants DEF CommandFails, ShapeInv, ReconcilerConstants
<1>6. undoing' = TRUE /\ UNCHANGED <<present, cfgFile, saved, up, call, goal>>
  BY DEF CommandFails
<1>7. QED BY <1>1, <1>2, <1>3, <1>4, <1>5, <1>6 DEF ShapeInv, Busy

\* A call that ends keeps the shape.
LEMMA ShapeEnds ==
  ASSUME ShapeInv, Ends, UNCHANGED <<present, cfgFile, saved, goal>>, up' \in BOOLEAN,
         count' \in [calls: 0 .. MaxCalls, faults: 0 .. MaxFaults, crashes: 0 .. MaxCrashes]
  PROVE  ShapeInv'
<1>1. plan' = <<>> /\ todo' = <<>> /\ ~undoing' /\ phase' = NoPhase /\ call' = Idle /\ undoing' \in BOOLEAN
  BY DEF Ends
<1>2. /\ call' \in [op: {"none", "reconcile", "restore", "decommission"}, old: MConfs,
                    new: MConfs, reset: BOOLEAN]
      /\ call'.op = "none"
  BY <1>1 DEF Idle, MConfs
<1>3. plan' \in Seq(Commands) /\ todo' \in Seq(Phases) /\ Range(plan') = {}
  BY <1>1, ShortSeq, RangeShort
<1>4. QED BY <1>1, <1>2, <1>3, NoPhaseFields DEF ShapeInv, Busy

\* The commands of a running plan suit the phase that runs, the phases to come are
\* phases of known configurations, and a node holds only items of some configuration,
\* besides those of its host.
THEOREM Shape == Spec => []ShapeInv
<1>1. Init => ShapeInv
  BY ShapeInit
<1>2. ShapeInv /\ [Next]_vars => ShapeInv'
  <2> SUFFICES ASSUME ShapeInv, [Next]_vars PROVE ShapeInv'
    OBVIOUS
  <2>1. ASSUME NEW c \in Confs, NEW reset \in BOOLEAN, Reconcile(c, reset) PROVE ShapeInv'
    <3>1. c \in MConfs /\ saved \in MConfs
      BY DEF MConfs, ShapeInv
    <3>2. ReconcilePhases(saved, c, reset) \in Seq(Phases)
      BY <3>1, ReconcileMade
    <3>3. /\ Begin("reconcile", c, reset, ReconcilePhases(saved, c, reset))
          /\ goal' = c /\ up' = up
      BY <2>1 DEF Reconcile
    <3>4. up' \in BOOLEAN /\ goal' \in MConfs
      BY <3>1, <3>3 DEF ShapeInv
    <3>5. QED BY <3>1, <3>2, <3>3, <3>4, ShapeBegin
  <2>2. ASSUME Restore PROVE ShapeInv'
    <3>1. saved \in MConfs
      BY DEF ShapeInv
    <3>2. RestorePhases(saved) \in Seq(Phases)
      BY <3>1, RestoreMade
    <3>3. Begin("restore", saved, FALSE, RestorePhases(saved)) /\ goal' \in MConfs /\ up' \in BOOLEAN
      BY <2>2 DEF Restore, ShapeInv
    <3>4. QED BY <3>1, <3>2, <3>3, ShapeBegin
  <2>3. ASSUME Decommission PROVE ShapeInv'
    <3>1. saved \in MConfs /\ Nothing \in MConfs
      BY DEF ShapeInv, MConfs
    <3>2. DecommissionPhases(saved) \in Seq(Phases)
      BY <3>1, DecommissionMade
    <3>3. /\ Begin("decommission", Nothing, FALSE, DecommissionPhases(saved))
          /\ goal' \in MConfs /\ up' \in BOOLEAN
      BY <2>3 DEF Decommission, ShapeInv
    <3>4. QED BY <3>1, <3>2, <3>3, ShapeBegin
  <2>4. ASSUME Return PROVE ShapeInv'
    BY <2>4, ShapeEnds DEF Return, ShapeInv
  <2>5. ASSUME Crash PROVE ShapeInv'
    <3>1. count' \in [calls: 0 .. MaxCalls, faults: 0 .. MaxFaults, crashes: 0 .. MaxCrashes]
      BY <2>5, ReconcilerConstants DEF Crash, ShapeInv, ReconcilerConstants
    <3>2. QED BY <2>5, <3>1, ShapeEnds DEF Crash
  <2>6. ASSUME Reboot PROVE ShapeInv'
    <3>1. count' \in [calls: 0 .. MaxCalls, faults: 0 .. MaxFaults, crashes: 0 .. MaxCrashes]
      BY <2>6, ReconcilerConstants DEF Reboot, ShapeInv, ReconcilerConstants
    <3>2. QED BY <2>6, <3>1 DEF Reboot, ShapeInv, Busy
  <2>7. ASSUME UNCHANGED vars PROVE ShapeInv'
    BY <2>7 DEF vars, ShapeInv, Busy
  <2>8. QED
    BY <2>1, <2>2, <2>3, <2>4, <2>5, <2>6, <2>7, ShapeStart, ShapeService, ShapeRun, ShapeFail
       DEF Next
<1>3. QED BY <1>1, <1>2, PTL DEF Spec

\* Nothing runs outside a call, the node holds only items of the panel's configurations
\* and of its host, and state.json and haproxy.cfg name configurations of the panel.
THEOREM Types == Spec => []TypeOK
<1>1. ShapeInv => TypeOK
  <2> SUFFICES ASSUME ShapeInv PROVE TypeOK
    OBVIOUS
  <2>1. cfgFile \in {NoTCP} \cup {Of(c).tcp : c \in Confs}
    BY DEF ShapeInv, Files
  <2>2. present \subseteq Foreign \cup UNION {Parts(c) : c \in Confs}
    BY DEF ShapeInv, Items
  <2>3. QED BY <2>1, <2>2 DEF ShapeInv, TypeOK, MConfs
<1>2. QED BY <1>1, Shape, PTL
-----------------------------------------------------------------------------
(* What a Reconcile leaves alone                                           *)

\* A Reconcile that starts on a node in order.
LEMMA CleanStart ==
  ASSUME ShapeInv, NEW c \in Confs, NEW reset, Reconcile(c, reset), CleanRun'
  PROVE  /\ Parts(saved) \subseteq present /\ present \subseteq Foreign \cup Parts(saved)
         /\ call'.old = saved /\ call'.new = c /\ call'.reset = reset /\ phase' = NoPhase
         /\ plan' = <<>> /\ todo' = ReconcilePhases(saved, c, reset)
         /\ present' = present /\ saved' = saved
<1>1. Begin("reconcile", c, reset, ReconcilePhases(saved, c, reset)) /\ ~Busy
  BY DEF Reconcile, Begin
<1>2. /\ call'.old = saved /\ call'.new = c /\ call'.reset = reset
      /\ todo' = ReconcilePhases(saved, c, reset)
      /\ before' = [dp |-> Observed, saved |-> saved]
      /\ present' = present /\ phase' = phase /\ plan' = plan /\ saved' = saved
  BY <1>1 DEF Begin
<1>3. before'.dp = Observed /\ before'.saved = saved
  BY <1>2
<1>4. Observed.conf = saved /\ ~Observed.orphans
  BY <1>3 DEF CleanRun
<1>5. saved \in MConfs /\ Broken \notin MConfs
  BY ReconcilerConstants DEF ShapeInv, ReconcilerConstants, MConfs
<1>6. CASE saved = Nothing
  <2>1. Parts(saved) = {}
    BY <1>6, Unconfigured, ReconcilerConstants DEF ReconcilerConstants
  <2>2. present \subseteq Foreign \cup Parts(saved) \cup Parts(Observed.conf)
    BY <1>4 DEF Observed
  <2>3. QED BY <1>1, <1>2, <1>4, <2>1, <2>2 DEF ShapeInv
<1>7. CASE saved # Nothing
  <2>1. Parts(saved) \subseteq present
    BY <1>4, <1>5, <1>7 DEF Observed
  <2>2. present \subseteq Foreign \cup Parts(saved) \cup Parts(Observed.conf)
    BY <1>4 DEF Observed
  <2>3. QED BY <1>1, <1>2, <1>4, <2>1, <2>2 DEF ShapeInv
<1>8. QED BY <1>6, <1>7

\* A Reconcile on a clean node begins with what the configurations have in common.
LEMMA GapBegin ==
  ASSUME ShapeInv, NEW c \in Confs, NEW reset \in BOOLEAN, Reconcile(c, reset)
  PROVE  GapInv'
<1> SUFFICES ASSUME CleanRun', ~reset
             PROVE  /\ (Parts(saved) \cap Parts(c)) \subseteq present
                    /\ \A ph \in Range(ReconcilePhases(saved, c, reset)) :
                         ph.do # "wipe" /\ Erases(ph) \cap Parts(c) = {}
  <2>1. CleanRun' /\ ~reset
        => /\ call'.old = saved /\ call'.new = c /\ phase' = NoPhase
           /\ todo' = ReconcilePhases(saved, c, reset) /\ present' = present
    BY CleanStart
  <2>2. call'.reset = reset
    BY DEF Reconcile, Begin
  <2>3. QED BY <2>1, <2>2, NoPhaseFields DEF GapInv
<1>1. Parts(saved) \subseteq present
  BY CleanStart
<1>2. ASSUME NEW ph \in Range(ReconcilePhases(saved, c, reset))
      PROVE  ph.do # "wipe" /\ Erases(ph) \cap Parts(c) = {}
  <2>1. saved \in MConfs
    BY DEF ShapeInv
  <2> DEFINE Q == ReconcilePhases(saved, c, reset)
  <2>2. \/ \E do \in Dos \ {"unchain", "wipe", "noinput"}, from \in MConfs : ph = Phase(do, from, c)
        \/ ph = Phase("noinput", saved, c) /\ ~Of(c).hidden
    <3>1. \/ ph \in {Phase("checks", saved, c), Phase("firewall", saved, c), Phase("ipvs", saved, c),
                     Phase("haproxy", saved, c), Phase("firewall", c, c), Phase("input", saved, c),
                     Phase("rates", saved, c), Phase("save", saved, c)}
          \/ ph = Phase("noinput", saved, c) /\ ~Of(c).hidden
      <4> HIDE DEF Q
      <4> DEFINE P1 == IF HasTCP(saved) \/ HasTCP(c) THEN {Phase("haproxy", saved, c)} ELSE {}
                 P2 == IF Of(c).hidden THEN {Phase("input", saved, c)} ELSE {}
                 P3 == IF Of(saved).hidden /\ ~Of(c).hidden THEN {Phase("noinput", saved, c)} ELSE {}
      <4>1. Range(Q) = {Phase("checks", saved, c), Phase("firewall", saved, c)}
                         \cup {Phase("ipvs", saved, c)} \cup P1 \cup {Phase("firewall", c, c)}
                         \cup P2 \cup P3 \cup {Phase("rates", saved, c), Phase("save", saved, c)}
        BY <2>1, ReconcileMade DEF Q
      <4>2. /\ \A y \in P1 : y = Phase("haproxy", saved, c)
            /\ \A y \in P2 : y = Phase("input", saved, c)
            /\ \A y \in P3 : y = Phase("noinput", saved, c) /\ ~Of(c).hidden
        OBVIOUS
      <4>0. ph \in Range(Q)
        BY DEF Q
      <4> HIDE DEF P1, P2, P3
      <4>3. QED BY <4>0, <4>1, <4>2
    <3>2. QED BY <2>1, <3>1 DEF Dos, MConfs
  <2>3. ph.do \in Dos \ {"unchain", "wipe"} /\ ph.to = c /\ (ph.do = "noinput" => ~Of(ph.to).hidden)
    BY <2>2, PhaseFields DEF Dos
  <2>4. QED BY <2>3, Targeted
<1>3. QED BY <1>1, <1>2

\* A Reconcile without a reset, on a node in order, never takes away what the old and the
\* new configuration have in common: none of its phases erases a part of the new one.
THEOREM Gapless == Spec => []NoGap
<1>1. Init => GapInv
  BY DEF Init, Idle, GapInv, CleanRun
<1>2. ShapeInv /\ GapInv /\ [Next]_vars => GapInv'
  <2> SUFFICES ASSUME ShapeInv, GapInv, [Next]_vars PROVE GapInv'
    OBVIOUS
  <2>1. ASSUME NEW c \in Confs, NEW reset \in BOOLEAN, Reconcile(c, reset) PROVE GapInv'
    BY <2>1, GapBegin
  <2>2. ASSUME Restore \/ Decommission PROVE GapInv'
    BY <2>2 DEF Restore, Decommission, Begin, GapInv, CleanRun
  <2>3. ASSUME StartPhase PROVE GapInv'
    <3>1. todo # <<>> /\ todo \in Seq(Phases) /\ phase' = Head(todo) /\ todo' = Tail(todo)
          /\ UNCHANGED <<present, call, undoing, before>>
      BY <2>3 DEF StartPhase, ShapeInv
    <3>2. Head(todo) \in Range(todo) /\ Range(todo') \subseteq Range(todo)
      BY <3>1, RangeTail
    <3>3. QED BY <3>1, <3>2 DEF GapInv, CleanRun
  <2>4. ASSUME NextService PROVE GapInv'
    <3> SUFFICES ASSUME CleanRun, ~call.reset PROVE GapInv'
      BY <2>4 DEF NextService, GapInv, CleanRun
    <3>1. PICK s \in Turn(phase) : phase' = [phase EXCEPT !.left = @ \ {s}]
      BY <2>4 DEF NextService
    <3>2. s \in phase.left
      BY <3>1, TurnIs
    <3>3. phase.do = "ipvs"
      BY <3>2, ServiceFacts DEF GapInv
    <3>4. phase'.do = phase.do /\ Erases(phase') = Erases(phase)
      BY <3>1, <3>2, <3>3, ServiceFacts
    <3>5. UNCHANGED <<present, call, undoing, before, todo>>
      BY <2>4 DEF NextService
    <3>6. QED BY <3>4, <3>5 DEF GapInv, CleanRun
  <2>5. ASSUME RunCommand PROVE GapInv'
    <3> SUFFICES ASSUME CleanRun, ~call.reset PROVE GapInv'
      BY <2>5, RunFacts DEF GapInv, CleanRun
    <3>1. Head(plan).drop \ Head(plan).add \subseteq Erases(phase)
      BY <2>5, RunFacts DEF GapInv, Suits
    <3>2. Parts(call.old) \cap Parts(call.new) \subseteq present'
      BY <2>5, <3>1, RunFacts DEF GapInv
    <3>3. QED BY <2>5, <3>2, RunFacts DEF GapInv
  <2>6. ASSUME CommandFails PROVE GapInv'
    BY <2>6 DEF CommandFails, GapInv, CleanRun
  <2>7. ASSUME Return \/ Crash PROVE GapInv'
    BY <2>7 DEF Return, Crash, Ends, Idle, GapInv, CleanRun
  <2>8. ASSUME Reboot PROVE GapInv'
    BY <2>8 DEF Reboot, Busy, Idle, GapInv, CleanRun
  <2>9. ASSUME UNCHANGED vars PROVE GapInv'
    BY <2>9 DEF vars, GapInv, CleanRun
  <2>10. QED
    BY <2>1, <2>2, <2>3, <2>4, <2>5, <2>6, <2>7, <2>8, <2>9 DEF Next
<1>3. GapInv => NoGap
  BY DEF GapInv, NoGap
<1>4. QED BY <1>1, <1>2, <1>3, Shape, PTL DEF Spec
-----------------------------------------------------------------------------
(* The running HAProxy and its file                                        *)

\* Only a haproxy phase touches what HAProxy runs.
LEMMA NoProxy ==
  ASSUME NEW ph, ph.do # "haproxy", NEW x \in Provides(ph)
  PROVE  ~IsProxy(x)
<1>1. CASE ph.do = "firewall"
  <2>1. x \in Chains(ph.from) \/ x \in Chains(ph.to) \/ x = Jump("filter") \/ x = Jump("nat")
    BY <1>1 DEF Provides
  <2>2. QED BY <2>1, ChainShape, JumpShape DEF IsProxy
<1>2. CASE ph.do = "ipvs"
  BY <1>2, BaseShape DEF Provides, IsProxy
<1>3. CASE ph.do = "input"
  <2>1. x = <<"input", Services(ph.to)>> \/ x = Jump("input")
    BY <1>3 DEF Provides
  <2>2. QED BY <2>1, JumpShape DEF IsProxy
<1>4. CASE ph.do = "rates"
  BY <1>4, LimitShape DEF Provides, IsProxy
<1>5. CASE ph.do \notin {"firewall", "ipvs", "haproxy", "input", "rates"}
  BY <1>5 DEF Provides
<1>6. QED BY <1>1, <1>2, <1>3, <1>4, <1>5

\* Nor does any other phase take it away.
LEMMA NoProxyErased ==
  ASSUME NEW ph, ph.do # "haproxy", NEW x \in Erases(ph)
  PROVE  ~IsProxy(x)
<1>1. CASE ph.do = "rates"
  <2>1. x[1] = "mark" \/ x = Jump("mark") \/ \E s : x = Rate(s)
    BY <1>1 DEF Erases, Tagged
  <2>2. QED BY <2>1, JumpShape, Introduced DEF IsProxy
<1>2. CASE ph.do \in {"noinput", "unchain"}
  <2>1. x[1] \in {"input", "filter", "nat"} \/ \E k : x = Jump(k)
    BY <1>2 DEF Erases, Tagged
  <2>2. QED BY <2>1, JumpShape DEF IsProxy
<1>3. CASE ph.do \in {"firewall", "ipvs", "input", "wipe"}
  BY <1>3 DEF Erases, Gone, Tagged, IsProxy
<1>4. CASE ph.do \notin {"firewall", "ipvs", "haproxy", "input", "noinput", "rates", "unchain", "wipe"}
  BY <1>4 DEF Erases
<1>5. QED BY <1>1, <1>2, <1>3, <1>4

\* A command of another phase leaves HAProxy and its file as they are; wiping services is
\* left to a Decommission.
LEMMA ProxyKept ==
  ASSUME ShapeInv, RunCommand, phase.do \notin {"haproxy", "wipe"}
  PROVE  Kind("proxy")' = Kind("proxy") /\ cfgFile' = cfgFile /\ Stale' = Stale
<1> DEFINE cmd == Head(plan)
<1>1. /\ Suits(cmd, phase) /\ present' = (present \ cmd.drop) \cup cmd.add
      /\ cmd.cfg = {} => cfgFile' = cfgFile
  BY RunFacts
<1> HIDE DEF cmd
<1>2. cmd.cfg = {} /\ (\A x \in cmd.add : ~IsProxy(x)) /\ (\A x \in cmd.drop \ cmd.add : ~IsProxy(x))
  BY <1>1, NoProxy, NoProxyErased DEF Suits
<1>3. \A x : IsProxy(x) => (x \in present' <=> x \in present)
  BY <1>1, <1>2
<1>4. Kind("proxy")' = Kind("proxy")
  BY <1>3 DEF Kind, IsProxy
<1>5. QED BY <1>1, <1>2, <1>4 DEF Stale

\* What HAProxy runs after a command of its phase.
LEMMA ProxyLoads ==
  ASSUME ShapeInv, NEW t, Loading(plan, t), RunCommand
  PROVE  /\ Loading(plan, t)'
         /\ Tail(plan) = <<>> => ~Stale'
<1> DEFINE K == Kind("proxy")
           R == Reload(t)
           L == Load(t)
           S == Stop
<1>1. /\ Look.add = {} /\ Look.drop = {} /\ Look.cfg = {}
      /\ L.add = {} /\ L.drop = {} /\ L.cfg = {t}
      /\ R.add = {Proxy(t)} /\ R.drop = K /\ R.cfg = {}
      /\ S.add = {} /\ S.drop = K /\ S.cfg = {}
  BY CommandFields DEF Look, Load, Reload, Stop, Command
<1>2. /\ plan # <<>> /\ plan' = Tail(plan) /\ present' = (present \ Head(plan).drop) \cup Head(plan).add
      /\ Head(plan).cfg = {} => cfgFile' = cfgFile
      /\ Head(plan).cfg # {} => cfgFile' \in Head(plan).cfg
  BY RunFacts
<1>3. K' = {x \in present' : x[1] = "proxy"} /\ K = {x \in present : x[1] = "proxy"}
  BY DEF Kind
<1>4. K' = K => Reload(t)' = R /\ Stop' = S
  BY DEF Reload, Stop
<1>5. Load(t)' = L /\ Look' = Look
  BY DEF Load
<1>6. Proxy(t)[1] = "proxy"
  BY Introduced
<1>7. K' = {} \/ K' = {Proxy(cfgFile')} => ~Stale'
  BY DEF Stale
<1> HIDE DEF K, R, L, S
<1>8. \/ plan = <<Look, L, R>> \/ plan = <<L, R>>
      \/ plan = <<R>> /\ cfgFile = t
      \/ plan = <<S, L>>
      \/ plan = <<L>> /\ K = {}
  BY <1>2 DEF Loading, K, R, L, S
<1>9. CASE plan = <<Look, L, R>>
  <2>1. Head(plan) = Look /\ Tail(plan) = <<L, R>>
    BY <1>9
  <2>2. K' = K
    BY <1>1, <1>2, <1>3, <2>1
  <2>3. plan' = <<L, R>> /\ Reload(t)' = R /\ Load(t)' = L
    BY <1>2, <1>4, <1>5, <2>1, <2>2
  <2>4. Tail(plan) # <<>>
    BY <2>1
  <2>5. QED BY <2>3, <2>4 DEF Loading
<1>10. CASE plan = <<L, R>>
  <2>1. Head(plan) = L /\ Tail(plan) = <<R>>
    BY <1>10
  <2>2. K' = K /\ cfgFile' = t
    BY <1>1, <1>2, <1>3, <2>1
  <2>3. plan' = <<R>> /\ Reload(t)' = R
    BY <1>2, <1>4, <2>1, <2>2
  <2>4. Tail(plan) # <<>>
    BY <2>1
  <2>5. QED BY <2>2, <2>3, <2>4 DEF Loading
<1>11. CASE plan = <<R>> /\ cfgFile = t
  <2>1. Head(plan) = R /\ Tail(plan) = <<>>
    BY <1>11
  <2>2. present' = (present \ K) \cup {Proxy(t)} /\ cfgFile' = t
    BY <1>1, <1>2, <1>11, <2>1
  <2>3. K' = {Proxy(t)}
    BY <1>3, <1>6, <2>2
  <2>4. QED BY <1>2, <1>7, <2>1, <2>2, <2>3 DEF Loading
<1>12. CASE plan = <<S, L>>
  <2>1. Head(plan) = S /\ Tail(plan) = <<L>>
    BY <1>12
  <2>2. present' = present \ K
    BY <1>1, <1>2, <2>1
  <2>3. K' = {}
    BY <1>3, <2>2
  <2>4. plan' = <<L>> /\ Load(t)' = L
    BY <1>2, <1>5, <2>1
  <2>5. Tail(plan) # <<>>
    BY <2>1
  <2>6. QED BY <2>3, <2>4, <2>5 DEF Loading, K
<1>13. CASE plan = <<L>> /\ K = {}
  <2>1. Head(plan) = L /\ Tail(plan) = <<>>
    BY <1>13
  <2>2. present' = present
    BY <1>1, <1>2, <2>1
  <2>3. K' = {}
    BY <1>3, <1>13, <2>2
  <2>4. QED BY <1>2, <1>7, <2>1, <2>3 DEF Loading
<1>14. QED BY <1>8, <1>9, <1>10, <1>11, <1>12, <1>13

\* HAProxy is only on the way to its file, unless it was lost before.
LEMMA ProxyNext ==
  ASSUME ShapeInv, ProxyInv, [Next]_vars
  PROVE  ProxyInv'
<1>0. Stale \in BOOLEAN
  BY DEF Stale
<1>1. ASSUME NEW op, NEW new, NEW reset, NEW phases, Begin(op, new, reset, phases) PROVE ProxyInv'
  <2>1. /\ ~Busy /\ before'.dp = Observed /\ UNCHANGED <<present, cfgFile, phase, plan>>
    BY <1>1 DEF Begin
  <2>2. phase.do = "none"
    BY <2>1, NoPhaseFields DEF ShapeInv
  <2>3. before'.dp.stale = Stale /\ Stale' = Stale
    BY <2>1 DEF Observed, Stale, Kind
  <2>4. QED BY <1>0, <2>1, <2>2, <2>3 DEF ProxyInv
<1>2. ASSUME Ends PROVE ProxyInv'
  <2>1. ~Busy' /\ phase'.do = "none"
    BY <1>2, NoPhaseFields DEF Ends, Busy
  <2>2. QED BY <2>1 DEF ProxyInv
<1>3. ASSUME StartPhase PROVE ProxyInv'
  <2>1. /\ UNCHANGED <<present, cfgFile, call, undoing, before>> /\ plan = <<>>
        /\ phase' = Head(todo) /\ plan' \in Plans(Head(todo)) /\ Busy
    BY <1>3 DEF StartPhase, ShapeInv
  <2>2. Stale' = Stale /\ Busy'
    BY <2>1 DEF Stale, Kind, Busy
  <2>3. ASSUME phase'.do = "haproxy" PROVE Loading(plan, Of(phase.to).tcp)'
    <3>0. PICK t : t = Of(phase'.to).tcp
      OBVIOUS
    <3>1. plan' \in HAProxy(phase'.to)
      BY <2>1, <2>3 DEF Plans
    <3>2. plan' = <<>> \/ plan' = <<Look, Load(t), Reload(t)>> \/ plan' = <<Stop, Load(t)>>
      <4>1. /\ Load(t) = [Look EXCEPT !.cfg = {t}]
            /\ Reload(t) = Command({}, {}, Kind("proxy"), {Proxy(t)})
            /\ Stop = Command({}, {}, Kind("proxy"), {})
        BY DEF Load, Reload, Stop
      <4>2. QED BY <3>0, <3>1, <4>1 DEF HAProxy
    <3>3. Kind("proxy")' = Kind("proxy")
      BY <2>1 DEF Kind
    <3>4. Load(t)' = Load(t) /\ Reload(t)' = Reload(t) /\ Stop' = Stop
      BY <3>3 DEF Load, Reload, Stop
    <3>5. Loading(plan, t)'
      BY <3>2, <3>4 DEF Loading
    <3>6. QED BY <3>0, <3>5 DEF Loading
  <2>4. QED BY <2>1, <2>2, <2>3 DEF ProxyInv
<1>4. ASSUME NextService PROVE ProxyInv'
  <2>1. UNCHANGED <<present, cfgFile, call, undoing, before>> /\ plan = <<>>
    BY <1>4 DEF NextService
  <2>2. PICK s \in Turn(phase) : phase' = [phase EXCEPT !.left = @ \ {s}]
    BY <1>4 DEF NextService
  <2>3. s \in phase.left
    BY <2>2, TurnIs
  <2>4. phase'.do # "haproxy"
    BY <2>2, <2>3, ServiceFacts
  <2>5. Stale' = Stale /\ Busy' = Busy
    BY <2>1 DEF Stale, Kind, Busy
  <2>6. QED BY <2>1, <2>4, <2>5 DEF ProxyInv
<1>5. ASSUME RunCommand PROVE ProxyInv'
  <2>1. /\ UNCHANGED <<call, todo, phase, undoing, before>> /\ Busy /\ plan # <<>> /\ plan' = Tail(plan)
    BY <1>5, RunFacts
  <2>2. Busy'
    BY <2>1 DEF Busy
  <2>3. CASE phase.do = "haproxy"
    <3>0. PICK t : t = Of(phase.to).tcp
      OBVIOUS
    <3>1. Loading(plan, t)
      BY <2>3, <3>0 DEF ProxyInv
    <3>2. Loading(plan, t)' /\ (Tail(plan) = <<>> => ~Stale')
      BY <1>5, <3>1, ProxyLoads
    <3>3. Loading(plan, Of(phase.to).tcp)'
      BY <2>1, <3>0, <3>2 DEF Loading
    <3>4. QED BY <2>1, <2>2, <2>3, <3>2, <3>3 DEF ProxyInv
  <2>4. CASE phase.do \notin {"haproxy", "wipe"}
    <3>1. Stale' = Stale
      BY <1>5, <2>4, ProxyKept
    <3>2. QED BY <2>1, <2>2, <2>4, <3>1 DEF ProxyInv
  <2>5. CASE phase.do = "wipe"
    <3>1. /\ Suits(Head(plan), phase) /\ present' = (present \ Head(plan).drop) \cup Head(plan).add
          /\ Head(plan).cfg = {} => cfgFile' = cfgFile
      BY <1>5, RunFacts
    <3>2. Provides(phase) = {}
      BY <2>5 DEF Provides
    <3>3. cfgFile' = cfgFile /\ present' \subseteq present
      BY <2>5, <3>1, <3>2 DEF Suits
    <3>4. Kind("proxy")' \subseteq Kind("proxy")
      BY <3>3 DEF Kind
    <3>5. ~Stale => ~Stale'
      BY <3>3, <3>4 DEF Stale
    <3>6. QED BY <2>1, <2>2, <2>5, <3>5 DEF ProxyInv
  <2>6. QED BY <2>3, <2>4, <2>5
<1>6. ASSUME CommandFails PROVE ProxyInv'
  <2>1. plan' = <<>> /\ undoing' = TRUE /\ UNCHANGED <<call, before>> /\ plan # <<>> /\ Busy
    BY <1>6 DEF CommandFails, ShapeInv
  <2>2. Loading(plan, Of(phase.to).tcp)'
    BY <2>1 DEF Loading
  <2>3. QED BY <2>1, <2>2 DEF ProxyInv
<1>7. ASSUME Reboot PROVE ProxyInv'
  <2>1. ~Busy' /\ phase' = NoPhase
    BY <1>7 DEF Reboot, Busy, ShapeInv
  <2>2. QED BY <2>1, NoPhaseFields DEF ProxyInv
<1>8. ASSUME UNCHANGED vars PROVE ProxyInv'
  <2>1. Stale' = Stale /\ Kind("proxy")' = Kind("proxy")
    BY <1>8 DEF vars, Stale, Kind
  <2>2. QED BY <1>8, <2>1 DEF vars, ProxyInv, Loading, Load, Reload, Stop, Busy
<1>9. QED
  BY <1>1, <1>2, <1>3, <1>4, <1>5, <1>6, <1>7, <1>8
     DEF Next, Reconcile, Restore, Decommission, Return, Crash

\* No call at first.
LEMMA ProxyInit == Init => ProxyInv
BY NoPhaseFields DEF Init, ProxyInv, Busy
-----------------------------------------------------------------------------
(* What is saved, and when                                                 *)

\* The phases to come, and those after the next.
LEMMA TodoTail ==
  ASSUME ShapeInv, todo # <<>>
  PROVE  /\ Len(todo) \in Nat \ {0} /\ DOMAIN todo = 1 .. Len(todo)
         /\ Head(todo) = todo[1] /\ Head(todo) \in Phases /\ Head(todo) \in Range(todo)
         /\ Tail(todo) \in Seq(Phases) /\ Len(Tail(todo)) = Len(todo) - 1
         /\ DOMAIN Tail(todo) = 1 .. Len(todo) - 1
         /\ \A i \in DOMAIN Tail(todo) : i + 1 \in DOMAIN todo /\ Tail(todo)[i] = todo[i + 1]
         /\ Range(todo) = {Head(todo)} \cup Range(Tail(todo))
<1>1. todo \in Seq(Phases)
  BY DEF ShapeInv
<1>2. /\ Head(todo) \in Phases /\ Tail(todo) \in Seq(Phases) /\ Head(todo) \in Range(todo)
      /\ Range(todo) = {Head(todo)} \cup Range(Tail(todo))
      /\ Len(Tail(todo)) = Len(todo) - 1 /\ Len(todo) \in Nat \ {0} /\ Head(todo) = todo[1]
      /\ \A i \in 1 .. Len(todo) - 1 : Tail(todo)[i] = todo[i + 1]
  BY <1>1, RangeTail
<1>3. DOMAIN todo = 1 .. Len(todo) /\ DOMAIN Tail(todo) = 1 .. Len(todo) - 1
  BY <1>1, <1>2, LenProperties
<1>4. \A i \in 1 .. Len(todo) - 1 : i + 1 \in 1 .. Len(todo)
  BY <1>2
<1>5. QED BY <1>2, <1>3, <1>4

\* A call begins and has yet to save.
LEMMA SaveBegin ==
  ASSUME ShapeInv, NEW op, NEW new, NEW reset, NEW phases, Begin(op, new, reset, phases),
         \A i \in DOMAIN phases : phases[i].do = "save" => i = Len(phases) /\ phases[i].to = new,
         new = saved \/ \E i \in DOMAIN phases : phases[i].do = "save",
         op = "restore" => new = saved, op = "decommission" => new = Nothing
  PROVE  SaveInv'
<1>1. /\ call'.old = saved /\ call'.new = new /\ call'.op = op /\ todo' = phases
      /\ before'.saved = saved /\ saved' = saved /\ plan' = <<>> /\ ~undoing'
  BY DEF Begin, ShapeInv
<1>2. QED BY <1>1 DEF SaveInv

\* Starting a phase: the last one saves.
LEMMA SaveStart ==
  ASSUME ShapeInv, SaveInv, StartPhase
  PROVE  SaveInv'
<1>1. /\ todo # <<>> /\ phase' = Head(todo) /\ todo' = Tail(todo) /\ plan = <<>> /\ Busy
      /\ plan' \in Plans(Head(todo)) /\ UNCHANGED <<saved, call, undoing, before>>
  BY DEF StartPhase, ShapeInv
<1>2. /\ before.saved = call.old
      /\ call.op = "restore" => call.new = call.old
      /\ call.op = "decommission" => call.new = Nothing
      /\ saved = call.old
      /\ \A i \in DOMAIN todo : todo[i].do = "save" =>
           i = Len(todo) /\ ~undoing /\ todo[i].to = call.new
      /\ ~undoing => saved = call.new \/ \E i \in DOMAIN todo : todo[i].do = "save"
  BY <1>1 DEF SaveInv, Finished
<1>3. /\ Len(todo) \in Nat \ {0} /\ DOMAIN todo = 1 .. Len(todo) /\ Head(todo) = todo[1]
      /\ Tail(todo) \in Seq(Phases) /\ Len(Tail(todo)) = Len(todo) - 1
      /\ DOMAIN Tail(todo) = 1 .. Len(todo) - 1
      /\ \A i \in DOMAIN Tail(todo) : i + 1 \in DOMAIN todo /\ Tail(todo)[i] = todo[i + 1]
  BY <1>1, TodoTail
<1>4. \A i \in DOMAIN todo' : todo'[i].do = "save" =>
         i = Len(todo') /\ ~undoing /\ todo'[i].to = call.new
  BY <1>1, <1>2, <1>3
<1>5. ASSUME phase'.do = "save"
      PROVE  /\ todo' = <<>> /\ ~undoing /\ Len(plan') = 1 /\ Head(plan').save = {call.new}
             /\ plan' # <<>>
  <2>1. 1 = Len(todo) /\ ~undoing /\ Head(todo).to = call.new
    BY <1>1, <1>2, <1>3, <1>5
  <2>2. plan' = <<[Look EXCEPT !.save = {call.new}]>>
    BY <1>1, <1>5, <2>1 DEF Plans
  <2>3. [Look EXCEPT !.save = {call.new}].save = {call.new}
    BY DEF Look, Command
  <2>4. todo' = <<>>
    BY <1>1, <1>3, <2>1
  <2>5. Len(plan') = 1 /\ Head(plan') = [Look EXCEPT !.save = {call.new}] /\ plan' # <<>>
    BY <2>2
  <2>6. QED BY <2>1, <2>3, <2>4, <2>5
<1>6. ASSUME NEW i \in DOMAIN todo, todo[i].do = "save", phase'.do # "save"
      PROVE  \E j \in DOMAIN todo' : todo'[j].do = "save"
  <2>1. i # 1 /\ i - 1 \in DOMAIN Tail(todo) /\ (i - 1) + 1 = i
    BY <1>1, <1>3, <1>6
  <2>2. Tail(todo)[i - 1] = todo[i]
    BY <1>3, <2>1
  <2>3. QED BY <1>1, <1>6, <2>1, <2>2
<1>7. QED BY <1>1, <1>2, <1>4, <1>5, <1>6 DEF SaveInv

\* A command is carried out: only the last one of a call saves.
LEMMA SaveRun ==
  ASSUME ShapeInv, SaveInv, RunCommand
  PROVE  SaveInv'
<1>1. /\ plan # <<>> /\ Busy /\ plan' = Tail(plan) /\ Suits(Head(plan), phase)
      /\ Head(plan).save = {} => saved' = saved
      /\ Head(plan).save # {} => saved' \in Head(plan).save
      /\ UNCHANGED <<call, todo, phase, undoing, before>>
  BY RunFacts
<1>2. /\ before.saved = call.old
      /\ call.op = "restore" => call.new = call.old
      /\ call.op = "decommission" => call.new = Nothing
      /\ saved = call.old
      /\ \A i \in DOMAIN todo : todo[i].do = "save" =>
           i = Len(todo) /\ ~undoing /\ todo[i].to = call.new
  BY <1>1 DEF SaveInv, Finished
<1>3. CASE phase.do = "save"
  <2>1. todo = <<>> /\ ~undoing /\ Len(plan) = 1 /\ Head(plan).save = {call.new}
    BY <1>1, <1>3 DEF SaveInv
  <2>2. plan' = <<>>
    BY <1>1, <2>1 DEF ShapeInv
  <2>3. saved' = call.new
    BY <1>1, <2>1
  <2>4. phase.left = {}
    BY <1>3 DEF ShapeInv, Phases, PhaseOK
  <2>5. QED BY <1>1, <1>2, <2>1, <2>2, <2>3, <2>4 DEF SaveInv, Finished
<1>4. CASE phase.do # "save"
  <2>1. Head(plan).save = {}
    BY <1>1, <1>4 DEF Suits
  <2>2. saved' = saved
    BY <1>1, <2>1
  <2>3. QED BY <1>1, <1>2, <1>4, <2>2 DEF SaveInv
<1>5. QED BY <1>3, <1>4

\* A call that fails does not save any more.
LEMMA SaveFail ==
  ASSUME ShapeInv, SaveInv, CommandFails
  PROVE  SaveInv'
<1>1. /\ plan # <<>> /\ plan' = <<>> /\ undoing' = TRUE /\ UNCHANGED <<saved, call, before>>
      /\ todo' = IF undoing THEN todo ELSE Rollback(phase)
  BY DEF CommandFails
<1>2. Busy
  BY <1>1 DEF ShapeInv
<1>3. /\ before.saved = call.old
      /\ call.op = "restore" => call.new = call.old
      /\ call.op = "decommission" => call.new = Nothing
      /\ saved = call.old
  BY <1>1, <1>2 DEF SaveInv, Finished
<1>4. \A i \in DOMAIN todo' : todo'[i].do # "save"
  <2>1. CASE undoing
    BY <1>1, <1>2, <2>1 DEF SaveInv
  <2>2. CASE ~undoing
    <3>1. \A x \in Range(Rollback(phase)) : x.do # "save"
      BY RollbackMade DEF ShapeInv
    <3>2. QED BY <1>1, <2>2, <3>1 DEF Range
  <2>3. QED BY <2>1, <2>2
<1>5. QED BY <1>1, <1>3, <1>4 DEF SaveInv

\* The state file changes only when a call has done all it had to do.
LEMMA SaveNext ==
  ASSUME ShapeInv, SaveInv, [Next]_vars
  PROVE  SaveInv'
<1>1. ASSUME NEW c \in Confs, NEW reset \in BOOLEAN, Reconcile(c, reset) PROVE SaveInv'
  <2> DEFINE q == ReconcilePhases(saved, c, reset)
  <2>1. Begin("reconcile", c, reset, q)
    BY <1>1 DEF Reconcile
  <2>2. Closing(q, c)
    BY ReconcileMade DEF ShapeInv
  <2> HIDE DEF q
  <2>3. QED BY <2>1, <2>2, SaveBegin DEF Closing
<1>2. ASSUME Restore PROVE SaveInv'
  <2> DEFINE q == RestorePhases(saved)
  <2>1. Begin("restore", saved, FALSE, q)
    BY <1>2 DEF Restore
  <2>2. (HasServices(saved) => Closing(q, saved)) /\ (~HasServices(saved) => q = <<>>)
    BY RestoreMade DEF ShapeInv
  <2> HIDE DEF q
  <2>3. \A i \in DOMAIN q : q[i].do = "save" => i = Len(q) /\ q[i].to = saved
    BY <2>2 DEF Closing
  <2>4. QED BY <2>1, <2>3, SaveBegin
<1>3. ASSUME Decommission PROVE SaveInv'
  <2> DEFINE q == DecommissionPhases(saved)
  <2>1. Begin("decommission", Nothing, FALSE, q)
    BY <1>3 DEF Decommission
  <2>2. Closing(q, Nothing)
    BY DecommissionMade DEF ShapeInv
  <2> HIDE DEF q
  <2>3. QED BY <2>1, <2>2, SaveBegin DEF Closing
<1>4. ASSUME NextService PROVE SaveInv'
  <2>1. PICK s \in Turn(phase) : phase' = [phase EXCEPT !.left = @ \ {s}]
    BY <1>4 DEF NextService
  <2>2. s \in phase.left
    BY <2>1, TurnIs
  <2>3. phase.do # "save" /\ phase'.do # "save"
    BY <2>1, <2>2, ServiceFacts
  <2>4. UNCHANGED <<saved, call, todo, undoing, before>>
    BY <1>4 DEF NextService
  <2>5. QED BY <2>2, <2>3, <2>4 DEF SaveInv, Busy, Finished
<1>5. ASSUME Return \/ Crash PROVE SaveInv'
  BY <1>5 DEF Return, Crash, Ends, SaveInv, Busy
<1>6. ASSUME Reboot PROVE SaveInv'
  BY <1>6 DEF Reboot, SaveInv, Busy
<1>7. ASSUME UNCHANGED vars PROVE SaveInv'
  BY <1>7 DEF vars, SaveInv, Busy, Finished
<1>8. QED
  BY <1>1, <1>2, <1>3, <1>4, <1>5, <1>6, <1>7, SaveStart, SaveRun, SaveFail DEF Next

\* Nothing is saved at first.
LEMMA SaveInit == Init => SaveInv
BY DEF Init, SaveInv, Busy

\* Before the first Reconcile there is nothing to serve.
LEMMA GoalNext ==
  ASSUME ShapeInv, SaveInv, GoalInv, [Next]_vars
  PROVE  GoalInv'
<1>1. ASSUME NEW c \in Confs, NEW reset \in BOOLEAN, Reconcile(c, reset) PROVE GoalInv'
  <2>1. goal' = c /\ call'.new = c
    BY <1>1 DEF Reconcile, Begin
  <2>2. c # Nothing
    BY ReconcilerConstants DEF ReconcilerConstants
  <2>3. QED BY <2>1, <2>2 DEF GoalInv
<1>2. ASSUME Restore PROVE GoalInv'
  <2>1. Begin("restore", saved, FALSE, RestorePhases(saved)) /\ goal' = goal
    BY <1>2 DEF Restore
  <2>2. /\ call'.op = "restore" /\ todo' = RestorePhases(saved)
        /\ UNCHANGED <<saved, present, phase>>
    BY <2>1 DEF Begin
  <2>3. saved = Nothing => RestorePhases(saved) = <<>>
    BY RestoreMade DEF ShapeInv
  <2>4. Brought(<<>>) = {}
    BY RangeShort DEF Brought
  <2>5. QED BY <2>1, <2>2, <2>3, <2>4 DEF GoalInv
<1>3. ASSUME Decommission PROVE GoalInv'
  <2>1. Begin("decommission", Nothing, FALSE, DecommissionPhases(saved)) /\ goal' = goal
    BY <1>3 DEF Decommission
  <2>2. /\ call'.op = "decommission" /\ todo' = DecommissionPhases(saved)
        /\ UNCHANGED <<saved, present, phase>>
    BY <2>1 DEF Begin
  <2>3. Brought(DecommissionPhases(saved)) = {}
    BY DecommissionMade DEF ShapeInv, Brought
  <2>4. QED BY <2>1, <2>2, <2>3 DEF GoalInv
<1>4. ASSUME StartPhase PROVE GoalInv'
  <2>1. /\ todo # <<>> /\ phase' = Head(todo) /\ todo' = Tail(todo)
        /\ UNCHANGED <<saved, call, goal, present>>
    BY <1>4 DEF StartPhase
  <2>2. Head(todo) \in Range(todo) /\ Range(todo') \subseteq Range(todo)
    BY <2>1, TodoTail
  <2>3. Provides(Head(todo)) \subseteq Brought(todo) /\ Brought(todo') \subseteq Brought(todo)
    BY <2>2 DEF Brought
  <2>4. QED BY <2>1, <2>3 DEF GoalInv
<1>5. ASSUME NextService PROVE GoalInv'
  <2>1. PICK s \in Turn(phase) : phase' = [phase EXCEPT !.left = @ \ {s}]
    BY <1>5 DEF NextService
  <2>2. s \in phase.left
    BY <2>1, TurnIs
  <2>3. Provides(phase') = Provides(phase)
    BY <2>1, <2>2, ServiceFacts
  <2>4. UNCHANGED <<saved, call, todo, goal, present>>
    BY <1>5 DEF NextService
  <2>5. QED BY <2>3, <2>4 DEF GoalInv
<1>6. ASSUME RunCommand PROVE GoalInv'
  <2>1. /\ Suits(Head(plan), phase) /\ plan # <<>> /\ Busy
        /\ present' = (present \ Head(plan).drop) \cup Head(plan).add
        /\ Head(plan).save = {} => saved' = saved
        /\ Head(plan).save # {} => saved' \in Head(plan).save
        /\ UNCHANGED <<call, todo, phase, goal>>
    BY <1>6, RunFacts
  <2>2. goal = Nothing => present' \subseteq Foreign
    BY <2>1 DEF GoalInv, Suits
  <2>3. ASSUME goal = Nothing, Head(plan).save # {} PROVE saved' = Nothing
    <3>1. phase.do = "save"
      BY <2>1, <2>3 DEF Suits
    <3>2. saved' = call.new /\ saved = call.old
      BY <2>1, <2>3, <3>1 DEF SaveInv, Finished
    <3>3. call.op # "reconcile"
      BY <2>3, ReconcilerConstants DEF GoalInv, ShapeInv, ReconcilerConstants
    <3>4. call.op \in {"restore", "decommission"}
      BY <2>1, <3>3 DEF ShapeInv
    <3>5. QED BY <2>1, <2>3, <3>2, <3>4 DEF SaveInv, GoalInv
  <2>4. QED BY <2>1, <2>2, <2>3 DEF GoalInv
<1>7. ASSUME CommandFails PROVE GoalInv'
  <2>1. /\ UNCHANGED <<saved, call, goal, present>>
        /\ todo' = IF undoing THEN todo ELSE Rollback(phase)
        /\ phase' = [phase EXCEPT !.left = {}]
    BY <1>7 DEF CommandFails
  <2>2. Provides(phase') = Provides(phase)
    <3>1. phase'.do = phase.do /\ phase'.from = phase.from /\ phase'.to = phase.to
      BY <2>1 DEF ShapeInv, Phases
    <3>2. QED BY <3>1 DEF Provides
  <2>3. goal = Nothing => call.op # "reconcile"
    BY ReconcilerConstants DEF GoalInv, ShapeInv, ReconcilerConstants
  <2>4. goal = Nothing => Brought(todo') = {}
    <3>1. call.op # "reconcile" => Rollback(phase) = <<>>
      BY RollbackMade DEF ShapeInv
    <3>2. Brought(<<>>) = {}
      BY RangeShort DEF Brought
    <3>3. QED BY <2>1, <2>3, <3>1, <3>2 DEF GoalInv
  <2>5. QED BY <2>1, <2>2, <2>4 DEF GoalInv
<1>8. ASSUME Return \/ Crash PROVE GoalInv'
  <2>1. call'.op = "none" /\ todo' = <<>> /\ phase' = NoPhase /\ UNCHANGED <<saved, goal, present>>
    BY <1>8 DEF Return, Crash, Ends, Idle
  <2>2. Brought(todo') = {}
    BY <2>1, RangeShort DEF Brought
  <2>3. QED BY <2>1, <2>2, NoPhaseFields DEF GoalInv
<1>9. ASSUME Reboot PROVE GoalInv'
  BY <1>9 DEF Reboot, GoalInv
<1>10. ASSUME UNCHANGED vars PROVE GoalInv'
  BY <1>10 DEF vars, GoalInv
<1>11. QED
  BY <1>1, <1>2, <1>3, <1>4, <1>5, <1>6, <1>7, <1>8, <1>9, <1>10 DEF Next

\* No goal at first.
LEMMA GoalInit == Init => GoalInv
<1>1. Brought(<<>>) = {}
  BY RangeShort DEF Brought
<1>2. QED BY <1>1, NoPhaseFields DEF Init, GoalInv, Idle

\* A Restore of a state file without services leaves the node as it was.
LEMMA IdleNext ==
  ASSUME ShapeInv, IdleInv, [Next]_vars
  PROVE  IdleInv'
<1>1. ASSUME NEW c \in Confs, NEW reset \in BOOLEAN, Reconcile(c, reset) PROVE IdleInv'
  BY <1>1 DEF Reconcile, Begin, IdleInv, Nought
<1>2. ASSUME Restore PROVE IdleInv'
  <2>1. Begin("restore", saved, FALSE, RestorePhases(saved)) /\ goal' = goal
    BY <1>2 DEF Restore
  <2>2. /\ call'.old = saved /\ todo' = RestorePhases(saved) /\ before'.dp = Observed
        /\ UNCHANGED <<saved, present, cfgFile, phase, plan>> /\ plan = <<>> /\ phase = NoPhase
    BY <2>1 DEF Begin, ShapeInv
  <2>3. ~HasServices(saved) => RestorePhases(saved) = <<>>
    BY RestoreMade DEF ShapeInv
  <2>4. Observed' = Observed
    BY <2>1, <2>2 DEF Observed, Stale, Kind
  <2>5. QED BY <2>2, <2>3, <2>4, NoPhaseFields DEF IdleInv, Nought
<1>3. ASSUME Decommission PROVE IdleInv'
  BY <1>3 DEF Decommission, Begin, IdleInv, Nought
<1>4. ASSUME StartPhase PROVE IdleInv'
  BY <1>4 DEF StartPhase, IdleInv, Nought, Busy
<1>5. ASSUME NextService PROVE IdleInv'
  <2>1. phase.left # {}
    BY <1>5, TurnIs DEF NextService
  <2>2. QED BY <1>5, <2>1 DEF NextService, IdleInv, Nought, Busy
<1>6. ASSUME RunCommand \/ CommandFails PROVE IdleInv'
  BY <1>6 DEF RunCommand, CommandFails, IdleInv, Nought, Busy
<1>7. ASSUME Return \/ Crash PROVE IdleInv'
  BY <1>7 DEF Return, Crash, Ends, IdleInv, Busy
<1>8. ASSUME Reboot PROVE IdleInv'
  BY <1>8 DEF Reboot, IdleInv, Busy
<1>9. ASSUME UNCHANGED vars PROVE IdleInv'
  BY <1>9 DEF vars, IdleInv, Nought, Busy, Observed, Stale, Kind
<1>10. QED BY <1>1, <1>2, <1>3, <1>4, <1>5, <1>6, <1>7, <1>8, <1>9 DEF Next
-----------------------------------------------------------------------------
(* What a call brings and sheds                                            *)

\* What each kind of phase provides.
LEMMA Providing ==
  ASSUME NEW from, NEW to
  PROVE  /\ Provides(Phase("firewall", from, to))
              = Chains(from) \cup Chains(to) \cup {Jump("filter"), Jump("nat")}
         /\ Provides(Phase("ipvs", from, to)) = Base(to)
         /\ Provides(Phase("haproxy", from, to)) = Proxies(to)
         /\ Provides(Phase("input", from, to)) = {<<"input", Services(to)>>, Jump("input")}
         /\ Provides(Phase("rates", from, to)) = Limits(to)
BY PhaseFields DEF Provides

\* What each kind of phase takes away of a configuration that is replaced.
LEMMA Erasing ==
  ASSUME NEW c \in MConfs, NEW d \in MConfs, NEW x \in Parts(c) \ Parts(d)
  PROVE  /\ x \in Base(c) => x \in Erases(Phase("ipvs", c, d))
         /\ x \in Chains(c) => x \in Erases(Phase("unchain", c, d))
                               /\ (d \in Confs => x \in Erases(Phase("firewall", d, d)))
         /\ x \in Proxies(c) => x \in Erases(Phase("haproxy", c, d))
         /\ x \in Inputs(c) =>
              IF Of(d).hidden THEN x \in Erases(Phase("input", c, d))
                              ELSE x \in Erases(Phase("noinput", c, d))
         /\ x \in Limits(c) => x \in Erases(Phase("rates", c, d))
<1>1. x \in Items /\ c \in Confs
  BY ItemsOf, PartTag
<1>2. x \notin Base(d) /\ x \notin Chains(d) /\ x \notin Proxies(d) /\ x \notin Inputs(d) /\ x \notin Limits(d)
      /\ (d \in Confs => x \notin {Jump("filter"), Jump("nat")})
  BY PartsSplit, Unconfigured
<1>3. ASSUME x \in Base(c) PROVE x \in Erases(Phase("ipvs", c, d))
  <2>1. Erases(Phase("ipvs", c, d)) = Gone(c, d)
    BY PhaseFields DEF Erases
  <2>2. x[1] \in {"svc", "dst"} /\ x[2] \in Services(c)
    BY <1>3, BaseShape
  <2>3. CASE x[2] \notin Services(d)
    BY <1>1, <2>1, <2>2, <2>3 DEF Gone, Tagged
  <2>4. CASE x[2] \in Services(d)
    <3>1. x[1] = "dst"
      BY <1>2, <1>3, <2>2, <2>4, BaseShape, Introduced
    <3>2. x = Dst(x[2], x[3]) /\ x[3] \in Dests(c, x[2])
      BY <1>3, <3>1, BaseShape
    <3>3. x[3] \notin Dests(d, x[2])
      BY <1>2, <2>4, <3>2, Introduced
    <3>4. QED BY <1>1, <2>1, <2>2, <2>4, <3>1, <3>2, <3>3 DEF Gone, Tagged
  <2>5. QED BY <2>3, <2>4
<1>4. ASSUME x \in Chains(c)
      PROVE  x \in Erases(Phase("unchain", c, d)) /\ (d \in Confs => x \in Erases(Phase("firewall", d, d)))
  <2>1. x \in Tagged({"filter", "nat"})
    BY <1>1, <1>4, ChainShape DEF Tagged
  <2>2. x \in Erases(Phase("unchain", c, d))
    BY <2>1, PhaseFields DEF Erases
  <2>3. Erases(Phase("firewall", d, d)) = Tagged({"filter", "nat"}) \ Provides(Phase("firewall", d, d))
    BY PhaseFields DEF Erases
  <2>4. QED BY <1>2, <2>1, <2>2, <2>3, Providing
<1>5. ASSUME x \in Proxies(c) PROVE x \in Erases(Phase("haproxy", c, d))
  <2>1. x \in Tagged({"proxy"})
    BY <1>1, <1>5, EdgeShape DEF Tagged
  <2>2. Erases(Phase("haproxy", c, d)) = Tagged({"proxy"}) \ Provides(Phase("haproxy", c, d))
    BY PhaseFields DEF Erases
  <2>3. QED BY <1>2, <2>1, <2>2, Providing
<1>6. ASSUME x \in Inputs(c)
      PROVE  IF Of(d).hidden THEN x \in Erases(Phase("input", c, d))
                              ELSE x \in Erases(Phase("noinput", c, d))
  <2>1. x = Jump("input") \/ x \in Tagged({"input"})
    BY <1>1, <1>6, EdgeShape DEF Tagged
  <2>2. Erases(Phase("noinput", c, d)) = Tagged({"input"}) \cup {Jump("input")}
    BY PhaseFields DEF Erases
  <2>3. Erases(Phase("input", c, d)) = Tagged({"input"}) \ Provides(Phase("input", c, d))
    BY PhaseFields DEF Erases
  <2>4. Of(d).hidden => Inputs(d) = Provides(Phase("input", c, d)) /\ Jump("input") \in Inputs(d)
    BY Providing DEF Inputs
  <2>5. QED BY <1>2, <2>1, <2>2, <2>3, <2>4
<1>7. ASSUME x \in Limits(c) PROVE x \in Erases(Phase("rates", c, d))
  <2>1. Of(c).limited # {}
    BY <1>7 DEF Limits, Marks
  <2>2. Erases(Phase("rates", c, d)) =
          (Tagged({"mark"}) \cup {Jump("mark")} \cup {Rate(s) : s \in Of(c).limited}) \ Limits(d)
    BY <2>1, PhaseFields DEF Erases
  <2>3. x \in Tagged({"mark"}) \/ x = Jump("mark") \/ x \in {Rate(s) : s \in Of(c).limited}
    BY <1>1, <1>7, LimitShape DEF Tagged
  <2>4. QED BY <1>2, <2>2, <2>3
<1>8. QED BY <1>3, <1>4, <1>5, <1>6, <1>7

\* A Reconcile brings all of the new configuration, and removes what only the old has.
LEMMA ReconcileSum ==
  ASSUME NEW old \in MConfs, NEW new \in Confs, NEW reset \in BOOLEAN
  PROVE  LET q == ReconcilePhases(old, new, reset) IN
         /\ \A x \in Parts(new) : x \in Brought(q)
         /\ \A x \in Parts(old) \ Parts(new) : x \in Shed(q)
         /\ \A ph \in Range(q) : /\ ph.do # "wipe" /\ Fresh(ph)
                                 /\ ph.do = "haproxy" => ph.to = new
<1> DEFINE q == ReconcilePhases(old, new, reset)
<1>1. Range(q) =
          {Phase("checks", old, new), Phase("firewall", old, new)}
            \cup (IF reset THEN {Phase("ipvs", old, Nothing), Phase("ipvs", Nothing, new)}
                          ELSE {Phase("ipvs", old, new)})
            \cup (IF HasTCP(old) \/ HasTCP(new) THEN {Phase("haproxy", old, new)} ELSE {})
            \cup {Phase("firewall", new, new)}
            \cup (IF Of(new).hidden THEN {Phase("input", old, new)} ELSE {})
            \cup (IF Of(old).hidden /\ ~Of(new).hidden THEN {Phase("noinput", old, new)} ELSE {})
            \cup {Phase("rates", old, new), Phase("save", old, new)}
  BY ReconcileMade
<1>2. new \in MConfs /\ Nothing \in MConfs
  BY DEF MConfs
<1> HIDE DEF q
<1>3. \A ph, x : ph \in Range(q) /\ x \in Provides(ph) => x \in Brought(q)
  BY DEF Brought
<1>4. \A ph, x : ph \in Range(q) /\ x \in Erases(ph) => x \in Shed(q)
  BY DEF Shed
<1>5. ASSUME NEW x \in Parts(new) PROVE x \in Brought(q)
  <2>1. CASE x \in Base(new)
    <3>1. Phase("ipvs", old, new) \in Range(q) \/ Phase("ipvs", Nothing, new) \in Range(q)
      BY <1>1
    <3>2. QED BY <1>3, <2>1, <3>1, Providing
  <2>2. CASE x \in Chains(new) \cup {Jump("filter"), Jump("nat")}
    <3>1. Phase("firewall", new, new) \in Range(q)
      BY <1>1
    <3>2. QED BY <1>3, <2>2, <3>1, Providing
  <2>3. CASE x \in Proxies(new)
    <3>1. Phase("haproxy", old, new) \in Range(q)
      BY <1>1, <2>3 DEF Proxies
    <3>2. QED BY <1>3, <2>3, <3>1, Providing
  <2>4. CASE x \in Inputs(new)
    <3>1. Phase("input", old, new) \in Range(q) /\ x \in {<<"input", Services(new)>>, Jump("input")}
      BY <1>1, <2>4 DEF Inputs
    <3>2. QED BY <1>3, <3>1, Providing
  <2>5. CASE x \in Limits(new)
    <3>1. Phase("rates", old, new) \in Range(q)
      BY <1>1
    <3>2. QED BY <1>3, <2>5, <3>1, Providing
  <2>6. QED BY <2>1, <2>2, <2>3, <2>4, <2>5, PartsSplit
<1>6. ASSUME NEW x \in Parts(old) \ Parts(new) PROVE x \in Shed(q)
  <2>0. old \in Confs /\ x \notin {Jump("filter"), Jump("nat")}
    BY <1>6, PartTag, PartsSplit
  <2>1. CASE x \in Base(old)
    <3>1. CASE reset
      <4>1. Phase("ipvs", old, Nothing) \in Range(q) /\ Parts(Nothing) = {}
        BY <1>1, <3>1, Unconfigured, ReconcilerConstants DEF ReconcilerConstants
      <4>2. x \in Erases(Phase("ipvs", old, Nothing))
        BY <1>2, <1>6, <2>1, <4>1, Erasing
      <4>3. QED BY <1>4, <4>1, <4>2
    <3>2. CASE ~reset
      <4>1. Phase("ipvs", old, new) \in Range(q)
        BY <1>1, <3>2
      <4>2. QED BY <1>2, <1>4, <1>6, <2>1, <4>1, Erasing
    <3>3. QED BY <3>1, <3>2
  <2>2. CASE x \in Chains(old)
    <3>1. Phase("firewall", new, new) \in Range(q)
      BY <1>1
    <3>2. QED BY <1>2, <1>4, <1>6, <2>2, <3>1, Erasing
  <2>3. CASE x \in Proxies(old)
    <3>1. Phase("haproxy", old, new) \in Range(q)
      BY <1>1, <2>3 DEF Proxies
    <3>2. QED BY <1>2, <1>4, <1>6, <2>3, <3>1, Erasing
  <2>4. CASE x \in Inputs(old)
    <3>1. Of(old).hidden
      BY <2>4 DEF Inputs
    <3>2. IF Of(new).hidden THEN Phase("input", old, new) \in Range(q)
                            ELSE Phase("noinput", old, new) \in Range(q)
      BY <1>1, <3>1
    <3>3. QED BY <1>2, <1>4, <1>6, <2>4, <3>2, Erasing
  <2>5. CASE x \in Limits(old)
    <3>1. Phase("rates", old, new) \in Range(q)
      BY <1>1
    <3>2. QED BY <1>2, <1>4, <1>6, <2>5, <3>1, Erasing
  <2>6. QED BY <2>0, <2>1, <2>2, <2>3, <2>4, <2>5, PartsSplit
<1>7. ASSUME NEW ph \in Range(q)
      PROVE  ph.do # "wipe" /\ Fresh(ph) /\ (ph.do = "haproxy" => ph.to = new)
  <2>1. \A do, from, to : do # "wipe" =>
          /\ Phase(do, from, to).do = do /\ Phase(do, from, to).to = to
          /\ Fresh(Phase(do, from, to))
    BY PhaseFields DEF Fresh
  <2>2. \E do, from, to : do # "wipe" /\ (do = "haproxy" => to = new) /\ ph = Phase(do, from, to)
    BY <1>1
  <2>3. QED BY <2>1, <2>2
<1>8. QED BY <1>5, <1>6, <1>7 DEF q

\* A Restore brings all of what the state file names.
LEMMA RestoreSum ==
  ASSUME NEW c \in MConfs
  PROVE  LET q == RestorePhases(c) IN
         /\ HasServices(c) => \A x \in Parts(c) : x \in Brought(q)
         /\ \A ph \in Range(q) : /\ ph.do # "wipe" /\ Fresh(ph)
                                 /\ ph.do = "haproxy" => ph.to = c
<1> DEFINE q == RestorePhases(c)
<1>1. Range(q) =
          IF ~HasServices(c) THEN {}
          ELSE {Phase("checks", c, Nothing), Phase("firewall", c, c), Phase("ipvs", c, c)}
                 \cup (IF HasTCP(c) THEN {Phase("haproxy", c, c)} ELSE {})
                 \cup (IF Of(c).hidden THEN {Phase("input", c, c)} ELSE {})
                 \cup {Phase("rates", c, c), Phase("save", c, c)}
  BY RestoreMade
<1> HIDE DEF q
<1>2. ASSUME NEW ph \in Range(q) 
      PROVE  ph.do # "wipe" /\ Fresh(ph) /\ (ph.do = "haproxy" => ph.to = c)
  <2>1. \A do, from, to : do # "wipe" =>
          /\ Phase(do, from, to).do = do /\ Phase(do, from, to).to = to
          /\ Fresh(Phase(do, from, to))
    BY PhaseFields DEF Fresh
  <2>2. \E do, from, to : do # "wipe" /\ (do = "haproxy" => to = c) /\ ph = Phase(do, from, to)
    BY <1>1
  <2>3. QED BY <2>1, <2>2
<1>3. \A ph, x : ph \in Range(q) /\ x \in Provides(ph) => x \in Brought(q)
  BY DEF Brought
<1>4. ASSUME HasServices(c), NEW x \in Parts(c) PROVE x \in Brought(q)
  <2>1. c \in Confs /\ c # Nothing
    BY PartTag, ReconcilerConstants DEF ReconcilerConstants
  <2>2. /\ Phase("firewall", c, c) \in Range(q) /\ Phase("ipvs", c, c) \in Range(q)
        /\ HasTCP(c) => Phase("haproxy", c, c) \in Range(q)
        /\ Of(c).hidden => Phase("input", c, c) \in Range(q)
        /\ Phase("rates", c, c) \in Range(q)
    BY <1>1, <1>4
  <2>3. /\ x \in Proxies(c) => HasTCP(c)
        /\ x \in Inputs(c) => Of(c).hidden /\ x \in {<<"input", Services(c)>>, Jump("input")}
    BY DEF Proxies, Inputs
  <2>4. x \in Base(c) \/ x \in Chains(c) \cup {Jump("filter"), Jump("nat")} \/ x \in Proxies(c)
        \/ x \in Inputs(c) \/ x \in Limits(c)
    BY <2>1, PartsSplit
  <2>5. QED BY <1>3, <2>2, <2>3, <2>4, Providing
<1>5. QED BY <1>2, <1>4 DEF q

\* A Decommission removes all of what the state file names.
LEMMA DecommissionSum ==
  ASSUME NEW c \in MConfs
  PROVE  LET q == DecommissionPhases(c) IN
         /\ \A x \in Parts(c) : x \in Shed(q)
         /\ Jump("filter") \in Shed(q)
         /\ \A ph \in Range(q) : Fresh(ph) /\ (ph.do = "haproxy" => ph.to = Nothing)
<1> DEFINE q == DecommissionPhases(c)
<1>1. Range(q) = Range(WipeAll(c))
          \cup (IF HasTCP(c) THEN {Phase("haproxy", c, Nothing)} ELSE {})
          \cup {Phase("unchain", c, Nothing)}
          \cup (IF Of(c).hidden THEN {Phase("noinput", c, Nothing)} ELSE {})
          \cup {Phase("rates", c, Nothing), Phase("save", c, Nothing)}
  BY DecommissionMade
<1> HIDE DEF q
<1>2. \A ph, x : ph \in Range(q) /\ x \in Erases(ph) => x \in Shed(q)
  BY DEF Shed
<1>3. Jump("filter") \in Shed(q) /\ Jump("nat") \in Shed(q)
  <2>1. Phase("unchain", c, Nothing) \in Range(q)
    BY <1>1
  <2>2. Jump("filter") \in Erases(Phase("unchain", c, Nothing))
        /\ Jump("nat") \in Erases(Phase("unchain", c, Nothing))
    BY PhaseFields DEF Erases
  <2>3. QED BY <1>2, <2>1, <2>2
<1>4. ASSUME NEW x \in Parts(c) PROVE x \in Shed(q)
  <2>1. c \in Confs /\ Nothing \in MConfs /\ Parts(Nothing) = {} /\ ~Of(Nothing).hidden
    BY PartTag, Unconfigured, ReconcilerConstants DEF ReconcilerConstants, MConfs
  <2>2. x \in Items
    BY ItemsOf
  <2>3. CASE x \in Base(c)
    <3>1. x[1] \in {"svc", "dst"} /\ x[2] \in Services(c)
      BY <2>3, BaseShape
    <3>2. PICK ph \in Range(WipeAll(c)) : ph.left = {x[2]} /\ ph.do = "wipe"
      <4>1. \A s \in Services(c) : \E ph \in Range(WipeAll(c)) : ph.left = {s}
        BY WipeMade
      <4>2. \A ph \in Range(WipeAll(c)) : ph.do = "wipe"
        BY WipeMade
      <4>3. QED BY <3>1, <4>1, <4>2
    <3>3. x \in Erases(ph)
      BY <2>2, <3>1, <3>2 DEF Erases, Tagged
    <3>4. QED BY <1>1, <1>2, <3>2, <3>3
  <2>4. CASE x \in Chains(c)
    <3>1. Phase("unchain", c, Nothing) \in Range(q)
      BY <1>1
    <3>2. QED BY <1>2, <2>1, <2>4, <3>1, Erasing
  <2>5. CASE x \in Proxies(c)
    <3>1. Phase("haproxy", c, Nothing) \in Range(q)
      BY <1>1, <2>5 DEF Proxies
    <3>2. QED BY <1>2, <2>1, <2>5, <3>1, Erasing
  <2>6. CASE x \in Inputs(c)
    <3>1. Phase("noinput", c, Nothing) \in Range(q)
      BY <1>1, <2>6 DEF Inputs
    <3>2. QED BY <1>2, <2>1, <2>6, <3>1, Erasing
  <2>7. CASE x \in Limits(c)
    <3>1. Phase("rates", c, Nothing) \in Range(q)
      BY <1>1
    <3>2. QED BY <1>2, <2>1, <2>7, <3>1, Erasing
  <2>8. QED BY <1>3, <2>1, <2>3, <2>4, <2>5, <2>6, <2>7, PartsSplit
<1>5. ASSUME NEW ph \in Range(q) PROVE Fresh(ph) /\ (ph.do = "haproxy" => ph.to = Nothing)
  <2>1. \A do, from, to : Fresh(Phase(do, from, to)) /\ Phase(do, from, to).to = to
    BY PhaseFields DEF Fresh
  <2>2. ph \in Range(WipeAll(c)) \/ \E do, from : ph = Phase(do, from, Nothing)
    BY <1>1
  <2>3. \A x \in Range(WipeAll(c)) : Fresh(x) /\ x.do # "haproxy"
    BY WipeMade DEF Fresh
  <2>4. QED BY <2>1, <2>2, <2>3
<1>6. QED BY <1>3, <1>4, <1>5 DEF q
-----------------------------------------------------------------------------
(* A call goes forward                                                     *)

\* A call begins on what there is.
LEMMA ForwardBegin ==
  ASSUME ShapeInv, NEW op, NEW new, NEW reset, NEW phases, Begin(op, new, reset, phases),
         Sound(phases, new, {}, {}), \A ph \in Range(phases) : Fresh(ph) /\ (ph.do = "haproxy" => ph.to = new),
         ~Nought' => \A x \in Parts(new) : x \in Brought(phases),
         \A x \in Parts(saved) \ Parts(new) : x \in Shed(phases),
         (\E ph \in Range(phases) : ph.do = "wipe") => new = Nothing,
         op = "decommission" => Jump("filter") \in Shed(phases)
  PROVE  ForwardInv'
<1>1. /\ call'.new = new /\ call'.op = op /\ todo' = phases /\ phase' = NoPhase /\ plan' = <<>>
      /\ before' = [dp |-> Observed, saved |-> saved] /\ present' = present
  BY DEF Begin, ShapeInv
<1>2. /\ Provides(phase') = {} /\ Erases(phase') = {} /\ phase'.do = "none"
  BY <1>1, NoPhaseFields
<1>3. ASSUME ~Dirty', NEW x \in present \ (Foreign \cup Parts(new)) PROVE x \in Shed(phases)
  <2>1. before'.dp = Observed /\ before'.saved = saved
    BY <1>1
  <2>2. ~Observed.orphans /\ Observed.conf \in {Nothing, Broken, saved}
    BY <1>3, <2>1 DEF Dirty
  <2>3. /\ Observed.conf = Nothing \/ Observed.conf = Broken \/ Observed.conf = saved
        /\ present \subseteq Foreign \cup Parts(saved) \cup Parts(Observed.conf)
    BY <2>2 DEF Observed
  <2>4. Parts(Nothing) = {} /\ Parts(Broken) = {}
    BY Unconfigured, ReconcilerConstants DEF ReconcilerConstants
  <2>5. x \in Parts(saved)
    BY <1>3, <2>3, <2>4
  <2>6. QED BY <1>3, <2>5
<1>4. QED BY <1>1, <1>2, <1>3 DEF ForwardInv

\* A call starts its next phase.
LEMMA ForwardStart ==
  ASSUME ShapeInv, ProxyInv, SaveInv, ForwardInv, StartPhase
  PROVE  ForwardInv'
<1> SUFFICES ASSUME ~undoing, ~Nought PROVE ForwardInv'
  BY DEF StartPhase, ForwardInv, Nought
<1>1. /\ todo # <<>> /\ phase' = Head(todo) /\ todo' = Tail(todo) /\ plan = <<>> /\ Busy
      /\ phase.left = {}
      /\ plan' \in Plans(Head(todo)) /\ UNCHANGED <<present, cfgFile, call, undoing, before>>
  BY DEF StartPhase, ShapeInv
<1> DEFINE T == call.new
           ph == Head(todo)
           rest == Tail(todo)
<1>2. /\ \A p \in Range(todo) : Fresh(p) /\ (p.do = "haproxy" => p.to = T)
      /\ Sound(todo, T, {}, {})
      /\ (\E p \in Range(todo) : p.do = "wipe") => T = Nothing
      /\ \A x \in Parts(T) : x \in present \cup Brought(todo) \/ Excused(x)
      /\ ~Dirty => \A x \in present \ (Foreign \cup Parts(T)) : x \in Shed(todo) \/ Excused(x)
      /\ call.op = "decommission" /\ Jump("filter") \in present => Jump("filter") \in Shed(todo)
  <2>1. Added(plan) = {} /\ Dropped(plan) = {}
    BY <1>1, RangeShort DEF Added, Dropped
  <2>2. \A x : ~Waits(x)
    BY <1>1 DEF Waits
  <2>3. QED BY <1>1, <2>1, <2>2 DEF ForwardInv
<1>3. /\ Len(todo) \in Nat \ {0} /\ DOMAIN todo = 1 .. Len(todo) /\ ph = todo[1] /\ ph \in Phases
      /\ ph \in Range(todo) /\ Len(rest) = Len(todo) - 1
      /\ DOMAIN rest = 1 .. Len(todo) - 1
      /\ \A i \in DOMAIN rest : i + 1 \in DOMAIN todo /\ rest[i] = todo[i + 1]
      /\ Range(todo) = {ph} \cup Range(rest)
  BY <1>1, TodoTail
<1>4. \A j \in DOMAIN todo : j > 1 => j - 1 \in DOMAIN rest /\ todo[j] = rest[j - 1]
  <2> TAKE j \in DOMAIN todo
  <2>1. j > 1 => j - 1 \in DOMAIN rest /\ (j - 1) + 1 = j
    BY <1>3
  <2>2. QED BY <1>3, <2>1
<1> HIDE DEF ph, rest, T
<1>5. Brought(todo) = Provides(ph) \cup Brought(rest) /\ Shed(todo) = Erases(ph) \cup Shed(rest)
  BY <1>3 DEF Brought, Shed
<1>6. Sound(rest, T, {}, {})
  <2> SUFFICES ASSUME NEW i \in DOMAIN rest
               PROVE  /\ \A x \in Erases(rest[i]) \cap Parts(T) :
                           \E j \in DOMAIN rest : j > i /\ x \in Provides(rest[j])
                      /\ \A x \in Provides(rest[i]) \ Parts(T) :
                           \E j \in DOMAIN rest : j > i /\ x \in Erases(rest[j])
    BY DEF Sound
  <2>1. i + 1 \in DOMAIN todo /\ rest[i] = todo[i + 1] /\ i \in 1 .. Len(todo) - 1
    BY <1>3
  <2>2. \A j \in DOMAIN todo : j > i + 1 => j > 1 /\ j - 1 > i
    BY <1>3, <2>1
  <2>3. QED BY <1>2, <1>4, <2>1, <2>2 DEF Sound
<1>7. /\ (Erases(ph) \cap Parts(T)) \subseteq Brought(rest)
      /\ (Provides(ph) \ Parts(T)) \subseteq Shed(rest)
  <2>1. 1 \in DOMAIN todo
    BY <1>3
  <2>2. /\ \A x \in Erases(ph) \cap Parts(T) :
             \E j \in DOMAIN todo : j > 1 /\ x \in Provides(todo[j])
        /\ \A x \in Provides(ph) \ Parts(T) :
             \E j \in DOMAIN todo : j > 1 /\ x \in Erases(todo[j])
    BY <1>2, <1>3, <2>1 DEF Sound
  <2>3. \A j \in DOMAIN rest : rest[j] \in Range(rest)
    BY DEF Range
  <2>4. QED BY <1>4, <2>2, <2>3 DEF Brought, Shed
<1>8. present' = present /\ plan' \in Plans(ph) /\ phase' = ph /\ Stale' = Stale
  BY <1>1 DEF ph, Stale, Kind
<1>9. ASSUME ph.do = "haproxy" PROVE plan' # <<>> \/ ~Stale \/ T = Nothing \/ Skipped'
  <2>1. Busy /\ call'.new = T /\ before'.dp.stale = before.dp.stale /\ before.dp.stale \in BOOLEAN
    BY <1>1 DEF T, ProxyInv
  <2>2. Stale => before.dp.stale
    BY <1>1, <2>1 DEF ProxyInv
  <2>3. QED BY <1>8, <2>1, <2>2 DEF Skipped
<1>10. ASSUME ph.do # "haproxy", NEW x, Excused(x) PROVE Excused(x)'
  <2>1. call'.new = call.new /\ before'.dp.stale = before.dp.stale
    BY <1>1
  <2>2. QED BY <1>8, <1>10, <2>1 DEF Excused, Skipped
<1>11. /\ ph.do \notin {"ipvs", "wipe"} /\ ~(ph.do = "haproxy" /\ Skipped') => Complete(plan', ph)
       /\ \A x : x \in Provides(ph) => x \in present \cup Added(plan') \/ Waits(x)' \/ Excused(x)'
       /\ \A x \in present : x \in Erases(ph) =>
            \/ x \in Dropped(plan')
            \/ ph.do \in {"ipvs", "wipe"} /\ Waits(x)' /\ x[1] # "jump"
            \/ Excused(x)'
  <2>1. ph.do = "haproxy" => ph.to = T
    BY <1>2, <1>3
  <2>2. plan' \in Plans(ph) /\ phase' = ph
    BY <1>8
  <2>3. ph.do \notin {"ipvs", "wipe"} /\ ~(ph.do = "haproxy" /\ Skipped') => Complete(plan', ph)
    BY <1>3, <1>9, <2>1, <2>2, PlanFacts
  <2>4. CASE ph.do \notin {"ipvs", "wipe"} /\ ~(ph.do = "haproxy" /\ Skipped')
    BY <2>3, <2>4 DEF Complete
  <2>5. CASE ph.do = "haproxy" /\ Skipped'
    <3>1. \A x \in Provides(ph) : IsProxy(x)
      BY <2>5, EdgeShape DEF Provides, IsProxy
    <3>2. \A x \in Erases(ph) : IsProxy(x)
      BY <2>5 DEF Erases, Tagged, IsProxy
    <3>3. QED BY <2>3, <2>5, <3>1, <3>2 DEF Excused, IsProxy
  <2>6. CASE ph.do = "ipvs"
    <3>1. ph.left = Services(ph.from) \cup Services(ph.to)
      BY <1>2, <1>3, <2>6 DEF Fresh
    <3>2. \A x \in Provides(ph) : x[1] \in {"svc", "dst"} /\ x[2] \in ph.left
      BY <2>6, <3>1, BaseShape DEF Provides
    <3>3. \A x \in Erases(ph) : x[1] \in {"svc", "dst"} /\ x[2] \in ph.left
      BY <2>6, <3>1 DEF Erases, Gone, Tagged
    <3>4. QED BY <2>2, <2>6, <3>2, <3>3 DEF Waits
  <2>7. CASE ph.do = "wipe"
    <3>1. Provides(ph) = {}
      BY <2>7 DEF Provides
    <3>2. \A x \in Erases(ph) : x[1] \in {"svc", "dst"} /\ x[2] \in ph.left
      BY <2>7 DEF Erases, Tagged
    <3>3. QED BY <2>2, <2>7, <3>1, <3>2 DEF Waits
  <2>8. QED BY <2>4, <2>6, <2>7, <2>5
<1>11a. ASSUME NEW x \in present, x \in Erases(ph)
        PROVE  \/ x \in Dropped(plan')
               \/ ph.do \in {"ipvs", "wipe"} /\ Waits(x)' /\ x[1] # "jump"
               \/ Excused(x)'
  BY <1>11, <1>11a
<1>12. call' = call /\ before' = before /\ present' = present /\ phase' = ph /\ todo' = rest
      /\ call'.new = T /\ (Dirty' <=> Dirty)
  BY <1>1 DEF ph, rest, T, Dirty
<1>13. ASSUME ph.do = "haproxy", NEW x, IsProxy(x)
       PROVE  /\ x \in Parts(T) => x \in Provides(ph)
              /\ x \in present \ (Foreign \cup Parts(T)) => x \in Erases(ph)
  <2>1. T \in MConfs /\ ph.to = T
    BY <1>2, <1>3, <1>13 DEF T, ShapeInv
  <2>2. x \in Parts(T) => x \in Proxies(T)
    BY <1>13, PartTag DEF IsProxy
  <2>3. Proxies(T) \subseteq Parts(T)
    <3>1. CASE T \in Confs
      BY <3>1, PartsSplit
    <3>2. CASE T \notin Confs
      BY <3>2, Unconfigured
    <3>3. QED BY <3>1, <3>2
  <2>4. x \in present \ Foreign => x \in Items
    BY DEF ShapeInv
  <2>5. QED BY <1>13, <2>1, <2>2, <2>3, <2>4 DEF Provides, Erases, Tagged, IsProxy
<1>14. ASSUME NEW x \in Parts(T)
       PROVE  \/ x \in present \cup Added(plan') \cup Brought(rest)
              \/ x \in Provides(ph) /\ Waits(x)'
              \/ Excused(x)'
  <2>1. CASE x \in present \cup Brought(todo)
    BY <1>5, <1>11, <2>1
  <2>2. CASE Excused(x) /\ ph.do # "haproxy"
    BY <1>10, <2>2
  <2>3. CASE Excused(x) /\ ph.do = "haproxy"
    <3>1. x \in Provides(ph)
      BY <1>14, <1>13, <2>3 DEF Excused
    <3>2. QED BY <1>11, <3>1
  <2>4. QED BY <1>2, <1>14, <2>1, <2>2, <2>3
<1>15. ASSUME ~Dirty, NEW x \in present \ (Foreign \cup Parts(T))
       PROVE  \/ x \in Dropped(plan') \cup Shed(rest)
              \/ ph.do = "ipvs" /\ x \in Erases(ph) /\ Waits(x)'
              \/ ph.do = "wipe" /\ Waits(x)'
              \/ Excused(x)'
  <2>1. CASE x \in Shed(todo)
    <3>1. x \in Shed(rest) \/ x \in Erases(ph)
      BY <1>5, <2>1
    <3>2. x \in Erases(ph) => \/ x \in Dropped(plan')
                              \/ ph.do \in {"ipvs", "wipe"} /\ Waits(x)'
                              \/ Excused(x)'
      BY <1>11a, <1>15
    <3>3. QED BY <3>1, <3>2
  <2>2. CASE Excused(x) /\ ph.do # "haproxy"
    BY <1>10, <2>2
  <2>3. CASE Excused(x) /\ ph.do = "haproxy"
    <3>1. x \in Erases(ph)
      BY <1>15, <1>13, <2>3 DEF Excused
    <3>2. QED BY <1>11a, <1>15, <2>3, <3>1
  <2>4. QED BY <1>2, <1>15, <2>1, <2>2, <2>3
<1>16. call.op = "decommission" /\ Jump("filter") \in present
         => Jump("filter") \in Dropped(plan') \cup Shed(rest)
  <2>1. ~Excused(Jump("filter"))'
    BY JumpShape DEF Excused, IsProxy
  <2>2. ASSUME Jump("filter") \in present, Jump("filter") \in Erases(ph)
        PROVE  Jump("filter") \in Dropped(plan')
    BY <1>11a, <2>1, <2>2, JumpShape
  <2>3. QED BY <1>2, <1>5, <2>2
<1>17. /\ \A p \in Range(rest) : Fresh(p) /\ (p.do = "haproxy" => p.to = T)
       /\ ph.do = "wipe" \/ (\E p \in Range(rest) : p.do = "wipe") => T = Nothing
  BY <1>2, <1>3
<1>18. QED BY <1>6, <1>7, <1>12, <1>14, <1>15, <1>16, <1>17 DEF ForwardInv

\* A phase comes to its next service.
LEMMA ForwardService ==
  ASSUME ShapeInv, ForwardInv, NextService
  PROVE  ForwardInv'
<1> SUFFICES ASSUME ~undoing, ~Nought PROVE ForwardInv'
  BY DEF NextService, ForwardInv, Nought
<1>1. PICK s \in Turn(phase) : /\ plan' = ServicePlan(phase, s)
                               /\ phase' = [phase EXCEPT !.left = @ \ {s}]
  BY DEF NextService
<1>2. s \in phase.left
  BY <1>1, TurnIs
<1>3. /\ phase'.do = phase.do /\ phase'.left = phase.left \ {s}
      /\ Provides(phase') = Provides(phase) /\ phase.do \in {"ipvs", "wipe"}
      /\ phase.do = "ipvs" =>
           /\ Erases(phase') = Erases(phase)
           /\ \A x \in Provides(phase') : x[2] = s => x \in Added(plan')
           /\ \A x \in Erases(phase') \cap present : x[2] = s => x \in Dropped(plan')
      /\ phase.do = "wipe" => Under(s) \subseteq Dropped(plan') /\ Provides(phase') = {}
  BY <1>1, <1>2, ServiceFacts
<1>4. /\ plan = <<>> /\ UNCHANGED <<present, cfgFile, call, todo, undoing, before>> /\ Busy
  BY <1>2, NoPhaseFields DEF NextService, ShapeInv
<1>5. Added(plan) = {} /\ Dropped(plan) = {}
  BY <1>4, RangeShort DEF Added, Dropped
<1>6. Erases(phase') \subseteq Erases(phase)
  <2>1. CASE phase.do = "ipvs"
    BY <1>3, <2>1
  <2>2. CASE phase.do = "wipe"
    BY <1>3, <2>2 DEF Erases
  <2>3. QED BY <1>3, <2>1, <2>2
<1>7. \A x : Waits(x) => Waits(x)' \/ (x[2] = s /\ x[1] \in {"svc", "dst"})
  BY <1>2, <1>3 DEF Waits
<1>8. \A x \in present : x[2] = s /\ x[1] \in {"svc", "dst"} => x \in Under(s)
  BY DEF Under
<1> DEFINE T == call.new
<1>9. /\ \A p \in Range(todo) : Fresh(p) /\ (p.do = "haproxy" => p.to = T)
      /\ Sound(todo, T, {}, {})
      /\ (Erases(phase) \cap Parts(T)) \subseteq Brought(todo)
      /\ (Provides(phase) \ Parts(T)) \subseteq Shed(todo)
      /\ \A x \in Parts(T) :
           \/ x \in present \cup Brought(todo)
           \/ x \in Provides(phase) /\ Waits(x)
           \/ Excused(x)
      /\ ~Dirty => \A x \in present \ (Foreign \cup Parts(T)) :
           \/ x \in Shed(todo)
           \/ phase.do = "ipvs" /\ x \in Erases(phase) /\ Waits(x)
           \/ phase.do = "wipe" /\ Waits(x)
           \/ Excused(x)
      /\ phase.do = "wipe" \/ (\E p \in Range(todo) : p.do = "wipe") => T = Nothing
      /\ call.op = "decommission" /\ Jump("filter") \in present => Jump("filter") \in Shed(todo)
  BY <1>4, <1>5 DEF ForwardInv
<1>10. \A x : Excused(x) => Excused(x)'
  BY <1>3, <1>4 DEF Excused, Skipped, Stale, Kind
<1>11. \A x \in Parts(T) :
           \/ x \in present \cup Added(plan') \cup Brought(todo)
           \/ x \in Provides(phase') /\ Waits(x)'
           \/ Excused(x)'
  BY <1>3, <1>7, <1>9, <1>10
<1>12. ASSUME ~Dirty, NEW x \in present \ (Foreign \cup Parts(T))
       PROVE  \/ x \in Dropped(plan') \cup Shed(todo)
              \/ phase'.do = "ipvs" /\ x \in Erases(phase') /\ Waits(x)'
              \/ phase'.do = "wipe" /\ Waits(x)'
              \/ Excused(x)'
  <2>1. CASE phase.do = "ipvs"
    BY <1>3, <1>7, <1>9, <1>12, <1>10, <2>1
  <2>2. CASE phase.do = "wipe"
    BY <1>3, <1>7, <1>8, <1>9, <1>12, <1>10, <2>2
  <2>3. QED BY <1>3, <2>1, <2>2
<1>13. Dirty' <=> Dirty
  BY <1>4 DEF Dirty
<1>14. QED BY <1>3, <1>4, <1>6, <1>9, <1>11, <1>12, <1>13 DEF ForwardInv

\* A command is carried out.
LEMMA ForwardRun ==
  ASSUME ShapeInv, SaveInv, ForwardInv, RunCommand
  PROVE  ForwardInv'
<1> SUFFICES ASSUME ~undoing, ~Nought PROVE ForwardInv'
  BY DEF RunCommand, ForwardInv, Nought
<1> DEFINE cmd == Head(plan)
           T == call.new
<1>1. /\ Suits(cmd, phase) /\ Range(plan) = {cmd} \cup Range(Tail(plan)) /\ plan' = Tail(plan)
      /\ present' = (present \ cmd.drop) \cup cmd.add /\ Busy /\ plan # <<>>
      /\ UNCHANGED <<call, todo, phase, undoing, before>>
  BY RunFacts
<1> HIDE DEF cmd
<1>2. /\ Added(plan) = cmd.add \cup Added(plan')
      /\ Dropped(plan) = (cmd.drop \ cmd.add) \cup Dropped(plan')
  BY <1>1 DEF Added, Dropped
<1>3. /\ \A p \in Range(todo) : Fresh(p) /\ (p.do = "haproxy" => p.to = T)
      /\ Sound(todo, T, {}, {})
      /\ (Erases(phase) \cap Parts(T)) \subseteq Brought(todo)
      /\ (Provides(phase) \ Parts(T)) \subseteq Shed(todo)
      /\ \A x \in Parts(T) :
           \/ x \in present \cup Added(plan) \cup Brought(todo)
           \/ x \in Provides(phase) /\ Waits(x)
           \/ Excused(x)
      /\ ~Dirty => \A x \in present \ (Foreign \cup Parts(T)) :
           \/ x \in Dropped(plan) \cup Shed(todo)
           \/ phase.do = "ipvs" /\ x \in Erases(phase) /\ Waits(x)
           \/ phase.do = "wipe" /\ Waits(x)
           \/ Excused(x)
      /\ phase.do = "wipe" \/ (\E p \in Range(todo) : p.do = "wipe") => T = Nothing
      /\ call.op = "decommission" /\ Jump("filter") \in present
           => Jump("filter") \in Dropped(plan) \cup Shed(todo)
  BY <1>1 DEF ForwardInv
<1>4. Parts(Nothing) = {}
  BY Unconfigured, ReconcilerConstants DEF ReconcilerConstants
<1>5. call.op = "decommission" => Parts(T) = {}
  BY <1>1, <1>4 DEF SaveInv
<1>6. /\ cmd.add \subseteq Provides(phase)
      /\ phase.do # "wipe" => cmd.drop \ cmd.add \subseteq Erases(phase)
      /\ phase.do = "wipe" => Parts(T) = {}
  BY <1>1, <1>3, <1>4 DEF Suits
<1>7. ASSUME NEW x, Excused(x) PROVE Excused(x)'
  <2>1. phase.do \notin {"haproxy", "wipe"}
    BY <1>1, <1>3, <1>7 DEF Excused, Skipped
  <2>2. Stale' = Stale
    BY <2>1, ProxyKept
  <2>3. QED BY <1>1, <1>7, <2>1, <2>2 DEF Excused, Skipped
<1> HIDE DEF T
<1>8. ASSUME NEW x \in Parts(T)
      PROVE  \/ x \in present' \cup Added(plan') \cup Brought(todo)
             \/ x \in Provides(phase) /\ Waits(x)
             \/ Excused(x)'
  <2>1. CASE x \in present /\ x \notin present'
    <3>1. x \in cmd.drop \ cmd.add
      BY <1>1, <2>1
    <3>2. x \in Erases(phase)
      BY <1>6, <1>8, <3>1
    <3>3. QED BY <1>3, <1>8, <3>2
  <2>2. CASE x \in cmd.add
    BY <1>1, <2>2
  <2>3. CASE x \in present'
    BY <2>3
  <2>4. QED BY <1>2, <1>3, <1>8, <1>7, <2>1, <2>2, <2>3
<1>9. ASSUME ~Dirty, NEW x \in present' \ (Foreign \cup Parts(T))
      PROVE  \/ x \in Dropped(plan') \cup Shed(todo)
             \/ phase.do = "ipvs" /\ x \in Erases(phase) /\ Waits(x)
             \/ phase.do = "wipe" /\ Waits(x)
             \/ Excused(x)'
  <2>1. CASE x \in cmd.add
    BY <1>3, <1>6, <1>9, <2>1
  <2>2. CASE x \notin cmd.add
    <3>1. x \in present /\ x \notin cmd.drop
      BY <1>1, <1>9, <2>2
    <3>2. QED BY <1>2, <1>3, <1>9, <1>7, <3>1
  <2>3. QED BY <2>1, <2>2
<1>10. ASSUME call.op = "decommission", Jump("filter") \in present'
      PROVE  Jump("filter") \in Dropped(plan') \cup Shed(todo)
  <2>1. CASE Jump("filter") \in cmd.add
    BY <1>3, <1>5, <1>6, <1>10, <2>1
  <2>2. CASE Jump("filter") \notin cmd.add
    <3>1. Jump("filter") \in present /\ Jump("filter") \notin cmd.drop
      BY <1>1, <1>10, <2>2
    <3>2. QED BY <1>2, <1>3, <1>10, <3>1
  <2>3. QED BY <2>1, <2>2
<1>11. (Dirty' <=> Dirty) /\ \A x : Waits(x)' <=> Waits(x)
  BY <1>1 DEF Dirty, Waits
<1>12. call'.new = T
  BY <1>1 DEF T
<1>13. QED BY <1>1, <1>3, <1>8, <1>9, <1>10, <1>11, <1>12 DEF ForwardInv

\* Every step of a call keeps it on its way.
LEMMA ForwardNext ==
  ASSUME ShapeInv, ProxyInv, SaveInv, ForwardInv, [Next]_vars
  PROVE  ForwardInv'
<1>1. ASSUME NEW c \in Confs, NEW reset \in BOOLEAN, Reconcile(c, reset) PROVE ForwardInv'
  <2>1. saved \in MConfs
    BY DEF ShapeInv
  <2> DEFINE q == ReconcilePhases(saved, c, reset)
  <2>2. /\ Sound(q, c, {}, {}) /\ \A x \in Parts(c) : x \in Brought(q)
        /\ \A x \in Parts(saved) \ Parts(c) : x \in Shed(q)
        /\ \A ph \in Range(q) : ph.do # "wipe" /\ Fresh(ph) /\ (ph.do = "haproxy" => ph.to = c)
    BY <2>1, ReconcileMade, ReconcileSum
  <2>3. Begin("reconcile", c, reset, q)
    BY <1>1 DEF Reconcile
  <2> HIDE DEF q
  <2>4. QED BY <2>2, <2>3, ForwardBegin
<1>2. ASSUME Restore PROVE ForwardInv'
  <2>1. saved \in MConfs
    BY DEF ShapeInv
  <2> DEFINE q == RestorePhases(saved)
  <2>2. /\ Sound(q, saved, {}, {})
        /\ HasServices(saved) => \A x \in Parts(saved) : x \in Brought(q)
        /\ \A ph \in Range(q) : ph.do # "wipe" /\ Fresh(ph) /\ (ph.do = "haproxy" => ph.to = saved)
    BY <2>1, RestoreMade, RestoreSum
  <2>3. Begin("restore", saved, FALSE, q)
    BY <1>2 DEF Restore
  <2>4. ~Nought' => HasServices(saved)
    BY <2>3 DEF Begin, Nought
  <2> HIDE DEF q
  <2>5. QED BY <2>2, <2>3, <2>4, ForwardBegin
<1>3. ASSUME Decommission PROVE ForwardInv'
  <2>1. saved \in MConfs /\ Parts(Nothing) = {}
    BY Unconfigured, ReconcilerConstants DEF ShapeInv, ReconcilerConstants
  <2> DEFINE q == DecommissionPhases(saved)
  <2>2. /\ Sound(q, Nothing, {}, {}) /\ \A x \in Parts(saved) : x \in Shed(q)
        /\ \A ph \in Range(q) : Fresh(ph) /\ (ph.do = "haproxy" => ph.to = Nothing)
        /\ Jump("filter") \in Shed(q)
    BY <2>1, DecommissionMade, DecommissionSum
  <2>3. Begin("decommission", Nothing, FALSE, q)
    BY <1>3 DEF Decommission
  <2> HIDE DEF q
  <2>4. QED BY <2>1, <2>2, <2>3, ForwardBegin
<1>4. ASSUME CommandFails PROVE ForwardInv'
  BY <1>4 DEF CommandFails, ForwardInv
<1>5. ASSUME Return \/ Crash PROVE ForwardInv'
  BY <1>5 DEF Return, Crash, Ends, ForwardInv, Busy
<1>6. ASSUME Reboot PROVE ForwardInv'
  BY <1>6 DEF Reboot, ForwardInv, Busy
<1>7. ASSUME UNCHANGED vars PROVE ForwardInv'
  BY <1>7 DEF vars, ForwardInv, Busy, Nought, Dirty, Waits, Excused, Skipped, Stale, Kind
<1>8. QED
  BY <1>1, <1>2, <1>3, <1>4, <1>5, <1>6, <1>7, ForwardStart, ForwardService, ForwardRun DEF Next

\* No call at first.
LEMMA ForwardInit == Init => ForwardInv
BY DEF Init, ForwardInv, Busy

\* No Restore at first.
LEMMA IdleInit == Init => IdleInv
BY DEF Init, IdleInv, Busy
-----------------------------------------------------------------------------
(* Every call is a step of DataPlane                                       *)

\* The state of DataPlane, as Plane substitutes it.
PlaneSaved == IF Busy THEN before.saved ELSE saved
PlaneDP == IF Busy THEN before.dp ELSE Observed

\* The node as it is seen from outside.
LEMMA ObservedIs ==
  /\ Observed = [conf |-> Observed.conf, orphans |-> Observed.orphans, stale |-> Stale]
  /\ Observed.conf \in {saved, goal, Nothing, Broken} /\ Observed.orphans \in BOOLEAN
  /\ Stale \in BOOLEAN
  /\ saved # Nothing /\ Parts(saved) \subseteq present => Observed.conf = saved
  /\ Observed.orphans <=> ~(present \subseteq Foreign \cup Parts(saved) \cup Parts(Observed.conf))
  /\ saved = Nothing /\ (goal # Nothing /\ ~Stale => ~(Parts(goal) \subseteq present))
       => Observed.conf = Nothing
  /\ Stale /\ Parts(saved) \cap present # {} => Observed.conf \in {saved, Broken}
<1>1. /\ Observed = [conf |-> Observed.conf, orphans |-> Observed.orphans, stale |-> Stale]
      /\ Observed.conf \in {saved, goal, Nothing, Broken} /\ Observed.orphans \in BOOLEAN
      /\ saved # Nothing /\ Parts(saved) \subseteq present => Observed.conf = saved
      /\ Observed.orphans <=> ~(present \subseteq Foreign \cup Parts(saved) \cup Parts(Observed.conf))
      /\ Stale /\ Parts(saved) \cap present # {} => Observed.conf \in {saved, Broken}
  BY DEF Observed
<1>2. Parts(Nothing) = {}
  BY Unconfigured, ReconcilerConstants DEF ReconcilerConstants
<1>3. saved = Nothing /\ (goal # Nothing /\ ~Stale => ~(Parts(goal) \subseteq present))
        => Observed.conf = Nothing
  BY <1>2 DEF Observed
<1>4. Stale \in BOOLEAN
  BY DEF Stale
<1>5. QED BY <1>1, <1>3, <1>4

\* HAProxy is EzhikLB's own.
LEMMA NoForeignProxy == \A x \in Foreign : ~IsProxy(x)
BY ReconcilerConstants DEF ReconcilerConstants, IsProxy

\* A configuration needs the firewall's jump.
LEMMA NotNone ==
  ASSUME NEW c \in Confs
  PROVE  Jump("filter") \in Parts(c) /\ c # Nothing /\ c # Broken
BY PartsSplit, ReconcilerConstants DEF ReconcilerConstants

\* A call that has run all of its phases without a failure did what it was asked for.
LEMMA Succeeds ==
  ASSUME ShapeInv, ProxyInv, SaveInv, GoalInv, IdleInv, ForwardInv, Busy, Finished, ~undoing
  PROVE  /\ saved = call.new /\ before.saved = call.old
         /\ call.op = "reconcile" => call.new \in Confs /\ Observed \in Plane!Served(call.new)
         /\ call.op = "restore" =>
              /\ call.new = call.old
              /\ Observed \in (IF HasServices(call.new) THEN Plane!Served(call.new) ELSE {before.dp})
         /\ call.op = "decommission" => call.new = Nothing /\ Observed \in Plane!Served(Nothing)
<1> DEFINE T == call.new
<1>1. plan = <<>> /\ todo = <<>> /\ phase.left = {}
  BY DEF Finished
<1>2. /\ Added(plan) = {} /\ Dropped(plan) = {} /\ Brought(todo) = {} /\ Shed(todo) = {}
      /\ \A x : ~Waits(x)
  BY <1>1, RangeShort DEF Added, Dropped, Brought, Shed, Waits
<1>3. ASSUME ~Nought
      PROVE  /\ \A x \in Parts(T) : x \in present \/ (Stale /\ IsProxy(x))
             /\ ~Dirty /\ ~Stale => present \subseteq Foreign \cup Parts(T)
             /\ call.op = "decommission" => Jump("filter") \notin present
  <2>1. \A x : Excused(x) => Stale /\ IsProxy(x)
    BY DEF Excused, Skipped
  <2>2. \A x \in Parts(T) : x \in present \/ Excused(x)
    BY <1>2, <1>3 DEF ForwardInv
  <2>3. ~Dirty => \A x \in present \ (Foreign \cup Parts(T)) : Excused(x)
    BY <1>2, <1>3 DEF ForwardInv
  <2>4. call.op = "decommission" => Jump("filter") \notin present
    BY <1>2, <1>3 DEF ForwardInv
  <2>5. QED BY <2>1, <2>2, <2>3, <2>4
<1>4. /\ saved = T /\ before.saved = call.old
      /\ call.op = "restore" => T = call.old
      /\ call.op = "decommission" => T = Nothing
  <2>1. \A i \in DOMAIN todo : FALSE
    BY <1>1
  <2>2. QED BY <1>1, <2>1 DEF SaveInv
<1>5. T \in MConfs /\ goal \in MConfs
  BY DEF ShapeInv
<1>6. ~Nought /\ ~Dirty /\ ~Stale => ~Observed.orphans
  BY <1>3, <1>4, ObservedIs
<1>7. Plane!Dirty = Dirty
  BY DEF Plane!Dirty, Dirty
<1>8. Stale => before.dp.stale
  BY <1>1 DEF ProxyInv
<1>9. ASSUME ~Nought, NEW c, Observed.conf = c \/ (Stale /\ c # Nothing /\ Observed.conf = Broken)
      PROVE  Observed \in Plane!Served(c)
  <2>1. Observed = [conf |-> Observed.conf, orphans |-> Observed.orphans, stale |-> Stale]
        /\ Observed.orphans \in BOOLEAN /\ Stale \in BOOLEAN
    BY ObservedIs
  <2> DEFINE k == Observed.conf
             o == Observed.orphans
  <2>2. CASE ~Stale
    <3>1. o \in {FALSE, Dirty}
      <4>1. Dirty \in BOOLEAN
        BY DEF Dirty
      <4>2. QED BY <1>6, <1>9, <2>1, <2>2, <4>1
    <3>2. k = c
      BY <1>9, <2>2
    <3> HIDE DEF k, o
    <3>3. [conf |-> k, orphans |-> o, stale |-> FALSE]
            \in [conf: {c}, orphans: {FALSE, Dirty}, stale: {FALSE}]
      BY <3>1, <3>2
    <3>4. QED BY <1>7, <2>1, <2>2, <3>3 DEF Plane!Served, k, o
  <2>3. CASE Stale
    <3>1. k \in (IF c = Nothing THEN {Nothing} ELSE {c, Broken})
      BY <1>9
    <3> HIDE DEF k, o
    <3>2. [conf |-> k, orphans |-> o, stale |-> TRUE]
            \in [conf: IF c = Nothing THEN {Nothing} ELSE {c, Broken}, orphans: BOOLEAN, stale: {TRUE}]
      BY <2>1, <3>1 DEF o
    <3>3. QED BY <1>8, <2>1, <2>3, <3>2 DEF Plane!Served, k, o
  <2>4. QED BY <2>2, <2>3
<1>10. ASSUME ~Nought, T # Nothing
      PROVE  Observed.conf = T \/ (Stale /\ Observed.conf = Broken)
  <2>1. CASE Parts(T) \subseteq present
    BY <1>4, <1>10, <2>1, ObservedIs
  <2>2. CASE ~(Parts(T) \subseteq present)
    <3>1. Stale
      BY <1>3, <1>10, <2>2
    <3>2. Jump("filter") \in Parts(T)
      BY <1>5, <1>10, NotNone DEF MConfs
    <3>3. ~IsProxy(Jump("filter"))
      BY JumpShape DEF IsProxy
    <3>4. Jump("filter") \in present
      BY <1>3, <1>10, <3>2, <3>3
    <3>5. QED BY <1>4, <3>1, <3>2, <3>4, ObservedIs
  <2>3. QED BY <2>1, <2>2
<1>11. ASSUME call.op = "decommission" PROVE Observed.conf = Nothing
  <2>1. goal # Nothing => Jump("filter") \in Parts(goal)
    BY <1>5, NotNone DEF MConfs, ShapeInv
  <2>2. goal # Nothing => ~(Parts(goal) \subseteq present)
    BY <1>3, <1>11, <2>1 DEF Nought
  <2>3. QED BY <1>4, <1>11, <2>2, ObservedIs
<1>12. ASSUME Nought PROVE Observed = before.dp
  BY <1>12 DEF IdleInv
<1>13. call.op = "reconcile" => T \in Confs /\ T # Nothing
  BY NotNone DEF ShapeInv
<1>14. call.op = "restore" => (Nought <=> ~HasServices(T))
  BY <1>4 DEF Nought
<1>15. call.op # "restore" => ~Nought
  BY DEF Nought
<1>16. HasServices(T) => T # Nothing
  BY Unconfigured, ReconcilerConstants DEF ReconcilerConstants, HasServices
<1> HIDE DEF T
<1>17. ASSUME ~Nought, T # Nothing PROVE Observed \in Plane!Served(T)
  BY <1>9, <1>10, <1>17
<1>18. QED BY <1>4, <1>9, <1>11, <1>12, <1>13, <1>14, <1>15, <1>16, <1>17 DEF T

\* A call that stops before it has saved leaves one of the outcomes of a failure.
LEMMA Stops ==
  ASSUME ShapeInv, SaveInv, GoalInv, Busy, saved = before.saved
  PROVE  \/ goal \in Confs /\ Observed \in Plane!Partial(goal)
         \/ Observed \in Plane!Halted(Nothing)
<1>1. CASE goal # Nothing
  <2>1. goal \in Confs
    BY <1>1 DEF ShapeInv, MConfs
  <2>2. Observed \in [conf: {before.saved, goal, Broken, Nothing}, orphans: BOOLEAN,
                      stale: BOOLEAN]
    <3> DEFINE k == Observed.conf
               o == Observed.orphans
    <3>1. /\ Observed = [conf |-> k, orphans |-> o, stale |-> Stale]
          /\ k \in {before.saved, goal, Broken, Nothing} /\ o \in BOOLEAN /\ Stale \in BOOLEAN
      BY ObservedIs
    <3> HIDE DEF k, o
    <3>2. QED BY <3>1
  <2>3. QED BY <2>1, <2>2 DEF Plane!Partial
<1>2. CASE goal = Nothing
  <2>1. saved = Nothing /\ present \subseteq Foreign
    BY <1>2 DEF GoalInv
  <2>2. Observed.conf = Nothing /\ Observed.orphans = FALSE
    BY <1>2, <2>1, ObservedIs
  <2>3. ~Stale
    BY <2>1, NoForeignProxy DEF Stale, Kind, IsProxy
  <2>4. Observed = [conf |-> Nothing, orphans |-> FALSE, stale |-> FALSE]
    BY <2>2, <2>3, ObservedIs
  <2>5. QED BY <2>4 DEF Plane!Halted
<1>3. QED BY <1>1, <1>2

\* A call that ends, is a step of DataPlane.
LEMMA EndsAsPlane ==
  ASSUME ShapeInv, ProxyInv, SaveInv, GoalInv, IdleInv, ForwardInv, Busy, ~Busy',
         UNCHANGED <<present, cfgFile, saved, goal>>,
         IF Finished /\ ~undoing THEN reported' \in {call.new, Broken} ELSE reported' = Broken
  PROVE  Plane!PlaneNext
<1>1. /\ PlaneSaved = before.saved /\ PlaneDP = before.dp
      /\ PlaneSaved' = saved /\ PlaneDP' = Observed
  BY DEF PlaneSaved, PlaneDP, Observed, Stale, Kind
<1>2. CASE Finished /\ ~undoing
  <2>1. /\ saved = call.new /\ before.saved = call.old
        /\ call.op = "reconcile" => call.new \in Confs /\ Observed \in Plane!Served(call.new)
        /\ call.op = "restore" =>
             /\ call.new = call.old
             /\ Observed \in (IF HasServices(call.new) THEN Plane!Served(call.new) ELSE {before.dp})
        /\ call.op = "decommission" => call.new = Nothing /\ Observed \in Plane!Served(Nothing)
    BY <1>2, Succeeds
  <2>2. call.op \in {"reconcile", "restore", "decommission"}
    BY DEF ShapeInv
  <2>3. CASE call.op = "reconcile"
    <3>1. Plane!Reconciled(call.new)
      BY <1>1, <1>2, <2>1, <2>3 DEF Plane!Reconciled, Plane!Reports, PlaneSaved, PlaneDP
    <3>2. QED BY <2>1, <2>3, <3>1 DEF Plane!PlaneNext
  <2>4. CASE call.op = "restore"
    <3>0. HasServices(call.new) <=> call.new \notin {c \in Confs : ~HasServices(c)} \cup {Nothing}
      BY Unconfigured, ReconcilerConstants DEF ReconcilerConstants, HasServices, ShapeInv, MConfs
    <3>1. Plane!Restored
      BY <1>1, <1>2, <2>1, <2>4, <3>0 DEF Plane!Restored, Plane!Reports, PlaneSaved, PlaneDP
    <3>2. QED BY <3>1 DEF Plane!PlaneNext
  <2>5. CASE call.op = "decommission"
    <3>1. Plane!Decommissioned
      BY <1>1, <1>2, <2>1, <2>5 DEF Plane!Decommissioned, Plane!Reports, PlaneSaved, PlaneDP
    <3>2. QED BY <3>1 DEF Plane!PlaneNext
  <2>6. QED BY <2>2, <2>3, <2>4, <2>5
<1>3. CASE ~(Finished /\ ~undoing)
  <2>1. saved = before.saved
    BY <1>3 DEF SaveInv
  <2>2. \/ goal \in Confs /\ Observed \in Plane!Partial(goal)
        \/ Observed \in Plane!Halted(Nothing)
    BY <2>1, Stops
  <2>3. CASE goal \in Confs /\ Observed \in Plane!Partial(goal)
    <3>1. Plane!ReconcileFailed(goal)
      BY <1>1, <1>3, <2>1, <2>3 DEF Plane!ReconcileFailed, Plane!Fails, PlaneSaved, PlaneDP
    <3>2. QED BY <2>3, <3>1 DEF Plane!PlaneNext
  <2>4. CASE Observed \in Plane!Halted(Nothing)
    <3>1. Plane!Stopped
      BY <1>1, <1>3, <2>1, <2>4 DEF Plane!Stopped, Plane!Fails, PlaneSaved, PlaneDP
    <3>2. QED BY <3>1 DEF Plane!PlaneNext
  <2>5. QED BY <2>2, <2>3, <2>4
<1>4. QED BY <1>2, <1>3

\* After a reboot there is nothing of a configuration on the node.
LEMMA RebootAsPlane ==
  ASSUME ShapeInv, Reboot
  PROVE  Plane!PlaneNext
<1>1. ~Busy /\ ~Busy' /\ present' = {} /\ saved' = saved /\ goal' = goal /\ reported' = Broken
  BY DEF Reboot, Busy
<1>2. /\ saved # Nothing => ~(Parts(saved) \subseteq {})
      /\ goal # Nothing => ~(Parts(goal) \subseteq {})
  <2>1. ASSUME NEW c \in MConfs, c # Nothing PROVE ~(Parts(c) \subseteq {})
    BY <2>1, NotNone DEF MConfs
  <2>2. QED BY <2>1 DEF ShapeInv
<1>3. Kind("proxy")' = {} /\ ~Stale'
  BY <1>1 DEF Kind, Stale
<1>4. Observed' = [conf |-> Nothing, orphans |-> FALSE, stale |-> FALSE]
  <2> DEFINE P == Parts(saved)
             G == Parts(goal)
  <2>1. (saved # Nothing => ~(P \subseteq {})) /\ (goal # Nothing => ~(G \subseteq {}))
    BY <1>2
  <2>2. Observed' =
          LET conf == IF saved # Nothing /\ P \subseteq {} THEN saved
                      ELSE IF goal # Nothing /\ ~Stale' /\ G \subseteq {} THEN goal
                      ELSE IF P \cap {} = {} THEN Nothing
                      ELSE Broken
          IN [conf |-> conf,
              orphans |-> ~({} \subseteq Foreign \cup P \cup Parts(conf)),
              stale |-> Stale']
    BY <1>1 DEF Observed
  <2> HIDE DEF P, G
  <2>3. Stale' = FALSE
    BY <1>3 DEF Stale
  <2>4. QED BY <2>1, <2>2, <2>3
<1>5. PlaneDP' = [conf |-> Nothing, orphans |-> FALSE, stale |-> FALSE]
      /\ PlaneSaved' = PlaneSaved
  BY <1>1, <1>4 DEF PlaneDP, PlaneSaved
<1>6. Plane!Rebooted
  BY <1>1, <1>5 DEF Plane!Rebooted, Plane!Clean, Plane!Fails, PlaneDP, PlaneSaved
<1>7. QED BY <1>6 DEF Plane!PlaneNext

\* An agent that is killed between two calls.
LEMMA IdleCrash ==
  ASSUME ~Busy, Crash
  PROVE  Plane!PlaneNext
<1>1. ~Busy' /\ UNCHANGED <<present, cfgFile, saved, goal>> /\ reported' = Broken
  BY DEF Crash, Ends, Busy
<1>2. PlaneDP' = PlaneDP /\ PlaneSaved' = PlaneSaved
  BY <1>1 DEF PlaneDP, PlaneSaved, Observed, Stale, Kind
<1>3. Plane!Stopped
  BY <1>1, <1>2 DEF Plane!Stopped, Plane!Halted, Plane!Fails, PlaneDP, PlaneSaved
<1>4. QED BY <1>3 DEF Plane!PlaneNext

\* Every step of the reconciler maps to a step of DataPlane, or to none.
LEMMA PlaneStep ==
  ASSUME ShapeInv, ProxyInv, SaveInv, GoalInv, IdleInv, ForwardInv, [Next]_vars
  PROVE  [Plane!PlaneNext]_(Plane!planeVars)
<1>1. ASSUME PlaneDP' = PlaneDP, PlaneSaved' = PlaneSaved, reported' = reported
      PROVE  UNCHANGED Plane!planeVars
  BY <1>1 DEF Plane!planeVars, PlaneDP, PlaneSaved
<1>2. ASSUME NEW op \in {"reconcile", "restore", "decommission"}, NEW new, NEW reset, NEW phases,
             Begin(op, new, reset, phases)
      PROVE  UNCHANGED Plane!planeVars
  <2>1. ~Busy /\ before' = [dp |-> Observed, saved |-> saved] /\ reported' = reported
        /\ call'.op = op
    BY <1>2 DEF Begin
  <2>2. Busy'
    BY <2>1 DEF Busy, Idle
  <2>3. QED BY <1>1, <2>1, <2>2 DEF PlaneDP, PlaneSaved
<1>3. ASSUME Busy, UNCHANGED <<call, before, reported>> PROVE UNCHANGED Plane!planeVars
  <2>1. Busy'
    BY <1>3 DEF Busy
  <2>2. QED BY <1>1, <1>3, <2>1 DEF PlaneDP, PlaneSaved
<1>4. ASSUME NEW c \in Confs, NEW reset \in BOOLEAN, Reconcile(c, reset)
      PROVE  UNCHANGED Plane!planeVars
  BY <1>2, <1>4 DEF Reconcile
<1>5. ASSUME Restore \/ Decommission PROVE UNCHANGED Plane!planeVars
  BY <1>2, <1>5 DEF Restore, Decommission
<1>6. ASSUME StartPhase PROVE UNCHANGED Plane!planeVars
  BY <1>3, <1>6 DEF StartPhase, ShapeInv
<1>7. ASSUME NextService PROVE UNCHANGED Plane!planeVars
  <2>1. phase.left # {}
    BY <1>7, TurnIs DEF NextService
  <2>2. QED BY <1>3, <1>7, <2>1, NoPhaseFields DEF NextService, ShapeInv
<1>8. ASSUME RunCommand PROVE UNCHANGED Plane!planeVars
  BY <1>3, <1>8, RunFacts
<1>9. ASSUME CommandFails PROVE UNCHANGED Plane!planeVars
  BY <1>3, <1>9 DEF CommandFails, ShapeInv
<1>10. ASSUME Return PROVE Plane!PlaneNext
  BY <1>10, EndsAsPlane DEF Return, Ends, Busy
<1>11. ASSUME Crash PROVE Plane!PlaneNext
  <2>1. CASE Busy
    BY <1>11, <2>1, EndsAsPlane DEF Crash, Ends, Busy
  <2>2. CASE ~Busy
    BY <1>11, <2>2, IdleCrash
  <2>3. QED BY <2>1, <2>2
<1>12. ASSUME Reboot PROVE Plane!PlaneNext
  BY <1>12, RebootAsPlane
<1>13. ASSUME UNCHANGED vars PROVE UNCHANGED Plane!planeVars
  BY <1>1, <1>13 DEF vars, PlaneDP, PlaneSaved, Busy, Observed, Stale, Kind
<1>14. QED
  BY <1>4, <1>5, <1>6, <1>7, <1>8, <1>9, <1>10, <1>11, <1>12, <1>13 DEF Next

\* The reconciler starts as DataPlane does.
LEMMA PlaneStart == Init => Plane!PlaneInit
<1> SUFFICES ASSUME Init PROVE Plane!PlaneInit
  OBVIOUS
<1>1. ~Busy /\ saved = Nothing /\ goal = Nothing /\ present = Foreign /\ reported = Broken
  BY DEF Init, Busy
<1>2. Observed.conf = Nothing /\ Observed.orphans = FALSE
  BY <1>1, ObservedIs
<1>3. ~Stale
  BY <1>1, NoForeignProxy DEF Stale, Kind, IsProxy
<1>4. Observed = [conf |-> Nothing, orphans |-> FALSE, stale |-> FALSE]
  BY <1>2, <1>3, ObservedIs
<1>5. QED BY <1>1, <1>4 DEF Plane!PlaneInit, Plane!Clean

\* Reconcile, Restore and Decommission, command by command, implement DataPlane:
\* whatever command is refused and wherever the process is killed, also between the
\* rename of haproxy.cfg and its reload, a call that reports success left the node and
\* the state file as DataPlane says, and any other call left an outcome that it names.
THEOREM Implements == Spec => Contract
<1> DEFINE Inv == ShapeInv /\ ProxyInv /\ SaveInv /\ GoalInv /\ IdleInv /\ ForwardInv
<1>1. Init => Inv
  BY ShapeInit, ProxyInit, SaveInit, GoalInit, IdleInit, ForwardInit
<1>2. ShapeInv' /\ Inv /\ [Next]_vars => Inv'
  BY ProxyNext, SaveNext, GoalNext, IdleNext, ForwardNext
<1>3. Inv /\ [Next]_vars => [Plane!PlaneNext]_(Plane!planeVars)
  BY PlaneStep
<1> HIDE DEF Inv
<1>4. QED BY <1>1, <1>2, <1>3, PlaneStart, Shape, PTL DEF Spec, Contract, Plane!PlaneSpec
-----------------------------------------------------------------------------
(* The milestones of a Reconcile                                           *)

\* The kinds of items the core is made of.
LEMMA CoreShape ==
  ASSUME NEW x
  PROVE  /\ x \in Core => x \in Items /\ x[1] \in {"svc", "dst", "filter", "nat"}
         /\ x \in Items /\ x[1] \in {"svc", "dst", "filter", "nat"} => x \in Core
BY DEF Core, Tagged

\* Services, destinations and rules of a configuration belong to the core.
LEMMA CoreOf ==
  ASSUME NEW c \in MConfs
  PROVE  Base(c) \subseteq Core /\ Chains(c) \subseteq Core
<1>1. Base(c) \subseteq Items /\ Chains(c) \subseteq Items
  BY ItemsOf
<1>2. QED BY <1>1, BaseShape, ChainShape, CoreShape

\* The rules of a configuration let its destinations through.
LEMMA CoveredBase ==
  ASSUME NEW c, NEW x \in Base(c), x[1] = "dst"
  PROVE  <<"filter", x[2], x[3]>> \in Chains(c) /\ <<"nat", x[2], x[3]>> \in Chains(c)
<1>1. x[2] \in Services(c) /\ x[3] \in Dests(c, x[2])
  BY BaseShape
<1>2. QED BY <1>1, Introduced DEF Chains

\* What replacing c by d in IPVS takes and leaves.
LEMMA GoneIs ==
  ASSUME NEW c \in MConfs, NEW d \in MConfs
  PROVE  /\ \A x \in Base(d) : x \notin Gone(c, d)
         /\ \A e : \A x \in Chains(e) : x \notin Gone(c, d)
         /\ \A x \in Base(c) : x \in Base(d) \/ x \in Gone(c, d)
<1>1. ASSUME NEW x \in Base(d) PROVE x \notin Gone(c, d)
  BY BaseShape DEF Gone, Tagged
<1>2. ASSUME NEW e, NEW x \in Chains(e) PROVE x \notin Gone(c, d)
  BY ChainShape DEF Gone, Tagged
<1>3. ASSUME NEW x \in Base(c), x \notin Base(d) PROVE x \in Gone(c, d)
  <2>1. x \in Items /\ x[1] \in {"svc", "dst"} /\ x[2] \in Services(c)
        /\ (x[1] = "svc" => x = Svc(x[2]))
        /\ (x[1] = "dst" => x = Dst(x[2], x[3]) /\ x[3] \in Dests(c, x[2]))
    BY BaseShape, ItemsOf
  <2>2. x[2] \notin Services(d) \/ (x[1] = "dst" /\ x[3] \notin Dests(d, x[2]))
    BY <1>3, <2>1, Introduced
  <2>3. QED BY <2>1, <2>2 DEF Gone, Tagged
<1>4. QED BY <1>1, <1>2, <1>3

\* A phase that has nothing to do with IPVS and the managed chains.
LEMMA Beside ==
  ASSUME NEW ph \in Phases,
         ph.do \in {"none", "checks", "haproxy", "input", "noinput", "rates", "save"},
         NEW x \in Core
  PROVE  x \notin Provides(ph) /\ x \notin Erases(ph)
<1>0. x[1] \in {"svc", "dst", "filter", "nat"}
  BY CoreShape
<1>1. CASE ph.do \in {"none", "checks", "save"}
  BY <1>1 DEF Provides, Erases
<1>2. CASE ph.do = "haproxy"
  BY <1>0, <1>2, EdgeShape DEF Provides, Erases, Tagged
<1>3. CASE ph.do = "input"
  <2>1. \A y \in {<<"input", Services(ph.to)>>, Jump("input")} : y[1] \in {"input", "jump"}
    BY JumpShape
  <2>2. QED BY <1>0, <1>3, <2>1 DEF Provides, Erases, Tagged
<1>4. CASE ph.do = "noinput"
  BY <1>0, <1>4, JumpShape DEF Provides, Erases, Tagged
<1>5. CASE ph.do = "rates"
  <2>1. x \notin Limits(ph.to)
    BY <1>0, LimitShape
  <2>2. x \notin Tagged({"mark"}) /\ x # Jump("mark") /\ \A s : x # Rate(s)
    BY <1>0, JumpShape, Introduced DEF Tagged
  <2>3. QED BY <1>5, <2>1, <2>2 DEF Provides, Erases
<1>6. QED BY <1>1, <1>2, <1>3, <1>4, <1>5

\* A phase beside the core is tidy.
LEMMA TidyBeside ==
  ASSUME NEW o \in MConfs, NEW n \in MConfs, NEW ph \in Phases,
         ph.do \in {"none", "checks", "haproxy", "input", "noinput", "rates", "save"}
  PROVE  /\ Tidy(ph, o, n) /\ From(ph, o, n) = Into(ph, o, n)
         /\ ph.do \in {"none", "checks"} => Into(ph, o, n) = Base(o) \cup Chains(o)
         /\ ph.do = "haproxy" => Into(ph, o, n) = Base(n) \cup Both(o, n)
         /\ ph.do \in {"input", "noinput", "rates", "save"} => Into(ph, o, n) = Base(n) \cup Chains(n)
<1> DEFINE F == From(ph, o, n)
           I == Into(ph, o, n)
<1>1. /\ F = I
      /\ ph.do \in {"none", "checks"} => I = Base(o) \cup Chains(o)
      /\ ph.do = "haproxy" => I = Base(n) \cup Both(o, n)
      /\ ph.do \in {"input", "noinput", "rates", "save"} => I = Base(n) \cup Chains(n)
  BY DEF From, Into
<1> HIDE DEF F, I
<1>2. \A x \in I : x \in Core
  BY <1>1, CoreOf DEF Both
<1>3. \A x \in I : x[1] = "dst" =>
        <<"filter", x[2], x[3]>> \in I /\ <<"nat", x[2], x[3]>> \in I
  <2> SUFFICES ASSUME NEW x \in I, x[1] = "dst"
               PROVE  <<"filter", x[2], x[3]>> \in I /\ <<"nat", x[2], x[3]>> \in I
    OBVIOUS
  <2>1. \A c : x \notin Chains(c)
    BY ChainShape
  <2>2. QED BY <1>1, <2>1, CoveredBase DEF Both
<1>4. Covered(F \cup I, F \cap I)
  BY <1>1, <1>3 DEF Covered
<1>5. Tidy(ph, o, n)
  BY <1>1, <1>2, <1>4, Beside DEF Tidy, F, I
<1>6. QED BY <1>1, <1>5 DEF F, I

\* The firewall phases of a Reconcile are tidy.
LEMMA TidyFirewall ==
  ASSUME NEW o \in MConfs, NEW n \in Confs, NEW from \in {o, n},
         NEW ph, ph = Phase("firewall", from, n)
  PROVE  /\ Tidy(ph, o, n)
         /\ from = n => /\ From(ph, o, n) = Base(n) \cup Both(o, n)
                        /\ Into(ph, o, n) = Base(n) \cup Chains(n)
         /\ from = o => /\ From(ph, o, n) = Base(o) \cup Chains(o)
                        /\ Into(ph, o, n) = Base(o) \cup Both(o, n)
<1> DEFINE F == From(ph, o, n)
           I == Into(ph, o, n)
           P == Provides(ph)
           E == Erases(ph)
<1>1. ph.do = "firewall" /\ ph.from = from /\ ph.to = n /\ ph \in Phases
  BY PhaseFields, PhaseIn DEF MConfs, Dos
<1>2. /\ from = n => F = Base(n) \cup Both(o, n) /\ I = Base(n) \cup Chains(n)
      /\ from # n => F = Base(o) \cup Chains(o) /\ I = Base(o) \cup Both(o, n)
  BY <1>1 DEF From, Into
<1>3. /\ P = Chains(from) \cup Chains(n) \cup {Jump("filter"), Jump("nat")}
      /\ E = Tagged({"filter", "nat"}) \ P
  BY <1>1 DEF Provides, Erases
<1> HIDE DEF F, I, P, E
<1>4. /\ from = o => F = Base(o) \cup Chains(o) /\ I = Base(o) \cup Both(o, n)
  BY <1>2 DEF Both
<1>5. \A c \in {o, n} :
        /\ \A x \in Base(c) : x \notin E /\ (x[1] = "dst" => \A d : x \notin Chains(d))
        /\ \A x \in Chains(c) : x \in Tagged({"filter", "nat"}) /\ x[1] # "dst"
  <2> TAKE c \in {o, n}
  <2>1. c \in MConfs
    BY DEF MConfs
  <2>2. \A x \in Base(c) : x \notin E /\ (x[1] = "dst" => \A d : x \notin Chains(d))
    BY <1>3, BaseShape, ChainShape DEF Tagged
  <2>3. \A x \in Chains(c) : x \in Tagged({"filter", "nat"}) /\ x[1] # "dst"
    BY <2>1, ItemsOf, ChainShape DEF Tagged
  <2>4. QED BY <2>2, <2>3
<1>6. \A x \in I : x \notin E
  BY <1>2, <1>3, <1>5 DEF Both
<1>7. \A x \in P : x \in Core => x \in I
  <2>1. Jump("filter") \notin Core /\ Jump("nat") \notin Core
    BY JumpShape, CoreShape
  <2>2. QED BY <1>2, <1>3, <2>1 DEF Both
<1>8. \A x \in F : x \in I \/ x \in E
  <2>1. CASE from = n
    <3>1. \A x \in {Jump("filter"), Jump("nat")} : x[1] = "jump"
      BY JumpShape
    <3>2. \A x \in Chains(o) : x \in Chains(n) \/ x \in E
      BY <1>3, <1>5, <2>1, <3>1, ChainShape
    <3>3. QED BY <1>2, <2>1, <3>2 DEF Both
  <2>2. CASE from # n
    BY <1>2, <2>2 DEF Both
  <2>3. QED BY <2>1, <2>2
<1>9. \A x \in I : x \in F \/ x \in P
  BY <1>2, <1>3 DEF Both
<1>10. Covered(F \cup I, F \cap I)
  <2> SUFFICES ASSUME NEW x \in F \cup I, x[1] = "dst"
               PROVE  /\ <<"filter", x[2], x[3]>> \in F \cap I
                      /\ <<"nat", x[2], x[3]>> \in F \cap I
    BY DEF Covered
  <2>1. CASE from = n
    <3>1. x \in Base(n)
      BY <1>2, <1>5, <2>1 DEF Both
    <3>2. QED BY <1>2, <2>1, <3>1, CoveredBase DEF Both
  <2>2. CASE from # n
    <3>1. x \in Base(o)
      BY <1>2, <1>5, <2>2 DEF Both
    <3>2. QED BY <1>2, <2>2, <3>1, CoveredBase DEF Both
  <2>3. QED BY <2>1, <2>2
<1>11. Tidy(ph, o, n)
  BY <1>1, <1>6, <1>7, <1>8, <1>9, <1>10 DEF Tidy, F, I, P, E
<1>12. QED BY <1>2, <1>4, <1>11 DEF F, I

\* The IPVS phases of a Reconcile are tidy: the chains know both configurations.
LEMMA TidyIPVS ==
  ASSUME NEW o \in MConfs, NEW n \in Confs,
         NEW from \in {o, Nothing}, NEW to \in {n, Nothing}, NEW ph, ph = Phase("ipvs", from, to)
  PROVE  /\ Tidy(ph, o, n)
         /\ From(ph, o, n) = Base(from) \cup Both(o, n) /\ Into(ph, o, n) = Base(to) \cup Both(o, n)
<1> DEFINE F == From(ph, o, n)
           I == Into(ph, o, n)
           P == Provides(ph)
           E == Erases(ph)
<1>1. from \in MConfs /\ to \in MConfs
  BY DEF MConfs
<1>2. ph.do = "ipvs" /\ ph.from = from /\ ph.to = to /\ ph \in Phases
  BY <1>1, PhaseFields, PhaseIn DEF Dos
<1>3. F = Base(from) \cup Both(o, n) /\ I = Base(to) \cup Both(o, n)
  BY <1>2 DEF From, Into
<1>4. P = Base(to) /\ E = Gone(from, to)
  BY <1>2 DEF Provides, Erases
<1> HIDE DEF F, I, P, E
<1>5. /\ \A x \in Base(to) : x \notin E
      /\ \A x \in Both(o, n) : x \notin E
      /\ \A x \in Base(from) : x \in Base(to) \/ x \in E
  BY <1>1, <1>4, GoneIs DEF Both
<1>6. Covered(F \cup I, F \cap I)
  <2> SUFFICES ASSUME NEW x \in F \cup I, x[1] = "dst"
               PROVE  /\ <<"filter", x[2], x[3]>> \in F \cap I
                      /\ <<"nat", x[2], x[3]>> \in F \cap I
    BY DEF Covered
  <2>1. x \notin Both(o, n)
    BY ChainShape DEF Both
  <2>2. Nothing \notin Confs
    BY ReconcilerConstants DEF ReconcilerConstants
  <2>3. Base(Nothing) = {}
    BY <2>2, Unconfigured
  <2>4. x \in Base(o) \/ x \in Base(n)
    BY <1>3, <2>1, <2>3
  <2>5. QED BY <1>3, <2>4, CoveredBase DEF Both
<1>7. Tidy(ph, o, n)
  BY <1>2, <1>3, <1>4, <1>5, <1>6 DEF Tidy, F, I, P, E
<1>8. QED BY <1>3, <1>7 DEF F, I
-----------------------------------------------------------------------------
(* The way of a Reconcile                                                  *)

\* A way of one phase.
LEMMA RouteOne ==
  ASSUME NEW o, NEW n, NEW ph \in Phases, Tidy(ph, o, n), Fresh(ph), NEW a, NEW b,
         From(ph, o, n) = a, Into(ph, o, n) = b
  PROVE  Route(<<ph>>, o, n, a, b)
<1> DEFINE q == <<ph>>
<1>1. q \in Seq(Phases) /\ Range(q) = {ph}
  BY RangeShort, ShortSeq
<1>2. q # <<>> /\ Len(q) = 1 /\ DOMAIN q = 1 .. 1 /\ q[1] = ph
  OBVIOUS
<1> HIDE DEF q
<1>3. \A i \in DOMAIN q : i + 1 \notin DOMAIN q
  BY <1>2
<1>4. Route(q, o, n, a, b)
  BY <1>1, <1>2, <1>3 DEF Route
<1>5. QED BY <1>4 DEF q

\* A way made of two.
LEMMA RouteJoin ==
  ASSUME NEW o, NEW n, NEW A, NEW B, NEW q, Joins(q, A, B), NEW a, NEW m, NEW b,
         Route(A, o, n, a, m), Route(B, o, n, m, b)
  PROVE  Route(q, o, n, a, b)
<1>1. A \in Seq(Phases) /\ B \in Seq(Phases)
  BY DEF Route
<1> DEFINE k == Len(A)
           l == Len(B)
<1>2. q \in Seq(Phases) /\ Range(q) = Range(A) \cup Range(B)
  BY <1>1, JoinsSeq
<1>3. /\ k \in Nat /\ l \in Nat /\ Len(q) = k + l
      /\ DOMAIN A = 1 .. k /\ DOMAIN B = 1 .. l /\ DOMAIN q = 1 .. k + l
      /\ \A i \in DOMAIN q : i <= k => q[i] = A[i]
      /\ \A i \in DOMAIN q : i > k => q[i] = B[i - k]
  BY <1>1, JoinsAt
<1>4. (A = <<>> <=> k = 0) /\ (B = <<>> <=> l = 0) /\ (q = <<>> <=> k + l = 0)
  BY <1>1, <1>2, <1>3, EmptySeq
<1> HIDE DEF k, l
<1>5. /\ k = 0 => a = m
      /\ k # 0 => From(A[1], o, n) = a /\ Into(A[k], o, n) = m
      /\ l = 0 => m = b
      /\ l # 0 => From(B[1], o, n) = m /\ Into(B[l], o, n) = b
  BY <1>4 DEF Route, k, l
<1>6. k + l = 0 => a = b
  BY <1>3, <1>5
<1>7. ASSUME k + l # 0 PROVE From(q[1], o, n) = a /\ Into(q[k + l], o, n) = b
  <2>1. 1 \in DOMAIN q /\ k + l \in DOMAIN q
    BY <1>3, <1>7
  <2>2. From(q[1], o, n) = a
    <3>1. CASE k # 0
      <4>1. q[1] = A[1]
        BY <1>3, <2>1, <3>1
      <4>2. QED BY <1>5, <3>1, <4>1
    <3>2. CASE k = 0
      <4>1. q[1] = B[1] /\ l # 0
        <5>1. 1 > k /\ 1 - k = 1
          BY <3>2
        <5>2. QED BY <1>3, <1>7, <2>1, <3>2, <5>1
      <4>2. QED BY <1>5, <3>2, <4>1
    <3>3. QED BY <3>1, <3>2
  <2>3. Into(q[k + l], o, n) = b
    <3>1. CASE l # 0
      <4>1. k + l > k /\ (k + l) - k = l
        BY <1>3, <3>1
      <4>2. q[k + l] = B[l]
        BY <1>3, <2>1, <4>1
      <4>3. QED BY <1>5, <3>1, <4>2
    <3>2. CASE l = 0
      <4>1. k + l = k /\ k # 0 /\ k <= k
        BY <1>3, <1>7, <3>2
      <4>2. q[k] = A[k]
        BY <1>3, <2>1, <4>1
      <4>3. QED BY <1>5, <3>2, <4>1, <4>2
    <3>3. QED BY <3>1, <3>2
  <2>4. QED BY <2>2, <2>3
<1>8. ASSUME NEW i \in DOMAIN q, i + 1 \in DOMAIN q
      PROVE  From(q[i + 1], o, n) = Into(q[i], o, n)
  <2>0. i \in Nat /\ i >= 1 /\ i + 1 <= k + l
    BY <1>3, <1>8
  <2>1. CASE i + 1 <= k
    <3>1. i \in DOMAIN A /\ i + 1 \in DOMAIN A /\ i <= k
      BY <1>3, <2>0, <2>1
    <3>2. q[i] = A[i] /\ q[i + 1] = A[i + 1]
      BY <1>3, <1>8, <2>1, <3>1
    <3>3. QED BY <3>1, <3>2 DEF Route
  <2>2. CASE i = k
    <3>1. i + 1 > k /\ (i + 1) - k = 1 /\ l # 0 /\ k # 0 /\ i <= k
      BY <1>3, <2>0, <2>2
    <3>2. q[i] = A[k] /\ q[i + 1] = B[1]
      BY <1>3, <1>8, <2>2, <3>1
    <3>3. QED BY <1>5, <3>1, <3>2
  <2>3. CASE i > k
    <3>1. i + 1 > k /\ (i + 1) - k = (i - k) + 1
          /\ i - k \in DOMAIN B /\ (i - k) + 1 \in DOMAIN B
      BY <1>3, <2>0, <2>3
    <3>2. q[i] = B[i - k] /\ q[i + 1] = B[(i - k) + 1]
      BY <1>3, <1>8, <2>3, <3>1
    <3>3. QED BY <3>1, <3>2 DEF Route
  <2>4. QED BY <1>3, <2>0, <2>1, <2>2, <2>3
<1>9. \A ph \in Range(q) : Tidy(ph, o, n) /\ Fresh(ph)
  BY <1>2 DEF Route
<1>10. QED BY <1>2, <1>3, <1>4, <1>6, <1>7, <1>8, <1>9 DEF Route

\* A phase that leaves IPVS and chains where they are may be left out.
LEMMA RouteWhen ==
  ASSUME NEW o, NEW n, NEW p \in BOOLEAN, NEW ph, NEW a,
         p => Tidy(ph, o, n) /\ Fresh(ph) /\ From(ph, o, n) = a /\ Into(ph, o, n) = a
  PROVE  Route(When(p, <<ph>>), o, n, a, a)
<1>1. CASE p
  <2>1. When(p, <<ph>>) = <<ph>> /\ ph \in Phases
    BY <1>1 DEF When, Tidy
  <2>2. QED BY <1>1, <2>1, RouteOne
<1>2. CASE ~p
  <2>1. When(p, <<ph>>) = <<>>
    BY <1>2 DEF When
  <2>2. <<>> \in Seq(Phases) /\ Range(<<>>) = {} /\ DOMAIN <<>> = {}
    BY RangeShort
  <2>3. Route(<<>>, o, n, a, a)
    BY <2>2 DEF Route
  <2>4. QED BY <2>1, <2>3
<1>3. QED BY <1>1, <1>2

\* What is left of a way.
LEMMA RouteTail ==
  ASSUME NEW o, NEW n, NEW a, NEW b, NEW q, Route(q, o, n, a, b), q # <<>>
  PROVE  /\ Tidy(Head(q), o, n) /\ Fresh(Head(q)) /\ From(Head(q), o, n) = a
         /\ Route(Tail(q), o, n, Into(Head(q), o, n), b)
<1> DEFINE t == Tail(q)
           h == Head(q)
           k == Len(q)
<1>1. /\ h \in Range(q) /\ t \in Seq(Phases) /\ Range(q) = {h} \cup Range(t)
      /\ Len(t) = k - 1 /\ k \in Nat \ {0} /\ h = q[1]
      /\ \A i \in 1 .. k - 1 : t[i] = q[i + 1]
  <2>1. q \in Seq(Phases)
    BY DEF Route
  <2>2. QED BY <2>1, RangeTail
<1>2. DOMAIN q = 1 .. k /\ DOMAIN t = 1 .. k - 1
  BY <1>1, LenProperties DEF Route
<1>3. t = <<>> <=> k = 1
  BY <1>1, EmptySeq
<1>4. From(q[1], o, n) = a /\ Into(q[k], o, n) = b
  BY DEF Route
<1> HIDE DEF t, h, k
<1>5. k = 1 => Into(h, o, n) = b
  BY <1>1, <1>4
<1>6. ASSUME k # 1 PROVE From(t[1], o, n) = Into(h, o, n) /\ Into(t[k - 1], o, n) = b
  <2>1. 1 \in 1 .. k - 1 /\ k - 1 \in 1 .. k - 1 /\ (k - 1) + 1 = k /\ 1 + 1 \in DOMAIN q /\ 1 \in DOMAIN q
    BY <1>1, <1>2, <1>6
  <2>2. t[1] = q[1 + 1] /\ t[k - 1] = q[(k - 1) + 1]
    BY <1>1, <2>1
  <2>3. From(q[1 + 1], o, n) = Into(q[1], o, n)
    BY <2>1 DEF Route
  <2>4. QED BY <1>1, <1>4, <2>1, <2>2, <2>3
<1>7. ASSUME NEW i \in DOMAIN t, i + 1 \in DOMAIN t PROVE From(t[i + 1], o, n) = Into(t[i], o, n)
  <2>1. i + 1 \in DOMAIN q /\ (i + 1) + 1 \in DOMAIN q /\ i \in 1 .. k - 1 /\ i + 1 \in 1 .. k - 1
    BY <1>1, <1>2, <1>7
  <2>2. t[i] = q[i + 1] /\ t[i + 1] = q[(i + 1) + 1]
    BY <1>1, <2>1
  <2>3. QED BY <2>1, <2>2 DEF Route
<1>8. (\A ph \in Range(t) : Tidy(ph, o, n) /\ Fresh(ph)) /\ Tidy(h, o, n) /\ Fresh(h)
  BY <1>1 DEF Route
<1>9. Len(t) = k - 1
  BY <1>1
<1>10. Route(t, o, n, Into(h, o, n), b)
  BY <1>1, <1>3, <1>5, <1>6, <1>7, <1>8, <1>9 DEF Route
<1>11. QED BY <1>1, <1>4, <1>8, <1>10 DEF t, h

\* A Reconcile leads from the old configuration to the new one.
LEMMA ReconcileRoute ==
  ASSUME NEW o \in MConfs, NEW n \in Confs, NEW reset \in BOOLEAN
  PROVE  Route(ReconcilePhases(o, n, reset), o, n, Base(o) \cup Chains(o), Base(n) \cup Chains(n))
<1> DEFINE A0 == Base(o) \cup Chains(o)
           A1 == Base(o) \cup Both(o, n)
           A2 == Base(Nothing) \cup Both(o, n)
           A3 == Base(n) \cup Both(o, n)
           A4 == Base(n) \cup Chains(n)
           ph1 == Phase("haproxy", o, n)
           ph2 == Phase("input", o, n)
           ph3 == Phase("noinput", o, n)
           ph4 == Phase("rates", o, n)
           ph5 == Phase("save", o, n)
           check == Phase("checks", o, n)
           union == Phase("firewall", o, n)
           final == Phase("firewall", n, n)
           off == Phase("ipvs", o, Nothing)
           on == Phase("ipvs", Nothing, n)
           switch == Phase("ipvs", o, n)
           a == <<check, union>>
           b == IF reset THEN <<off, on>> ELSE <<switch>>
           p1 == HasTCP(o) \/ HasTCP(n)
           c == When(p1, <<ph1>>)
           d == <<final>>
           p2 == Of(n).hidden
           e == When(p2, <<ph2>>)
           p3 == Of(o).hidden /\ ~Of(n).hidden
           f == When(p3, <<ph3>>)
           g == <<ph4, ph5>>
           q1 == a \o b
           q2 == q1 \o c
           q3 == q2 \o d
           q4 == q3 \o e
           q5 == q4 \o f
           q == ReconcilePhases(o, n, reset)
<1>1. /\ Joins(q1, a, b) /\ Joins(q2, q1, c) /\ Joins(q3, q2, d) /\ Joins(q4, q3, e)
      /\ Joins(q5, q4, f) /\ Joins(q, q5, g)
      /\ Joins(a, <<check>>, <<union>>) /\ Joins(g, <<ph4>>, <<ph5>>)
      /\ reset => Joins(b, <<off>>, <<on>>)
      /\ ~reset => b = <<switch>>
  BY DEF Joins, Cat, ReconcilePhases
<1>2. n \in MConfs /\ Nothing \in MConfs
  BY DEF MConfs
<1>3. /\ ph1.do = "haproxy" /\ ph2.do = "input" /\ ph3.do = "noinput" /\ ph4.do = "rates"
      /\ ph5.do = "save" /\ check.do = "checks"
      /\ Fresh(ph1) /\ Fresh(ph2) /\ Fresh(ph3) /\ Fresh(ph4) /\ Fresh(ph5) /\ Fresh(check)
      /\ Fresh(union) /\ Fresh(final) /\ Fresh(off) /\ Fresh(on) /\ Fresh(switch)
  BY PhaseFields DEF Fresh
<1>4. /\ ph1 \in Phases /\ (p2 => ph2 \in Phases) /\ ph3 \in Phases /\ ph4 \in Phases
      /\ ph5 \in Phases /\ check \in Phases
  BY <1>2, PhaseIn DEF Dos
<1>5. p1 \in BOOLEAN /\ p2 \in BOOLEAN /\ p3 \in BOOLEAN
  BY Configured DEF HasTCP
<1>6. /\ Tidy(union, o, n) /\ From(union, o, n) = A0 /\ Into(union, o, n) = A1
      /\ Tidy(final, o, n) /\ From(final, o, n) = A3 /\ Into(final, o, n) = A4
  BY TidyFirewall
<1>7. /\ Tidy(off, o, n) /\ From(off, o, n) = A1 /\ Into(off, o, n) = A2
      /\ Tidy(on, o, n) /\ From(on, o, n) = A2 /\ Into(on, o, n) = A3
      /\ Tidy(switch, o, n) /\ From(switch, o, n) = A1 /\ Into(switch, o, n) = A3
  BY TidyIPVS
<1>8. union \in Phases /\ final \in Phases /\ off \in Phases /\ on \in Phases /\ switch \in Phases
  BY <1>6, <1>7 DEF Tidy
<1> HIDE DEF A0, A1, A2, A3, A4, p1, p2, p3, q1, q2, q3, q4, q5, q
<1> HIDE DEF ph1, ph2, ph3, ph4, ph5, check, union, final, off, on, switch
<1>9. /\ Tidy(check, o, n) /\ From(check, o, n) = A0 /\ Into(check, o, n) = A0
      /\ Tidy(ph1, o, n) /\ From(ph1, o, n) = A3 /\ Into(ph1, o, n) = A3
      /\ p2 => Tidy(ph2, o, n) /\ From(ph2, o, n) = A4 /\ Into(ph2, o, n) = A4
      /\ Tidy(ph3, o, n) /\ From(ph3, o, n) = A4 /\ Into(ph3, o, n) = A4
      /\ Tidy(ph4, o, n) /\ From(ph4, o, n) = A4 /\ Into(ph4, o, n) = A4
      /\ Tidy(ph5, o, n) /\ From(ph5, o, n) = A4 /\ Into(ph5, o, n) = A4
  BY <1>2, <1>3, <1>4, TidyBeside DEF A0, A3, A4
<1>10. Route(a, o, n, A0, A1)
  <2>1. Route(<<check>>, o, n, A0, A0) /\ Route(<<union>>, o, n, A0, A1)
    BY <1>3, <1>4, <1>6, <1>8, <1>9, RouteOne
  <2>2. QED BY <1>1, <2>1, RouteJoin
<1>11. Route(b, o, n, A1, A3)
  <2>1. /\ Route(<<off>>, o, n, A1, A2) /\ Route(<<on>>, o, n, A2, A3)
        /\ Route(<<switch>>, o, n, A1, A3)
    BY <1>3, <1>7, <1>8, RouteOne
  <2>2. CASE reset
    BY <1>1, <2>1, <2>2, RouteJoin
  <2>3. CASE ~reset
    BY <1>1, <2>1, <2>3
  <2>4. QED BY <2>2, <2>3
<1>12. Route(c, o, n, A3, A3) /\ Route(e, o, n, A4, A4) /\ Route(f, o, n, A4, A4)
  BY <1>3, <1>5, <1>9, RouteWhen
<1>13. Route(d, o, n, A3, A4)
  BY <1>3, <1>6, <1>8, RouteOne
<1>14. Route(g, o, n, A4, A4)
  <2>1. Route(<<ph4>>, o, n, A4, A4) /\ Route(<<ph5>>, o, n, A4, A4)
    BY <1>3, <1>4, <1>9, RouteOne
  <2>2. QED BY <1>1, <2>1, RouteJoin
<1> HIDE DEF a, b, c, d, e, f, g
<1>15. Route(q1, o, n, A0, A3)
  BY <1>1, <1>10, <1>11, RouteJoin
<1>16. Route(q2, o, n, A0, A3)
  BY <1>1, <1>12, <1>15, RouteJoin
<1>17. Route(q3, o, n, A0, A4)
  BY <1>1, <1>13, <1>16, RouteJoin
<1>18. Route(q4, o, n, A0, A4)
  BY <1>1, <1>12, <1>17, RouteJoin
<1>19. Route(q5, o, n, A0, A4)
  BY <1>1, <1>12, <1>18, RouteJoin
<1>20. Route(q, o, n, A0, A4)
  BY <1>1, <1>14, <1>19, RouteJoin
<1>21. QED BY <1>20 DEF q, A0, A4
-----------------------------------------------------------------------------
(* The commands for one service                                            *)

\* A plan of one command.
LEMMA PeaceShort ==
  /\ Peace(<<>>)
  /\ \A cmd : Peace(<<cmd>>)
<1>1. DOMAIN <<>> = {} /\ \A cmd : DOMAIN <<cmd>> = 1 .. 1
  OBVIOUS
<1>2. \A i, j \in 1 .. 1 : ~(i < j)
  OBVIOUS
<1>3. QED BY <1>1, <1>2 DEF Peace

\* A plan made of two.
LEMMA PeaceJoin ==
  ASSUME NEW S, NEW A \in Seq(S), NEW B \in Seq(S), NEW q, Joins(q, A, B), Peace(A), Peace(B),
         \A x \in Range(A) : \A y \in Range(B) :
           x.add \cap y.clash = {} /\ x.drop \cap y.needs = {}
  PROVE  Peace(q)
<1> DEFINE k == Len(A)
           l == Len(B)
<1>1. /\ k \in Nat /\ l \in Nat
      /\ DOMAIN A = 1 .. k /\ DOMAIN B = 1 .. l /\ DOMAIN q = 1 .. k + l
      /\ \A i \in DOMAIN q : i <= k => q[i] = A[i]
      /\ \A i \in DOMAIN q : i > k => q[i] = B[i - k]
  BY JoinsAt
<1> HIDE DEF k, l
<1> SUFFICES ASSUME NEW i \in DOMAIN q, NEW j \in DOMAIN q, i < j
             PROVE  q[i].add \cap q[j].clash = {} /\ q[i].drop \cap q[j].needs = {}
  BY DEF Peace
<1>2. i \in Nat /\ j \in Nat /\ i >= 1 /\ j <= k + l
  BY <1>1
<1>3. CASE j <= k
  <2>1. i \in DOMAIN A /\ j \in DOMAIN A /\ i <= k
    BY <1>1, <1>2, <1>3
  <2>2. q[i] = A[i] /\ q[j] = A[j]
    BY <1>1, <1>3, <2>1
  <2>3. QED BY <2>1, <2>2 DEF Peace
<1>4. CASE i <= k /\ j > k
  <2>1. i \in DOMAIN A /\ j - k \in DOMAIN B
    BY <1>1, <1>2, <1>4
  <2>2. q[i] = A[i] /\ q[j] = B[j - k]
    BY <1>1, <1>4
  <2>3. q[i] \in Range(A) /\ q[j] \in Range(B)
    BY <2>1, <2>2 DEF Range
  <2>4. QED BY <2>3
<1>5. CASE i > k
  <2>1. i - k \in DOMAIN B /\ j - k \in DOMAIN B /\ i - k < j - k /\ j > k
    BY <1>1, <1>2, <1>5
  <2>2. q[i] = B[i - k] /\ q[j] = B[j - k]
    BY <1>1, <1>5, <2>1
  <2>3. QED BY <2>1, <2>2 DEF Peace
<1>6. QED BY <1>1, <1>2, <1>3, <1>4, <1>5

\* What is left of a plan.
LEMMA PeaceTail ==
  ASSUME NEW S, NEW q \in Seq(S), q # <<>>, Peace(q)
  PROVE  /\ Peace(Tail(q))
         /\ \A cmd \in Range(Tail(q)) :
              Head(q).add \cap cmd.clash = {} /\ Head(q).drop \cap cmd.needs = {}
<1> DEFINE t == Tail(q)
           k == Len(q)
<1>1. /\ t \in Seq(S) /\ Len(t) = k - 1 /\ k \in Nat \ {0} /\ Head(q) = q[1]
      /\ \A i \in 1 .. k - 1 : t[i] = q[i + 1]
  BY RangeTail
<1>2. DOMAIN q = 1 .. k /\ DOMAIN t = 1 .. k - 1
  BY <1>1, LenProperties
<1> HIDE DEF t, k
<1>3. ASSUME NEW i \in DOMAIN t
      PROVE  i + 1 \in DOMAIN q /\ t[i] = q[i + 1] /\ i \in Nat /\ 1 < i + 1 /\ 1 \in DOMAIN q
  BY <1>1, <1>2
<1>4. Peace(t)
  <2> SUFFICES ASSUME NEW i \in DOMAIN t, NEW j \in DOMAIN t, i < j
               PROVE  t[i].add \cap t[j].clash = {} /\ t[i].drop \cap t[j].needs = {}
    BY DEF Peace
  <2>1. i + 1 < j + 1
    BY <1>3
  <2>2. QED BY <1>3, <2>1 DEF Peace
<1>5. ASSUME NEW cmd \in Range(t)
      PROVE  Head(q).add \cap cmd.clash = {} /\ Head(q).drop \cap cmd.needs = {}
  <2>1. PICK i \in DOMAIN t : cmd = t[i]
    BY DEF Range
  <2>2. cmd = q[i + 1] /\ 1 < i + 1 /\ i + 1 \in DOMAIN q /\ 1 \in DOMAIN q
    BY <1>3, <2>1
  <2>3. QED BY <1>1, <2>2 DEF Peace
<1>6. QED BY <1>4, <1>5 DEF t

\* Commands for the destinations of a list, each for its own.
LEMMA PeaceDests ==
  ASSUME NEW S, NEW list \in Seq(S), \A i, j \in DOMAIN list : list[i] = list[j] => i = j,
         NEW s, NEW f, DOMAIN f = DOMAIN list,
         \A i \in DOMAIN list :
           /\ f[i].add \subseteq {Dst(s, list[i])} /\ f[i].clash \subseteq {Dst(s, list[i])}
           /\ f[i].drop \subseteq {Dst(s, list[i])} /\ f[i].needs \subseteq {Dst(s, list[i])}
  PROVE  Peace(f)
<1> SUFFICES ASSUME NEW i \in DOMAIN list, NEW j \in DOMAIN list, i < j
             PROVE  f[i].add \cap f[j].clash = {} /\ f[i].drop \cap f[j].needs = {}
  BY DEF Peace
<1>1. i # j
  <2>1. DOMAIN list = 1 .. Len(list) /\ Len(list) \in Nat
    BY LenProperties
  <2>2. QED BY <2>1
<1>2. list[i] # list[j]
  BY <1>1
<1>3. Dst(s, list[i]) # Dst(s, list[j])
  BY <1>2, Introduced
<1>4. QED BY <1>3

\* The commands for a service that is kept or new, and what each may find or must not.
LEMMA ServiceCommands ==
  ASSUME NEW from, NEW to, NEW s
  PROVE  LET q == Service(from, to, s) IN
         /\ Peace(q)
         /\ \A cmd \in Range(q) :
              /\ \A x \in cmd.add \cup cmd.drop : x[2] = s
              /\ \A x \in cmd.needs : \E d \in Dests(from, s) \ Dests(to, s) : x = Dst(s, d)
              /\ \A x \in cmd.clash :
                   \/ x = Svc(s) /\ s \notin Services(from)
                   \/ \E d \in Dests(to, s) \ Dests(from, s) : x = Dst(s, d)
<1> DEFINE old == Dests(from, s)
           new == Dests(to, s)
           ensure == SetToSeq(new)
           extra == old \ new
           obsolete == SetToSeq(extra)
           first == IF s \in Services(from) THEN Put(Svc(s)) ELSE Add(Svc(s))
           head == <<first>>
           puts == [i \in DOMAIN ensure |-> IF ensure[i] \in old THEN Put(Dst(s, ensure[i]))
                                                                 ELSE Add(Dst(s, ensure[i]))]
           dels == [i \in DOMAIN obsolete |-> Delete(Dst(s, obsolete[i]))]
           A == head \o puts
           q == Service(from, to, s)
           S == {first} \cup Range(puts) \cup Range(dels)
<1>1. Joins(A, head, puts) /\ Joins(q, A, dels)
  BY DEF Service, Joins, Cat
<1>2. /\ ensure \in Seq(new) /\ obsolete \in Seq(extra)
      /\ \A i, j \in DOMAIN ensure : ensure[i] = ensure[j] => i = j
      /\ \A i, j \in DOMAIN obsolete : obsolete[i] = obsolete[j] => i = j
  <2>1. IsFiniteSet(new) /\ IsFiniteSet(extra)
    BY Configured, FS_Subset
  <2> HIDE DEF old, new, extra
  <2>2. QED BY <2>1, Listed
<1>3. /\ \A i \in DOMAIN ensure : ensure[i] \in new
      /\ \A i \in DOMAIN obsolete : obsolete[i] \in extra
      /\ DOMAIN ensure = 1 .. Len(ensure) /\ Len(ensure) \in Nat
      /\ DOMAIN obsolete = 1 .. Len(obsolete) /\ Len(obsolete) \in Nat
  <2> HIDE DEF ensure, obsolete, new, extra
  <2>1. QED BY <1>2, ElementOfSeq, LenProperties
<1>4. /\ first.add = {Svc(s)} /\ first.drop = {} /\ first.needs = {}
      /\ \A x \in first.clash : x = Svc(s) /\ s \notin Services(from)
  BY PutFields
<1>5. \A i \in DOMAIN ensure :
        /\ puts[i].add = {Dst(s, ensure[i])} /\ puts[i].drop = {} /\ puts[i].needs = {}
        /\ puts[i].clash \subseteq {Dst(s, ensure[i])}
        /\ \A x \in puts[i].clash : x = Dst(s, ensure[i]) /\ ensure[i] \in new \ old
  <2> SUFFICES ASSUME NEW i \in DOMAIN ensure
               PROVE  LET cmd == IF ensure[i] \in old THEN Put(Dst(s, ensure[i]))
                                                      ELSE Add(Dst(s, ensure[i])) IN
                      /\ cmd.add = {Dst(s, ensure[i])} /\ cmd.drop = {} /\ cmd.needs = {}
                      /\ cmd.clash \subseteq {Dst(s, ensure[i])}
                      /\ \A x \in cmd.clash : x = Dst(s, ensure[i]) /\ ensure[i] \in new \ old
    OBVIOUS
  <2>1. ensure[i] \in new
    BY <1>3
  <2> HIDE DEF ensure, new, old
  <2>2. QED BY <2>1, PutFields
<1>6. \A i \in DOMAIN obsolete :
        /\ dels[i].add = {} /\ dels[i].clash = {}
        /\ dels[i].drop = {Dst(s, obsolete[i])} /\ dels[i].needs = {Dst(s, obsolete[i])}
  <2> TAKE i \in DOMAIN obsolete
  <2>1. Dst(s, obsolete[i])[1] = "dst"
    BY Introduced
  <2>2. Delete(Dst(s, obsolete[i]))
          = Command({Dst(s, obsolete[i])}, {}, {Dst(s, obsolete[i])}, {})
    BY <2>1 DEF Delete
  <2>3. dels[i] = Delete(Dst(s, obsolete[i]))
    OBVIOUS
  <2> DEFINE X == {Dst(s, obsolete[i])}
             cmd == dels[i]
  <2>4. cmd = Command(X, {}, X, {})
    BY <2>2, <2>3
  <2> HIDE DEF X, cmd
  <2>5. cmd.add = {} /\ cmd.clash = {} /\ cmd.drop = X /\ cmd.needs = X
    BY <2>4, CommandFields
  <2>6. QED BY <2>5 DEF X, cmd
<1>7. /\ DOMAIN puts = DOMAIN ensure /\ DOMAIN dels = DOMAIN obsolete
      /\ head = <<first>>
  OBVIOUS
<1> HIDE DEF first, puts, dels, ensure, obsolete, head, A, q
<1>8. Peace(head) /\ Range(head) = {first}
  BY <1>7, PeaceShort, RangeShort
<1>9. Peace(puts)
  BY <1>2, <1>5, <1>7, PeaceDests
<1>10. Peace(dels)
  BY <1>2, <1>6, <1>7, PeaceDests
<1>11. /\ \A cmd \in Range(puts) : \E d \in new :
            /\ cmd.add = {Dst(s, d)} /\ cmd.drop = {} /\ cmd.needs = {}
            /\ \A x \in cmd.clash : x = Dst(s, d) /\ d \in new \ old
       /\ \A cmd \in Range(dels) : \E d \in extra :
            cmd.add = {} /\ cmd.clash = {} /\ cmd.drop = {Dst(s, d)} /\ cmd.needs = {Dst(s, d)}
  BY <1>3, <1>5, <1>6, <1>7 DEF Range
<1>12. head \in Seq(S) /\ puts \in Seq(S) /\ dels \in Seq(S)
  <2>1. first \in S /\ Range(puts) \subseteq S /\ Range(dels) \subseteq S
    OBVIOUS
  <2> HIDE DEF S
  <2>2. head \in Seq(S)
    BY <1>7, <2>1, ShortSeq
  <2>3. puts \in [1 .. Len(ensure) -> S] /\ dels \in [1 .. Len(obsolete) -> S]
    <3>1. puts = [i \in DOMAIN puts |-> puts[i]] /\ dels = [i \in DOMAIN dels |-> dels[i]]
      BY DEF puts, dels
    <3>2. \A i \in DOMAIN puts : puts[i] \in S
      BY <2>1 DEF Range
    <3>3. \A i \in DOMAIN dels : dels[i] \in S
      BY <2>1 DEF Range
    <3>4. QED BY <1>3, <1>7, <3>1, <3>2, <3>3
  <2>4. QED BY <1>3, <2>2, <2>3, FunctionSeq
<1> HIDE DEF S
<1>13. A \in Seq(S) /\ Range(A) = {first} \cup Range(puts)
  BY <1>1, <1>8, <1>12, JoinsSeq
<1>14. Range(q) = {first} \cup Range(puts) \cup Range(dels)
  BY <1>1, <1>12, <1>13, JoinsSeq
<1>15. \A d : Svc(s) # Dst(s, d)
  BY Introduced
<1>16. Peace(A)
  <2>1. \A x \in Range(head) : \A y \in Range(puts) :
          x.add \cap y.clash = {} /\ x.drop \cap y.needs = {}
    BY <1>4, <1>8, <1>11, <1>15
  <2>2. QED BY <1>1, <1>8, <1>9, <1>12, <2>1, PeaceJoin
<1>17. Peace(q)
  <2>1. \A x \in Range(A) : \A y \in Range(dels) :
          x.add \cap y.clash = {} /\ x.drop \cap y.needs = {}
    BY <1>4, <1>11, <1>13
  <2>2. QED BY <1>1, <1>10, <1>12, <1>13, <1>16, <2>1, PeaceJoin
<1>18. ASSUME NEW cmd \in Range(q)
       PROVE  /\ \A x \in cmd.add \cup cmd.drop : x[2] = s
              /\ \A x \in cmd.needs : \E d \in extra : x = Dst(s, d)
              /\ \A x \in cmd.clash : \/ x = Svc(s) /\ s \notin Services(from)
                                      \/ \E d \in new \ old : x = Dst(s, d)
  <2>1. Svc(s)[2] = s /\ \A d : Dst(s, d)[2] = s
    BY Introduced
  <2>2. CASE cmd = first
    BY <1>4, <2>1, <2>2
  <2>3. CASE cmd \in Range(puts)
    BY <1>11, <2>1, <2>3
  <2>4. CASE cmd \in Range(dels)
    BY <1>11, <2>1, <2>4
  <2>5. QED BY <1>14, <2>2, <2>3, <2>4
<1>19. QED BY <1>17, <1>18 DEF q
\* The commands for one service of an IPVS phase.
LEMMA LocalPlan ==
  ASSUME ShapeInv, phase.do = "ipvs", NEW s \in phase.left
  PROVE  LET q == ServicePlan(phase, s) IN
         /\ Peace(q)
         /\ \A cmd \in Range(q) :
              /\ \A x \in cmd.add \cup cmd.drop : x[2] = s
              /\ \A x \in cmd.needs : x \in Base(phase.from) /\ x[2] = s
              /\ \A x \in cmd.clash : x \in Base(phase.to) \ Base(phase.from) /\ x[2] = s
<1> DEFINE from == phase.from
           to == phase.to
           q == ServicePlan(phase, s)
<1>1. s \in Services(from) \cup Services(to)
  BY DEF ShapeInv, Phases, PhaseOK
<1>2. CASE s \in Services(to)
  <2>1. q = Service(from, to, s)
    BY <1>2 DEF ServicePlan
  <2>2. /\ Peace(q)
        /\ \A cmd \in Range(q) :
             /\ \A x \in cmd.add \cup cmd.drop : x[2] = s
             /\ \A x \in cmd.needs : \E d \in Dests(from, s) \ Dests(to, s) : x = Dst(s, d)
             /\ \A x \in cmd.clash :
                  \/ x = Svc(s) /\ s \notin Services(from)
                  \/ \E d \in Dests(to, s) \ Dests(from, s) : x = Dst(s, d)
    BY <2>1, ServiceCommands
  <2> HIDE DEF q, from, to
  <2>3. ASSUME NEW d \in Dests(from, s) PROVE Dst(s, d) \in Base(from) /\ Dst(s, d)[2] = s
    <3>1. s \in Services(from)
      BY <2>3 DEF Dests
    <3>2. QED BY <2>3, <3>1, Introduced
  <2>4. ASSUME NEW d \in Dests(to, s) \ Dests(from, s)
        PROVE  Dst(s, d) \in Base(to) \ Base(from) /\ Dst(s, d)[2] = s
    <3>1. Dst(s, d) \in Base(to) /\ Dst(s, d)[1] = "dst" /\ Dst(s, d)[2] = s /\ Dst(s, d)[3] = d
      BY <1>2, <2>4, Introduced
    <3>2. Dst(s, d) \notin Base(from)
      BY <2>4, <3>1, BaseShape
    <3>3. QED BY <3>1, <3>2
  <2>5. Svc(s) \in Base(to) /\ Svc(s)[2] = s /\ (s \notin Services(from) => Svc(s) \notin Base(from))
    BY <1>2, Introduced, BaseShape
  <2>6. QED BY <2>2, <2>3, <2>4, <2>5 DEF q, from, to
<1>3. CASE s \notin Services(to)
  <2>1. q = <<Delete(Svc(s))>>
    BY <1>3 DEF ServicePlan
  <2>2. Delete(Svc(s)) = Command({Svc(s)}, {}, Under(s), {})
    BY Introduced DEF Delete
  <2> DEFINE C == Delete(Svc(s))
             U == Under(s)
  <2>3. C.needs = {Svc(s)} /\ C.clash = {} /\ C.drop = U /\ C.add = {}
    BY <2>2, CommandFields
  <2>4. \A x \in U : x[2] = s
    BY DEF Under
  <2>5. Svc(s) \in Base(from) /\ Svc(s)[2] = s
    BY <1>1, <1>3, Introduced
  <2>6. q = <<C>>
    BY <2>1
  <2> HIDE DEF q, C, U, from, to
  <2>7. Peace(q) /\ Range(q) = {C}
    BY <2>6, PeaceShort, RangeShort
  <2>8. QED BY <2>3, <2>4, <2>5, <2>7 DEF q, from, to
<1>4. QED BY <1>2, <1>3

-----------------------------------------------------------------------------
(* On the way                                                              *)

\* A Reconcile on a clean node starts where the state file says.
LEMMA StepBegin ==
  ASSUME ShapeInv, NEW c \in Confs, NEW reset \in BOOLEAN, Reconcile(c, reset)
  PROVE  StepInv'
<1> SUFFICES ASSUME CleanRun' PROVE StepInv'
  BY DEF StepInv
<1> DEFINE o == saved
           A == Base(o) \cup Chains(o)
           B == Base(c) \cup Chains(c)
<1>1. /\ Parts(o) \subseteq present /\ present \subseteq Foreign \cup Parts(o)
      /\ call'.old = o /\ call'.new = c /\ phase' = NoPhase /\ plan' = <<>>
      /\ todo' = ReconcilePhases(o, c, reset) /\ present' = present
  BY CleanStart
<1>2. o \in MConfs /\ c \in MConfs
  BY DEF ShapeInv, MConfs
<1>3. /\ Tidy(NoPhase, o, c) /\ From(NoPhase, o, c) = A /\ Into(NoPhase, o, c) = A
  BY <1>2, NoPhaseFields, TidyBeside
<1>4. Route(ReconcilePhases(o, c, reset), o, c, A, B)
  BY <1>2, ReconcileRoute
<1>5. A \subseteq Parts(o)
  <2>1. o \notin Confs => A = {}
    BY Unconfigured
  <2>2. o \in Confs => A \subseteq Parts(o)
    BY PartsSplit
  <2>3. QED BY <2>1, <2>2
<1>6. ASSUME NEW x \in present \cap Core PROVE x \in A
  <2>1. x \in Items /\ x[1] \in {"svc", "dst", "filter", "nat"}
    BY CoreShape
  <2>2. x \in Parts(o)
    BY <1>1, <2>1, Apart
  <2>3. QED BY <2>1, <2>2, PartTag
<1>7. \A x : ~Waits(x)'
  BY <1>1, NoPhaseFields DEF Waits
<1>8. Range(plan') = {}
  BY <1>1, RangeShort
<1> HIDE DEF o, A, B
<1>9. /\ Tidy(phase', o, c) /\ Route(todo', o, c, Into(phase', o, c), B)
      /\ \A x \in From(phase', o, c) \cap Into(phase', o, c) : x \in present'
      /\ \A x \in present' \cap Core : x \in From(phase', o, c) \cup Into(phase', o, c)
      /\ \A x \in Into(phase', o, c) : x \in present'
      /\ \A x \in present' \cap Core : x \in Into(phase', o, c)
  BY <1>1, <1>3, <1>4, <1>5, <1>6
<1>10. call'.old = o /\ call'.new = c
  BY <1>1
<1>11. Core' = Core
  BY DEF Core, Tagged, Items
<1>12. QED BY <1>7, <1>8, <1>9, <1>10, <1>11 DEF StepInv, B

\* A phase starts where the one before ended.
LEMMA StepStart ==
  ASSUME ShapeInv, StepInv, StartPhase
  PROVE  StepInv'
<1> SUFFICES ASSUME CleanRun PROVE StepInv'
  BY DEF StartPhase, StepInv, CleanRun
<1> DEFINE o == call.old
           n == call.new
           F == From(phase, o, n)
           I == Into(phase, o, n)
           B == Base(n) \cup Chains(n)
<1>1. /\ todo # <<>> /\ phase' = Head(todo) /\ todo' = Tail(todo) /\ plan = <<>>
      /\ phase.left = {} /\ plan' \in Plans(Head(todo))
      /\ UNCHANGED <<present, call, undoing, before>>
  BY DEF StartPhase
<1>2. /\ Tidy(phase, o, n) /\ Route(todo, o, n, I, B)
      /\ \A x \in F \cap I : x \in present
      /\ \A x \in present \cap Core : x \in F \cup I
      /\ \A x \in I : x \in present \/ x \in Added(plan) \/ Waits(x)
      /\ \A x \in present \cap Core : x \in I \/ x \in Dropped(plan) \/ Waits(x)
  BY DEF StepInv
<1>3. Added(plan) = {} /\ Dropped(plan) = {} /\ \A x : ~Waits(x)
  BY <1>1, RangeShort DEF Added, Dropped, Waits
<1> HIDE DEF o, n, F, I, B
<1>4. (\A x \in I : x \in present) /\ (\A x \in present \cap Core : x \in I)
  BY <1>2, <1>3
<1> DEFINE I2 == Into(phase', o, n)
<1>5. /\ Tidy(phase', o, n) /\ Fresh(phase') /\ From(phase', o, n) = I
      /\ Route(todo', o, n, I2, B)
  BY <1>1, <1>2, RouteTail
<1> HIDE DEF I2
<1>6. /\ phase' \in Phases /\ phase'.do # "wipe"
      /\ \A x \in I2 : x \notin Erases(phase')
      /\ \A x \in Provides(phase') : x \in Core => x \in I2
      /\ \A x \in I : x \in I2 \/ x \in Erases(phase')
      /\ \A x \in I2 : x \in I \/ x \in Provides(phase')
  BY <1>5 DEF Tidy, I2
<1>7. /\ Sane(plan', phase')
      /\ phase'.do \notin {"ipvs", "wipe", "haproxy"} => Complete(plan', phase')
      /\ phase'.do = "ipvs" => plan' = <<>>
  BY <1>1, <1>6, PlanFacts
<1>8. ASSUME NEW x \in I2 PROVE x \in present \/ x \in Added(plan') \/ Waits(x)'
  <2> SUFFICES ASSUME x \notin I PROVE x \in present \/ x \in Added(plan') \/ Waits(x)'
    BY <1>4
  <2>1. x \in Provides(phase')
    BY <1>6, <1>8
  <2>2. CASE phase'.do = "ipvs"
    <3>1. x \in Base(phase'.to) /\ phase'.left = Services(phase'.from) \cup Services(phase'.to)
      BY <1>5, <2>1, <2>2 DEF Provides, Fresh
    <3>2. x[1] \in {"svc", "dst"} /\ x[2] \in phase'.left
      BY <3>1, BaseShape
    <3>3. QED BY <3>2 DEF Waits
  <2>3. CASE phase'.do = "haproxy"
    <3>1. From(phase', o, n) = Into(phase', o, n)
      BY <2>3 DEF From, Into
    <3>2. QED BY <1>5, <1>8, <3>1 DEF I2
  <2>4. CASE phase'.do \notin {"ipvs", "haproxy"}
    BY <1>6, <1>7, <2>1, <2>4 DEF Complete
  <2>5. QED BY <2>2, <2>3, <2>4
<1>9. ASSUME NEW x \in present \cap Core PROVE x \in I2 \/ x \in Dropped(plan') \/ Waits(x)'
  <2> SUFFICES ASSUME x \notin I2 PROVE x \in Dropped(plan') \/ Waits(x)'
    OBVIOUS
  <2>0. x \in I
    BY <1>4
  <2>1. x \in Erases(phase')
    BY <1>6, <2>0
  <2>2. CASE phase'.do = "ipvs"
    <3>1. x \in Gone(phase'.from, phase'.to)
          /\ phase'.left = Services(phase'.from) \cup Services(phase'.to)
      BY <1>5, <2>1, <2>2 DEF Erases, Fresh
    <3>2. x[1] \in {"svc", "dst"} /\ x[2] \in phase'.left
      BY <3>1 DEF Gone, Tagged
    <3>3. QED BY <3>2 DEF Waits
  <2>3. CASE phase'.do = "haproxy"
    <3>1. From(phase', o, n) = Into(phase', o, n)
      BY <2>3 DEF From, Into
    <3>2. QED BY <1>5, <2>0, <3>1 DEF I2
  <2>4. CASE phase'.do \notin {"ipvs", "haproxy"}
    BY <1>6, <1>7, <1>9, <2>1, <2>4 DEF Complete
  <2>5. QED BY <2>2, <2>3, <2>4
<1>10. \A x \in I \cup I2 : Waits(x)' => (x \in present <=> x \in I)
  <2> SUFFICES ASSUME NEW x \in I2, x \notin I, Waits(x)', x \in present PROVE FALSE
    BY <1>4
  <2>1. x[1] \in {"svc", "dst"} /\ phase'.left # {}
    BY DEF Waits
  <2>2. phase'.do = "ipvs" /\ phase'.to \in MConfs
    BY <1>6, <2>1 DEF Phases, PhaseOK
  <2>3. x \in Base(phase'.to)
    BY <1>6, <2>2 DEF Provides
  <2>4. x \in Core
    BY <2>2, <2>3, CoreOf
  <2>5. QED BY <1>4, <2>4
<1>11. ASSUME NEW cmd \in Range(plan'), NEW x \in cmd.add \cup cmd.drop PROVE ~Waits(x)'
  <2>1. CASE phase'.do = "ipvs"
    BY <1>7, <1>11, <2>1, RangeShort
  <2>2. CASE phase'.do # "ipvs"
    <3>1. phase'.left = {}
      BY <1>6, <2>2 DEF Phases, PhaseOK
    <3>2. QED BY <3>1 DEF Waits
  <2>3. QED BY <2>1, <2>2
<1>12. call'.old = o /\ call'.new = n /\ Core' = Core /\ present' = present
  BY <1>1 DEF o, n, Core, Tagged, Items
<1>13. From(phase', o, n) = I /\ Into(phase', o, n) = I2
  BY <1>5 DEF I2
<1>14. /\ \A x \in I \cap I2 : x \in present
       /\ \A x \in present \cap Core : x \in I \cup I2
  BY <1>4
<1>15. QED BY <1>5, <1>8, <1>9, <1>10, <1>11, <1>12, <1>13, <1>14 DEF StepInv, B

\* The next service of an IPVS phase: what waited is what its commands change.
LEMMA StepService ==
  ASSUME ShapeInv, StepInv, NextService
  PROVE  StepInv'
<1> SUFFICES ASSUME CleanRun PROVE StepInv'
  BY DEF NextService, StepInv, CleanRun
<1>1. PICK s \in Turn(phase) : /\ plan' = ServicePlan(phase, s)
                               /\ phase' = [phase EXCEPT !.left = @ \ {s}]
  BY DEF NextService
<1>2. s \in phase.left
  BY <1>1, TurnIs
<1>3. plan = <<>> /\ UNCHANGED <<present, call, todo, undoing, before>>
  BY DEF NextService
<1> DEFINE o == call.old
           n == call.new
           F == From(phase, o, n)
           I == Into(phase, o, n)
           B == Base(n) \cup Chains(n)
<1>4. /\ Tidy(phase, o, n) /\ Route(todo, o, n, I, B)
      /\ \A x \in F \cap I : x \in present
      /\ \A x \in present \cap Core : x \in F \cup I
      /\ \A x \in I : x \in present \/ x \in Added(plan) \/ Waits(x)
      /\ \A x \in present \cap Core : x \in I \/ x \in Dropped(plan) \/ Waits(x)
      /\ \A x \in F \cup I : Waits(x) => (x \in present <=> x \in F)
  BY DEF StepInv
<1>5. Added(plan) = {} /\ Dropped(plan) = {}
  BY <1>3, RangeShort DEF Added, Dropped
<1>6. /\ phase' \in Phases /\ phase'.do = phase.do /\ phase'.from = phase.from
      /\ phase'.to = phase.to /\ phase'.left = phase.left \ {s}
      /\ phase.do \in {"ipvs", "wipe"} /\ Provides(phase') = Provides(phase)
      /\ phase.do = "ipvs" =>
           /\ Erases(phase') = Erases(phase)
           /\ \A x \in Provides(phase') : x[2] = s => x \in Added(plan')
           /\ \A x \in Erases(phase') \cap present : x[2] = s => x \in Dropped(plan')
  BY <1>1, <1>2, ServiceFacts
<1>7. phase.do = "ipvs"
  BY <1>4, <1>6 DEF Tidy
<1>8. From(phase', o, n) = F /\ Into(phase', o, n) = I
  BY <1>6 DEF From, Into
<1>9. \A x : Waits(x) => Waits(x)' \/ x[2] = s
  BY <1>6 DEF Waits
<1>10. \A x : Waits(x)' => Waits(x) /\ x[2] # s
  BY <1>6 DEF Waits
<1>11. \A cmd \in Range(plan') : \A x \in cmd.add \cup cmd.drop : x[2] = s
  BY <1>1, <1>2, <1>7, LocalPlan
<1> HIDE DEF o, n, F, I, B
<1>12. Tidy(phase', o, n)
  BY <1>4, <1>6, <1>7, <1>8 DEF Tidy, F, I
<1>13. /\ \A x \in I : x \in F \/ x \in Provides(phase)
       /\ \A x \in F : x \in I \/ x \in Erases(phase)
  BY <1>4 DEF Tidy, F, I
<1>14. ASSUME NEW x \in I PROVE x \in present \/ x \in Added(plan') \/ Waits(x)'
  <2> SUFFICES ASSUME x \notin present, ~Waits(x)' PROVE x \in Added(plan')
    OBVIOUS
  <2>1. Waits(x) /\ x[2] = s
    BY <1>4, <1>5, <1>9, <1>14
  <2>2. x \in Provides(phase)
    BY <1>4, <1>13, <1>14
  <2>3. QED BY <1>6, <1>7, <2>1, <2>2
<1>15. ASSUME NEW x \in present \cap Core PROVE x \in I \/ x \in Dropped(plan') \/ Waits(x)'
  <2> SUFFICES ASSUME x \notin I, ~Waits(x)' PROVE x \in Dropped(plan')
    OBVIOUS
  <2>1. Waits(x) /\ x[2] = s
    BY <1>4, <1>5, <1>9, <1>15
  <2>2. x \in Erases(phase)
    BY <1>4, <1>13, <1>15
  <2>3. QED BY <1>6, <1>7, <1>15, <2>1, <2>2
<1>16. call'.old = o /\ call'.new = n /\ Core' = Core /\ present' = present /\ todo' = todo
  BY <1>3 DEF o, n, Core, Tagged, Items
<1>17. \A x \in F \cup I : Waits(x)' => (x \in present <=> x \in F)
  BY <1>4, <1>10
<1>18. \A cmd \in Range(plan') : \A x \in cmd.add \cup cmd.drop : ~Waits(x)'
  BY <1>10, <1>11
<1>19. QED BY <1>4, <1>8, <1>12, <1>14, <1>15, <1>16, <1>17, <1>18 DEF StepInv, B

\* A command leads from one milestone towards the next.
LEMMA StepRun ==
  ASSUME ShapeInv, StepInv, RunCommand
  PROVE  StepInv'
<1> SUFFICES ASSUME CleanRun PROVE StepInv'
  BY DEF RunCommand, StepInv, CleanRun
<1> DEFINE cmd == Head(plan)
           o == call.old
           n == call.new
           F == From(phase, o, n)
           I == Into(phase, o, n)
           B == Base(n) \cup Chains(n)
<1>1. /\ Suits(cmd, phase) /\ Range(plan) = {cmd} \cup Range(Tail(plan)) /\ plan' = Tail(plan)
      /\ present' = (present \ cmd.drop) \cup cmd.add
      /\ UNCHANGED <<call, todo, phase, undoing, before>>
  BY RunFacts
<1>2. /\ Tidy(phase, o, n) /\ Route(todo, o, n, I, B)
      /\ \A x \in F \cap I : x \in present
      /\ \A x \in present \cap Core : x \in F \cup I
      /\ \A x \in I : x \in present \/ x \in Added(plan) \/ Waits(x)
      /\ \A x \in present \cap Core : x \in I \/ x \in Dropped(plan) \/ Waits(x)
      /\ \A x \in F \cup I : Waits(x) => (x \in present <=> x \in F)
      /\ \A c \in Range(plan) : \A x \in c.add \cup c.drop : ~Waits(x)
  BY DEF StepInv
<1> HIDE DEF cmd, F, I, B, o, n
<1>3. /\ Added(plan) = cmd.add \cup Added(plan')
      /\ Dropped(plan) = (cmd.drop \ cmd.add) \cup Dropped(plan')
  BY <1>1 DEF Added, Dropped
<1>4. /\ \A x \in cmd.add : x \in Core => x \in I
      /\ \A x \in cmd.drop \ cmd.add : x \notin I
  BY <1>1, <1>2 DEF Tidy, Suits, I
<1>5. \A x : Waits(x)' <=> Waits(x)
  BY <1>1 DEF Waits
<1>6. \A x \in F \cap I : x \in present'
  BY <1>1, <1>2, <1>4
<1>7. \A x \in present' \cap Core : x \in F \cup I
  BY <1>1, <1>2, <1>4
<1>8. ASSUME NEW x \in I PROVE x \in present' \/ x \in Added(plan') \/ Waits(x)
  BY <1>1, <1>2, <1>3, <1>4, <1>8
<1>9. ASSUME NEW x \in present' \cap Core PROVE x \in I \/ x \in Dropped(plan') \/ Waits(x)
  BY <1>1, <1>2, <1>3, <1>4, <1>9
<1>10. \A x \in F \cup I : Waits(x) => (x \in present' <=> x \in F)
  <2>1. \A x \in cmd.add \cup cmd.drop : ~Waits(x)
    BY <1>1, <1>2
  <2>2. QED BY <1>1, <1>2, <2>1
<1>11. \A c \in Range(plan') : \A x \in c.add \cup c.drop : ~Waits(x)
  BY <1>1, <1>2
<1>12. /\ call'.old = o /\ call'.new = n /\ Core' = Core
       /\ From(phase', o, n) = F /\ Into(phase', o, n) = I /\ phase' = phase /\ todo' = todo
  BY <1>1 DEF o, n, Core, Tagged, Items, F, I
<1>13. QED BY <1>2, <1>5, <1>6, <1>7, <1>8, <1>9, <1>10, <1>11, <1>12 DEF StepInv, B

\* Every step of a Reconcile keeps to its milestones.
LEMMA StepNext ==
  ASSUME ShapeInv, StepInv, [Next]_vars
  PROVE  StepInv'
<1>1. ASSUME NEW c \in Confs, NEW reset \in BOOLEAN, Reconcile(c, reset) PROVE StepInv'
  BY <1>1, StepBegin
<1>2. ASSUME Restore \/ Decommission PROVE StepInv'
  BY <1>2 DEF Restore, Decommission, Begin, StepInv, CleanRun
<1>3. ASSUME CommandFails PROVE StepInv'
  BY <1>3 DEF CommandFails, StepInv, CleanRun
<1>4. ASSUME Return \/ Crash PROVE StepInv'
  BY <1>4 DEF Return, Crash, Ends, StepInv, CleanRun, Idle
<1>5. ASSUME Reboot PROVE StepInv'
  BY <1>5 DEF Reboot, Busy, StepInv, CleanRun, Idle
<1>6. ASSUME UNCHANGED vars PROVE StepInv'
  BY <1>6 DEF vars, StepInv, CleanRun, Waits
<1>7. QED
  BY <1>1, <1>2, <1>3, <1>4, <1>5, <1>6, StepStart, StepService, StepRun DEF Next

\* No Reconcile at first.
LEMMA StepInit == Init => StepInv
BY DEF Init, Idle, StepInv, CleanRun

\* For any configurations: while a Reconcile on a clean node goes forward, IPVS sends
\* nothing to a destination whose rules are not in the chains (ForwardedIsAccepted).
THEOREM NothingExposed == Spec => []ForwardedIsAccepted
<1>1. StepInv => ForwardedIsAccepted
  <2> SUFFICES ASSUME StepInv, CleanRun, NEW c \in Confs, NEW s \in Services(c),
                      NEW d \in Dests(c, s), Dst(s, d) \in present
               PROVE  {<<"filter", s, d>>, <<"nat", s, d>>} \subseteq present
    BY DEF ForwardedIsAccepted
  <2> DEFINE x == Dst(s, d)
             F == From(phase, call.old, call.new)
             I == Into(phase, call.old, call.new)
  <2>1. x \in Core /\ x[1] = "dst" /\ x[2] = s /\ x[3] = d
    BY Introduced, CoreOf DEF MConfs
  <2>2. /\ \A y \in F \cap I : y \in present
        /\ \A y \in present \cap Core : y \in F \cup I
        /\ Covered(F \cup I, F \cap I)
    BY DEF StepInv, Tidy
  <2> HIDE DEF x, F, I
  <2>3. x \in F \cup I
    BY <2>1, <2>2 DEF x
  <2>4. <<"filter", x[2], x[3]>> \in F \cap I /\ <<"nat", x[2], x[3]>> \in F \cap I
    BY <2>1, <2>2, <2>3 DEF Covered
  <2>5. QED BY <2>1, <2>2, <2>4
<1>2. ShapeInv /\ StepInv /\ [Next]_vars => StepInv'
  BY StepNext
<1>3. QED BY <1>1, <1>2, StepInit, Shape, PTL DEF Spec
-----------------------------------------------------------------------------
(* What no command refuses                                                 *)

\* The commands that make sure of something, or take it away if it is there.
LEMMA MildCommands ==
  /\ Mild(Look) /\ \A c : Mild([Look EXCEPT !.cfg = c]) /\ Mild([Look EXCEPT !.save = c])
  /\ \A i : Mild(Put(i)) /\ Mild(Purge(i))
  /\ \A drop, add : Mild(Command({}, {}, drop, add))
  /\ \A kind, rules : Mild(Replace(kind, rules))
<1>1. \A drop, add : Mild(Command({}, {}, drop, add))
  BY DEF Mild, Command
<1>2. /\ \A i : Mild(Put(i)) /\ Mild(Purge(i))
      /\ \A kind, rules : Mild(Replace(kind, rules))
  BY <1>1 DEF Put, Purge, Replace
<1>3. /\ Mild(Look) /\ \A c : Mild([Look EXCEPT !.cfg = c]) /\ Mild([Look EXCEPT !.save = c])
  BY DEF Mild, Look, Command
<1>4. QED BY <1>1, <1>2, <1>3

\* The plan of traffic control.
LEMMA MildRates ==
  ASSUME NEW from \in MConfs, NEW to \in MConfs, NEW cmd \in Range(Rates(from, to))
  PROVE  Mild(cmd)
<1> DEFINE L == Of(to).limited
           G == Of(from).limited \ L
           new == SetToSeq(L)
           old == SetToSeq(G)
           C == Replace("mark", Marks(to))
           P == Put(Jump("mark"))
           D == Purge(Jump("mark"))
           E == Command({}, {}, Kind("mark"), {})
           marks == IF new = <<>> THEN <<D, E>> ELSE <<C, P>>
           look == <<Look>>
           puts == [i \in DOMAIN new |-> Put(Rate(new[i]))]
           purges == [i \in DOMAIN old |-> Purge(Rate(old[i]))]
           A == look \o puts
           B == A \o marks
           q == Rates(from, to)
           T == {Put(Rate(s)) : s \in L} \cup {Purge(Rate(s)) : s \in G} \cup {Look, C, P, D, E}
<1>1. IsFiniteSet(L) /\ IsFiniteSet(G)
  BY Configured, FS_Subset
<1>2. new \in Seq(L) /\ old \in Seq(G)
  <2> HIDE DEF L, G
  <2>1. QED BY <1>1, Listed
<1>3. /\ \A i \in DOMAIN new : new[i] \in L
      /\ \A i \in DOMAIN old : old[i] \in G
      /\ DOMAIN new = 1 .. Len(new) /\ Len(new) \in Nat
      /\ DOMAIN old = 1 .. Len(old) /\ Len(old) \in Nat
  <2> HIDE DEF L, G, new, old
  <2>1. QED BY <1>2, ElementOfSeq, LenProperties
<1>4. q = <<>> \/ (Joins(A, look, puts) /\ Joins(B, A, marks) /\ Joins(q, B, purges))
  BY DEF Rates, Unchain, Joins, Cat
<1>5. \A x \in T : Mild(x)
  <2>1. Mild(C) /\ Mild(P) /\ Mild(D) /\ Mild(E) /\ Mild(Look)
        /\ \A s : Mild(Put(Rate(s))) /\ Mild(Purge(Rate(s)))
    BY MildCommands
  <2> HIDE DEF C, P, D, E, L, G
  <2>2. QED BY <2>1
<1>6. look \in Seq(T) /\ marks \in Seq(T) /\ puts \in Seq(T) /\ purges \in Seq(T)
  <2>1. puts \in [1 .. Len(new) -> T] /\ purges \in [1 .. Len(old) -> T]
    <3> HIDE DEF C, P, D, E, new, old, L, G
    <3>1. QED BY <1>3
  <2>2. Look \in T /\ C \in T /\ P \in T /\ D \in T /\ E \in T
    OBVIOUS
  <2>3. marks = <<D, E>> \/ marks = <<C, P>>
    OBVIOUS
  <2> HIDE DEF T, C, P, D, E, new, old, L, G, puts, purges, marks
  <2>4. puts \in Seq(T) /\ purges \in Seq(T)
    BY <1>3, <2>1, FunctionSeq
  <2>5. look \in Seq(T) /\ marks \in Seq(T)
    BY <2>2, <2>3, ShortSeq
  <2>6. QED BY <2>4, <2>5
<1> HIDE DEF T, look, puts, marks, purges, A, B, q
<1>7. q = <<>> \/ q \in Seq(T)
  <2>1. CASE Joins(A, look, puts) /\ Joins(B, A, marks) /\ Joins(q, B, purges)
    <3>1. A \in Seq(T)
      BY <1>6, <2>1, JoinsSeq
    <3>2. B \in Seq(T)
      BY <1>6, <2>1, <3>1, JoinsSeq
    <3>3. QED BY <1>6, <2>1, <3>2, JoinsSeq
  <2>2. QED BY <1>4, <2>1
<1>8. cmd \in Range(q)
  BY DEF q
<1>9. q = <<>> => FALSE
  BY <1>8, RangeShort
<1>10. PICK i \in DOMAIN q : cmd = q[i]
  BY <1>8 DEF Range
<1>11. cmd \in T
  BY <1>7, <1>9, <1>10, ElementOfSeq, LenProperties
<1>12. QED BY <1>5, <1>11

\* The plans of the phases that do not go service by service.
LEMMA MildPlans ==
  ASSUME NEW ph \in Phases, ph.do # "checks", NEW q \in Plans(ph), NEW cmd \in Range(q)
  PROVE  Mild(cmd)
<1>1. ph.from \in MConfs /\ ph.to \in MConfs
  BY DEF Phases
<1>2. CASE ph.do = "firewall"
  <2> DEFINE F == Rules("filter", ph.from) \cup Rules("filter", ph.to)
             N == Rules("nat", ph.from) \cup Rules("nat", ph.to)
             A == Replace("filter", F)
             B == Replace("nat", N)
             C == Put(Jump("filter"))
             D == Put(Jump("nat"))
  <2>1. q = <<A, B, C, D>>
    BY <1>2 DEF Plans, Firewall
  <2>2. Mild(A) /\ Mild(B) /\ Mild(C) /\ Mild(D)
    BY MildCommands
  <2> HIDE DEF A, B, C, D
  <2>3. Range(q) = {A, B, C, D}
    BY <2>1, RangeShort
  <2>4. QED BY <2>2, <2>3
<1>3. CASE ph.do = "haproxy"
  <2> DEFINE t == Of(ph.to).tcp
             K == Kind("proxy")
             stop == Command({}, {}, K, {})
             reload == Command({}, {}, K, {Proxy(t)})
             file == [Look EXCEPT !.cfg = {t}]
  <2>1. q = <<>> \/ q = <<stop, file>> \/ q = <<Look, file, reload>>
    BY <1>3 DEF Plans, HAProxy
  <2>2. Mild(stop) /\ Mild(reload) /\ Mild(file) /\ Mild(Look)
    BY MildCommands
  <2> HIDE DEF stop, reload, file
  <2>3. cmd \in {stop, file, reload, Look}
    BY <2>1, RangeShort
  <2>4. QED BY <2>2, <2>3
<1>4. CASE ph.do = "input"
  <2> DEFINE C == Replace("input", {<<"input", Services(ph.to)>>})
             P == Put(Jump("input"))
  <2>1. q = <<Look, C, P>>
    BY <1>4 DEF Plans, Input
  <2>2. Mild(Look) /\ Mild(C) /\ Mild(P)
    BY MildCommands
  <2> HIDE DEF C, P
  <2>3. Range(q) = {Look, C, P}
    BY <2>1, RangeShort
  <2>4. QED BY <2>2, <2>3
<1>5. ASSUME NEW kind, NEW x \in Range(Unchain(kind)) PROVE Mild(x)
  <2>1. x \in {Purge(Jump(kind)), Command({}, {}, Kind(kind), {})}
    BY <1>5, RangeShort DEF Unchain
  <2>2. QED BY <2>1, MildCommands
<1>6. CASE ph.do = "noinput"
  BY <1>5, <1>6 DEF Plans
<1>7. CASE ph.do = "unchain"
  <2> DEFINE A == Unchain("filter")
             B == Unchain("nat")
             S == Range(A) \cup Range(B)
  <2>1. Joins(q, A, B)
    BY <1>7 DEF Plans, Joins, Cat
  <2>2. A \in Seq(S) /\ B \in Seq(S)
    <3> DEFINE a1 == Purge(Jump("filter"))
               a2 == Command({}, {}, Kind("filter"), {})
               b1 == Purge(Jump("nat"))
               b2 == Command({}, {}, Kind("nat"), {})
    <3>1. A = <<a1, a2>> /\ B = <<b1, b2>>
      BY DEF Unchain
    <3> HIDE DEF A, B, a1, a2, b1, b2
    <3>2. Range(A) = {a1, a2} /\ Range(B) = {b1, b2}
      BY <3>1, RangeShort
    <3>3. a1 \in S /\ a2 \in S /\ b1 \in S /\ b2 \in S
      BY <3>2
    <3> HIDE DEF S
    <3>4. QED BY <3>1, <3>3, ShortSeq
  <2> HIDE DEF A, B, S
  <2>3. Range(q) = Range(A) \cup Range(B)
    BY <2>1, <2>2, JoinsSeq
  <2>4. QED BY <1>5, <2>3 DEF A, B
<1>8. CASE ph.do = "rates"
  BY <1>1, <1>8, MildRates DEF Plans
<1>9. CASE ph.do = "save"
  <2> DEFINE C == [Look EXCEPT !.save = {ph.to}]
  <2>1. q = <<C>>
    BY <1>9 DEF Plans
  <2>2. Mild(C)
    BY MildCommands
  <2> HIDE DEF C
  <2>3. QED BY <2>1, <2>2, RangeShort
<1>10. CASE ph.do \in {"none", "ipvs", "wipe"}
  BY <1>10, RangeShort DEF Plans
<1>11. QED BY <1>2, <1>3, <1>4, <1>6, <1>7, <1>8, <1>9, <1>10 DEF Phases, Dos

\* The check for ports that are taken finds none while HAProxy runs what was saved.
LEMMA ChecksPass ==
  ASSUME present \subseteq Foreign \cup Parts(saved), NEW c
  PROVE  Peace(Checks(c)) /\ \A cmd \in Range(Checks(c)) : Accepted(cmd)
<1> DEFINE taken(t) == (PortsOf(t) \cap PortsOf(Of(c).tcp)) \ PortsOf(Of(saved).tcp) # {}
           X == {Proxy(t) : t \in {u \in DOMAIN Ports : taken(u)}}
           C == Command({}, X, {}, {})
<1>1. Checks(c) = <<C>>
  BY DEF Checks
<1>2. ASSUME NEW x \in X, x \in present PROVE FALSE
  <2>1. PICK t \in DOMAIN Ports : x = Proxy(t) /\ taken(t)
    BY <1>2
  <2>2. x[1] = "proxy" /\ x[2] = t
    BY <2>1, Introduced
  <2>3. x \in Parts(saved)
    BY <1>2, <2>2, ReconcilerConstants DEF ReconcilerConstants
  <2>4. x = Proxy(Of(saved).tcp)
    BY <2>2, <2>3, PartTag, EdgeShape
  <2>5. t = Of(saved).tcp
    BY <2>2, <2>4, Introduced
  <2>6. QED BY <2>1, <2>5
<1>3. C.needs = {} /\ C.clash = X
  <2> HIDE DEF X
  <2>1. QED BY CommandFields
<1> HIDE DEF X, C
<1>4. Accepted(C)
  BY <1>2, <1>3 DEF Accepted
<1>5. QED BY <1>1, <1>4, PeaceShort, RangeShort
-----------------------------------------------------------------------------
(* A node in order refuses no command of a Reconcile                       *)

\* Phases without checks after phases of which only the first may be one.
LEMMA FirstJoin ==
  ASSUME NEW A, NEW B \in Seq(Phases), NEW q, Joins(q, A, B), First(A),
         \A ph \in Range(B) : ph.do # "checks"
  PROVE  First(q)
<1>1. A \in Seq(Phases)
  BY DEF First
<1>2. q \in Seq(Phases)
  BY <1>1, JoinsSeq
<1> DEFINE k == Len(A)
           l == Len(B)
<1>3. /\ k \in Nat /\ l \in Nat
      /\ DOMAIN A = 1 .. k /\ DOMAIN B = 1 .. l /\ DOMAIN q = 1 .. k + l
      /\ \A i \in DOMAIN q : i <= k => q[i] = A[i]
      /\ \A i \in DOMAIN q : i > k => q[i] = B[i - k]
  BY <1>1, JoinsAt
<1> HIDE DEF k, l
<1>4. ASSUME NEW i \in DOMAIN q, q[i].do = "checks" PROVE i = 1
  <2>1. CASE i <= k
    <3>1. i \in DOMAIN A /\ q[i] = A[i]
      BY <1>3, <2>1
    <3>2. QED BY <1>4, <3>1 DEF First
  <2>2. CASE i > k
    <3>1. i - k \in DOMAIN B /\ q[i] = B[i - k]
      BY <1>3, <2>2
    <3>2. B[i - k] \in Range(B)
      BY <3>1 DEF Range
    <3>3. QED BY <1>4, <3>1, <3>2
  <2>3. QED BY <1>3, <2>1, <2>2
<1>5. QED BY <1>2, <1>4 DEF First

\* A Reconcile checks the ports first.
LEMMA ReconcileFirst ==
  ASSUME NEW o \in MConfs, NEW n \in Confs, NEW reset \in BOOLEAN
  PROVE  First(ReconcilePhases(o, n, reset))
<1> DEFINE ph1 == Phase("haproxy", o, n)
           ph2 == Phase("input", o, n)
           ph3 == Phase("noinput", o, n)
           ph4 == Phase("rates", o, n)
           ph5 == Phase("save", o, n)
           check == Phase("checks", o, n)
           union == Phase("firewall", o, n)
           final == Phase("firewall", n, n)
           off == Phase("ipvs", o, Nothing)
           on == Phase("ipvs", Nothing, n)
           switch == Phase("ipvs", o, n)
           a == <<check, union>>
           b == IF reset THEN <<off, on>> ELSE <<switch>>
           p1 == HasTCP(o) \/ HasTCP(n)
           c == When(p1, <<ph1>>)
           d == <<final>>
           p2 == Of(n).hidden
           e == When(p2, <<ph2>>)
           p3 == Of(o).hidden /\ ~Of(n).hidden
           f == When(p3, <<ph3>>)
           g == <<ph4, ph5>>
           q1 == a \o b
           q2 == q1 \o c
           q3 == q2 \o d
           q4 == q3 \o e
           q5 == q4 \o f
           q == ReconcilePhases(o, n, reset)
<1>1. /\ Joins(q1, a, b) /\ Joins(q2, q1, c) /\ Joins(q3, q2, d) /\ Joins(q4, q3, e)
      /\ Joins(q5, q4, f) /\ Joins(q, q5, g)
  BY DEF Joins, Cat, ReconcilePhases
<1>2. n \in MConfs /\ Nothing \in MConfs /\ Confs # {}
  BY DEF MConfs
<1>3. /\ ph1.do # "checks" /\ ph2.do # "checks" /\ ph3.do # "checks" /\ ph4.do # "checks"
      /\ ph5.do # "checks" /\ union.do # "checks" /\ final.do # "checks"
      /\ off.do # "checks" /\ on.do # "checks" /\ switch.do # "checks"
  BY PhaseFields
<1>4. /\ ph1 \in Phases /\ (p2 => ph2 \in Phases) /\ ph3 \in Phases /\ ph4 \in Phases
      /\ ph5 \in Phases /\ check \in Phases /\ union \in Phases /\ final \in Phases
      /\ off \in Phases /\ on \in Phases /\ switch \in Phases
  BY <1>2, PhaseIn DEF Dos
<1>5. p1 \in BOOLEAN /\ p2 \in BOOLEAN /\ p3 \in BOOLEAN
  BY Configured DEF HasTCP
<1>6. DOMAIN a = 1 .. 2 /\ a[1] = check /\ a[2] = union
  OBVIOUS
<1> HIDE DEF p1, p2, p3, q1, q2, q3, q4, q5, q
<1> HIDE DEF ph1, ph2, ph3, ph4, ph5, check, union, final, off, on, switch
<1>7. First(a)
  <2>1. a \in Seq(Phases)
    BY <1>4, ShortSeq
  <2> HIDE DEF a
  <2>2. \A i \in DOMAIN a : i = 1 \/ i = 2
    BY <1>6
  <2>3. QED BY <1>3, <1>6, <2>1, <2>2 DEF First
<1>8. b \in Seq(Phases) /\ \A ph \in Range(b) : ph.do # "checks"
  <2>1. b = <<off, on>> \/ b = <<switch>>
    OBVIOUS
  <2> HIDE DEF b
  <2>2. b \in Seq(Phases)
    BY <1>4, <2>1, ShortSeq
  <2>3. Range(b) \subseteq {off, on, switch}
    BY <2>1, RangeShort
  <2>4. QED BY <1>3, <2>2, <2>3
<1>9. /\ c \in Seq(Phases) /\ (\A ph \in Range(c) : ph.do # "checks")
      /\ e \in Seq(Phases) /\ (\A ph \in Range(e) : ph.do # "checks")
      /\ f \in Seq(Phases) /\ (\A ph \in Range(f) : ph.do # "checks")
  <2>1. c \in Seq(Phases) /\ e \in Seq(Phases) /\ f \in Seq(Phases)
    BY <1>4, <1>5, WhenOne
  <2>2. Range(c) \subseteq {ph1} /\ Range(e) \subseteq {ph2} /\ Range(f) \subseteq {ph3}
    BY <1>4, <1>5, WhenOne
  <2> HIDE DEF c, e, f
  <2>3. QED BY <1>3, <2>1, <2>2
<1>10. /\ d \in Seq(Phases) /\ (\A ph \in Range(d) : ph.do # "checks")
       /\ g \in Seq(Phases) /\ (\A ph \in Range(g) : ph.do # "checks")
  <2>1. d \in Seq(Phases) /\ g \in Seq(Phases)
    BY <1>4, ShortSeq
  <2>2. Range(d) = {final} /\ Range(g) = {ph4, ph5}
    BY RangeShort
  <2> HIDE DEF d, g
  <2>3. QED BY <1>3, <2>1, <2>2
<1> HIDE DEF a, b, c, d, e, f, g
<1>11. First(q1)
  BY <1>1, <1>7, <1>8, FirstJoin
<1>12. First(q2)
  BY <1>1, <1>9, <1>11, FirstJoin
<1>13. First(q3)
  BY <1>1, <1>10, <1>12, FirstJoin
<1>14. First(q4)
  BY <1>1, <1>9, <1>13, FirstJoin
<1>15. First(q5)
  BY <1>1, <1>9, <1>14, FirstJoin
<1>16. First(q)
  BY <1>1, <1>10, <1>15, FirstJoin
<1>17. QED BY <1>16 DEF q

\* A Reconcile that begins on a clean node has run nothing yet.
LEMMA FitBegin ==
  ASSUME ShapeInv, NEW c \in Confs, NEW reset \in BOOLEAN, Reconcile(c, reset)
  PROVE  FitInv'
<1> SUFFICES ASSUME CleanRun' PROVE FitInv'
  BY DEF FitInv
<1>1. /\ present \subseteq Foreign \cup Parts(saved) /\ present' = present
      /\ call'.old = saved /\ phase' = NoPhase /\ plan' = <<>>
      /\ todo' = ReconcilePhases(saved, c, reset)
  BY CleanStart
<1>2. First(todo')
  BY <1>1, ReconcileFirst DEF ShapeInv
<1>3. phase'.left = {}
  BY <1>1, NoPhaseFields
<1>4. Parts(saved)' = Parts(saved') /\ Parts(call.old)' = Parts(saved)
  BY <1>1 DEF Parts
<1>5. Peace(plan') /\ Range(plan') = {}
  BY <1>1, PeaceShort, RangeShort
<1>6. QED BY <1>1, <1>2, <1>3, <1>4, <1>5 DEF FitInv, First

\* A phase starts: the checks pass, and the other phases ask for nothing.
LEMMA FitStart ==
  ASSUME ShapeInv, SaveInv, StepInv, FitInv, StartPhase
  PROVE  FitInv'
<1> SUFFICES ASSUME CleanRun PROVE FitInv'
  BY DEF StartPhase, FitInv, CleanRun
<1>1. /\ todo # <<>> /\ phase' = Head(todo) /\ todo' = Tail(todo)
      /\ plan' \in Plans(Head(todo))
      /\ UNCHANGED <<present, saved, call, undoing, before>>
  BY DEF StartPhase
<1>2. /\ Head(todo) = todo[1] /\ Head(todo) \in Phases /\ 1 \in DOMAIN todo
      /\ \A i \in DOMAIN todo' : i + 1 \in DOMAIN todo /\ todo'[i] = todo[i + 1] /\ i + 1 # 1
  BY <1>1, TodoTail
<1>3. /\ \A i \in DOMAIN todo : todo[i].do = "checks" => i = 1
      /\ todo[1].do = "checks" => present \subseteq Foreign \cup Parts(call.old)
  BY <1>2 DEF FitInv
<1>4. \A i \in DOMAIN todo' : todo'[i].do # "checks"
  BY <1>2, <1>3
<1>5. Peace(plan') /\ \A cmd \in Range(plan') : Accepted(cmd)
  <2>1. CASE Head(todo).do = "checks"
    <3>1. Busy
      BY DEF CleanRun, Busy, Idle
    <3>2. saved = call.old
      BY <1>1, <3>1 DEF SaveInv, Finished
    <3>3. present \subseteq Foreign \cup Parts(saved)
      BY <1>2, <1>3, <2>1, <3>2
    <3>4. plan' = Checks(Head(todo).to)
      BY <1>1, <2>1 DEF Plans
    <3>5. QED BY <3>3, <3>4, ChecksPass
  <2>2. CASE Head(todo).do # "checks"
    <3>1. \A cmd \in Range(plan') : Mild(cmd)
      BY <1>1, <1>2, <2>2, MildPlans
    <3>2. \A i \in DOMAIN plan' : plan'[i] \in Range(plan')
      BY DEF Range
    <3>3. Peace(plan')
      BY <3>1, <3>2 DEF Peace, Mild
    <3>4. QED BY <3>1, <3>3 DEF Mild, Accepted
  <2>3. QED BY <2>1, <2>2
<1>6. \A cmd : Accepted(cmd)' <=> Accepted(cmd)
  BY <1>1 DEF Accepted
<1>7. QED BY <1>4, <1>5, <1>6 DEF FitInv, Accepted

\* The commands for a service find what waits for them.
LEMMA FitService ==
  ASSUME ShapeInv, StepInv, FitInv, NextService
  PROVE  FitInv'
<1> SUFFICES ASSUME CleanRun PROVE FitInv'
  BY DEF NextService, FitInv, CleanRun
<1>1. PICK s \in Turn(phase) : /\ plan' = ServicePlan(phase, s)
                               /\ phase' = [phase EXCEPT !.left = @ \ {s}]
  BY DEF NextService
<1>2. s \in phase.left
  BY <1>1, TurnIs
<1>3. UNCHANGED <<present, call, todo, undoing, before>>
  BY DEF NextService
<1>4. phase \in Phases /\ phase.do # "wipe"
  BY DEF ShapeInv, StepInv, Tidy
<1>5. phase.do = "ipvs"
  BY <1>2, <1>4 DEF Phases, PhaseOK
<1>6. /\ Peace(plan')
      /\ \A cmd \in Range(plan') :
           /\ \A x \in cmd.needs : x \in Base(phase.from) /\ x[2] = s
           /\ \A x \in cmd.clash : x \in Base(phase.to) \ Base(phase.from) /\ x[2] = s
  BY <1>1, <1>2, <1>5, LocalPlan
<1> DEFINE F == From(phase, call.old, call.new)
           I == Into(phase, call.old, call.new)
           R == Both(call.old, call.new)
<1>7. F = Base(phase.from) \cup R /\ I = Base(phase.to) \cup R
  BY <1>5 DEF From, Into
<1>8. \A x \in R : x[1] \in {"filter", "nat"}
  BY ChainShape DEF Both
<1>9. \A x \in F \cup I : Waits(x) => (x \in present <=> x \in F)
  BY DEF StepInv
<1> HIDE DEF F, I, R
<1>10. ASSUME NEW x, x \in Base(phase.from), x[2] = s PROVE x \in present
  <2>1. x[1] \in {"svc", "dst"}
    BY <1>10, BaseShape
  <2>2. Waits(x)
    BY <1>2, <1>10, <2>1 DEF Waits
  <2>3. QED BY <1>7, <1>9, <1>10, <2>2
<1>11. ASSUME NEW x, x \in Base(phase.to) \ Base(phase.from), x[2] = s PROVE x \notin present
  <2>1. x[1] \in {"svc", "dst"}
    BY <1>11, BaseShape
  <2>2. Waits(x)
    BY <1>2, <1>11, <2>1 DEF Waits
  <2>3. x \notin F /\ x \in I
    BY <1>7, <1>8, <1>11, <2>1
  <2>4. QED BY <1>9, <2>2, <2>3
<1>12. \A cmd \in Range(plan') : Accepted(cmd)
  BY <1>6, <1>10, <1>11 DEF Accepted
<1>13. \A i \in DOMAIN todo : todo[i].do # "checks"
  BY <1>2 DEF FitInv
<1>14. QED BY <1>3, <1>6, <1>12, <1>13 DEF FitInv, Accepted

\* A command leaves what the others of its plan need.
LEMMA FitRun ==
  ASSUME ShapeInv, FitInv, RunCommand
  PROVE  FitInv'
<1> SUFFICES ASSUME CleanRun PROVE FitInv'
  BY DEF RunCommand, FitInv, CleanRun
<1> DEFINE cmd == Head(plan)
<1>1. /\ Range(plan) = {cmd} \cup Range(Tail(plan)) /\ plan' = Tail(plan) /\ plan # <<>>
      /\ present' = (present \ cmd.drop) \cup cmd.add
      /\ UNCHANGED <<call, todo, phase, undoing, before>>
  BY RunFacts
<1>2. /\ \A i \in DOMAIN todo : todo[i].do # "checks"
      /\ \A c \in Range(plan) : Accepted(c)
      /\ Peace(plan)
  BY <1>1 DEF FitInv
<1>3. /\ Peace(plan')
      /\ \A c \in Range(plan') : cmd.add \cap c.clash = {} /\ cmd.drop \cap c.needs = {}
  BY <1>1, <1>2, PeaceTail DEF ShapeInv
<1> HIDE DEF cmd
<1>4. \A c \in Range(plan') : c.needs \subseteq present' /\ c.clash \cap present' = {}
  BY <1>1, <1>2, <1>3 DEF Accepted
<1>5. QED BY <1>1, <1>2, <1>3, <1>4 DEF FitInv, Accepted

\* Every step of a Reconcile on a clean node leaves it with commands that are accepted.
LEMMA FitNext ==
  ASSUME ShapeInv, SaveInv, StepInv, FitInv, [Next]_vars
  PROVE  FitInv'
<1>1. ASSUME NEW c \in Confs, NEW reset \in BOOLEAN, Reconcile(c, reset) PROVE FitInv'
  BY <1>1, FitBegin
<1>2. ASSUME Restore \/ Decommission PROVE FitInv'
  BY <1>2 DEF Restore, Decommission, Begin, FitInv, CleanRun
<1>3. ASSUME CommandFails PROVE FitInv'
  BY <1>3 DEF CommandFails, FitInv, CleanRun
<1>4. ASSUME Return \/ Crash PROVE FitInv'
  BY <1>4 DEF Return, Crash, Ends, FitInv, CleanRun, Idle
<1>5. ASSUME Reboot PROVE FitInv'
  BY <1>5 DEF Reboot, Busy, FitInv, CleanRun, Idle
<1>6. ASSUME UNCHANGED vars PROVE FitInv'
  BY <1>6 DEF vars, FitInv, CleanRun, Accepted
<1>7. QED
  BY <1>1, <1>2, <1>3, <1>4, <1>5, <1>6, FitStart, FitService, FitRun DEF Next

\* No Reconcile at first.
LEMMA FitInit == Init => FitInv
BY DEF Init, Idle, FitInv, CleanRun

\* For any configurations: on a node in order no command of a Reconcile is refused
\* because of what the commands before it did (CleanReconcileFits).
THEOREM NoSelfRefusal == Spec => []CleanReconcileFits
<1>1. ShapeInv /\ FitInv => CleanReconcileFits
  <2> SUFFICES ASSUME ShapeInv, FitInv, CleanRun, plan # <<>> PROVE Accepted(Head(plan))
    BY DEF CleanReconcileFits
  <2>1. Head(plan) \in Range(plan)
    BY RangeTail DEF ShapeInv
  <2>2. QED BY <2>1 DEF FitInv
<1>2. ShapeInv /\ SaveInv /\ [Next]_vars => SaveInv'
  BY SaveNext
<1>3. ShapeInv /\ StepInv /\ [Next]_vars => StepInv'
  BY StepNext
<1>4. ShapeInv /\ SaveInv /\ StepInv /\ FitInv /\ [Next]_vars => FitInv'
  BY FitNext
<1>5. QED BY <1>1, <1>2, <1>3, <1>4, SaveInit, StepInit, FitInit, Shape, PTL DEF Spec
=============================================================================
