---------------------------- MODULE HealthMonitor ----------------------------
(***************************************************************************)
(* The ICMP health monitor of the agent (internal/agent/health.go) and how *)
(* the main loop replaces it.  Every applied configuration starts a new    *)
(* monitor goroutine and cancels the one before; they share one map of     *)
(* results.  checkMu keeps their rounds apart, Reconciler.mu a reconcile   *)
(* from a write of weights, but nothing keeps a round of the old monitor   *)
(* from going on after the reconcile.                                      *)
(*                                                                         *)
(* Left out: latency and time of a result, logging, and a reconcile that   *)
(* fails, which replaces neither configuration nor monitor.                *)
(***************************************************************************)
EXTENDS Integers, FiniteSets

CONSTANTS
  Backends,     \* backend addresses
  Proxied,      \* those behind HAProxy, whose weights are set over its socket
  Policies,     \* [enabled, fail, recover, weight]: health settings and the
                \* configured weight of each backend of a configuration
  MaxRuns,      \* bound: monitors started
  MaxChanges,   \* bound: backends that go up or down
  MaxProbes,    \* bound: probes the panel asks for
  Patience      \* bound: up to here pings are counted in missed and aborted

ASSUME HealthConstants ==
  /\ Backends # {} /\ Policies # {}
  /\ \A p \in Policies :
       /\ p.fail \in 1 .. 100 /\ p.recover \in 1 .. 100
       /\ DOMAIN p.weight \subseteq Backends
       /\ p.fail <= Patience
  /\ MaxRuns \in Nat \ {0} /\ Patience \in Nat

VARIABLES
  policy,    \* what the last reconcile put into the state file
  weight,    \* weight[b]: the weight b has in IPVS or HAProxy
  answers,   \* answers[b]: b replies to a ping
  result,    \* result[b]: the shared entry of b
  rounds,    \* rounds[r]: monitor goroutine r; 0 is a probe of the main loop
  checking,  \* who holds checkMu
  newest,    \* the monitor started last
  replacing, \* the main loop is between Reconcile and healthCancel
  spent,     \* changes and probes so far
  missed,    \* history: missed[b] pings in a row that b did not answer
  aborted    \* history: aborted[b] pings of b that a replaced monitor had to give
             \* up, since the last Reset or answer

healthVars == <<policy, weight, answers, result, rounds, checking, newest,
                replacing, spent, missed, aborted>>

Absent == -1
Nobody == -1
Members(p) == DOMAIN p.weight
Configured(p) == [b \in Backends |-> IF b \in Members(p) THEN p.weight[b] ELSE Absent]
NoResult == [state |-> "unknown", up |-> 0, down |-> 0]
SomePolicy == CHOOSE p \in Policies : TRUE
SomeBackend == CHOOSE b \in Backends : TRUE
Round(pc, p) == [pc |-> pc, policy |-> p, services |-> SomePolicy, cancelled |-> FALSE,
                 todo |-> {}, at |-> SomeBackend, verdict |-> "unknown"]
Finished == Round("done", SomePolicy)
RunIds == 0 .. MaxRuns
Move(r, pc) == rounds' = [rounds EXCEPT ![r].pc = pc]

-----------------------------------------------------------------------------
(* The main loop                                                           *)

Quiet == ~replacing /\ rounds[0].pc = "done"

\* A successful Reconcile ensures every destination with its configured weight.
Applied(p) ==
  /\ Quiet /\ newest < MaxRuns
  /\ policy' = p
  /\ weight' = Configured(p)
  /\ replacing' = TRUE
  /\ UNCHANGED <<answers, result, rounds, checking, newest, spent, missed, aborted>>

\* healthCancel, Reset, go Run.  A disabled monitor returns at once.
ReplaceMonitor ==
  /\ replacing
  /\ replacing' = FALSE
  /\ newest' = newest + 1
  /\ rounds' = [rounds EXCEPT ![newest].cancelled = TRUE,
                  ![newest + 1] = IF policy.enabled THEN Round("read", policy)
                                                    ELSE Finished]
  /\ result' = [b \in Backends |-> NoResult]
  /\ aborted' = [b \in Backends |-> 0]
  /\ UNCHANGED <<policy, weight, answers, checking, spent, missed>>

\* CheckNow runs in the main loop, which waits for it.
CheckNow ==
  /\ Quiet /\ policy.enabled /\ spent.probes < MaxProbes
  /\ spent' = [spent EXCEPT !.probes = @ + 1]
  /\ rounds' = [rounds EXCEPT ![0] = [Round("lock", policy) EXCEPT !.services = policy]]
  /\ UNCHANGED <<policy, weight, answers, result, checking, newest, replacing,
                 missed, aborted>>

-----------------------------------------------------------------------------
(* A round                                                                 *)

\* services() is evaluated before checkAll waits for checkMu.
ReadServices(r) ==
  /\ rounds[r].pc = "read"
  /\ rounds' = [rounds EXCEPT ![r].pc = "lock", ![r].services = policy]
  /\ UNCHANGED <<policy, weight, answers, result, checking, newest, replacing,
                 spent, missed, aborted>>

LockRound(r) ==
  /\ rounds[r].pc = "lock" /\ checking = Nobody
  /\ checking' = r
  /\ rounds' = [rounds EXCEPT ![r].pc = "ping", ![r].todo = Members(rounds[r].services)]
  /\ UNCHANGED <<policy, weight, answers, result, newest, replacing, spent, missed,
                 aborted>>

\* Counters above the threshold are not told apart.
Count(n, threshold) == IF n < threshold THEN n + 1 ELSE n

\* One failure too few is enough.
BadAfterPing(old, ok, p) ==
  LET up == IF ok THEN Count(old.up, p.recover) ELSE 0
      down == IF ok THEN 0 ELSE Count(old.down, p.fail)
  IN [up |-> up, down |-> down,
      state |-> CASE ok /\ up >= p.recover -> "up"
                  [] ~ok /\ down >= p.fail - 1 -> "down"
                  [] OTHER -> old.state]

AfterPing(old, ok, p) ==
  LET up == IF ok THEN Count(old.up, p.recover) ELSE 0
      down == IF ok THEN 0 ELSE Count(old.down, p.fail)
  IN [up |-> up, down |-> down,
      state |-> CASE ok /\ up >= p.recover -> "up"
                  [] ~ok /\ down >= p.fail -> "down"
                  [] OTHER -> old.state]

\* Weights are written on a change of state only.
BadAsserts(old, new) == new.state # "unknown" /\ new.state # old.state
\* A known state is asserted again in every round.
Asserts(old, new) == new.state # "unknown"

\* A ping of a cancelled monitor fails, and counts as unanswered.
Ping(r, b) ==
  LET run == rounds[r]
      new == AfterPing(result[b], answers[b] /\ ~run.cancelled, run.policy) IN
  /\ run.pc = "ping" /\ b \in run.todo
  /\ result' = [result EXCEPT ![b] = new]
  /\ rounds' = [rounds EXCEPT ![r].todo = @ \ {b},
                 ![r].pc = IF Asserts(result[b], new) THEN "assert" ELSE "ping",
                 ![r].at = IF Asserts(result[b], new) THEN b ELSE SomeBackend,
                 ![r].verdict = IF Asserts(result[b], new) THEN new.state ELSE "unknown"]
  /\ missed' = [missed EXCEPT ![b] = IF run.cancelled THEN @
                                     ELSE IF answers[b] THEN 0 ELSE Count(@, Patience)]
  /\ aborted' = [aborted EXCEPT ![b] = IF run.cancelled THEN Count(@, Patience)
                                       ELSE IF answers[b] THEN 0 ELSE @]
  /\ UNCHANGED <<policy, weight, answers, checking, newest, replacing, spent>>

\* Waits for Reconciler.mu, and decides by the state this ping left (result.State of
\* checkAll), whatever Reset did to the shared entry since.  ipvsadm does not start
\* under a cancelled context; the HAProxy socket knows of none.
ApplyAddressState(r) ==
  LET run == rounds[r] b == run.at IN
  /\ run.pc = "assert"
  /\ rounds' = [rounds EXCEPT ![r].pc = "ping", ![r].at = SomeBackend,
                 ![r].verdict = "unknown"]
  /\ weight' = IF weight[b] = Absent \/ (run.cancelled /\ b \notin Proxied) THEN weight
               ELSE [weight EXCEPT ![b] = IF run.verdict = "down" THEN 0
                                          ELSE run.services.weight[b]]
  /\ UNCHANGED <<policy, answers, result, checking, newest, replacing, spent, missed,
                 aborted>>

\* The mutex is not released.
BadEndRound(r) ==
  /\ rounds[r].pc = "ping" /\ rounds[r].todo = {}
  /\ rounds' = [rounds EXCEPT ![r].pc = "select"]
  /\ UNCHANGED <<policy, weight, answers, result, checking, newest, replacing, spent,
                 missed, aborted>>

EndRound(r) ==
  /\ rounds[r].pc = "ping" /\ rounds[r].todo = {}
  /\ checking' = Nobody
  /\ rounds' = [rounds EXCEPT ![r] = IF r = 0 THEN Finished
                                     ELSE [@ EXCEPT !.pc = "select", !.at = SomeBackend,
                                                    !.services = SomePolicy]]
  /\ UNCHANGED <<policy, weight, answers, result, newest, replacing, spent, missed,
                 aborted>>

\* select: when both channels are ready Go takes either.
TickRound(r) ==
  /\ rounds[r].pc = "select"
  /\ Move(r, "read")
  /\ UNCHANGED <<policy, weight, answers, result, checking, newest, replacing, spent,
                 missed, aborted>>

StopRun(r) ==
  /\ rounds[r].pc = "select" /\ rounds[r].cancelled
  /\ rounds' = [rounds EXCEPT ![r] = Finished]
  /\ UNCHANGED <<policy, weight, answers, result, checking, newest, replacing, spent,
                 missed, aborted>>

-----------------------------------------------------------------------------
BackendChanges(b) ==
  /\ spent.changes < MaxChanges
  /\ spent' = [spent EXCEPT !.changes = @ + 1]
  /\ answers' = [answers EXCEPT ![b] = ~@]
  /\ UNCHANGED <<policy, weight, result, rounds, checking, newest, replacing, missed,
                 aborted>>

\* The agent has restored a configuration and started its first monitor.
HealthInit ==
  /\ policy \in Policies
  /\ weight = Configured(policy)
  /\ answers \in [Backends -> BOOLEAN]
  /\ result = [b \in Backends |-> NoResult]
  /\ rounds = [r \in RunIds |->
                IF r = 1 /\ policy.enabled THEN Round("read", policy) ELSE Finished]
  /\ checking = Nobody
  /\ newest = 1
  /\ replacing = FALSE
  /\ spent = [changes |-> 0, probes |-> 0]
  /\ missed = [b \in Backends |-> 0]
  /\ aborted = [b \in Backends |-> 0]

RoundSteps(r) ==
  \/ ReadServices(r) \/ LockRound(r) \/ ApplyAddressState(r) \/ EndRound(r)
  \/ TickRound(r) \/ StopRun(r)
  \/ \E b \in Backends : Ping(r, b)

HealthNext ==
  \/ \E p \in Policies : Applied(p)
  \/ ReplaceMonitor \/ CheckNow
  \/ \E r \in RunIds : RoundSteps(r)
  \/ \E b \in Backends : BackendChanges(b)

\* Goroutines run, tickers tick, a mutex starves nobody, and select takes a closed
\* channel in the end.
HealthFairness ==
  /\ WF_healthVars(ReplaceMonitor)
  /\ \A r \in RunIds : WF_healthVars(RoundSteps(r))
  /\ SF_healthVars(LockRound(newest))
  /\ SF_healthVars(\E r \in RunIds : StopRun(r))

HealthSpec == HealthInit /\ [][HealthNext]_healthVars /\ HealthFairness

-----------------------------------------------------------------------------
(* Properties                                                              *)

\* Weights are configured ones or zero, at most one round runs, and only the
\* newest monitor is not cancelled.
HealthTypeOK ==
  /\ policy \in Policies
  /\ \A b \in Backends :
       /\ weight[b] \in {Absent, 0} \cup {p.weight[b] : p \in {q \in Policies : b \in Members(q)}}
       /\ result[b].state \in {"unknown", "up", "down"}
  /\ \A r \in RunIds :
       /\ rounds[r].pc \in {"ping", "assert"} <=> checking = r
       /\ r \notin {0, newest} => rounds[r].cancelled \/ rounds[r].pc = "done"

\* A backend becomes unreachable only after as many failed pings as the policy of
\* that round says: pings in a row that it left unanswered, whichever of the
\* monitors and the manual probes sent them, and pings that a replaced monitor gave
\* up after the Reset, which the shared counter takes for unanswered ones.
OutAfterFailures ==
  [][\A b \in Backends :
       result[b].state # "down" /\ result'[b].state = "down"
         => missed'[b] + aborted'[b] >= rounds[checking].policy.fail]_healthVars

\* When nothing changes any more the weights follow the replies, whatever a
\* monitor of an earlier configuration wrote on its way out.
WeightsFollow ==
  <>[](policy.enabled /\ ~replacing =>
         \A b \in Members(policy) : weight[b] = IF answers[b] THEN policy.weight[b] ELSE 0)
=============================================================================
