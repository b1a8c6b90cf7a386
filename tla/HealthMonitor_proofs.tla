------------------------- MODULE HealthMonitor_proofs -------------------------
(***************************************************************************)
(* The health monitor, for any backends, configurations and number of      *)
(* monitors that replace each other: its rounds exclude each other, a      *)
(* round writes no weight its snapshot does not hold, a monitor that was   *)
(* replaced is cancelled, and no backend goes out too early.  That the     *)
(* weights follow the replies in the end needs fairness and is left to TLC.*)
(***************************************************************************)
EXTENDS HealthMonitor, TLAPS

Steps == {"read", "lock", "ping", "assert", "select", "done"}

RoundType == [pc: Steps, policy: Policies, services: Policies, cancelled: BOOLEAN,
              todo: SUBSET Backends, at: Backends, verdict: {"unknown", "up", "down"}]

ResultType == [state: {"unknown", "up", "down"}, up: Nat, down: Nat]

\* The weights b may have: none, zero, or that of a configuration with b.
Written(b) ==
  {Absent, 0} \cup {p.weight[b] : p \in {q \in Policies : b \in Members(q)}}

\* Round x in slot r, while c holds the mutex and monitor n is the newest: it
\* holds the mutex exactly while it pings and writes, what it has still to ping
\* and to write belongs to its snapshot, and only the newest one goes on.
RoundOK(x, r, c, n) ==
  /\ x.pc \in {"ping", "assert"} <=> c = r
  /\ r \notin {0, n} => x.cancelled \/ x.pc = "done"
  /\ r > n => x.pc = "done"
  /\ x.pc \in {"ping", "assert"} => x.todo \subseteq Members(x.services)
  /\ x.pc = "assert" => x.at \in Members(x.services)

RoundsInv ==
  /\ rounds \in [RunIds -> RoundType]
  /\ checking \in RunIds \cup {Nobody}
  /\ newest \in 1 .. MaxRuns
  /\ replacing => newest < MaxRuns
  /\ \A r \in RunIds : RoundOK(rounds[r], r, checking, newest)

\* A counter of failures is no more than the pings that were missed and those that
\* replaced monitors gave up.
CountsInv ==
  /\ result \in [Backends -> ResultType]
  /\ missed \in [Backends -> Nat] /\ aborted \in [Backends -> Nat]
  /\ \A b \in Backends : result[b].down <= missed[b] + aborted[b]

WeightsInv ==
  /\ policy \in Policies
  /\ DOMAIN weight = Backends
  /\ \A b \in Backends : weight[b] \in Written(b)

HealthInv == RoundsInv /\ CountsInv /\ WeightsInv

-----------------------------------------------------------------------------
(* Rounds and results                                                      *)

\* Slots are numbered from zero, and the choices Round makes exist.
LEMMA HealthFacts ==
  /\ MaxRuns \in Nat /\ MaxRuns >= 1 /\ RunIds \subseteq Nat /\ Nobody \notin RunIds
  /\ 0 \in RunIds /\ 1 \in RunIds
  /\ SomePolicy \in Policies /\ SomeBackend \in Backends
  /\ \A p \in Policies : p.fail \in Nat \ {0} /\ p.recover \in Nat \ {0} /\ p.fail <= Patience
                         /\ Members(p) \subseteq Backends
  /\ Patience \in Nat
<1>1. MaxRuns \in Nat \ {0} /\ Patience \in Nat /\ Backends # {} /\ Policies # {}
  BY HealthConstants DEF HealthConstants
<1>2. RunIds \subseteq Nat /\ Nobody \notin RunIds /\ 0 \in RunIds /\ 1 \in RunIds
  BY <1>1 DEF RunIds, Nobody
<1>3. SomePolicy \in Policies /\ SomeBackend \in Backends
  BY <1>1 DEF SomePolicy, SomeBackend
<1>4. \A p \in Policies : p.fail \in Nat \ {0} /\ p.recover \in Nat \ {0} /\ p.fail <= Patience
                          /\ Members(p) \subseteq Backends
  BY HealthConstants DEF HealthConstants, Members
<1>5. QED BY <1>1, <1>2, <1>3, <1>4

\* A round that is about to begin.
LEMMA RoundFacts ==
  ASSUME NEW pc \in Steps, NEW p \in Policies
  PROVE  /\ Round(pc, p) \in RoundType
         /\ Round(pc, p).pc = pc /\ Round(pc, p).policy = p
         /\ Finished \in RoundType /\ Finished.pc = "done"
BY HealthFacts DEF Round, RoundType, Finished, Steps

\* What counting does to a counter.
LEMMA CountFacts ==
  ASSUME NEW n \in Nat, NEW threshold \in Nat
  PROVE  /\ Count(n, threshold) \in Nat
         /\ Count(n, threshold) >= n
         /\ Count(n, threshold) <= n + 1
         /\ n < threshold => Count(n, threshold) <= threshold /\ Count(n, threshold) = n + 1
         /\ n >= threshold => Count(n, threshold) = n
BY DEF Count

\* A ping that succeeds clears the count of failures, one that fails adds one up
\* to the threshold, and a backend that was not down goes down at the threshold.
LEMMA AfterPingFacts ==
  ASSUME NEW old \in ResultType, NEW ok \in BOOLEAN, NEW p \in Policies
  PROVE  /\ AfterPing(old, ok, p) \in ResultType
         /\ AfterPing(old, ok, p).down = IF ok THEN 0 ELSE Count(old.down, p.fail)
         /\ (old.state # "down" /\ AfterPing(old, ok, p).state = "down")
              => AfterPing(old, ok, p).down >= p.fail
<1> DEFINE new == AfterPing(old, ok, p)
           up == IF ok THEN Count(old.up, p.recover) ELSE 0
           down == IF ok THEN 0 ELSE Count(old.down, p.fail)
           state == CASE ok /\ up >= p.recover -> "up"
                      [] ~ok /\ down >= p.fail -> "down"
                      [] OTHER -> old.state
<1>1. /\ old.state \in {"unknown", "up", "down"} /\ old.up \in Nat /\ old.down \in Nat
      /\ p.fail \in Nat \ {0} /\ p.recover \in Nat \ {0}
  BY HealthFacts DEF ResultType
<1>2. up \in Nat /\ down \in Nat
  BY <1>1, CountFacts
<1>3. new = [up |-> up, down |-> down, state |-> state]
  BY DEF AfterPing
<1> HIDE DEF new, up, down
<1>4. state \in {"unknown", "up", "down"} /\ (old.state # "down" /\ state = "down" => down >= p.fail)
  <2>1. CASE ok /\ up >= p.recover
    BY <1>1, <2>1
  <2>2. CASE ~ok /\ down >= p.fail
    BY <1>1, <2>2
  <2>3. CASE ~(ok /\ up >= p.recover) /\ ~(~ok /\ down >= p.fail)
    BY <1>1, <2>3
  <2>4. QED BY <2>1, <2>2, <2>3
<1> HIDE DEF state
<1>5. new \in ResultType /\ new.down = down /\ new.state = state
  BY <1>2, <1>3, <1>4 DEF ResultType
<1>6. QED BY <1>4, <1>5 DEF new, down

-----------------------------------------------------------------------------
(* The rounds                                                              *)

\* A step of round r that leaves everybody else's hold on the mutex alone.
LEMMA RoundReplaced ==
  ASSUME RoundsInv, NEW r \in RunIds, NEW x \in RoundType, NEW c \in RunIds \cup {Nobody},
         rounds' = [rounds EXCEPT ![r] = x], checking' = c,
         UNCHANGED <<newest, replacing>>,
         RoundOK(x, r, c, newest),
         \A q \in RunIds \ {r} : c = q <=> checking = q
  PROVE  RoundsInv'
<1>1. rounds' \in [RunIds -> RoundType]
  BY DEF RoundsInv
<1>2. ASSUME NEW q \in RunIds
      PROVE  RoundOK(rounds'[q], q, c, newest)
  <2>1. CASE q = r
    BY <2>1 DEF RoundsInv
  <2>2. CASE q # r
    <3>1. rounds'[q] = rounds[q] /\ RoundOK(rounds[q], q, checking, newest)
      BY <2>2 DEF RoundsInv
    <3>2. c = q <=> checking = q
      BY <2>2
    <3>3. QED BY <3>1, <3>2 DEF RoundOK
  <2>3. QED BY <2>1, <2>2
<1>3. QED BY <1>1, <1>2 DEF RoundsInv

LEMMA HealthInitInv == HealthInit => HealthInv
<1> SUFFICES ASSUME HealthInit PROVE HealthInv
  OBVIOUS
<1>1. /\ policy \in Policies /\ weight = Configured(policy)
      /\ result = [b \in Backends |-> NoResult] /\ missed = [b \in Backends |-> 0]
      /\ rounds = [r \in RunIds |->
                     IF r = 1 /\ policy.enabled THEN Round("read", policy) ELSE Finished]
      /\ checking = Nobody /\ newest = 1 /\ replacing = FALSE
  BY DEF HealthInit
<1>2. /\ Round("read", policy) \in RoundType /\ Round("read", policy).pc = "read"
      /\ Finished \in RoundType /\ Finished.pc = "done"
  BY <1>1, RoundFacts DEF Steps
<1>3. RoundsInv
  <2>1. rounds \in [RunIds -> RoundType]
    BY <1>1, <1>2
  <2>2. newest \in 1 .. MaxRuns /\ checking \in RunIds \cup {Nobody} /\ ~replacing
    BY <1>1, HealthFacts
  <2>3. ASSUME NEW r \in RunIds
        PROVE  RoundOK(rounds[r], r, checking, newest)
    <3>1. rounds[r].pc \in {"read", "done"} /\ (r # 1 => rounds[r].pc = "done")
      BY <1>1, <1>2
    <3>2. checking # r /\ r \in Nat
      BY <1>1, HealthFacts
    <3>3. QED BY <1>1, <3>1, <3>2 DEF RoundOK
  <2>4. QED BY <2>1, <2>2, <2>3 DEF RoundsInv
<1>4. CountsInv
  BY <1>1 DEF HealthInit, CountsInv, NoResult, ResultType
<1>5. WeightsInv
  BY <1>1 DEF WeightsInv, Written, Configured
<1>6. QED BY <1>3, <1>4, <1>5 DEF HealthInv

\* Every step keeps the rounds in order: one that replaces the monitor cancels
\* the old one and fills a free slot, and one of a round leaves a record x there
\* that fits.
LEMMA RoundsStep ==
  ASSUME HealthInv, [HealthNext]_healthVars
  PROVE  RoundsInv'
<1>1. /\ RoundsInv /\ rounds \in [RunIds -> RoundType] /\ policy \in Policies
      /\ checking \in RunIds \cup {Nobody} /\ newest \in 1 .. MaxRuns
      /\ \A r \in RunIds : rounds[r] \in RoundType /\ RoundOK(rounds[r], r, checking, newest)
  BY DEF HealthInv, RoundsInv, WeightsInv
<1>2. CASE UNCHANGED <<rounds, checking, newest, replacing>>
  BY <1>1, <1>2 DEF RoundsInv
<1>3. ASSUME NEW p \in Policies, Applied(p)
      PROVE  RoundsInv'
  <2>1. newest < MaxRuns /\ UNCHANGED <<rounds, checking, newest>>
    BY <1>3 DEF Applied
  <2>2. QED BY <1>1, <2>1 DEF RoundsInv
<1>4. CASE ReplaceMonitor
  <2> DEFINE n == newest
             m == newest + 1
             x == [rounds[n] EXCEPT !.cancelled = TRUE]
             y == IF policy.enabled THEN Round("read", policy) ELSE Finished
  <2>1. /\ n \in RunIds /\ m \in RunIds /\ n # m /\ n # 0 /\ m # 0 /\ n \in Nat /\ m = n + 1
        /\ m \in 1 .. MaxRuns
    BY <1>1, <1>4, HealthFacts DEF RunIds, RoundsInv, ReplaceMonitor
  <2>2. /\ rounds' = [rounds EXCEPT ![n] = x, ![m] = y]
        /\ newest' = m /\ replacing' = FALSE /\ checking' = checking
    BY <1>1, <1>4, <2>1 DEF ReplaceMonitor
  <2>3. y \in RoundType /\ y.pc \in {"read", "done"}
    BY <1>1, RoundFacts DEF Steps
  <2>4. /\ x \in RoundType /\ x.pc = rounds[n].pc /\ x.cancelled = TRUE
        /\ x.todo = rounds[n].todo /\ x.services = rounds[n].services /\ x.at = rounds[n].at
    BY <1>1, <2>1 DEF RoundType
  <2> HIDE DEF x, y, n, m
  <2>5. rounds' \in [RunIds -> RoundType]
    BY <1>1, <2>1, <2>2, <2>3, <2>4
  <2>6. \A q \in RunIds : rounds'[q] = IF q = m THEN y ELSE IF q = n THEN x ELSE rounds[q]
    BY <1>1, <2>1, <2>2
  <2>7. ASSUME NEW q \in RunIds
        PROVE  RoundOK(rounds'[q], q, checking, m)
    <3>0. q \in Nat /\ RoundOK(rounds[q], q, checking, n)
      BY <1>1, HealthFacts DEF n
    <3>1. CASE q = m
      <4>1. rounds[q].pc = "done"
        BY <2>1, <3>0, <3>1 DEF RoundOK
      <4>2. checking # q
        BY <3>0, <4>1 DEF RoundOK
      <4>3. rounds'[q] = y
        BY <2>6, <3>1
      <4>4. QED BY <2>1, <2>3, <3>1, <4>2, <4>3 DEF RoundOK
    <3>2. CASE q = n
      <4>1. rounds'[q] = x
        BY <2>1, <2>6, <3>2
      <4>2. RoundOK(rounds[n], n, checking, n)
        BY <3>0, <3>2
      <4>3. ~(n > m)
        BY <2>1
      <4>4. QED BY <2>4, <3>2, <4>1, <4>2, <4>3 DEF RoundOK
    <3>3. CASE q \notin {n, m}
      <4>1. rounds'[q] = rounds[q]
        BY <2>6, <3>3
      <4>2. q > m => q > n
        BY <2>1, <3>0
      <4>3. QED BY <3>0, <3>3, <4>1, <4>2 DEF RoundOK
    <3>4. QED BY <3>1, <3>2, <3>3
  <2>8. QED BY <1>1, <2>1, <2>2, <2>5, <2>7 DEF RoundsInv
<1>5. CASE CheckNow
  <2> DEFINE x == [Round("lock", policy) EXCEPT !.services = policy]
  <2>1. /\ rounds' = [rounds EXCEPT ![0] = x]
        /\ rounds[0].pc = "done" /\ UNCHANGED <<checking, newest, replacing>>
    BY <1>5 DEF CheckNow, Quiet
  <2>2. x \in RoundType /\ x.pc = "lock"
    BY <1>1, RoundFacts DEF Steps, RoundType
  <2> HIDE DEF x
  <2>3. 0 \in RunIds /\ checking # 0 /\ ~(0 > newest)
    BY <1>1, <2>1, HealthFacts DEF RoundOK
  <2>4. RoundOK(x, 0, checking, newest)
    BY <2>2, <2>3 DEF RoundOK
  <2>5. QED BY <1>1, <2>1, <2>2, <2>3, <2>4, RoundReplaced
<1>6. ASSUME NEW r \in RunIds, RoundSteps(r)
      PROVE  RoundsInv'
  <2> DEFINE run == rounds[r]
  <2>1. /\ run \in RoundType /\ RoundOK(run, r, checking, newest) /\ newest' = newest
        /\ replacing' = replacing /\ r # Nobody
    BY <1>1, <1>6, HealthFacts DEF RoundSteps, ReadServices, LockRound, Ping, ApplyAddressState,
       EndRound, TickRound, StopRun
  <2>2. ASSUME NEW x \in RoundType, rounds' = [rounds EXCEPT ![r] = x],
               NEW c \in RunIds \cup {Nobody}, checking' = c, RoundOK(x, r, c, newest),
               \A q \in RunIds \ {r} : c = q <=> checking = q
        PROVE  RoundsInv'
    BY <1>1, <2>1, <2>2, RoundReplaced
  <2>3. CASE ReadServices(r)
    <3> DEFINE x == [run EXCEPT !.pc = "lock", !.services = policy]
    <3>1. run.pc = "read" /\ rounds' = [rounds EXCEPT ![r] = x] /\ checking' = checking
      BY <1>1, <2>3 DEF ReadServices
    <3>2. x \in RoundType /\ x.pc = "lock" /\ x.cancelled = run.cancelled
      BY <1>1, <2>1 DEF RoundType, Steps
    <3> HIDE DEF x
    <3>3. RoundOK(x, r, checking, newest)
      BY <2>1, <3>1, <3>2 DEF RoundOK
    <3>4. QED BY <1>1, <2>2, <3>1, <3>2, <3>3
  <2>4. CASE LockRound(r)
    <3> DEFINE x == [run EXCEPT !.pc = "ping", !.todo = Members(run.services)]
    <3>1. run.pc = "lock" /\ rounds' = [rounds EXCEPT ![r] = x] /\ checking = Nobody /\ checking' = r
      BY <1>1, <2>4 DEF LockRound
    <3>2. run.services \in Policies
      BY <2>1 DEF RoundType
    <3>3. Members(run.services) \subseteq Backends
      BY <3>2, HealthFacts
    <3>4. /\ x \in RoundType /\ x.pc = "ping" /\ x.cancelled = run.cancelled
          /\ x.services = run.services /\ x.todo = Members(run.services)
      BY <2>1, <3>3 DEF RoundType, Steps
    <3> HIDE DEF x
    <3>5. RoundOK(x, r, r, newest)
      BY <2>1, <3>1, <3>4 DEF RoundOK
    <3>6. \A q \in RunIds \ {r} : r = q <=> checking = q
      BY <3>1, HealthFacts
    <3>7. QED BY <2>2, <3>1, <3>4, <3>5, <3>6
  <2>5. ASSUME NEW b \in Backends, Ping(r, b)
        PROVE  RoundsInv'
    <3> DEFINE new == AfterPing(result[b], answers[b] /\ ~run.cancelled, run.policy)
               asserts == Asserts(result[b], new)
               x == [run EXCEPT !.todo = @ \ {b}, !.pc = IF asserts THEN "assert" ELSE "ping",
                                !.at = IF asserts THEN b ELSE SomeBackend,
                                !.verdict = IF asserts THEN new.state ELSE "unknown"]
    <3>1. /\ run.pc = "ping" /\ b \in run.todo /\ rounds' = [rounds EXCEPT ![r] = x]
          /\ checking' = checking
      BY <1>1, <2>5 DEF Ping
    <3>0. new.state \in {"unknown", "up", "down"}
      <4>1. /\ result[b] \in ResultType /\ run.policy \in Policies
            /\ (answers[b] /\ ~run.cancelled) \in BOOLEAN
        BY <2>1 DEF HealthInv, CountsInv, RoundType
      <4>2. QED BY <4>1, AfterPingFacts DEF ResultType
    <3> HIDE DEF asserts, new
    <3>2. /\ x \in RoundType /\ x.pc \in {"ping", "assert"} /\ x.cancelled = run.cancelled
          /\ x.services = run.services /\ x.todo \subseteq run.todo
          /\ x.pc = "assert" => x.at = b
      BY <2>1, <3>0, HealthFacts DEF RoundType, Steps
    <3> HIDE DEF x
    <3>3. RoundOK(x, r, checking, newest)
      BY <2>1, <3>1, <3>2 DEF RoundOK
    <3>4. QED BY <1>1, <2>2, <3>1, <3>2, <3>3
  <2>6. CASE ApplyAddressState(r)
    <3> DEFINE x == [run EXCEPT !.pc = "ping", !.at = SomeBackend, !.verdict = "unknown"]
    <3>1. run.pc = "assert" /\ rounds' = [rounds EXCEPT ![r] = x] /\ checking' = checking
      BY <1>1, <2>6 DEF ApplyAddressState
    <3>2. /\ x \in RoundType /\ x.pc = "ping" /\ x.cancelled = run.cancelled
          /\ x.services = run.services /\ x.todo = run.todo
      BY <2>1, HealthFacts DEF RoundType, Steps
    <3> HIDE DEF x
    <3>3. RoundOK(x, r, checking, newest)
      BY <2>1, <3>1, <3>2 DEF RoundOK
    <3>4. QED BY <1>1, <2>2, <3>1, <3>2, <3>3
  <2>7. CASE EndRound(r)
    <3> DEFINE x == IF r = 0 THEN Finished
                    ELSE [run EXCEPT !.pc = "select", !.at = SomeBackend, !.services = SomePolicy]
    <3>1. run.pc = "ping" /\ rounds' = [rounds EXCEPT ![r] = x] /\ checking' = Nobody
      BY <1>1, <2>7 DEF EndRound
    <3>2. checking = r
      BY <2>1, <3>1 DEF RoundOK
    <3>3. /\ x \in RoundType
          /\ \/ x.pc = "done"
             \/ x.pc = "select" /\ x.cancelled = run.cancelled
      <4>1. CASE r = 0
        BY <1>1, <4>1, RoundFacts DEF Steps
      <4>2. CASE r # 0
        BY <2>1, <4>2, HealthFacts DEF RoundType, Steps
      <4>3. QED BY <4>1, <4>2
    <3> HIDE DEF x
    <3>4. RoundOK(x, r, Nobody, newest)
      BY <2>1, <3>1, <3>3 DEF RoundOK
    <3>5. \A q \in RunIds \ {r} : Nobody = q <=> checking = q
      BY <3>2, HealthFacts
    <3>6. QED BY <2>2, <3>1, <3>3, <3>4, <3>5
  <2>8. CASE TickRound(r)
    <3> DEFINE x == [run EXCEPT !.pc = "read"]
    <3>1. run.pc = "select" /\ rounds' = [rounds EXCEPT ![r] = x] /\ checking' = checking
      BY <1>1, <2>8 DEF TickRound, Move
    <3>2. x \in RoundType /\ x.pc = "read" /\ x.cancelled = run.cancelled
      BY <2>1 DEF RoundType, Steps
    <3> HIDE DEF x
    <3>3. RoundOK(x, r, checking, newest)
      BY <2>1, <3>1, <3>2 DEF RoundOK
    <3>4. QED BY <1>1, <2>2, <3>1, <3>2, <3>3
  <2>9. CASE StopRun(r)
    <3>1. run.pc = "select" /\ rounds' = [rounds EXCEPT ![r] = Finished] /\ checking' = checking
      BY <1>1, <2>9 DEF StopRun
    <3>2. Finished \in RoundType /\ Finished.pc = "done"
      BY <1>1, RoundFacts DEF Steps
    <3>3. RoundOK(Finished, r, checking, newest)
      BY <2>1, <3>1, <3>2 DEF RoundOK
    <3>4. QED BY <1>1, <2>2, <3>1, <3>2, <3>3
  <2>10. QED BY <1>6, <2>3, <2>4, <2>5, <2>6, <2>7, <2>8, <2>9 DEF RoundSteps
<1>7. QED BY <1>2, <1>3, <1>4, <1>5, <1>6 DEF HealthNext, BackendChanges, healthVars

-----------------------------------------------------------------------------
(* Counters and weights                                                    *)

\* Who writes results: a ping of the round that holds the mutex, and Reset.
LEMMA ResultSteps ==
  ASSUME HealthInv, [HealthNext]_healthVars
  PROVE  \/ UNCHANGED <<result, missed, aborted>>
         \/ ReplaceMonitor
         \/ \E r \in RunIds, b \in Backends : Ping(r, b)
BY DEF HealthNext, RoundSteps, Applied, CheckNow, ReadServices, LockRound, ApplyAddressState,
   EndRound, TickRound, StopRun, BackendChanges, healthVars

\* What one ping does to the two counts of its backend.
LEMMA PingCounts ==
  ASSUME HealthInv, NEW r \in RunIds, NEW b \in Backends, Ping(r, b)
  PROVE  /\ CountsInv'
         /\ checking = r
         /\ \A q \in Backends \ {b} : result'[q] = result[q]
         /\ result[b].state # "down" /\ result'[b].state = "down"
              => result'[b].down >= rounds[r].policy.fail
<1> DEFINE run == rounds[r]
           ok == answers[b] /\ ~run.cancelled
           new == AfterPing(result[b], ok, run.policy)
           gone == IF run.cancelled THEN missed[b]
                   ELSE IF answers[b] THEN 0 ELSE Count(missed[b], Patience)
           cut == IF run.cancelled THEN Count(aborted[b], Patience)
                  ELSE IF answers[b] THEN 0 ELSE aborted[b]
<1>1. /\ run \in RoundType /\ run.policy \in Policies /\ RoundOK(run, r, checking, newest)
      /\ result \in [Backends -> ResultType]
      /\ missed \in [Backends -> Nat] /\ aborted \in [Backends -> Nat]
      /\ \A q \in Backends : result[q].down <= missed[q] + aborted[q]
  BY DEF HealthInv, RoundsInv, CountsInv, RoundType
<1>2. /\ run.pc = "ping" /\ result' = [result EXCEPT ![b] = new]
      /\ missed' = [missed EXCEPT ![b] = gone] /\ aborted' = [aborted EXCEPT ![b] = cut]
  BY <1>1 DEF Ping
<1>3. checking = r
  BY <1>1, <1>2 DEF RoundOK
<1>4. result[b] \in ResultType /\ ok \in BOOLEAN
  BY <1>1
<1>5. /\ new \in ResultType /\ new.down = IF ok THEN 0 ELSE Count(result[b].down, run.policy.fail)
      /\ result[b].state # "down" /\ new.state = "down" => new.down >= run.policy.fail
  BY <1>1, <1>4, AfterPingFacts
<1>6. /\ missed[b] \in Nat /\ aborted[b] \in Nat /\ result[b].down \in Nat
      /\ run.policy.fail \in Nat /\ run.policy.fail <= Patience /\ Patience \in Nat
      /\ result[b].down <= missed[b] + aborted[b]
  BY <1>1, <1>4, HealthFacts DEF ResultType
<1>7. gone \in Nat /\ cut \in Nat
  BY <1>6, CountFacts
\* A failed ping adds one to one of the two histories, or that one is full and holds
\* more than any threshold.
<1>8. new.down <= gone + cut
  <2> DEFINE down == Count(result[b].down, run.policy.fail)
  <2>1. CASE ok
    BY <1>5, <1>7, <2>1
  <2>2. CASE ~ok
    <3>1. /\ new.down = down /\ down \in Nat /\ down <= result[b].down + 1
          /\ down <= run.policy.fail \/ down = result[b].down
      BY <1>5, <1>6, <2>2 DEF Count
    <3>2. CASE run.cancelled
      <4>1. gone = missed[b] /\ cut = IF aborted[b] < Patience THEN aborted[b] + 1 ELSE aborted[b]
        BY <3>2 DEF Count
      <4> HIDE DEF down, new, gone, cut
      <4>2. QED BY <1>6, <3>1, <4>1
    <3>3. CASE ~run.cancelled
      <4>1. /\ cut = aborted[b]
            /\ gone = IF missed[b] < Patience THEN missed[b] + 1 ELSE missed[b]
        BY <2>2, <3>3 DEF Count
      <4> HIDE DEF down, new, gone, cut
      <4>2. QED BY <1>6, <3>1, <4>1
    <3>4. QED BY <3>2, <3>3
  <2>3. QED BY <1>4, <2>1, <2>2
<1> HIDE DEF new, gone, cut, ok
<1>9. /\ result' \in [Backends -> ResultType]
      /\ missed' \in [Backends -> Nat] /\ aborted' \in [Backends -> Nat]
      /\ result'[b] = new /\ missed'[b] = gone /\ aborted'[b] = cut
      /\ \A q \in Backends \ {b} :
           result'[q] = result[q] /\ missed'[q] = missed[q] /\ aborted'[q] = aborted[q]
  BY <1>1, <1>2, <1>5, <1>7
<1>10. ASSUME NEW q \in Backends
       PROVE  result'[q].down <= missed'[q] + aborted'[q]
  <2>1. CASE q = b
    BY <1>8, <1>9, <2>1
  <2>2. CASE q # b
    BY <1>1, <1>9, <2>2
  <2>3. QED BY <2>1, <2>2
<1>11. CountsInv'
  BY <1>9, <1>10 DEF CountsInv
<1>12. QED BY <1>3, <1>5, <1>9, <1>11

LEMMA CountsStep ==
  ASSUME HealthInv, [HealthNext]_healthVars
  PROVE  CountsInv'
<1>1. /\ result \in [Backends -> ResultType]
      /\ missed \in [Backends -> Nat] /\ aborted \in [Backends -> Nat]
      /\ \A b \in Backends : result[b].down <= missed[b] + aborted[b]
  BY DEF HealthInv, CountsInv
<1>2. CASE UNCHANGED <<result, missed, aborted>>
  BY <1>1, <1>2 DEF CountsInv
<1>3. CASE ReplaceMonitor
  <2>1. /\ result' = [b \in Backends |-> NoResult] /\ missed' = missed
        /\ aborted' = [b \in Backends |-> 0]
    BY <1>3 DEF ReplaceMonitor
  <2>2. NoResult \in ResultType /\ NoResult.down = 0
    BY DEF NoResult, ResultType
  <2>3. /\ result' \in [Backends -> ResultType] /\ aborted' \in [Backends -> Nat]
        /\ \A b \in Backends : result'[b].down = 0 /\ aborted'[b] = 0
    BY <2>1, <2>2
  <2>4. \A b \in Backends : missed'[b] \in Nat
    BY <1>1, <2>1
  <2>5. \A b \in Backends : result'[b].down <= missed'[b] + aborted'[b]
    BY <2>3, <2>4
  <2>6. QED BY <1>1, <2>1, <2>3, <2>5 DEF CountsInv
<1>4. QED BY <1>2, <1>3, PingCounts, ResultSteps

LEMMA WeightsStep ==
  ASSUME HealthInv, [HealthNext]_healthVars
  PROVE  WeightsInv'
<1>1. /\ policy \in Policies /\ DOMAIN weight = Backends
      /\ \A b \in Backends : weight[b] \in Written(b)
  BY DEF HealthInv, WeightsInv
<1>2. CASE UNCHANGED <<policy, weight>>
  BY <1>1, <1>2 DEF WeightsInv
<1>3. ASSUME NEW p \in Policies, Applied(p)
      PROVE  WeightsInv'
  BY <1>3 DEF Applied, WeightsInv, Configured, Written
<1>4. ASSUME NEW r \in RunIds, ApplyAddressState(r)
      PROVE  WeightsInv'
  <2> DEFINE run == rounds[r]
             b == run.at
             w == IF run.verdict = "down" THEN 0 ELSE run.services.weight[b]
  <2>1. run \in RoundType /\ RoundOK(run, r, checking, newest)
    BY DEF HealthInv, RoundsInv
  <2>2. run.services \in Policies /\ b \in Members(run.services) /\ b \in Backends
    BY <1>4, <2>1 DEF RoundType, RoundOK, ApplyAddressState
  <2>3. w \in Written(b)
    BY <2>2 DEF Written
  <2>4. policy' = policy /\ (weight' = weight \/ weight' = [weight EXCEPT ![b] = w])
    BY <1>4 DEF ApplyAddressState
  <2> HIDE DEF w
  <2>5. CASE weight' = weight
    BY <1>1, <2>4, <2>5 DEF WeightsInv
  <2>6. CASE weight' = [weight EXCEPT ![b] = w]
    <3>1. \A q \in Backends : weight'[q] = IF q = b THEN w ELSE weight[q]
      BY <1>1, <2>2, <2>6
    <3>2. DOMAIN weight' = Backends
      BY <1>1, <2>6
    <3>3. \A q \in Backends : weight'[q] \in Written(q)
      BY <1>1, <2>3, <3>1
    <3>4. policy' \in Policies
      BY <1>1, <2>4
    <3>5. QED BY <3>2, <3>3, <3>4 DEF WeightsInv
  <2>7. QED BY <2>4, <2>5, <2>6
<1>5. ASSUME NEW r \in RunIds, RoundSteps(r), ~ApplyAddressState(r)
      PROVE  UNCHANGED <<policy, weight>>
  <2>1. ASSUME NEW b \in Backends, Ping(r, b)
        PROVE  UNCHANGED <<policy, weight>>
    BY <2>1 DEF Ping
  <2>2. QED BY <1>5, <2>1 DEF RoundSteps, ReadServices, LockRound, EndRound, TickRound, StopRun
<1>6. QED BY <1>2, <1>3, <1>4, <1>5 DEF HealthNext, ReplaceMonitor, CheckNow, BackendChanges,
          healthVars

-----------------------------------------------------------------------------
(* Theorems                                                                *)

\* The invariant holds in every state of every behaviour.
THEOREM HealthSafety == HealthSpec => []HealthInv
<1>1. HealthInit => HealthInv
  BY HealthInitInv
<1>2. HealthInv /\ [HealthNext]_healthVars => HealthInv'
  BY RoundsStep, CountsStep, WeightsStep DEF HealthInv
<1>3. QED BY <1>1, <1>2, PTL DEF HealthSpec

\* checkMu keeps rounds apart, whichever monitors and probes there are; every
\* monitor but the newest is cancelled; and no weight is written but zero and
\* what a configuration with that backend says.
THEOREM HealthTypes == HealthSpec => []HealthTypeOK
<1>1. HealthInv => HealthTypeOK
  <2> SUFFICES ASSUME HealthInv PROVE HealthTypeOK
    OBVIOUS
  <2>1. \A b \in Backends : weight[b] \in Written(b) /\ result[b].state \in {"unknown", "up", "down"}
    BY DEF HealthInv, WeightsInv, CountsInv, ResultType
  <2>2. \A r \in RunIds : RoundOK(rounds[r], r, checking, newest)
    BY DEF HealthInv, RoundsInv
  <2>3. policy \in Policies
    BY DEF HealthInv, WeightsInv
  <2>4. QED BY <2>1, <2>2, <2>3 DEF HealthTypeOK, RoundOK, Written
<1>2. QED BY <1>1, HealthSafety, PTL

\* No backend goes out before as many pings as the policy of the round that put it
\* out says have failed: unanswered ones in a row, and those that a replaced monitor
\* gave up since the last Reset or answer.
THEOREM OutOnlyAfterFailures == HealthSpec => OutAfterFailures
<1> DEFINE Promise ==
      \A b \in Backends :
        result[b].state # "down" /\ result'[b].state = "down"
          => missed'[b] + aborted'[b] >= rounds[checking].policy.fail
<1>1. HealthInv /\ [HealthNext]_healthVars => [Promise]_healthVars
  <2> SUFFICES ASSUME HealthInv, [HealthNext]_healthVars, NEW b \in Backends,
                      result[b].state # "down", result'[b].state = "down"
               PROVE  missed'[b] + aborted'[b] >= rounds[checking].policy.fail
    OBVIOUS
  <2>1. CASE UNCHANGED <<result, missed, aborted>>
    BY <2>1
  <2>2. CASE ReplaceMonitor
    BY <2>2 DEF ReplaceMonitor, NoResult
  <2>3. ASSUME NEW r \in RunIds, NEW q \in Backends, Ping(r, q)
        PROVE  missed'[b] + aborted'[b] >= rounds[checking].policy.fail
    <3>1. CountsInv' /\ checking = r
      BY <2>3, PingCounts
    <3>2. q = b
      BY <2>3, PingCounts
    <3>3. result'[b].down >= rounds[r].policy.fail
      BY <2>3, <3>2, PingCounts
    <3>4. /\ result'[b].down <= missed'[b] + aborted'[b]
          /\ missed'[b] \in Nat /\ aborted'[b] \in Nat /\ result'[b].down \in Nat
      BY <3>1 DEF CountsInv, ResultType
    <3>5. rounds[r].policy.fail \in Nat
      BY HealthFacts DEF HealthInv, RoundsInv, RoundType
    <3>6. QED BY <3>1, <3>3, <3>4, <3>5
  <2>4. QED BY <2>1, <2>2, <2>3, ResultSteps
<1>2. QED BY <1>1, HealthSafety, PTL DEF HealthSpec, OutAfterFailures
=============================================================================
