---------------------------- MODULE Traffic_proofs ----------------------------
(***************************************************************************)
(* The totals of a node, for every calendar, every choice of reset days    *)
(* and every number of bytes, reloads, edits and torn heartbeats.  The     *)
(* three properties are conjuncts of one inductive invariant: CountInv     *)
(* relates the counters to what has passed since the last heartbeat, which *)
(* CountedOnce says nothing of, and RecordsInv knows that records that are *)
(* kept and a total that is kept have never been switched off.             *)
(***************************************************************************)
EXTENDS Traffic, TLAPS

\* What the next heartbeat adds if it brings every row.
Counted == CounterDelta(counter["ipvs"], previous["ipvs"])
             + CounterDelta(counter["haproxy"], previous["haproxy"])

CountInv ==
  "torn" \notin doubt =>
    /\ Counted <= pending
    /\ node.total + pending <= carried
    /\ doubt = {} =>
         /\ node.accounting
         /\ \A r \in Rows : counter[r] >= previous[r]
         /\ Counted = pending
         /\ node.total + pending = carried

RecordsInv ==
  "settings" \notin doubt =>
    node.accounting /\ node.records /\ Total(totals) = node.total

TrafficInv == TrafficTypeOK /\ CountInv /\ RecordsInv /\ ResetsWhenOwed

Dates == [month: Nat, day: Nat]

NodeType == [accounting: BOOLEAN, records: BOOLEAN, auto: BOOLEAN, day: ResetDays,
             total: Nat, resetAt: Dates]

\* The type invariant, one fact at a time.
LEMMA TypeFacts ==
  TrafficTypeOK <=>
    /\ counter \in [Rows -> Nat] /\ previous \in [Rows -> Nat] /\ totals \in [Rows -> Nat]
    /\ node \in NodeType
    /\ today \in [month: DOMAIN Calendar, day: Nat \ {0}]
    /\ today.day <= Calendar[today.month]
    /\ (node.resetAt = today \/ Before(node.resetAt, today))
    /\ pending \in Nat /\ carried \in Nat /\ pending <= carried
    /\ doubt \subseteq {"reload", "settings", "torn"} /\ owed \in BOOLEAN
BY DEF TrafficTypeOK, NodeType, Dates

-----------------------------------------------------------------------------
(* Dates                                                                   *)

\* The months are numbered from one, and each has at least one day.
LEMMA CalendarFacts ==
  /\ 1 \in DOMAIN Calendar
  /\ \A m \in DOMAIN Calendar : m \in Nat /\ m >= 1 /\ Calendar[m] \in Nat \ {0}
  /\ \A d \in ResetDays : d \in Nat /\ d >= 1
BY TrafficConstants DEF TrafficConstants

\* The day the panel computes is the day the administrator means, and is a day
\* of that month.
LEMMA DueIsChosen ==
  ASSUME NEW d \in ResetDays, NEW m \in DOMAIN Calendar
  PROVE  DueDay(d, m) = Chosen(d, m) /\ DueDay(d, m) \in 1 .. Calendar[m]
<1>1. d \in Nat /\ d >= 1 /\ Calendar[m] \in Nat /\ Calendar[m] >= 1
  BY CalendarFacts
<1> DEFINE c == Calendar[m]
<1>2. Min({d, c}) = IF d < c THEN d ELSE c
  <2>1. \E x \in {d, c} : \A y \in {d, c} : x <= y
    BY <1>1
  <2>2. Min({d, c}) \in {d, c} /\ \A y \in {d, c} : Min({d, c}) <= y
    BY <2>1 DEF Min
  <2>3. QED BY <1>1, <2>2
<1>3. QED BY <1>1, <1>2 DEF DueDay, Chosen

\* Before is a strict order on dates.
LEMMA BeforeOrder ==
  ASSUME NEW x \in Dates, NEW y \in Dates, NEW z \in Dates
  PROVE  /\ ~Before(x, x)
         /\ Before(x, y) /\ Before(y, z) => Before(x, z)
         /\ Before(x, y) => ~Before(y, x)
         /\ ~Before(x, y) => x = y \/ Before(y, x)
BY DEF Before, Dates

-----------------------------------------------------------------------------
(* Counting                                                                *)

\* What one heartbeat adds for a row: never more than was counted since the
\* previous one, and nothing twice.
LEMMA DeltaFacts ==
  ASSUME NEW x \in Nat, NEW y \in Nat
  PROVE  /\ CounterDelta(x, y) \in Nat
         /\ CounterDelta(x + 1, y) <= CounterDelta(x, y) + 1
         /\ x >= y => CounterDelta(x + 1, y) = CounterDelta(x, y) + 1
         /\ CounterDelta(0, y) <= CounterDelta(x, y)
         /\ CounterDelta(x, x) = 0
BY DEF CounterDelta

\* A report with every row adds what is counted, and any report a number.
LEMMA DeltasFacts ==
  ASSUME TrafficTypeOK, NEW rows \in SUBSET Rows
  PROVE  /\ Deltas(rows) \in [Rows -> Nat]
         /\ Total(Deltas(rows)) \in Nat
         /\ Counted \in Nat
         /\ Total(Deltas(Rows)) = Counted
<1>1. \A r \in Rows : counter[r] \in Nat /\ previous[r] \in Nat
  BY DEF TrafficTypeOK
<1>2. \A r \in Rows : CounterDelta(counter[r], previous[r]) \in Nat
  BY <1>1, DeltaFacts
<1>3. QED BY <1>2 DEF Deltas, Rows, Total, Counted

-----------------------------------------------------------------------------
(* The invariant                                                           *)

LEMMA TrafficInitInv == TrafficInit => TrafficInv
<1> SUFFICES ASSUME TrafficInit PROVE TrafficInv
  OBVIOUS
<1> USE DEF TrafficInit
<1>1. Never \in Dates /\ today \in Dates /\ Before(Never, today)
  BY DEF Dates, Never, Before
<1>2. node \in NodeType /\ node.day \in ResetDays /\ node.resetAt = Never /\ node.total = 0
  BY <1>1 DEF NodeType
<1>3. Zero \in [Rows -> Nat] /\ Total(Zero) = 0
  BY DEF Zero, Rows, Total
<1>4. TrafficTypeOK
  <2>1. today \in [month: DOMAIN Calendar, day: Nat \ {0}] /\ today.day <= Calendar[today.month]
    BY CalendarFacts
  <2>2. owed \in BOOLEAN
    BY <1>2 DEF NodeType
  <2>3. node.resetAt = today \/ Before(node.resetAt, today)
    BY <1>1, <1>2
  <2>4. counter = Zero /\ previous = Zero /\ totals = Zero /\ pending = 0 /\ carried = 0 /\ doubt = {}
    OBVIOUS
  <2>5. /\ counter \in [Rows -> Nat] /\ previous \in [Rows -> Nat] /\ totals \in [Rows -> Nat]
        /\ pending \in Nat /\ carried \in Nat /\ pending <= carried
        /\ doubt \subseteq {"reload", "settings", "torn"}
    BY <1>3, <2>4
  <2> HIDE DEF TrafficInit
  <2>6. QED BY <1>2, <2>1, <2>2, <2>3, <2>5, TypeFacts
<1>5. CountInv
  <2>1. Counted = CounterDelta(0, 0) + CounterDelta(0, 0)
    BY DEF Counted, Zero, Rows
  <2>2. CounterDelta(0, 0) = 0
    BY DeltaFacts
  <2>3. node.accounting
    OBVIOUS
  <2>4. \A r \in Rows : counter[r] >= previous[r]
    BY <1>3
  <2>5. QED BY <1>2, <2>1, <2>2, <2>3, <2>4 DEF CountInv
<1>6. RecordsInv
  BY <1>2, <1>3 DEF RecordsInv
<1>7. ResetsWhenOwed
  <2>1. 1 \in DOMAIN Calendar
    BY CalendarFacts
  <2>2. DueDay(node.day, 1) = Chosen(node.day, 1) /\ DueDay(node.day, 1) \in 1 .. Calendar[1]
    BY <1>2, <2>1, DueIsChosen
  <2>3. DueDay(node.day, 1) \in Nat /\ DueDay(node.day, 1) >= 1
    BY <2>2, CalendarFacts
  <2>4. TrafficResetDue <=> (node.auto /\ DueDay(node.day, 1) = 1)
    BY <1>2, <2>3 DEF TrafficResetDue, Before, Never
  <2>5. QED BY <2>2, <2>4 DEF ResetsWhenOwed
<1>8. QED BY <1>4, <1>5, <1>6, <1>7 DEF TrafficInv

\* What a reset leaves behind: nothing counted, and no reset due.
LEMMA ResetFacts ==
  ASSUME TrafficTypeOK
  PROVE  /\ ResetNode(node) \in NodeType
         /\ ResetNode(node).total = 0
         /\ ResetNode(node).resetAt = today
         /\ ResetNode(node).accounting = node.accounting
         /\ ResetNode(node).records = node.records
         /\ ResetNode(node).auto = node.auto
         /\ ResetNode(node).day = node.day
         /\ Zero \in [Rows -> Nat] /\ Total(Zero) = 0
         /\ today \in Dates
<1>1. DOMAIN Calendar \subseteq Nat
  BY CalendarFacts
<1>2. today \in Dates
  BY <1>1, TypeFacts DEF Dates
<1>3. node \in NodeType
  BY TypeFacts
<1>4. Zero \in [Rows -> Nat] /\ Total(Zero) = 0
  BY DEF Zero, Rows, Total
<1>5. QED BY <1>2, <1>3, <1>4 DEF ResetNode, NodeType

\* What a heartbeat leaves behind: the settings as they were, the total and the
\* records from zero when a reset was due, and more by what the rows brought.
LEMMA HeartbeatFacts ==
  ASSUME TrafficTypeOK, NEW rows \in SUBSET Rows, CountHeartbeat(rows)
  PROVE  /\ node' \in NodeType /\ totals' \in [Rows -> Nat]
         /\ node'.accounting = node.accounting /\ node'.records = node.records
         /\ node'.auto = node.auto /\ node'.day = node.day
         /\ node'.resetAt = IF TrafficResetDue THEN today ELSE node.resetAt
         /\ node'.total = (IF TrafficResetDue THEN 0 ELSE node.total)
                            + (IF node.accounting THEN Total(Deltas(rows)) ELSE 0)
         /\ Total(totals') = (IF TrafficResetDue THEN 0 ELSE Total(totals))
                               + (IF node.records THEN Total(Deltas(rows)) ELSE 0)
<1> DEFINE reset == TrafficResetDue
           base == IF reset THEN ResetNode(node) ELSE node
           new == Deltas(rows)
           kept == TotalsAfter(reset)
<1>1. new \in [Rows -> Nat] /\ Total(new) \in Nat
  BY DeltasFacts
<1>2. base \in NodeType
  BY ResetFacts, TypeFacts
<1>3. /\ base.accounting = node.accounting /\ base.records = node.records
      /\ base.auto = node.auto /\ base.day = node.day
      /\ base.resetAt = IF reset THEN today ELSE node.resetAt
      /\ base.total = IF reset THEN 0 ELSE node.total
  BY ResetFacts
<1>4. /\ kept \in [Rows -> Nat]
      /\ Total(kept) = IF reset THEN 0 ELSE Total(totals)
  BY ResetFacts, TypeFacts DEF TotalsAfter
<1>5. /\ node' = IF node.accounting THEN [base EXCEPT !.total = @ + Total(new)] ELSE base
      /\ totals' = IF node.records THEN [r \in Rows |-> kept[r] + new[r]] ELSE kept
  BY DEF CountHeartbeat
<1> HIDE DEF reset, base, new, kept
<1>6. /\ node' \in NodeType
      /\ node'.accounting = base.accounting /\ node'.records = base.records
      /\ node'.auto = base.auto /\ node'.day = base.day /\ node'.resetAt = base.resetAt
      /\ node'.total = base.total + (IF node.accounting THEN Total(new) ELSE 0)
  <2>1. CASE node.accounting
    <3> DEFINE sum == base.total + Total(new)
    <3>1. sum \in Nat
      BY <1>1, <1>2 DEF NodeType
    <3>2. node' = [base EXCEPT !.total = sum]
      BY <1>5, <2>1
    <3>3. base.total + (IF node.accounting THEN Total(new) ELSE 0) = sum
      BY <2>1
    <3> HIDE DEF sum
    <3>4. QED BY <1>2, <3>1, <3>2, <3>3 DEF NodeType
  <2>2. CASE ~node.accounting
    <3>1. base.total \in Nat
      BY <1>2 DEF NodeType
    <3>2. QED BY <1>2, <1>5, <2>2, <3>1
  <2>3. QED BY <2>1, <2>2
<1>7. /\ totals' \in [Rows -> Nat]
      /\ Total(totals') = Total(kept) + (IF node.records THEN Total(new) ELSE 0)
  BY <1>1, <1>4, <1>5 DEF Total, Rows
<1>8. QED BY <1>3, <1>4, <1>6, <1>7 DEF reset, new

\* The next-state relation, by what a step does to the settings and the dates.
LEMMA TrafficSteps ==
  ASSUME [TrafficNext]_trafficVars
  PROVE  \/ UNCHANGED trafficVars
         \/ \E r \in Rows : Passes(r)
         \/ \E r \in Rows : Reloaded(r)
         \/ ResetTraffic
         \/ ApplyDueTrafficResets
         \/ \E accounting, records, auto \in BOOLEAN, day \in ResetDays :
              UpdateTrafficSettings(accounting, records, auto, day)
         \/ \E rows \in SUBSET Rows : CountHeartbeat(rows)
         \/ NextDay
BY DEF TrafficNext

LEMMA TypeStep ==
  ASSUME TrafficTypeOK, [TrafficNext]_trafficVars
  PROVE  TrafficTypeOK'
<1> DEFINE Post ==
      /\ counter' \in [Rows -> Nat] /\ previous' \in [Rows -> Nat] /\ totals' \in [Rows -> Nat]
      /\ node' \in NodeType
      /\ today' \in [month: DOMAIN Calendar, day: Nat \ {0}]
      /\ today'.day <= Calendar[today'.month]
      /\ (node'.resetAt = today' \/ Before(node'.resetAt, today'))
      /\ pending' \in Nat /\ carried' \in Nat /\ pending' <= carried'
      /\ doubt' \subseteq {"reload", "settings", "torn"} /\ owed' \in BOOLEAN
<1>1. Post => TrafficTypeOK'
  BY DEF TrafficTypeOK, NodeType, Dates, Before
<1>2. /\ counter \in [Rows -> Nat] /\ previous \in [Rows -> Nat] /\ totals \in [Rows -> Nat]
      /\ node \in NodeType
      /\ today \in [month: DOMAIN Calendar, day: Nat \ {0}]
      /\ today.day <= Calendar[today.month]
      /\ (node.resetAt = today \/ Before(node.resetAt, today))
      /\ pending \in Nat /\ carried \in Nat /\ pending <= carried
      /\ doubt \subseteq {"reload", "settings", "torn"} /\ owed \in BOOLEAN
  BY TypeFacts
<1> SUFFICES Post
  BY <1>1
<1>3. CASE UNCHANGED trafficVars
  BY <1>2, <1>3 DEF trafficVars
<1>4. ASSUME NEW r \in Rows, Passes(r)
      PROVE  Post
  BY <1>2, <1>4 DEF Passes
<1>5. ASSUME NEW r \in Rows, Reloaded(r)
      PROVE  Post
  BY <1>2, <1>5 DEF Reloaded
<1>6. CASE ResetTraffic \/ ApplyDueTrafficResets
  <2>1. node' = ResetNode(node) /\ totals' = Zero /\ carried' = pending /\ owed' = FALSE
        /\ UNCHANGED <<counter, previous, today, pending, doubt>>
    BY <1>6 DEF ResetTraffic, ApplyDueTrafficResets
  <2>2. node' \in NodeType /\ node'.resetAt = today' /\ totals' \in [Rows -> Nat]
    BY <2>1, ResetFacts
  <2>3. owed' \in BOOLEAN
    BY <2>1
  <2>4. pending' \in Nat /\ carried' \in Nat /\ pending' <= carried'
    BY <1>2, <2>1
  <2>5. counter' = counter /\ previous' = previous /\ today' = today /\ doubt' = doubt
    BY <2>1
  <2>6. QED BY <1>2, <2>2, <2>3, <2>4, <2>5
<1>7. ASSUME NEW accounting \in BOOLEAN, NEW records \in BOOLEAN, NEW auto \in BOOLEAN,
             NEW day \in ResetDays, UpdateTrafficSettings(accounting, records, auto, day)
      PROVE  Post
  <2>1. node' \in NodeType /\ node'.resetAt = node.resetAt
    BY <1>2, <1>7 DEF UpdateTrafficSettings, NodeType
  <2>2. QED BY <1>2, <1>7, <2>1 DEF UpdateTrafficSettings
<1>8. ASSUME NEW rows \in SUBSET Rows, CountHeartbeat(rows)
      PROVE  Post
  <2>1. /\ node' \in NodeType /\ totals' \in [Rows -> Nat]
        /\ node'.resetAt = IF TrafficResetDue THEN today ELSE node.resetAt
    BY <1>8, HeartbeatFacts
  <2>2. previous' \in [Rows -> Nat]
    BY <1>2, <1>8 DEF CountHeartbeat
  <2>3. /\ pending' = 0 /\ carried' \in Nat /\ owed' \in BOOLEAN
        /\ doubt' \subseteq {"reload", "settings", "torn"}
        /\ UNCHANGED <<counter, today>>
    BY <1>2, <1>8 DEF CountHeartbeat
  <2>4. QED BY <1>2, <2>1, <2>2, <2>3
<1>9. CASE NextDay
  <2>1. /\ today' \in [month: DOMAIN Calendar, day: Nat \ {0}]
        /\ today'.day <= Calendar[today'.month]
        /\ Before(today, today')
    <3>1. \A m \in DOMAIN Calendar : m \in Nat /\ Calendar[m] \in Nat \ {0}
      BY CalendarFacts
    <3>2. today.month \in DOMAIN Calendar /\ today.day \in Nat \ {0}
      BY <1>2
    <3>3. CASE today.day < Calendar[today.month] /\ today' = [today EXCEPT !.day = @ + 1]
      <4>1. today' = [month |-> today.month, day |-> today.day + 1]
        BY <1>2, <3>3
      <4>2. today'.month = today.month /\ today'.day = today.day + 1
        BY <4>1
      <4>3. Before(today, today')
        BY <3>2, <4>2 DEF Before
      <4>4. today.day + 1 <= Calendar[today.month]
        BY <3>1, <3>2, <3>3
      <4>5. QED BY <3>2, <4>1, <4>2, <4>3, <4>4
    <3>4. CASE /\ today.month + 1 \in DOMAIN Calendar
               /\ today' = [month |-> today.month + 1, day |-> 1]
      BY <3>1, <3>2, <3>4 DEF Before
    <3>5. QED BY <1>9, <3>3, <3>4 DEF NextDay
  <2>2. node'.resetAt = today' \/ Before(node'.resetAt, today')
    <3>1. node.resetAt \in Dates /\ today \in Dates /\ today' \in Dates /\ node' = node
      BY <1>2, <1>9, <2>1, CalendarFacts DEF NodeType, Dates, NextDay
    <3>2. QED BY <1>2, <2>1, <3>1, BeforeOrder
  <2>3. owed' \in BOOLEAN
    BY <1>2, <1>9 DEF NextDay, NodeType
  <2>4. QED BY <1>2, <1>9, <2>1, <2>2, <2>3 DEF NextDay
<1>10. QED BY <1>3, <1>4, <1>5, <1>6, <1>7, <1>8, <1>9, TrafficSteps

LEMMA CountStep ==
  ASSUME TrafficTypeOK, CountInv, [TrafficNext]_trafficVars
  PROVE  CountInv'
<1> SUFFICES ASSUME "torn" \notin doubt'
             PROVE  /\ Counted' <= pending'
                    /\ node'.total + pending' <= carried'
                    /\ doubt' = {} =>
                         /\ node'.accounting
                         /\ \A r \in Rows : counter'[r] >= previous'[r]
                         /\ Counted' = pending'
                         /\ node'.total + pending' = carried'
  BY DEF CountInv
<1> DEFINE Post == /\ Counted' <= pending'
                   /\ node'.total + pending' <= carried'
                   /\ doubt' = {} =>
                        /\ node'.accounting
                        /\ \A r \in Rows : counter'[r] >= previous'[r]
                        /\ Counted' = pending'
                        /\ node'.total + pending' = carried'
<1>1. /\ counter \in [Rows -> Nat] /\ previous \in [Rows -> Nat]
      /\ node.total \in Nat /\ pending \in Nat /\ carried \in Nat /\ Counted \in Nat
  BY TypeFacts, DeltasFacts DEF NodeType
<1>2. Counted' = CounterDelta(counter'["ipvs"], previous'["ipvs"])
                   + CounterDelta(counter'["haproxy"], previous'["haproxy"])
  BY DEF Counted
<1>3. doubt \subseteq doubt'
  BY TrafficSteps DEF Passes, Reloaded, ResetTraffic, ApplyDueTrafficResets,
     UpdateTrafficSettings, CountHeartbeat, NextDay, trafficVars
<1>4. /\ Counted <= pending
      /\ node.total + pending <= carried
      /\ doubt = {} =>
           /\ node.accounting
           /\ \A r \in Rows : counter[r] >= previous[r]
           /\ Counted = pending
           /\ node.total + pending = carried
  BY <1>3 DEF CountInv
<1>5. \A r \in Rows : /\ counter[r] \in Nat /\ previous[r] \in Nat
                      /\ CounterDelta(counter[r], previous[r]) \in Nat
                      /\ CounterDelta(counter[r] + 1, previous[r]) \in Nat
                      /\ CounterDelta(0, previous[r]) \in Nat
                      /\ CounterDelta(counter[r] + 1, previous[r])
                           <= CounterDelta(counter[r], previous[r]) + 1
                      /\ counter[r] >= previous[r] =>
                           CounterDelta(counter[r] + 1, previous[r])
                             = CounterDelta(counter[r], previous[r]) + 1
                      /\ CounterDelta(0, previous[r])
                           <= CounterDelta(counter[r], previous[r])
                      /\ CounterDelta(counter[r], counter[r]) = 0
  <2> TAKE r \in Rows
  <2>1. counter[r] \in Nat /\ previous[r] \in Nat /\ counter[r] + 1 \in Nat /\ 0 \in Nat
    BY <1>1
  <2>2. /\ CounterDelta(counter[r], previous[r]) \in Nat
        /\ CounterDelta(counter[r] + 1, previous[r]) \in Nat
        /\ CounterDelta(0, previous[r]) \in Nat
    BY <2>1, DeltaFacts
  <2>3. QED BY <2>1, <2>2, DeltaFacts
<1>6. CASE UNCHANGED <<counter, previous, node, pending, carried, doubt>>
  BY <1>4, <1>6, <1>2 DEF Counted
<1>7. ASSUME NEW r \in Rows, Passes(r)
      PROVE  Post
  <2>1. /\ counter' = [counter EXCEPT ![r] = @ + 1] /\ pending' = pending + 1
        /\ carried' = carried + 1 /\ UNCHANGED <<previous, node, doubt>>
    BY <1>7 DEF Passes
  <2>2. /\ Counted' <= Counted + 1
        /\ (\A q \in Rows : counter[q] >= previous[q]) => Counted' = Counted + 1
    <3>1. CASE r = "ipvs"
      <4>1. counter'["ipvs"] = counter["ipvs"] + 1 /\ counter'["haproxy"] = counter["haproxy"]
        BY <1>1, <2>1, <3>1 DEF Rows
      <4>2. QED BY <1>2, <1>5, <2>1, <4>1 DEF Rows, Counted
    <3>2. CASE r = "haproxy"
      <4>1. counter'["haproxy"] = counter["haproxy"] + 1 /\ counter'["ipvs"] = counter["ipvs"]
        BY <1>1, <2>1, <3>2 DEF Rows
      <4>2. QED BY <1>2, <1>5, <2>1, <4>1 DEF Rows, Counted
    <3>3. QED BY <3>1, <3>2 DEF Rows
  <2>3. (\A q \in Rows : counter[q] >= previous[q])
          => \A q \in Rows : counter'[q] >= previous'[q]
    BY <1>1, <1>5, <2>1
  <2>4. Counted' \in Int
    BY <1>1, <1>2, <1>5, <2>1 DEF CounterDelta, Rows
  <2>5. QED BY <1>1, <1>4, <2>1, <2>2, <2>3, <2>4
<1>8. ASSUME NEW r \in Rows, Reloaded(r)
      PROVE  Post
  <2>1. /\ counter' = [counter EXCEPT ![r] = 0] /\ doubt' # {}
        /\ UNCHANGED <<previous, node, pending, carried>>
    BY <1>8 DEF Reloaded
  <2>2. Counted' \in Nat /\ Counted' <= Counted
    <3>1. CASE r = "ipvs"
      <4>1. counter'["ipvs"] = 0 /\ counter'["haproxy"] = counter["haproxy"]
        BY <1>1, <2>1, <3>1 DEF Rows
      <4>2. QED BY <1>2, <1>5, <2>1, <4>1 DEF Rows, Counted
    <3>2. CASE r = "haproxy"
      <4>1. counter'["haproxy"] = 0 /\ counter'["ipvs"] = counter["ipvs"]
        BY <1>1, <2>1, <3>2 DEF Rows
      <4>2. QED BY <1>2, <1>5, <2>1, <4>1 DEF Rows, Counted
    <3>3. QED BY <3>1, <3>2 DEF Rows
  <2>3. QED BY <1>1, <1>4, <2>1, <2>2
<1>9. CASE ResetTraffic \/ ApplyDueTrafficResets
  <2>1. node' = ResetNode(node) /\ carried' = pending
        /\ UNCHANGED <<counter, previous, pending, doubt>>
    BY <1>9 DEF ResetTraffic, ApplyDueTrafficResets
  <2>2. node'.total = 0 /\ node'.accounting = node.accounting
    BY <2>1, ResetFacts
  <2>3. Counted' = Counted
    BY <1>2, <2>1 DEF Counted
  <2>4. QED BY <1>1, <1>4, <2>1, <2>2, <2>3
<1>10. ASSUME NEW accounting \in BOOLEAN, NEW records \in BOOLEAN, NEW auto \in BOOLEAN,
              NEW day \in ResetDays, UpdateTrafficSettings(accounting, records, auto, day)
       PROVE  Post
  <2>1. doubt' # {} /\ node'.total = node.total
        /\ UNCHANGED <<counter, previous, pending, carried>>
    BY <1>10, TypeFacts DEF UpdateTrafficSettings, NodeType
  <2>2. Counted' = Counted
    BY <1>2, <2>1 DEF Counted
  <2>3. QED BY <1>1, <1>4, <2>1, <2>2
<1>11. ASSUME NEW rows \in SUBSET Rows, CountHeartbeat(rows)
       PROVE  Post
  <2>1. rows = Rows
    BY <1>11 DEF CountHeartbeat
  <2>2. /\ node'.accounting = node.accounting
        /\ node'.total = (IF TrafficResetDue THEN 0 ELSE node.total)
                           + (IF node.accounting THEN Counted ELSE 0)
    BY <1>11, <2>1, HeartbeatFacts, DeltasFacts
  <2>3. /\ counter' = counter /\ previous' = counter /\ pending' = 0
        /\ carried' = (IF TrafficResetDue THEN pending ELSE carried) /\ doubt' = doubt
    BY <1>1, <1>11, <2>1 DEF CountHeartbeat
  <2>4. Counted' = 0
    BY <1>2, <1>5, <2>3 DEF Rows
  <2>5. \A r \in Rows : counter'[r] >= previous'[r]
    BY <1>5, <2>3
  <2>6. CASE TrafficResetDue
    BY <1>1, <1>4, <2>2, <2>3, <2>4, <2>5, <2>6
  <2>7. CASE ~TrafficResetDue
    BY <1>1, <1>4, <2>2, <2>3, <2>4, <2>5, <2>7
  <2>8. QED BY <2>6, <2>7
<1>12. CASE NextDay \/ UNCHANGED trafficVars
  BY <1>6, <1>12 DEF NextDay, trafficVars
<1>13. QED BY <1>7, <1>8, <1>9, <1>10, <1>11, <1>12, TrafficSteps

LEMMA RecordsStep ==
  ASSUME TrafficTypeOK, RecordsInv, [TrafficNext]_trafficVars
  PROVE  RecordsInv'
<1> SUFFICES ASSUME "settings" \notin doubt'
             PROVE  node'.accounting /\ node'.records /\ Total(totals') = node'.total
  BY DEF RecordsInv, Total
<1>1. "settings" \notin doubt
  BY TrafficSteps DEF Passes, Reloaded, ResetTraffic, ApplyDueTrafficResets,
     UpdateTrafficSettings, CountHeartbeat, NextDay, trafficVars
<1>2. node.accounting /\ node.records /\ Total(totals) = node.total
  BY <1>1 DEF RecordsInv
<1>3. CASE UNCHANGED <<node, totals>>
  BY <1>2, <1>3
<1>4. CASE ResetTraffic \/ ApplyDueTrafficResets
  BY <1>2, <1>4, ResetFacts DEF ResetTraffic, ApplyDueTrafficResets
<1>5. ASSUME NEW rows \in SUBSET Rows, CountHeartbeat(rows)
      PROVE  node'.accounting /\ node'.records /\ Total(totals') = node'.total
  BY <1>2, <1>5, HeartbeatFacts
<1>6. ASSUME NEW accounting \in BOOLEAN, NEW records \in BOOLEAN, NEW auto \in BOOLEAN,
             NEW day \in ResetDays, UpdateTrafficSettings(accounting, records, auto, day)
      PROVE  FALSE
  BY <1>6 DEF UpdateTrafficSettings
<1>7. QED BY <1>3, <1>4, <1>5, <1>6, TrafficSteps DEF Passes, Reloaded, NextDay, trafficVars

\* A reset settles the month: none is due until the next one's day comes.
LEMMA NothingDueAfterReset ==
  ASSUME today' \in Dates, node'.resetAt = today'
  PROVE  ~TrafficResetDue'
BY DEF TrafficResetDue, Before, Dates

LEMMA OwedStep ==
  ASSUME TrafficTypeOK, TrafficTypeOK', ResetsWhenOwed, [TrafficNext]_trafficVars
  PROVE  ResetsWhenOwed'
<1> SUFFICES ASSUME "settings" \notin doubt'
             PROVE  owed' <=> TrafficResetDue'
  BY DEF ResetsWhenOwed
<1>1. "settings" \notin doubt
  BY TrafficSteps DEF Passes, Reloaded, ResetTraffic, ApplyDueTrafficResets,
     UpdateTrafficSettings, CountHeartbeat, NextDay, trafficVars
<1>2. owed <=> TrafficResetDue
  BY <1>1 DEF ResetsWhenOwed
<1>3. today \in Dates
  BY ResetFacts
<1>4. CASE UNCHANGED <<node, today, owed>>
  BY <1>2, <1>4 DEF TrafficResetDue
<1>5. CASE ResetTraffic \/ ApplyDueTrafficResets
  <2>1. node' = ResetNode(node) /\ today' = today /\ owed' = FALSE
    BY <1>5 DEF ResetTraffic, ApplyDueTrafficResets
  <2>2. QED BY <1>3, <2>1, ResetFacts, NothingDueAfterReset
<1>6. ASSUME NEW rows \in SUBSET Rows, CountHeartbeat(rows)
      PROVE  owed' <=> TrafficResetDue'
  <2>1. today' = today /\ owed' = (owed /\ ~TrafficResetDue)
    BY <1>6 DEF CountHeartbeat
  <2>2. /\ node'.auto = node.auto /\ node'.day = node.day
        /\ node'.resetAt = IF TrafficResetDue THEN today ELSE node.resetAt
    BY <1>6, HeartbeatFacts
  <2>3. CASE TrafficResetDue
    BY <1>3, <2>1, <2>2, <2>3, NothingDueAfterReset
  <2>4. CASE ~TrafficResetDue
    <3>1. TrafficResetDue' <=> TrafficResetDue
      BY <2>1, <2>2, <2>4 DEF TrafficResetDue
    <3>2. QED BY <1>2, <2>1, <2>4, <3>1
  <2>5. QED BY <2>3, <2>4
<1>7. ASSUME NEW accounting \in BOOLEAN, NEW records \in BOOLEAN, NEW auto \in BOOLEAN,
             NEW day \in ResetDays, UpdateTrafficSettings(accounting, records, auto, day)
      PROVE  FALSE
  BY <1>7 DEF UpdateTrafficSettings
<1>8. ASSUME NextDay
      PROVE  owed' <=> TrafficResetDue'
  <2> DEFINE n == node
             m == today.month
             d == today.day
             k == today'.month
             e == today'.day
             due == DueDay(n.day, k)
  <2>1. /\ n \in NodeType /\ n.resetAt \in Dates /\ n.day \in ResetDays /\ n.auto \in BOOLEAN
        /\ m \in DOMAIN Calendar /\ k \in DOMAIN Calendar /\ m \in Nat /\ k \in Nat
        /\ d \in Nat \ {0} /\ e \in Nat \ {0}
    BY TypeFacts, CalendarFacts DEF TrafficTypeOK, NodeType
  <2>2. /\ due = Chosen(n.day, k) /\ due \in Nat \ {0}
    <3>1. due = Chosen(n.day, k) /\ due \in 1 .. Calendar[k]
      BY <2>1, DueIsChosen
    <3>2. QED BY <3>1
  <2>3. /\ node' = n
        /\ owed' = IF e = due THEN n.auto ELSE owed /\ k = m
    BY <1>8, <2>2 DEF NextDay
  <2>4. \/ k = m /\ e = d + 1
        \/ k = m + 1 /\ e = 1
    BY <1>8, TypeFacts DEF NextDay
  <2>5. /\ n.resetAt.month \in Nat /\ n.resetAt.day \in Nat
        /\ (n.resetAt.month < m \/ (n.resetAt.month = m /\ n.resetAt.day <= d))
    <3>1. n.resetAt = today \/ Before(n.resetAt, today)
      BY TypeFacts
    <3>2. n.resetAt.month \in Nat /\ n.resetAt.day \in Nat
      BY <2>1 DEF Dates
    <3>3. QED BY <2>1, <3>1, <3>2 DEF Before
  <2>6. TrafficResetDue' <=>
          /\ n.auto
          /\ ~(e < due)
          /\ (n.resetAt.month < k \/ (n.resetAt.month = k /\ n.resetAt.day < due))
    BY <2>1, <2>2, <2>3 DEF TrafficResetDue, Before
  <2>7. k = m => (TrafficResetDue <=>
          /\ n.auto
          /\ ~(d < due)
          /\ (n.resetAt.month < m \/ (n.resetAt.month = m /\ n.resetAt.day < due)))
    BY <2>1, <2>2 DEF TrafficResetDue, Before
  <2> DEFINE early == n.resetAt.month < m \/ (n.resetAt.month = m /\ n.resetAt.day < due)
             late == n.resetAt.month < k \/ (n.resetAt.month = k /\ n.resetAt.day < due)
  <2>8. /\ k = m => (early <=> late)
        /\ k = m /\ d < due => late
        /\ k = m + 1 => late
    BY <2>1, <2>2, <2>5
  <2> HIDE DEF n, m, d, k, e, due, early, late
  <2>9. CASE k = m /\ e = d + 1
    <3>1. CASE e < due
      <4>1. d < due /\ e # due
        BY <2>1, <2>2, <2>9, <3>1
      <4>2. ~TrafficResetDue /\ ~TrafficResetDue' /\ owed' = (owed /\ k = m)
        BY <2>3, <2>6, <2>7, <2>9, <3>1, <4>1
      <4>3. QED BY <1>2, <4>2
    <3>2. CASE e = due
      <4>1. ~(e < due) /\ late
        BY <2>1, <2>2, <2>8, <2>9, <3>2
      <4>2. QED BY <2>3, <2>6, <3>2, <4>1 DEF late
    <3>3. CASE e > due
      <4>1. ~(e < due) /\ ~(d < due) /\ e # due
        BY <2>1, <2>2, <2>9, <3>3
      <4>2. TrafficResetDue' <=> TrafficResetDue
        BY <2>6, <2>7, <2>8, <2>9, <4>1 DEF early, late
      <4>3. owed' = (owed /\ k = m)
        BY <2>3, <4>1
      <4>4. QED BY <1>2, <2>9, <4>2, <4>3
    <3>4. QED BY <2>1, <2>2, <3>1, <3>2, <3>3
  <2>10. CASE k = m + 1 /\ e = 1
    <3>1. CASE e = due
      <4>1. ~(e < due) /\ late
        BY <2>1, <2>2, <2>8, <2>10, <3>1
      <4>2. QED BY <2>3, <2>6, <3>1, <4>1 DEF late
    <3>2. CASE e # due
      <4>1. e < due /\ k # m
        BY <2>1, <2>2, <2>10, <3>2
      <4>2. QED BY <2>3, <2>6, <3>2, <4>1
    <3>3. QED BY <3>1, <3>2
  <2>11. QED BY <2>4, <2>9, <2>10
<1>9. QED BY <1>4, <1>5, <1>6, <1>7, <1>8, TrafficSteps DEF Passes, Reloaded, trafficVars

-----------------------------------------------------------------------------
(* Theorems                                                                *)

\* The invariant holds in every state of every behaviour.
THEOREM TrafficSafety == TrafficSpec => []TrafficInv
<1>1. TrafficInit => TrafficInv
  BY TrafficInitInv
<1>2. TrafficInv /\ [TrafficNext]_trafficVars => TrafficInv'
  BY TypeStep, CountStep, RecordsStep, OwedStep DEF TrafficInv
<1>3. QED BY <1>1, <1>2, PTL DEF TrafficSpec

\* Whatever node, panel and clock do, counters and totals are counts, and the
\* dates the panel compares are dates of the calendar.
THEOREM TrafficTypes == TrafficSpec => []TrafficTypeOK
<1>1. TrafficInv => TrafficTypeOK
  BY DEF TrafficInv
<1>2. QED BY <1>1, TrafficSafety, PTL

\* No byte is counted twice, and none is lost while counters only grow and
\* accounting is on: accumulateTrafficTx with counterDelta.
THEOREM NoByteTwice == TrafficSpec => []CountedOnce
<1>1. TrafficInv => CountedOnce
  <2> SUFFICES ASSUME TrafficInv, "torn" \notin doubt
               PROVE  /\ node.total + pending <= carried
                      /\ doubt = {} => node.total + pending = carried
    BY DEF CountedOnce
  <2> QED BY DEF TrafficInv, CountInv
<1>2. QED BY <1>1, TrafficSafety, PTL

\* The records of a node and its total are two sums of the same bytes, through
\* every reset and every heartbeat that brings only one plane's counters.
THEOREM RecordsMatchTotal == TrafficSpec => []RecordsAddUp
<1>1. TrafficInv => RecordsAddUp
  BY DEF TrafficInv, RecordsInv, RecordsAddUp
<1>2. QED BY <1>1, TrafficSafety, PTL

\* In every month of every calendar, a reset is due from the chosen day, or the
\* last day of a month that is too short, until something resets the totals.
THEOREM MonthlyReset == TrafficSpec => []ResetsWhenOwed
<1>1. TrafficInv => ResetsWhenOwed
  BY DEF TrafficInv
<1>2. QED BY <1>1, TrafficSafety, PTL
=============================================================================
