------------------------------- MODULE Traffic -------------------------------
(***************************************************************************)
(* How the panel turns the byte counters of a node into totals             *)
(* (internal/store/store.go): every heartbeat carries the counters the     *)
(* agent could read (CollectDataPlaneStats in internal/agent/haproxy.go),  *)
(* the panel adds the differences to the previous heartbeat's, and resets  *)
(* the totals by hand or once a month.                                     *)
(*                                                                         *)
(* One node.  Bytes in and out are one number, and the services of each of *)
(* the two data planes are one row: they are read together, are missing    *)
(* together and start from zero together, and the panel counts each of     *)
(* them by itself.  Heartbeats are processed in the order they are sent.   *)
(* A month is as long as Calendar says.                                    *)
(***************************************************************************)
EXTENDS Integers, Sequences, FiniteSetsExt

CONSTANTS
  Calendar,    \* Calendar[m]: the number of days of month m
  ResetDays,   \* days of the month an administrator may choose
  MaxBytes,    \* bound: bytes that pass
  MaxReloads,  \* bound: restarts of IPVS or HAProxy
  MaxEdits,    \* bound: changes of the settings and manual resets
  MaxTorn      \* bound: heartbeats with counters missing

ASSUME TrafficConstants ==
  /\ Calendar \in Seq(Nat \ {0}) /\ Calendar # <<>>
  /\ ResetDays \subseteq 1 .. 31

VARIABLES
  counter,   \* counter[r]: what the node has counted for row r
  previous,  \* previous[r]: what service_stats holds; a missing row is zero
  node,      \* [accounting, records, auto, day, total, resetAt] of nodes
  totals,    \* totals[r]: traffic_totals; a missing row is zero
  today,     \* [month, day]
  uses,      \* bytes, reloads, edits and torn reads so far
  pending,   \* history: bytes that passed since the last heartbeat
  carried,   \* history: bytes pending at the last reset, and all since
  doubt,     \* history: what happened that the totals may differ by
  owed       \* history: the chosen day came this month and nothing reset since

trafficVars == <<counter, previous, node, totals, today, uses, pending, carried,
                 doubt, owed>>

Rows == {"ipvs", "haproxy"}
Never == [month |-> 0, day |-> 0]
Before(x, y) == x.month < y.month \/ (x.month = y.month /\ x.day < y.day)
Total(f) == f["ipvs"] + f["haproxy"]
Zero == [r \in Rows |-> 0]
Spend(kind, limit) == uses[kind] < limit /\ uses' = [uses EXCEPT ![kind] = @ + 1]

-----------------------------------------------------------------------------
(* The node                                                                *)

Passes(r) ==
  /\ Spend("bytes", MaxBytes)
  /\ counter' = [counter EXCEPT ![r] = @ + 1]
  /\ pending' = pending + 1
  /\ carried' = carried + 1
  /\ UNCHANGED <<previous, node, totals, today, doubt, owed>>

\* A reload of HAProxy, or services added again, start from zero.
Reloaded(r) ==
  /\ Spend("reloads", MaxReloads)
  /\ counter' = [counter EXCEPT ![r] = 0]
  /\ doubt' = doubt \cup {"reload"}
  /\ UNCHANGED <<previous, node, totals, today, pending, carried, owed>>

-----------------------------------------------------------------------------
(* Resets                                                                  *)

\* The day the administrator means: the last one of a month without it.
Chosen(day, month) == Min({day, Calendar[month]})

\* A month without the chosen day is skipped.
BadDueDay(day, month) == day
DueDay(day, month) == IF day < Calendar[month] THEN day ELSE Calendar[month]

TrafficResetDue ==
  LET due == [month |-> today.month, day |-> DueDay(node.day, today.month)]
  IN node.auto /\ ~Before(today, due) /\ Before(node.resetAt, due)

ResetNode(n) == [n EXCEPT !.total = 0, !.resetAt = today]

ResetTraffic ==
  /\ Spend("edits", MaxEdits)
  /\ node' = ResetNode(node) /\ totals' = Zero
  /\ carried' = pending /\ owed' = FALSE
  /\ UNCHANGED <<counter, previous, today, pending, doubt>>

\* ListNodes applies what is due.
ApplyDueTrafficResets ==
  /\ TrafficResetDue
  /\ node' = ResetNode(node) /\ totals' = Zero
  /\ carried' = pending /\ owed' = FALSE
  /\ UNCHANGED <<counter, previous, today, uses, pending, doubt>>

UpdateTrafficSettings(accounting, records, auto, day) ==
  /\ Spend("edits", MaxEdits)
  /\ node' = [node EXCEPT !.accounting = accounting, !.records = records,
                          !.auto = auto, !.day = day]
  /\ doubt' = doubt \cup {"settings"}
  /\ owed' = FALSE
  /\ UNCHANGED <<counter, previous, totals, today, pending, carried>>

-----------------------------------------------------------------------------
(* A heartbeat: counters of the rows that could be read                    *)

\* Every heartbeat counts in full; a counter set back counts as negative.
BadCounterDelta(current, old) == current
BadBackwardsDelta(current, old) == current - old
CounterDelta(current, old) == IF current >= old THEN current - old ELSE current

Deltas(rows) ==
  [r \in Rows |-> IF r \in rows THEN CounterDelta(counter[r], previous[r]) ELSE 0]

\* A monthly reset forgets the records.
BadTotalsAfter(reset) == totals
TotalsAfter(reset) == IF reset THEN Zero ELSE totals

\* Reading one of the two may fail: its rows are then missing, not the report.
CountHeartbeat(rows) ==
  LET reset == TrafficResetDue
      base == IF reset THEN ResetNode(node) ELSE node
      new == Deltas(rows) IN
  /\ IF rows = Rows THEN UNCHANGED uses ELSE Spend("torn", MaxTorn)
  /\ node' = IF node.accounting THEN [base EXCEPT !.total = @ + Total(new)] ELSE base
  /\ totals' = IF node.records THEN [r \in Rows |-> TotalsAfter(reset)[r] + new[r]]
                                ELSE TotalsAfter(reset)
  \* service_stats is replaced by what the heartbeat brought
  /\ previous' = [r \in Rows |-> IF r \in rows THEN counter[r] ELSE 0]
  /\ pending' = 0
  /\ carried' = IF reset THEN pending ELSE carried
  /\ owed' = (owed /\ ~reset)
  /\ doubt' = doubt \cup (IF rows = Rows THEN {} ELSE {"torn"})
  /\ UNCHANGED <<counter, today>>

NextDay ==
  /\ \/ /\ today.day < Calendar[today.month]
        /\ today' = [today EXCEPT !.day = @ + 1]
     \/ /\ today.day = Calendar[today.month] /\ today.month + 1 \in DOMAIN Calendar
        /\ today' = [month |-> today.month + 1, day |-> 1]
  /\ owed' = IF today'.day = Chosen(node.day, today'.month) THEN node.auto
             ELSE owed /\ today'.month = today.month
  /\ UNCHANGED <<counter, previous, node, totals, uses, pending, carried, doubt>>

TrafficInit ==
  /\ counter = Zero /\ previous = Zero /\ totals = Zero
  /\ \E auto \in BOOLEAN, day \in ResetDays :
       node = [accounting |-> TRUE, records |-> TRUE, auto |-> auto, day |-> day,
               total |-> 0, resetAt |-> Never]
  /\ today = [month |-> 1, day |-> 1]
  /\ uses = [bytes |-> 0, reloads |-> 0, edits |-> 0, torn |-> 0]
  /\ pending = 0 /\ carried = 0 /\ doubt = {}
  /\ owed = (node.auto /\ Chosen(node.day, 1) = 1)

TrafficNext ==
  \/ \E r \in Rows : Passes(r) \/ Reloaded(r)
  \/ ResetTraffic \/ ApplyDueTrafficResets
  \/ \E accounting, records, auto \in BOOLEAN, day \in ResetDays :
       UpdateTrafficSettings(accounting, records, auto, day)
  \/ \E rows \in SUBSET Rows : CountHeartbeat(rows)
  \/ NextDay

TrafficSpec == TrafficInit /\ [][TrafficNext]_trafficVars
-----------------------------------------------------------------------------
(* Properties                                                              *)

\* Counters and totals are counts of what passed, and dates lie in the calendar.
TrafficTypeOK ==
  /\ {counter, previous, totals} \subseteq [Rows -> Nat]
  /\ node \in [accounting: BOOLEAN, records: BOOLEAN, auto: BOOLEAN, day: ResetDays,
               total: Nat, resetAt: [month: Nat, day: Nat]]
  /\ today \in [month: DOMAIN Calendar, day: Nat \ {0}]
  /\ today.day <= Calendar[today.month]
  /\ node.resetAt = today \/ Before(node.resetAt, today)
  /\ pending \in Nat /\ carried \in Nat /\ pending <= carried
  /\ doubt \subseteq {"reload", "settings", "torn"} /\ owed \in BOOLEAN

\* No byte is counted twice, not even around a reload of HAProxy or IPVS that
\* sets counters back, a reset of the totals or a change of the settings; and as
\* long as counters only grow and accounting is on, none is lost.  Nothing is said
\* once a heartbeat came with the rows of one data plane only (torn): the panel then
\* forgets what it knew of the other, and counts all its bytes again.
CountedOnce ==
  "torn" \notin doubt =>
    /\ node.total + pending <= carried
    /\ doubt = {} => node.total + pending = carried

\* The records add up to the total of the node while both are counted, through
\* manual and monthly resets and heartbeats that bring only some of the rows.
RecordsAddUp == "settings" \notin doubt => Total(totals) = node.total

\* "Счётчики обнулятся в выбранный день каждого месяца", and for short months
\* "29–31 означает последний день" (App.tsx:335): whoever reads the node from
\* that day on until the month ends finds a reset due, exactly once.
ResetsWhenOwed == "settings" \notin doubt => (owed <=> TrafficResetDue)
=============================================================================
