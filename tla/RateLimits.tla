------------------------------ MODULE RateLimits ------------------------------
(***************************************************************************)
(* Rate limits of listeners (internal/agent/traffic_control.go): packets   *)
(* of a listener get a mark, a policer on the device they leave through    *)
(* drops what exceeds the rate of that mark.  Marks are made from slots,   *)
(* slots from a hash of the listener, so listeners that collide move each  *)
(* other.  Reconciler runs reconcileTrafficControl as one of its phases    *)
(* and knows a limiter by its listener; here are the slots, the policers   *)
(* and the marks, and every command may fail.                              *)
(*                                                                         *)
(* Left out: the clsact qdisc, bursts, the jump to the chain of marks.     *)
(***************************************************************************)
EXTENDS Integers, FiniteSets, FiniteSetsExt

CONSTANTS
  ListenerIds,  \* ids of listeners, integers in their sorted order
  Hash,         \* Hash[l]: the slot the hash of l asks for
  RateSlots,    \* maxRateSlots
  Profiled,     \* what a profile may limit: functions from listeners to rates
  Devices,      \* network devices
  MaxApplies,   \* bound: calls
  MaxRefusals,  \* bound: commands that fail
  MaxMoves      \* bound: route changes and crashes

ASSUME LimitsConstants ==
  /\ ListenerIds \subseteq Nat /\ IsFiniteSet(ListenerIds)
  /\ RateSlots \in Nat \ {0}
  /\ Hash \in [ListenerIds -> 1 .. RateSlots]
  /\ \A f \in Profiled : DOMAIN f \subseteq ListenerIds /\ Cardinality(DOMAIN f) <= RateSlots

VARIABLES
  policers,  \* policers[d, slot, direction]: the rate of a tc filter
  chain,     \* chain[l]: the slot whose marks the packets of l get
  route,     \* route[l]: the device towards the backends of l
  state,     \* [limits, controls] of state.json
  job,       \* the call in progress
  events,    \* calls, refusals and moves so far
  settled    \* history: the limits of the state file are in place, are being
             \* left by a call that began so, or neither

limitVars == <<policers, chain, route, state, job, events, settled>>

None == <<>>
ClientDevice == CHOOSE d \in Devices : TRUE
Without(f, keys) == [k \in (DOMAIN f) \ keys |-> f[k]]
Counts(kind, limit) == events[kind] < limit /\ events' = [events EXCEPT ![kind] = @ + 1]

-----------------------------------------------------------------------------
(* allocateRateSlots and buildTrafficControls                              *)

\* The slot i places after the one the hash asks for.
Probe(l, i) == ((Hash[l] + i - 1) % RateSlots) + 1

\* Listeners of the same hash share the slot.
BadFreeSlot(l, used) == Hash[l]
FreeSlot(l, used) ==
  Probe(l, CHOOSE i \in 0 .. RateSlots - 1 :
             Probe(l, i) \notin used /\ \A j \in 0 .. i - 1 : Probe(l, j) \in used)

\* Ids are served in their sorted order.
SlotsOf(ids) ==
  LET first(l) == {k \in ids : k < l}
      slot[l \in ids] == FreeSlot(l, {slot[k] : k \in first(l)})
  IN slot

\* A control is known by device, preference and mark.
Controls(limits) ==
  LET slot == SlotsOf(DOMAIN limits)
  IN [key \in UNION {{<<route[l], slot[l], "original">>, <<ClientDevice, slot[l], "reply">>} :
                     l \in DOMAIN limits}
      |-> limits[CHOOSE l \in DOMAIN limits : slot[l] = key[2]]]

-----------------------------------------------------------------------------
(* A call.  stage "install" has the controls that are not installed yet,   *)
(* "delete" those of before that are not deleted yet.  wanted: the limits  *)
(* of the call itself, also while it goes back to others.                  *)

Waiting == [call |-> "none", stage |-> "none", limits |-> None, controls |-> None,
            old |-> {}, left |-> {}, wanted |-> None]

\* old: the keys of the controls known from before.
Job(call, limits, old, wanted) ==
  IF old = {} /\ limits = None
  THEN [Waiting EXCEPT !.call = call, !.stage = "end"]
  ELSE [call |-> call, stage |-> "install", limits |-> limits, wanted |-> wanted,
        controls |-> Controls(limits), old |-> old, left |-> DOMAIN Controls(limits)]

Apply(limits) ==
  /\ job = Waiting
  /\ Counts("applies", MaxApplies)
  /\ job' = Job("reconcile", limits, DOMAIN state.controls, limits)
  /\ settled' = IF settled = "in place" THEN "leaving" ELSE "no"
  /\ UNCHANGED <<policers, chain, route, state>>

\* tc filter replace.
InstallControl(key) ==
  /\ job.stage = "install" /\ key \in job.left
  /\ policers' = [k \in DOMAIN policers \cup {key} |->
                   IF k = key THEN job.controls[key] ELSE policers[k]]
  /\ job' = [job EXCEPT !.left = @ \ {key}]
  /\ UNCHANGED <<chain, route, state, events, settled>>

\* The slot may be somebody else's by now.
BadObsolete(j) == j.old
Obsolete(j) == j.old \ DOMAIN j.controls

\* iptables-restore replaces the chain, or it is removed.
ApplyMarks ==
  /\ job.stage = "install" /\ job.left = {}
  /\ chain' = SlotsOf(DOMAIN job.limits)
  /\ job' = [job EXCEPT !.stage = "delete", !.left = Obsolete(job)]
  /\ UNCHANGED <<policers, route, state, events, settled>>

DeleteControl(key) ==
  /\ job.stage = "delete" /\ key \in job.left
  /\ policers' = Without(policers, {key})
  /\ job' = [job EXCEPT !.left = @ \ {key}]
  /\ UNCHANGED <<chain, route, state, events, settled>>

\* Reconcile and Restore save the state file, a rollback leaves it as it is.
EndCall ==
  /\ job.stage \in {"delete", "end"} /\ job.left = {}
  /\ job' = Waiting
  /\ \/ /\ state' = IF job.call = "rollback" THEN state
                    ELSE [limits |-> job.limits, controls |-> job.controls]
        /\ settled' = IF job.stage = "end" /\ settled = "no" THEN "no" ELSE "in place"
        /\ UNCHANGED events
     \* a failed save is not rolled back
     \/ /\ job.call # "rollback" /\ Counts("refusals", MaxRefusals)
        /\ settled' = "no"
        /\ UNCHANGED state
  /\ UNCHANGED <<policers, chain, route>>

\* Reconcile goes back to the limits of the state file; built are the controls
\* it then knows of.  Restore, and a rollback that fails, give up.
AfterRefusal(built) ==
  IF job.call = "reconcile" THEN Job("rollback", state.limits, built, job.wanted) ELSE Waiting

CommandRefused ==
  /\ job.stage \in {"install", "delete"}
  /\ Counts("refusals", MaxRefusals)
  /\ \/ job' = AfterRefusal(DOMAIN job.controls)
     \* no route to a backend: nothing was built
     \/ job.left = DOMAIN job.controls /\ job' = AfterRefusal({})
  /\ settled' = IF job.call = "reconcile" THEN settled ELSE "no"
  /\ UNCHANGED <<policers, chain, route, state>>

RouteMoves(l, d) ==
  /\ job = Waiting /\ route[l] # d
  /\ Counts("moves", MaxMoves)
  /\ route' = [route EXCEPT ![l] = d]
  /\ settled' = "no"
  /\ UNCHANGED <<policers, chain, state, job>>

\* The next process calls Restore, which applies what the state file says.
AgentDies ==
  /\ Counts("moves", MaxMoves)
  /\ job' = Job("restore", state.limits, DOMAIN state.controls, state.limits)
  /\ settled' = "no"
  /\ UNCHANGED <<policers, chain, route, state>>

LimitsInit ==
  /\ policers = None /\ chain = None
  /\ route \in [ListenerIds -> {ClientDevice}]
  /\ state = [limits |-> None, controls |-> None]
  /\ job = Waiting
  /\ events = [applies |-> 0, refusals |-> 0, moves |-> 0]
  /\ settled = "in place"

LimitsNext ==
  \/ \E limits \in Profiled : Apply(limits)
  \/ \E key \in job.left : InstallControl(key) \/ DeleteControl(key)
  \/ ApplyMarks \/ EndCall \/ CommandRefused
  \/ \E l \in ListenerIds, d \in Devices : RouteMoves(l, d)
  \/ AgentDies

LimitsSpec == LimitsInit /\ [][LimitsNext]_limitVars

-----------------------------------------------------------------------------
(* Properties                                                              *)

\* Packets of l are policed at rate, in both directions, by a limiter that no
\* other listener's packets are counted in.
Limited(l, rate) ==
  /\ l \in DOMAIN chain
  /\ \A k \in DOMAIN chain \ {l} : chain[k] # chain[l]
  /\ \A key \in {<<route[l], chain[l], "original">>, <<ClientDevice, chain[l], "reply">>} :
       key \in DOMAIN policers /\ policers[key] = rate

\* After a call that reports success, or that the previous state is restored,
\* exactly the listeners of the state file are limited, each at its own rate:
\* whatever failed or crashed before, and whoever had the slot.  A call that
\* finds no limit in the state file nor in its own ends at once and vouches for
\* nothing: what a call that was cut off left is still there.
LimitsExact ==
  settled = "in place" =>
    /\ DOMAIN chain = DOMAIN state.limits
    /\ \A l \in DOMAIN chain : Limited(l, state.limits[l])

\* A call that begins with the limits in place never interrupts the limit of a
\* listener whose rate and slot it leaves as they are, between no two of its
\* commands and not in its rollback.
LimitKept ==
  settled = "leaving" /\ job.stage # "end" =>
    \A l \in DOMAIN state.limits \cap DOMAIN job.wanted :
      /\ state.limits[l] = job.wanted[l]
      /\ SlotsOf(DOMAIN state.limits)[l] = SlotsOf(DOMAIN job.wanted)[l]
      => Limited(l, state.limits[l])
=============================================================================
