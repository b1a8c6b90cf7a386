--------------------------- MODULE TCPMemory_proofs --------------------------
(***************************************************************************)
(* The properties of TCPMemory for any RAM sizes, loads, requests and      *)
(* values written by others, and without the bounds of the runs.           *)
(***************************************************************************)
EXTENDS TCPMemory, TLAPS

\* What the tuner, or its file, recalls writing is marked as its own.
OwnRecalled == tcpMem \in {tuner.applied, tunerFile.applied} => own

\* The file may be as old as it likes, but what it says fits.
Fits(t) == t.adaptive > 0 => t.percent + t.adaptive <= 100 - ReservePercent

TunerInv == TunerTypeOK /\ AdaptiveFits /\ OwnRecalled /\ ReserveKept

-----------------------------------------------------------------------------
(* Arithmetic                                                              *)

\* Both of Go's min and max give one of their arguments, and bound it.
LEMMA Extremes ==
  ASSUME NEW x \in Nat, NEW y \in Nat
  PROVE  /\ Smaller(x, y) \in Nat /\ Smaller(x, y) <= x /\ Smaller(x, y) <= y
         /\ Larger(x, y) \in Nat /\ x <= Larger(x, y) /\ y <= Larger(x, y)
BY DEF Smaller, Larger

\* normalizeTCPTuning gives a percentage in its range.
LEMMA NormalizedInRange == ASSUME NEW r \in Nat PROVE Normalized(r) \in 10 .. 90
BY DEF Normalized, DefaultPercent, Smaller, Larger

\* Products with the RAM are numbers; the prover does not multiply.
LEMMA Products == ASSUME NEW q \in Nat, NEW x \in Nat PROVE q * x \in Nat
OBVIOUS

\* The limits derived from a largest one are page counts, and the third is it.
LEMMA ThresholdsAreLimits ==
  ASSUME NEW most \in Nat
  PROVE  Thresholds(most) \in Limits /\ Thresholds(most)[3] = most
<1>1. (most * 5) \div 7 \in Nat /\ (most * 6) \div 7 \in Nat
  OBVIOUS
<1> QED
  BY <1>1 DEF Thresholds, Limits

\* What is left of RAM beside the reserve is at most 85 percent of it.
LEMMA CeilingBound ==
  ASSUME NEW q \in Nat
  PROVE  /\ Reserve(q) \in Nat /\ Ceiling(q) \in Nat
         /\ Ceiling(q) <= q * (100 - ReservePercent)
<1>1. Reserve(q) \in Nat /\ q * ReservePercent <= Reserve(q)
  BY TCPMemoryConstants, Extremes DEF Reserve, ReservePercent
<1> QED
  BY <1>1 DEF Ceiling, ReservePercent

\* A percentage whose share of some RAM is below the ceiling leaves the reserve.
LEMMA ShareFits ==
  ASSUME NEW q \in Nat \ {0}, NEW x \in Nat, q * x <= Ceiling(q)
  PROVE  x <= 100 - ReservePercent
<1>1. q * x <= q * (100 - ReservePercent)
  BY CeilingBound, Products DEF ReservePercent
<1>2. SUFFICES ASSUME x > 85 PROVE FALSE
  BY DEF ReservePercent
<1>3. PICK d \in Nat : x = 86 + d
  <2>1. x - 86 \in Nat /\ x = 86 + (x - 86)
    BY <1>2
  <2> QED
    BY <2>1
<1>4. q * x = q * 86 + q * d /\ q * d \in Nat
  BY <1>3
<1> QED
  BY <1>1, <1>4 DEF ReservePercent

\* The values the tuner writes are limits and leave the reserve.
LEMMA TargetsFit ==
  ASSUME NEW q \in Nat, NEW t \in Tuner
  PROVE  TargetOf(q, t) \in Limits /\ TargetOf(q, t)[3] <= Ceiling(q)
<1>1. t.percent + t.adaptive \in Nat
  BY DEF Tuner
<1>2. q * (t.percent + t.adaptive) \in Nat
  BY <1>1, Products
<1> QED
  BY <1>2, CeilingBound, Extremes, ThresholdsAreLimits DEF TargetOf

\* What the kernel starts with is not what a new tuner recalls.
LEMMA DefaultsAreLimits ==
  ASSUME NEW q \in RAMs
  PROVE  KernelDefault(q) \in Limits /\ KernelDefault(q)[3] > 0
BY TCPMemoryConstants, ThresholdsAreLimits DEF KernelDefault

-----------------------------------------------------------------------------
(* The state a tick works with                                             *)

Expanded(q, available, used, pressed) ==
  IF Expands(q, available, used, pressed)
  THEN [tuner EXCEPT !.adaptive = @ + AdaptiveStep] ELSE tuner

\* An expansion keeps the settings and what was applied, and fits.
LEMMA ExpansionFits ==
  ASSUME TunerTypeOK, AdaptiveFits, NEW q \in RAMs, NEW available \in Available,
         NEW used \in Used, NEW pressed \in BOOLEAN
  PROVE  LET t == Expanded(q, available, used, pressed)
         IN t \in Tuner /\ t.applied = tuner.applied /\ Fits(t)
<1> DEFINE t == Expanded(q, available, used, pressed)
           next == tuner.percent + tuner.adaptive + AdaptiveStep
<1>1. CASE ~Expands(q, available, used, pressed)
  BY <1>1 DEF TunerTypeOK, AdaptiveFits, Fits, Expanded
<1>2. CASE Expands(q, available, used, pressed)
  <2>1. t = [tuner EXCEPT !.adaptive = @ + AdaptiveStep]
    BY <1>2 DEF Expanded
  <2>2. t \in Tuner /\ t.applied = tuner.applied /\ t.percent + t.adaptive = next
    BY <2>1 DEF TunerTypeOK, Tuner, AdaptiveStep
  <2>3. next \in Nat /\ q * next <= Ceiling(q) /\ q \in Nat \ {0}
    BY <1>2, TCPMemoryConstants DEF Expands, TunerTypeOK, Tuner, AdaptiveStep
  <2>4. next <= 100 - ReservePercent
    <3> HIDE DEF next
    <3> QED BY <2>3, ShareFits
  <2> QED
    BY <2>2, <2>4 DEF Fits
<1> QED
  BY <1>1, <1>2

-----------------------------------------------------------------------------
(* The invariant                                                           *)

\* The invariant of the tuner holds initially.
LEMMA TunerInitInv == TunerInit => TunerInv
<1> SUFFICES ASSUME TunerInit PROVE TunerInv
  OBVIOUS
<1>1. PICK q \in RAMs : tcpMem = KernelDefault(q)
  BY DEF TunerInit
<1>2. tuner \in Tuner /\ tuner.applied = <<0, 0, 0>> /\ tunerFile = tuner
  BY DEF TunerInit, Tuner, Limits, DefaultPercent
<1>3. TunerTypeOK
  BY <1>1, <1>2, DefaultsAreLimits DEF TunerInit, TunerTypeOK
<1>4. AdaptiveFits
  BY DEF TunerInit, AdaptiveFits
<1>5. OwnRecalled
  <2>1. tcpMem # <<0, 0, 0>>
    BY <1>1, DefaultsAreLimits
  <2> QED
    BY <1>2, <2>1 DEF OwnRecalled
<1>6. ReserveKept
  BY DEF TunerInit, ReserveKept
<1> QED
  BY <1>3, <1>4, <1>5, <1>6 DEF TunerInv

\* Changed settings drop the expansions of the percentage before.
LEMMA SetTuningInv ==
  ASSUME TunerInv, NEW on \in BOOLEAN, NEW request \in Requests, SetTuning(on, request)
  PROVE  TunerInv'
<1> USE DEF TunerInv
<1>1. Normalized(request) \in 10 .. 90
  BY NormalizedInRange, TCPMemoryConstants
<1>2. tuner' \in Tuner /\ tuner'.applied = tuner.applied /\ Fits(tuner')
  <2> DEFINE p == Normalized(request)
             kept == IF p = tuner.percent THEN tuner.adaptive ELSE 0
  <2>1. tuner' = [tuner EXCEPT !.enabled = on, !.percent = p, !.adaptive = kept]
    BY DEF SetTuning, Retuned
  <2>2. tuner \in [enabled: BOOLEAN, percent: 10 .. 90, adaptive: Nat, applied: Limits]
    BY DEF TunerTypeOK, Tuner
  <2>3. p \in 10 .. 90 /\ kept \in Nat
    BY <1>1, <2>2
  <2>4. kept > 0 => p + kept <= 100 - ReservePercent
    BY <2>2 DEF AdaptiveFits
  <2> HIDE DEF p, kept
  <2>5. /\ tuner' \in [enabled: BOOLEAN, percent: 10 .. 90, adaptive: Nat, applied: Limits]
        /\ tuner'.applied = tuner.applied /\ tuner'.percent = p /\ tuner'.adaptive = kept
    BY <2>1, <2>2, <2>3
  <2> QED
    BY <2>4, <2>5 DEF Tuner, Fits
<1>3. tunerFile' \in {tunerFile, tuner'} /\ fresh' = {} /\ UNCHANGED <<tcpMem, own>>
  BY DEF SetTuning
<1>4. turns' \in [tunings: Nat, outside: Nat]
  BY DEF SetTuning, TunerTypeOK
<1>5. TunerTypeOK'
  BY <1>2, <1>3, <1>4 DEF TunerTypeOK
<1>6. AdaptiveFits'
  BY <1>2, <1>3 DEF AdaptiveFits, Fits
<1>7. OwnRecalled'
  BY <1>2, <1>3 DEF OwnRecalled
<1>8. ReserveKept'
  BY <1>3 DEF ReserveKept
<1> QED
  BY <1>5, <1>6, <1>7, <1>8

\* A tick either leaves tcp_mem to whoever set it or needs it, or writes a value
\* that leaves the reserve and is its own.
LEMMA TickInv ==
  ASSUME TunerInv, NEW q \in RAMs, NEW available \in Available, NEW used \in Used,
         NEW pressed \in BOOLEAN, Tick(q, available, used, pressed)
  PROVE  TunerInv'
<1> USE DEF TunerInv
<1> DEFINE t == Expanded(q, available, used, pressed)
           target == TargetOf(q, t)
           new == [t EXCEPT !.applied = target]
<1>1. t \in Tuner /\ t.applied = tuner.applied /\ Fits(t)
  BY ExpansionFits
<1>2. target \in Limits /\ target[3] <= Ceiling(q)
  BY <1>1, TargetsFit, TCPMemoryConstants
<1>3. /\ IF target = tcpMem \/ Keeps(target, t, used)
         THEN tuner' = t /\ UNCHANGED <<tcpMem, own>>
         ELSE tuner' = new /\ tcpMem' = target /\ own' = TRUE
      /\ tunerFile' \in {tunerFile, t, tuner'}
      /\ fresh' = {[q |-> q, used |-> used]}
      /\ UNCHANGED turns
  BY DEF Tick, Expanded
<1>4. new \in Tuner /\ new.applied = target /\ Fits(new)
      /\ new.percent = t.percent /\ new.adaptive = t.adaptive
  BY <1>1, <1>2 DEF Tuner, Fits
<1>5. TargetOf(q, new) = target
  BY <1>4 DEF TargetOf
<1> HIDE DEF t, target, new
<1>6. TunerTypeOK'
  <2>1. tuner' \in Tuner /\ tunerFile' \in Tuner
    BY <1>1, <1>3, <1>4 DEF TunerTypeOK
  <2>2. tcpMem' \in Limits /\ own' \in BOOLEAN
    BY <1>2, <1>3 DEF TunerTypeOK
  <2>3. fresh' \subseteq [q: RAMs, used: Used]
    BY <1>3
  <2> QED
    BY <1>3, <2>1, <2>2, <2>3 DEF TunerTypeOK
<1>7. AdaptiveFits'
  BY <1>1, <1>3, <1>4 DEF AdaptiveFits, Fits
<1>8. OwnRecalled'
  BY <1>1, <1>3 DEF OwnRecalled
<1>9. ReserveKept'
  <2>1. CASE target = tcpMem
    BY <2>1, <1>2, <1>3 DEF ReserveKept
  <2>2. CASE target # tcpMem /\ Keeps(target, t, used)
    <3>1. tuner' = t /\ tcpMem' = tcpMem /\ target = TargetOf(q, t)
      BY <2>2, <1>3 DEF target
    <3>2. tcpMem # t.applied \/ used >= target[1]
      BY <2>2 DEF Keeps
    <3> QED
      BY <3>1, <3>2, <1>3 DEF ReserveKept
  <2>3. CASE target # tcpMem /\ ~Keeps(target, t, used)
    BY <2>3, <1>2, <1>3 DEF ReserveKept
  <2> QED
    BY <2>1, <2>2, <2>3
<1> QED
  BY <1>6, <1>7, <1>8, <1>9

\* A refused write changes no more than the expansion.
LEMMA TickRefusedInv ==
  ASSUME TunerInv, NEW q \in RAMs, NEW available \in Available, NEW used \in Used,
         NEW pressed \in BOOLEAN, TickRefused(q, available, used, pressed)
  PROVE  TunerInv'
<1> USE DEF TunerInv
<1> DEFINE t == Expanded(q, available, used, pressed)
<1>1. t \in Tuner /\ t.applied = tuner.applied /\ Fits(t)
  BY ExpansionFits
<1>2. /\ tuner' = t /\ tunerFile' \in {tunerFile, tuner'} /\ fresh' = {}
      /\ UNCHANGED <<tcpMem, turns, own>>
  BY DEF TickRefused, Expanded
<1> HIDE DEF t
<1> QED
  BY <1>1, <1>2 DEF TunerTypeOK, AdaptiveFits, Fits, OwnRecalled, ReserveKept

\* Somebody else's writes, restarts and reboots.
LEMMA OutsideInv ==
  ASSUME TunerInv,
         \/ \E limits \in Manual : WrittenBehind(limits)
         \/ Restarted
         \/ \E q \in RAMs : Rebooted(q)
  PROVE  TunerInv'
<1> USE DEF TunerInv
<1>1. fresh' = {} /\ turns' \in [tunings: Nat, outside: Nat]
  BY DEF WrittenBehind, Restarted, Rebooted, Outside, TunerTypeOK
<1>2. ReserveKept'
  BY <1>1 DEF ReserveKept
<1>3. tuner' \in {tuner, tunerFile} /\ tunerFile' = tunerFile
  BY DEF WrittenBehind, Restarted, Rebooted
<1>4. AdaptiveFits'
  BY <1>3 DEF AdaptiveFits
<1>5. tcpMem' \in Limits /\ own' \in BOOLEAN
  <2>1. ASSUME NEW limits \in Manual, WrittenBehind(limits)
        PROVE  tcpMem' \in Limits /\ own' \in BOOLEAN
    BY <2>1, TCPMemoryConstants DEF WrittenBehind, Recalled, Limits
  <2>2. ASSUME NEW q \in RAMs, Rebooted(q)
        PROVE  tcpMem' \in Limits /\ own' \in BOOLEAN
    BY <2>2, DefaultsAreLimits DEF Rebooted, Recalled
  <2>3. ASSUME Restarted PROVE tcpMem' \in Limits /\ own' \in BOOLEAN
    BY <2>3 DEF Restarted, TunerTypeOK
  <2> QED
    BY <2>1, <2>2, <2>3
<1>6. TunerTypeOK'
  BY <1>1, <1>3, <1>5 DEF TunerTypeOK
<1>7. OwnRecalled'
  BY <1>3 DEF OwnRecalled, WrittenBehind, Restarted, Rebooted, Recalled
<1> QED
  BY <1>2, <1>4, <1>6, <1>7

\* Every step of the tuner keeps the invariant.
LEMMA TunerStepInv == TunerInv /\ [TunerNext]_tunerVars => TunerInv'
<1> SUFFICES ASSUME TunerInv, [TunerNext]_tunerVars PROVE TunerInv'
  OBVIOUS
<1>1. ASSUME NEW on \in BOOLEAN, NEW request \in Requests, SetTuning(on, request)
      PROVE  TunerInv'
  BY <1>1, SetTuningInv
<1>2. ASSUME NEW q \in RAMs, NEW available \in Available, NEW used \in Used,
             NEW pressed \in BOOLEAN,
             Tick(q, available, used, pressed) \/ TickRefused(q, available, used, pressed)
      PROVE  TunerInv'
  BY <1>2, TickInv, TickRefusedInv
<1>3. ASSUME \/ \E limits \in Manual : WrittenBehind(limits)
             \/ Restarted
             \/ \E q \in RAMs : Rebooted(q)
      PROVE  TunerInv'
  BY <1>3, OutsideInv
<1>4. CASE UNCHANGED tunerVars
  BY <1>4 DEF tunerVars, TunerInv, TunerTypeOK, AdaptiveFits, OwnRecalled, ReserveKept
<1> QED
  BY <1>1, <1>2, <1>3, <1>4 DEF TunerNext

\* The inductive invariant: types, expansions that fit, recalled values that are
\* the tuner's own, and a reserve kept by every tick.
THEOREM TunerSafety == TunerSpec => []TunerInv
BY TunerInitInv, TunerStepInv, PTL DEF TunerSpec

\* Settings stay in range and limits are page counts, for any requests.
THEOREM TunerTypes == TunerSpec => []TunerTypeOK
<1>1. TunerInv => TunerTypeOK
  BY DEF TunerInv
<1> QED
  BY <1>1, TunerSafety, PTL

\* Expansions and the percentage never exceed 85 percent, whatever RAM a node
\* has, however saving fails and the agent restarts.
THEOREM ExpansionsFit == TunerSpec => []AdaptiveFits
<1>1. TunerInv => AdaptiveFits
  BY DEF TunerInv
<1> QED
  BY <1>1, TunerSafety, PTL

\* A tick leaves the reserve of the RAM it read.
THEOREM TicksKeepReserve == TunerSpec => []ReserveKept
<1>1. TunerInv => ReserveKept
  BY DEF TunerInv
<1> QED
  BY <1>1, TunerSafety, PTL

\* A limit somebody else set is never lowered.
THEOREM ManualLimitsStay == TunerSpec => ManualKept
<1>1. TunerInv /\ [TunerNext]_tunerVars
        => [tcpMem'[3] < tcpMem[3] /\ UNCHANGED turns => own]_tunerVars
  <2> SUFFICES ASSUME TunerInv, TunerNext, tcpMem'[3] < tcpMem[3], UNCHANGED turns
               PROVE  own
    BY DEF tunerVars
  <2> USE DEF TunerInv
  <2>1. tcpMem \in Limits /\ tcpMem' # tcpMem
    BY DEF TunerTypeOK, Limits
  <2>2. ASSUME NEW on \in BOOLEAN, NEW request \in Requests, SetTuning(on, request)
        PROVE  FALSE
    BY <2>1, <2>2 DEF SetTuning
  <2>3. ASSUME NEW q \in RAMs, NEW available \in Available, NEW used \in Used,
               NEW pressed \in BOOLEAN, TickRefused(q, available, used, pressed)
        PROVE  FALSE
    BY <2>1, <2>3 DEF TickRefused
  <2>4. ASSUME Outside PROVE FALSE
    <3>1. turns \in [tunings: Nat, outside: Nat]
      BY DEF TunerTypeOK
    <3>2. turns' = [turns EXCEPT !.outside = @ + 1]
      BY <2>4 DEF Outside
    <3>3. turns'.outside = turns.outside + 1 /\ turns.outside \in Nat
      BY <3>1, <3>2
    <3>4. turns' = turns
      OBVIOUS
    <3> QED
      BY <3>3, <3>4
  <2>5. ASSUME NEW q \in RAMs, NEW available \in Available, NEW used \in Used,
               NEW pressed \in BOOLEAN, Tick(q, available, used, pressed)
        PROVE  own
    <3> DEFINE t == Expanded(q, available, used, pressed)
               target == TargetOf(q, t)
    <3>1. t.applied = tuner.applied
      BY ExpansionFits
    <3>2. tcpMem' = target /\ ~Keeps(target, t, used)
      BY <2>1, <2>5 DEF Tick, Expanded
    <3> HIDE DEF t, target
    <3>3. tcpMem = t.applied
      BY <3>2 DEF Keeps
    <3> QED
      BY <3>1, <3>3 DEF OwnRecalled
  <2> QED
    BY <2>2, <2>3, <2>4, <2>5 DEF TunerNext, WrittenBehind, Restarted, Rebooted
<1> QED
  BY <1>1, TunerSafety, PTL DEF TunerSpec, ManualKept
=============================================================================
