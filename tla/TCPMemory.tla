------------------------------ MODULE TCPMemory ------------------------------
(***************************************************************************)
(* The tuner that sizes the kernel's tcp_mem from RAM                      *)
(* (internal/agent/tcpmem.go).  Every minute it reads RAM, memory in use   *)
(* and counters, and may write tcp_mem; administrators change its settings *)
(* through the panel and tcp_mem behind its back; its state file may not   *)
(* be written, the agent restarts and the node reboots or is resized.      *)
(*                                                                         *)
(* RAM and limits are counted in pages, and RAM is a multiple of 100, so   *)
(* total / 100 is exact.                                                   *)
(* A tick that cannot read RAM or tcp_mem changes nothing.  Events and     *)
(* warnings are left out.                                                  *)
(***************************************************************************)
EXTENDS Integers

CONSTANTS
  RAMs,        \* RAM a node can have, in hundreds of pages
  Available,   \* memory available, in pages
  Used,        \* memory in TCP buffers, in pages
  Requests,    \* limits in percent an administrator may send; 0 is "default"
  Manual,      \* tcp_mem values somebody else may write
  MinReserve,  \* tcpMemMinReserveBytes
  MaxTunings,  \* bound: changes of the settings
  MaxOutside   \* bound: writes by somebody else, restarts and reboots

ASSUME TCPMemoryConstants ==
  /\ RAMs \subseteq Nat \ {0} /\ Requests \subseteq Nat
  /\ Available \subseteq Nat /\ Used \subseteq Nat
  /\ Manual \subseteq Nat \X Nat \X Nat
  /\ MinReserve \in Nat /\ MaxTunings \in Nat /\ MaxOutside \in Nat

VARIABLES
  tuner,     \* [enabled, percent, adaptive, applied]: the tuner's memory
  tunerFile, \* the same, as tcp-tuning.json has it
  tcpMem,    \* net.ipv4.tcp_mem: low, pressure, high
  turns,     \* changes of the settings, and outside steps, so far
  own,       \* history: tcpMem is a value the tuner wrote, or recalls writing
  fresh      \* history: what the last step read if it was a tick, else {}

tunerVars == <<tuner, tunerFile, tcpMem, turns, own, fresh>>

AdaptiveStep == 5
ReservePercent == 15
DefaultPercent == 70
Limits == Nat \X Nat \X Nat
Tuner == [enabled: BOOLEAN, percent: 10 .. 90, adaptive: Nat, applied: Limits]

Larger(x, y) == IF x < y THEN y ELSE x
Smaller(x, y) == IF x < y THEN x ELSE y
BadNormalized(r) == IF r = 0 THEN DefaultPercent ELSE Larger(r, 10)
Normalized(r) == IF r = 0 THEN DefaultPercent ELSE Smaller(Larger(r, 10), 90)

Thresholds(most) == <<(most * 5) \div 7, (most * 6) \div 7, most>>
\* RAM tcp_mem never reaches.
Reserve(q) == Larger(MinReserve, q * ReservePercent)
Ceiling(q) == IF 100 * q > Reserve(q) THEN 100 * q - Reserve(q) ELSE 0
\* What the kernel starts with: about nine percent of RAM.
KernelDefault(q) == Thresholds(9 * q)

-----------------------------------------------------------------------------
(* The settings                                                            *)

BadRetuned(on, percent) == [tuner EXCEPT !.enabled = on, !.percent = percent]
\* A new percentage drops earlier expansions.
Retuned(on, percent) ==
  [tuner EXCEPT !.enabled = on, !.percent = percent,
                !.adaptive = IF percent = tuner.percent THEN @ ELSE 0]

SetTuning(on, request) ==
  /\ turns.tunings < MaxTunings
  /\ <<on, Normalized(request)>> # <<tuner.enabled, tuner.percent>>
  /\ turns' = [turns EXCEPT !.tunings = @ + 1]
  /\ tuner' = Retuned(on, Normalized(request))
  /\ tunerFile' \in {tunerFile, tuner'}       \* a failed save is only logged
  /\ fresh' = {}
  /\ UNCHANGED <<tcpMem, own>>

-----------------------------------------------------------------------------
(* A tick: q hundreds of RAM, of which available pages are free, used pages *)
(* in TCP buffers; pressed: since the last tick the kernel counted memory   *)
(* pressure and killed no process, and PSI is low                           *)

Expands(q, available, used, pressed) ==
  LET next == q * (tuner.percent + tuner.adaptive + AdaptiveStep) IN
  /\ pressed /\ used * 10 >= tcpMem[2] * 9
  /\ next <= Ceiling(q)
  /\ available >= Reserve(q) + next - Smaller(next, tcpMem[3])

BadTargetOf(q, t) == Thresholds(q * (t.percent + t.adaptive))
TargetOf(q, t) == Thresholds(Smaller(q * (t.percent + t.adaptive), Ceiling(q)))

BadKeeps(target, t, used) == target[3] < tcpMem[3] /\ used >= target[1]
\* A limit set by someone else, or one that connections use, is not lowered.
Keeps(target, t, used) ==
  target[3] < tcpMem[3] /\ (tcpMem # t.applied \/ used >= target[1])

Tick(q, available, used, pressed) ==
  LET t == IF Expands(q, available, used, pressed)
           THEN [tuner EXCEPT !.adaptive = @ + AdaptiveStep] ELSE tuner
      target == TargetOf(q, t)
      new == [t EXCEPT !.applied = target]
  IN /\ tuner.enabled
     /\ IF target = tcpMem \/ Keeps(target, t, used)
        THEN tuner' = t /\ UNCHANGED <<tcpMem, own>>
        ELSE tuner' = new /\ tcpMem' = target /\ own' = TRUE
     /\ tunerFile' \in {tunerFile, t, tuner'}
     /\ fresh' = {[q |-> q, used |-> used]}
     /\ UNCHANGED turns

\* tcp_mem cannot be written; an expansion stays.
TickRefused(q, available, used, pressed) ==
  /\ tuner.enabled
  /\ tuner' = IF Expands(q, available, used, pressed)
              THEN [tuner EXCEPT !.adaptive = @ + AdaptiveStep] ELSE tuner
  /\ tunerFile' \in {tunerFile, tuner'}
  /\ fresh' = {}
  /\ UNCHANGED <<tcpMem, turns, own>>

-----------------------------------------------------------------------------
Outside ==
  /\ turns.outside < MaxOutside
  /\ turns' = [turns EXCEPT !.outside = @ + 1]
  /\ fresh' = {}
Recalled(limits) == limits \in {tuner.applied, tunerFile.applied}

WrittenBehind(limits) ==
  /\ Outside
  /\ tcpMem' = limits /\ own' = Recalled(limits)
  /\ UNCHANGED <<tuner, tunerFile>>

\* A new process loads the file.
Restarted ==
  /\ Outside
  /\ tuner' = tunerFile
  /\ UNCHANGED <<tunerFile, tcpMem, own>>

Rebooted(q) ==
  /\ Outside
  /\ tcpMem' = KernelDefault(q) /\ own' = Recalled(KernelDefault(q))
  /\ tuner' = tunerFile
  /\ UNCHANGED tunerFile

TunerInit ==
  /\ tuner = [enabled |-> TRUE, percent |-> DefaultPercent, adaptive |-> 0,
              applied |-> <<0, 0, 0>>]
  /\ tunerFile = tuner
  /\ tcpMem \in {KernelDefault(q) : q \in RAMs}
  /\ turns = [tunings |-> 0, outside |-> 0]
  /\ own = FALSE /\ fresh = {}

TunerNext ==
  \/ \E on \in BOOLEAN, request \in Requests : SetTuning(on, request)
  \/ \E q \in RAMs, available \in Available, used \in Used, pressed \in BOOLEAN :
       \/ Tick(q, available, used, pressed)
       \/ TickRefused(q, available, used, pressed)
  \/ \E limits \in Manual : WrittenBehind(limits)
  \/ Restarted
  \/ \E q \in RAMs : Rebooted(q)

TunerSpec == TunerInit /\ [][TunerNext]_tunerVars

-----------------------------------------------------------------------------
(* Properties                                                              *)

\* Settings stay in their range and limits are page counts, in memory and on
\* disk.
TunerTypeOK ==
  /\ tuner \in Tuner /\ tunerFile \in Tuner
  /\ tcpMem \in Limits
  /\ turns \in [tunings: Nat, outside: Nat]
  /\ own \in BOOLEAN
  /\ fresh \subseteq [q: RAMs, used: Used]

\* Expansions never add up to more than the RAM outside the reserve, also after
\* the percentage was changed, saving failed and the agent restarted.
AdaptiveFits ==
  \A t \in {tuner, tunerFile} :
    t.adaptive > 0 => t.percent + t.adaptive <= 100 - ReservePercent

\* A limit somebody else set is never lowered: what a tick lowers is a value
\* that the tuner, before or after a restart, had written itself.
ManualKept == [][tcpMem'[3] < tcpMem[3] /\ UNCHANGED turns => own]_tunerVars

\* After a tick the limit leaves the reserve of the RAM just read, so a node
\* that was made smaller gets its memory back, unless connections use more than the
\* new one allows or the limit is not the one the tuner remembers writing: somebody
\* else's, or its own when saving that failed and the agent restarted, which the code
\* cannot tell from somebody else's.
ReserveKept ==
  \A r \in fresh : tcpMem[3] <= Ceiling(r.q) \/ tcpMem # tuner.applied
                   \/ r.used >= TargetOf(r.q, tuner)[1]
=============================================================================
