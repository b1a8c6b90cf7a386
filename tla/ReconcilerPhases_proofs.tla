------------------------ MODULE ReconcilerPhases_proofs ------------------------
(***************************************************************************)
(* The two phases of a reconcile that have a module of their own: the      *)
(* inbound firewall, for any ports of ssh and of UDP records, and the rate *)
(* limits, for any listeners, hashes, slots, profiles and devices.  Either *)
(* holds for any number of calls, failures, crashes and changes of the     *)
(* host.                                                                   *)
(*                                                                         *)
(* Slots are given out by recursion over the ids in their order.  The      *)
(* induction that this needs is over a set of naturals by its least        *)
(* element, which is found through the order of finite sets.               *)
(***************************************************************************)
EXTENDS InputFirewall, RateLimits, FiniteSetTheorems, WellFoundedInduction, TLAPS

-----------------------------------------------------------------------------
(* The inbound firewall                                                    *)

TCPSets == SUBSET UNION SSHPorts
UDPSets == RecordPorts \cup {{}}
States == [hidden: BOOLEAN, services: BOOLEAN, tcp: TCPSets, udp: UDPSets]
Stages == {"none", "chain", "jump", "unjump", "unchain", "save"}
Calls == [name: {"none", "publish", "ensure", "restore", "rollback"},
          stage: Stages, target: States, seen: TCPSets]

InputTypes ==
  /\ listening \in TCPSets /\ inJump \in BOOLEAN /\ inState \in States
  /\ inCall \in Calls /\ vouched \in BOOLEAN /\ torn \in BOOLEAN

Clean == ~inJump /\ inChain = NoChain
ChainOf(s) == [tcp |-> s.tcp, udp |-> s.udp]

\* What holds between calls as long as none was cut off: a plain node has no
\* chain, and if a hidden one has a chain it opens the ports of the state file.
Matches == IF inState.hidden THEN inChain # NoChain => inChain.tcp = inState.tcp
                             ELSE Clean

Undoing == inCall.name = "rollback"

\* How far a call has got, stage by stage.  The kernel is ahead of the state
\* file from the stage "jump" on.
Progress ==
  /\ inCall.stage = "none" => inCall = NoInCall /\ (torn \/ Matches)
  /\ inCall.stage = "chain" => inCall.target.hidden /\ (torn \/ Undoing \/ Matches)
  /\ inCall.stage = "jump" => inCall.target.hidden /\ inChain = ChainOf(inCall.target)
  /\ inCall.stage \in {"unjump", "unchain"} =>
       ~inCall.target.hidden /\ (Undoing \/ inState.hidden)
  /\ inCall.stage = "unchain" => ~inJump
  /\ inCall.stage = "save" =>
       /\ ~Undoing
       /\ IF inCall.target.hidden THEN inJump /\ inChain = ChainOf(inCall.target)
          ELSE Clean \/ (torn /\ ~inState.hidden)

\* What a call aims at: a rollback at the state file, the others, if at a hidden
\* state, at one that opens the ports ssh was seen on.
Aims ==
  inCall # NoInCall =>
    IF Undoing THEN inCall.target = inState
    ELSE inCall.target.hidden => inCall.seen \subseteq inCall.target.tcp

\* Success is reported at the end of a call, and a dead agent runs none.
Vouching == vouched \/ ~running => inCall = NoInCall

InputInv == InputTypes /\ Progress /\ Aims /\ Vouching /\ HiddenIsReachable /\ PlainIsOpen

\* A chain that was installed is not the chain that is not there.
LEMMA ChainsExist == ASSUME NEW s \in States PROVE ChainOf(s) # NoChain
BY InputConstants DEF States, UDPSets, ChainOf, NoChain

\* The invariant holds initially.
LEMMA InputInitInv == InputInit => InputInv
<1> SUFFICES ASSUME InputInit PROVE InputInv
  OBVIOUS
<1>1. InputTypes
  BY DEF InputInit, InputTypes, Plain, NoInCall, InCall, States, Calls, Stages, TCPSets, UDPSets
<1>2. Progress /\ Aims
  BY DEF InputInit, Progress, Aims, Matches, Clean, Plain, NoInCall, InCall
<1>3. Vouching /\ HiddenIsReachable /\ PlainIsOpen
  BY DEF InputInit, Vouching, HiddenIsReachable, PlainIsOpen
<1> QED
  BY <1>1, <1>2, <1>3 DEF InputInv

\* A call that begins finds the kernel as the last one left it.
LEMMA BeginInv ==
  ASSUME InputInv, inCall = NoInCall, NEW call \in Calls, Starts(call), running',
         call.name # "rollback",
         \/ call = NoInCall
         \/ call.stage = "chain" /\ call.target.hidden /\ call.seen \subseteq call.target.tcp
         \/ call.stage = "unjump" /\ ~call.target.hidden /\ inState.hidden
         \/ call.stage = "save" /\ ~call.target.hidden /\ ~inState.hidden
  PROVE  InputInv'
<1> USE DEF InputInv, Starts
<1>1. InputTypes'
  BY DEF InputTypes
<1>2. torn \/ Matches
  BY DEF Progress, NoInCall, InCall
<1>3. torn' = torn /\ inCall' = call /\ (Matches' <=> Matches) /\ (Clean' <=> Clean)
  BY DEF Matches, Clean
<1>4. Progress'
  BY <1>2, <1>3 DEF Progress, Undoing, Matches, NoInCall, InCall
<1>5. Aims'
  BY <1>3 DEF Aims, Undoing, NoInCall, InCall, Plain
<1>6. Vouching' /\ HiddenIsReachable' /\ PlainIsOpen'
  BY DEF Vouching, HiddenIsReachable, PlainIsOpen
<1> QED
  BY <1>1, <1>4, <1>5, <1>6

\* Publications, the minute's check, and Restore.
LEMMA CallsBegin ==
  ASSUME InputInv,
         (\E services \in BOOLEAN, udp \in RecordPorts : PublishHidden(services, udp))
           \/ PublishPlain
           \/ EnsureInputFirewall \/ RestoreInput
  PROVE  InputInv'
<1>0. /\ listening \in TCPSets /\ inState \in States
      /\ inState.hidden \in BOOLEAN /\ inState.services \in BOOLEAN
      /\ inState.tcp \in TCPSets /\ inState.udp \in UDPSets
  BY DEF InputInv, InputTypes, States
<1>1. ASSUME NEW services \in BOOLEAN, NEW udp \in RecordPorts, PublishHidden(services, udp)
      PROVE  InputInv'
  <2> DEFINE call == InCall("publish", "chain", Hidden(services, listening, udp), listening)
  <2>1. call \in Calls
    BY <1>0 DEF InCall, Hidden, Calls, Stages, States, UDPSets
  <2>2. call.name # "rollback" /\ call.stage = "chain" /\ call.target.hidden
        /\ call.seen \subseteq call.target.tcp
    BY DEF InCall, Hidden
  <2>3. inCall = NoInCall /\ Starts(call) /\ running'
    BY <1>1 DEF PublishHidden
  <2> HIDE DEF call
  <2> QED
    BY <2>1, <2>2, <2>3, BeginInv
<1>2. ASSUME PublishPlain PROVE InputInv'
  <2> DEFINE call == InCall("publish", IF inState.hidden THEN "unjump" ELSE "save",
                            Plain, listening)
  <2>1. call \in Calls
    BY <1>0 DEF InCall, Plain, Calls, Stages, States, UDPSets, TCPSets
  <2>2. /\ call.name # "rollback" /\ ~call.target.hidden
        /\ \/ call.stage = "unjump" /\ inState.hidden
           \/ call.stage = "save" /\ ~inState.hidden
    BY DEF InCall, Plain
  <2>3. inCall = NoInCall /\ Starts(call) /\ running'
    BY <1>2 DEF PublishPlain
  <2> HIDE DEF call
  <2> QED
    BY <2>1, <2>2, <2>3, BeginInv
<1>3. ASSUME EnsureInputFirewall PROVE InputInv'
  <2>1. CASE listening = inState.tcp /\ Active(inState.udp)
    <3>1. /\ vouched' = TRUE /\ inCall = NoInCall /\ inState.hidden
          /\ UNCHANGED <<listening, inChain, inJump, inState, torn, inCall, running>>
      BY <1>3, <2>1 DEF EnsureInputFirewall
    <3>2. torn \/ Matches
      BY <3>1 DEF InputInv, Progress, NoInCall, InCall
    <3>3. HiddenIsReachable'
      BY <3>1, <3>2, <2>1 DEF HiddenIsReachable, Active, Matches
    <3>4. PlainIsOpen' /\ Vouching'
      BY <3>1 DEF PlainIsOpen, Vouching
    <3>5. InputTypes' /\ Progress' /\ Aims'
      BY <3>1 DEF InputInv, InputTypes, Progress, Aims, Matches, Clean, Undoing
    <3> QED
      BY <3>3, <3>4, <3>5 DEF InputInv
  <2>2. CASE ~(listening = inState.tcp /\ Active(inState.udp))
    <3> DEFINE call == InCall("ensure", "chain",
                              Hidden(inState.services, listening, inState.udp), listening)
    <3>1. call \in Calls
      BY <1>0 DEF InCall, Hidden, Calls, Stages, States
    <3>2. call.name # "rollback" /\ call.stage = "chain" /\ call.target.hidden
          /\ call.seen \subseteq call.target.tcp
      BY DEF InCall, Hidden
    <3>3. inCall = NoInCall /\ Starts(call) /\ running'
      BY <1>3, <2>2 DEF EnsureInputFirewall
    <3> HIDE DEF call
    <3> QED
      BY <3>1, <3>2, <3>3, BeginInv
  <2> QED
    BY <2>1, <2>2
<1>4. ASSUME RestoreInput PROVE InputInv'
  <2>0. inCall = NoInCall /\ running'
    BY <1>4 DEF RestoreInput, InputInv, Vouching
  <2>1. PICK seen \in {{}, listening} :
          Starts(IF inState.hidden /\ inState.services
                 THEN InCall("restore", "chain",
                             Hidden(TRUE, inState.tcp \cup seen, inState.udp), seen)
                 ELSE NoInCall)
    BY <1>4 DEF RestoreInput
  <2>2. seen \in TCPSets
    BY <1>0 DEF TCPSets
  <2>3. CASE inState.hidden /\ inState.services
    <3> DEFINE call == InCall("restore", "chain",
                              Hidden(TRUE, inState.tcp \cup seen, inState.udp), seen)
    <3>1. inState.tcp \cup seen \in TCPSets
      BY <1>0, <2>2 DEF TCPSets
    <3>2. call \in Calls
      BY <1>0, <2>2, <3>1 DEF InCall, Hidden, Calls, Stages, States
    <3>3. call.name # "rollback" /\ call.stage = "chain" /\ call.target.hidden
          /\ call.seen \subseteq call.target.tcp
      BY DEF InCall, Hidden
    <3>4. Starts(call)
      BY <2>1, <2>3
    <3> HIDE DEF call
    <3> QED
      BY <3>2, <3>3, <3>4, <2>0, BeginInv
  <2>4. CASE ~(inState.hidden /\ inState.services)
    <3>1. Starts(NoInCall)
      BY <2>1, <2>4
    <3>2. NoInCall \in Calls /\ NoInCall.name # "rollback"
      BY DEF NoInCall, InCall, Plain, Calls, Stages, States, TCPSets, UDPSets
    <3> QED
      BY <3>1, <3>2, <2>0, BeginInv
  <2> QED
    BY <2>3, <2>4
<1> QED
  BY <1>1, <1>2, <1>3, <1>4

-----------------------------------------------------------------------------
(* The steps of a call                                                     *)

\* The parts of the invariant that only look at what most steps leave alone.
LEMMA Unvouched ==
  ASSUME ~vouched'
  PROVE  HiddenIsReachable' /\ PlainIsOpen'
BY DEF HiddenIsReachable, PlainIsOpen

\* A call in progress is well typed, and nothing is vouched for while it runs.
LEMMA CallTypes ==
  ASSUME InputInv, inCall # NoInCall
  PROVE  /\ inCall = [name |-> inCall.name, stage |-> inCall.stage,
                      target |-> inCall.target, seen |-> inCall.seen]
         /\ inCall.name \in {"none", "publish", "ensure", "restore", "rollback"}
         /\ inCall.stage \in Stages \ {"none"} /\ inCall.target \in States
         /\ inCall.seen \in TCPSets /\ ~vouched /\ running
BY DEF InputInv, InputTypes, Calls, Progress, Vouching

\* iptables-restore.
LEMMA ReplaceChainInv == ASSUME InputInv, ReplaceChain PROVE InputInv'
<1>1. inCall # NoInCall /\ inCall.stage = "chain"
  BY DEF ReplaceChain, NoInCall, InCall
<1>2. inCall' = [inCall EXCEPT !.stage = "jump"]
  BY DEF ReplaceChain, NextStage
<1>3. /\ inCall'.stage = "jump" /\ inCall'.name = inCall.name
      /\ inCall'.target = inCall.target /\ inCall'.seen = inCall.seen
      /\ inCall' \in Calls
  BY <1>1, <1>2, CallTypes DEF Calls, Stages
<1>4. inChain' = ChainOf(inCall.target)
      /\ UNCHANGED <<listening, inJump, inState, running, vouched, torn>>
  BY DEF ReplaceChain, ChainOf
<1>5. InputTypes'
  BY <1>3, <1>4 DEF InputInv, InputTypes
<1>6. Progress'
  BY <1>1, <1>3, <1>4 DEF InputInv, Progress
<1>7. Aims'
  BY <1>1, <1>3, <1>4 DEF InputInv, Aims, Undoing
<1>8. Vouching' /\ HiddenIsReachable' /\ PlainIsOpen'
  BY <1>1, <1>4, CallTypes, Unvouched DEF Vouching
<1> QED
  BY <1>5, <1>6, <1>7, <1>8 DEF InputInv

\* iptables -I; a rollback to a hidden state ends here.
LEMMA InsertJumpInv == ASSUME InputInv, InsertJump PROVE InputInv'
<1>1. inCall # NoInCall /\ inCall.stage = "jump"
  BY DEF InsertJump, NoInCall, InCall
<1>2. /\ inJump' = TRUE /\ inChain = ChainOf(inCall.target) /\ inCall.target.hidden
      /\ UNCHANGED <<listening, inChain, inState, running, vouched, torn>>
  BY <1>1 DEF InsertJump, InputInv, Progress
<1>3. ~vouched' /\ running'
  BY <1>1, <1>2, CallTypes
<1>4. CASE Undoing
  <2>1. inCall' = NoInCall /\ inCall.target = inState
    BY <1>1, <1>4 DEF InsertJump, NextStage, Undoing, InputInv, Aims
  <2>2. Matches'
    BY <1>2, <2>1 DEF Matches, ChainOf
  <2>3. InputTypes'
    BY <1>2, <2>1 DEF InputInv, InputTypes, NoInCall, InCall, Plain, Calls, Stages, States,
                      TCPSets, UDPSets
  <2>4. Progress' /\ Aims' /\ Vouching'
    BY <2>1, <2>2 DEF Progress, Aims, Vouching, NoInCall, InCall
  <2> QED
    BY <1>3, <2>3, <2>4, Unvouched DEF InputInv
<1>5. CASE ~Undoing
  <2>1. inCall' = [inCall EXCEPT !.stage = "save"]
    BY <1>5 DEF InsertJump, NextStage, Undoing
  <2>2. /\ inCall'.stage = "save" /\ inCall'.name = inCall.name
        /\ inCall'.target = inCall.target /\ inCall'.seen = inCall.seen
        /\ inCall' \in Calls
    BY <1>1, <2>1, CallTypes DEF Calls, Stages
  <2>3. InputTypes'
    BY <1>2, <2>2 DEF InputInv, InputTypes
  <2>4. Progress'
    BY <1>2, <1>5, <2>2 DEF Progress, Undoing
  <2>5. Aims'
    BY <1>1, <1>2, <2>2 DEF InputInv, Aims, Undoing
  <2> QED
    BY <1>3, <2>3, <2>4, <2>5, Unvouched DEF InputInv, Vouching
<1> QED
  BY <1>4, <1>5

\* iptables -D.
LEMMA RemoveJumpInv == ASSUME InputInv, RemoveJump PROVE InputInv'
<1>1. inCall # NoInCall /\ inCall.stage = "unjump"
  BY DEF RemoveJump, NoInCall, InCall
<1>2. inCall' = [inCall EXCEPT !.stage = "unchain"]
  BY DEF RemoveJump, NextStage
<1>3. /\ inCall'.stage = "unchain" /\ inCall'.name = inCall.name
      /\ inCall'.target = inCall.target /\ inCall'.seen = inCall.seen
      /\ inCall' \in Calls
  BY <1>1, <1>2, CallTypes DEF Calls, Stages
<1>4. inJump' = FALSE
      /\ UNCHANGED <<listening, inChain, inState, running, vouched, torn>>
  BY DEF RemoveJump
<1>5. InputTypes'
  BY <1>3, <1>4 DEF InputInv, InputTypes
<1>6. Progress'
  BY <1>1, <1>3, <1>4 DEF InputInv, Progress, Undoing
<1>7. Aims'
  BY <1>1, <1>3, <1>4 DEF InputInv, Aims, Undoing
<1>8. Vouching' /\ HiddenIsReachable' /\ PlainIsOpen'
  BY <1>1, <1>4, CallTypes, Unvouched DEF Vouching
<1> QED
  BY <1>5, <1>6, <1>7, <1>8 DEF InputInv

\* iptables -F and -X; a rollback to a plain state ends here.
LEMMA RemoveInChainInv == ASSUME InputInv, RemoveInChain PROVE InputInv'
<1>1. inCall # NoInCall /\ inCall.stage = "unchain"
  BY DEF RemoveInChain, NoInCall, InCall
<1>2. /\ inChain' = NoChain /\ ~inJump /\ ~inCall.target.hidden
      /\ UNCHANGED <<listening, inJump, inState, running, vouched, torn>>
  BY <1>1 DEF RemoveInChain, InputInv, Progress
<1>3. ~vouched' /\ running' /\ Clean'
  BY <1>1, <1>2, CallTypes DEF Clean
<1>4. CASE Undoing
  <2>1. inCall' = NoInCall /\ inCall.target = inState
    BY <1>1, <1>4 DEF RemoveInChain, NextStage, Undoing, InputInv, Aims
  <2>2. Matches'
    BY <1>2, <1>3, <2>1 DEF Matches
  <2>3. InputTypes'
    BY <1>2, <2>1 DEF InputInv, InputTypes, NoInCall, InCall, Plain, Calls, Stages, States,
                      TCPSets, UDPSets
  <2>4. Progress' /\ Aims' /\ Vouching'
    BY <2>1, <2>2 DEF Progress, Aims, Vouching, NoInCall, InCall
  <2> QED
    BY <1>3, <2>3, <2>4, Unvouched DEF InputInv
<1>5. CASE ~Undoing
  <2>1. inCall' = [inCall EXCEPT !.stage = "save"]
    BY <1>5 DEF RemoveInChain, NextStage, Undoing
  <2>2. /\ inCall'.stage = "save" /\ inCall'.name = inCall.name
        /\ inCall'.target = inCall.target /\ inCall'.seen = inCall.seen
        /\ inCall' \in Calls
    BY <1>1, <2>1, CallTypes DEF Calls, Stages
  <2>3. InputTypes'
    BY <1>2, <2>2 DEF InputInv, InputTypes
  <2>4. Progress'
    BY <1>2, <1>3, <1>5, <2>2 DEF Progress, Undoing
  <2>5. Aims'
    BY <1>1, <1>2, <2>2 DEF InputInv, Aims, Undoing
  <2> QED
    BY <1>3, <2>3, <2>4, <2>5, Unvouched DEF InputInv, Vouching
<1> QED
  BY <1>4, <1>5

\* The end of a call: what it aimed at is there, and the state file says so.
LEMMA SaveInputInv == ASSUME InputInv, SaveInput PROVE InputInv'
<1>1. inCall # NoInCall /\ inCall.stage = "save" /\ inCall' = NoInCall
      /\ UNCHANGED <<listening, inChain, inJump, running>>
  BY DEF SaveInput, NoInCall, InCall
<1>2. /\ inState' = inCall.target
      /\ torn' = (torn /\ ~inState.hidden /\ ~inCall.target.hidden)
      /\ vouched' = (inCall.seen = listening)
  BY DEF SaveInput
<1>3. ~Undoing /\ inCall.target \in States /\ running'
  BY <1>1, CallTypes DEF InputInv, Progress
<1>4. InputTypes' /\ Aims' /\ Vouching'
  BY <1>1, <1>2, <1>3 DEF InputInv, InputTypes, Aims, Vouching, NoInCall, InCall, Plain, Calls,
                          Stages, States, TCPSets, UDPSets
<1>5. CASE inCall.target.hidden
  <2>1. inJump /\ inChain = ChainOf(inCall.target) /\ inCall.seen \subseteq inCall.target.tcp
    BY <1>1, <1>3, <1>5 DEF InputInv, Progress, Aims
  <2>2. inChain # NoChain
    BY <1>3, <2>1, ChainsExist
  <2>3. Matches'
    BY <1>1, <1>2, <1>5, <2>1 DEF Matches, ChainOf
  <2>4. HiddenIsReachable' /\ PlainIsOpen'
    BY <1>1, <1>2, <1>5, <2>1, <2>2 DEF HiddenIsReachable, PlainIsOpen, ChainOf
  <2>5. Progress'
    BY <1>1, <2>3 DEF Progress, NoInCall, InCall
  <2> QED
    BY <1>4, <2>4, <2>5 DEF InputInv
<1>6. CASE ~inCall.target.hidden
  <2>1. Clean' \/ torn'
    BY <1>1, <1>2, <1>6 DEF InputInv, Progress, Clean
  <2>2. torn' \/ Matches'
    BY <1>2, <1>6, <2>1 DEF Matches, Clean
  <2>3. HiddenIsReachable' /\ PlainIsOpen'
    BY <1>2, <1>6, <2>1 DEF HiddenIsReachable, PlainIsOpen, Clean
  <2>4. Progress'
    BY <1>1, <2>2 DEF Progress, NoInCall, InCall
  <2> QED
    BY <1>4, <2>3, <2>4 DEF InputInv
<1> QED
  BY <1>5, <1>6

\* A step that fails begins the rollback, or ends the call as it is.
LEMMA StepFailsInv == ASSUME InputInv, StepFails PROVE InputInv'
<1>1. inCall # NoInCall /\ UNCHANGED <<listening, inChain, inJump, inState, running, vouched>>
  BY DEF StepFails
<1>2. ~vouched' /\ running' /\ inState \in States
  BY <1>1, CallTypes DEF InputInv, InputTypes
<1>3. CASE inCall.name = "publish" /\ inCall.stage \in {"chain", "jump"}
  <2>1. inCall' = InCall("rollback", UndoStage, inState, {}) /\ torn' = torn
    BY <1>3 DEF StepFails
  <2>2. /\ inCall'.name = "rollback" /\ inCall'.target = inState /\ inCall' \in Calls
        /\ inCall'.stage = (IF inState.hidden THEN "chain" ELSE "unjump")
    BY <1>2, <2>1 DEF InCall, UndoStage, Calls, Stages, TCPSets
  <2>3. InputTypes'
    BY <1>1, <2>1, <2>2 DEF InputInv, InputTypes
  <2>4. Progress' /\ Aims'
    BY <1>1, <2>2 DEF Progress, Aims, Undoing
  <2> QED
    BY <1>2, <2>3, <2>4, Unvouched DEF InputInv, Vouching
<1>4. CASE ~(inCall.name = "publish" /\ inCall.stage \in {"chain", "jump"})
  <2>1. inCall' = NoInCall /\ torn' = TRUE
    BY <1>4 DEF StepFails
  <2>2. InputTypes' /\ Progress' /\ Aims' /\ Vouching'
    BY <1>1, <2>1 DEF InputInv, InputTypes, Progress, Aims, Vouching, NoInCall, InCall, Plain,
                      Calls, Stages, States, TCPSets, UDPSets
  <2> QED
    BY <1>2, <2>2, Unvouched DEF InputInv
<1> QED
  BY <1>3, <1>4

\* A crash in a call is remembered; one between two calls leaves the kernel as it
\* is, or empty.
LEMMA InputCrashInv == ASSUME InputInv, InputCrash PROVE InputInv'
<1>1. inCall' = NoInCall /\ running' = FALSE /\ vouched' = FALSE
      /\ UNCHANGED <<listening, inState>> /\ torn' = (torn \/ inCall # NoInCall)
  BY DEF InputCrash
<1>2. \/ UNCHANGED <<inChain, inJump>>
      \/ inChain' = NoChain /\ inJump' = FALSE
  BY DEF InputCrash
<1>3. torn' \/ Matches'
  <2>1. CASE inCall = NoInCall
    <3>1. torn \/ Matches
      BY <2>1 DEF InputInv, Progress, NoInCall, InCall
    <3>2. CASE UNCHANGED <<inChain, inJump>>
      BY <1>1, <3>1, <3>2 DEF Matches, Clean
    <3>3. CASE inChain' = NoChain /\ inJump' = FALSE
      BY <3>3 DEF Matches, Clean
    <3> QED
      BY <1>2, <3>2, <3>3
  <2>2. CASE inCall # NoInCall
    BY <1>1, <2>2
  <2> QED
    BY <2>1, <2>2
<1>4. InputTypes'
  BY <1>1, <1>2 DEF InputInv, InputTypes, NoInCall, InCall, Plain, Calls, Stages, States,
                    TCPSets, UDPSets
<1>5. Progress' /\ Aims' /\ Vouching'
  BY <1>1, <1>3 DEF Progress, Aims, Vouching, NoInCall, InCall
<1> QED
  BY <1>1, <1>4, <1>5, Unvouched DEF InputInv

\* ssh moves, and other tools remove the jump, or the chain.
LEMMA HostInv ==
  ASSUME InputInv, (\E ports \in SSHPorts : SSHMoves(ports)) \/ JumpRemoved
  PROVE  InputInv'
<1>1. CASE \E ports \in SSHPorts : SSHMoves(ports)
  <2>1. /\ listening' \in TCPSets /\ vouched' = FALSE
        /\ UNCHANGED <<inChain, inJump, inState, inCall, running, torn>>
    BY <1>1 DEF SSHMoves, TCPSets
  <2>2. InputTypes' /\ Progress' /\ Aims' /\ Vouching'
    BY <2>1 DEF InputInv, InputTypes, Progress, Aims, Vouching, Matches, Clean, Undoing
  <2> QED
    BY <2>1, <2>2, Unvouched DEF InputInv
<1>2. CASE JumpRemoved
  <2>1. /\ inCall = NoInCall /\ inJump' = FALSE /\ inChain' \in {inChain, NoChain}
        /\ vouched' = FALSE
        /\ UNCHANGED <<listening, inState, inCall, running, torn>>
    BY <1>2 DEF JumpRemoved
  <2>2. torn \/ Matches
    BY <2>1 DEF InputInv, Progress, NoInCall, InCall
  <2>3. torn' \/ Matches'
    BY <2>1, <2>2 DEF Matches, Clean
  <2>4. InputTypes'
    BY <2>1 DEF InputInv, InputTypes
  <2>5. Progress' /\ Aims' /\ Vouching'
    BY <2>1, <2>3 DEF Progress, Aims, Vouching, NoInCall, InCall
  <2> QED
    BY <2>1, <2>4, <2>5, Unvouched DEF InputInv
<1> QED
  BY <1>1, <1>2

-----------------------------------------------------------------------------
\* Every step keeps the invariant.
LEMMA InputStepInv == ASSUME InputInv, [InputNext]_inputVars PROVE InputInv'
<1>1. CASE InputNext
  BY <1>1, CallsBegin, ReplaceChainInv, InsertJumpInv, RemoveJumpInv, RemoveInChainInv,
     SaveInputInv, StepFailsInv, InputCrashInv, HostInv DEF InputNext
<1>2. CASE UNCHANGED inputVars
  BY <1>2 DEF inputVars, InputInv, InputTypes, Progress, Aims, Vouching, HiddenIsReachable,
              PlainIsOpen, Matches, Clean, Undoing
<1> QED
  BY <1>1, <1>2

\* The inductive invariant of the inbound firewall: at every stage of a call the
\* chain, the jump and the state file are as far apart as the stage allows, and
\* further only after a call that was cut off (reconciler.go:182-221, hidden.go).
THEOREM InputSafety == InputSpec => []InputInv
<1>1. InputInv /\ [InputNext]_inputVars => InputInv'
  BY InputStepInv
<1> QED
  BY InputInitInv, <1>1, PTL DEF InputSpec

\* A hidden node whose last call, or minute's check, reports success has its
\* chain in force and is reachable (hidden.go, EnsureInputFirewall and
\* applyInputFirewall).
THEOREM HiddenStaysReachable == InputSpec => []HiddenIsReachable
<1>1. InputInv => HiddenIsReachable
  BY DEF InputInv
<1> QED
  BY InputSafety, <1>1, PTL

\* A plain node whose last call reports success has no inbound firewall, unless a
\* call was cut off (reconciler.go:205-209, removeInputFirewall).
THEOREM PlainStaysOpen == InputSpec => []PlainIsOpen
<1>1. InputInv => PlainIsOpen
  BY DEF InputInv
<1> QED
  BY InputSafety, <1>1, PTL

-----------------------------------------------------------------------------
(* Least elements, from the order of finite sets                           *)

\* Every set of naturals that is not empty has a least element.
LEMMA LeastElement ==
  ASSUME NEW T \in SUBSET Nat, T # {}
  PROVE  \E x \in T : \A y \in T : x <= y
<1> DEFINE R == StrictSubsetOrdering(Nat)
           F == {A \in SUBSET Nat : \E t \in T : A = 0 .. t}
<1>1. IsWellFoundedOn(R, FiniteSubsetsOf(Nat))
  BY FS_StrictSubsetOrderingWellFounded
<1>2. F \subseteq FiniteSubsetsOf(Nat)
  BY FS_Interval DEF FiniteSubsetsOf
<1>3. F # {}
  <2>1. PICK t \in T : TRUE
    OBVIOUS
  <2>2. 0 .. t \in F
    OBVIOUS
  <2>3. QED BY <2>2
<1>4. \A A, B \in F : <<A, B>> \in R <=> A \subseteq B /\ A # B
  BY DEF StrictSubsetOrdering
<1> HIDE DEF R
<1>5. PICK A \in F : \A B \in F : ~(<<B, A>> \in R)
  <2> HIDE DEF F
  <2>1. QED BY <1>1, <1>2, <1>3, WFMin
<1>6. PICK t \in T : A = 0 .. t
  OBVIOUS
<1>7. ASSUME NEW y \in T, y < t PROVE FALSE
  <2>1. 0 .. y \in F
    OBVIOUS
  <2>2. 0 .. y \subseteq 0 .. t /\ t \in 0 .. t /\ t \notin 0 .. y
    BY <1>7
  <2> HIDE DEF F
  <2>3. <<0 .. y, A>> \in R
    BY <1>4, <1>6, <2>1, <2>2
  <2>4. QED BY <1>5, <2>1, <2>3
<1>8. QED BY <1>7

-----------------------------------------------------------------------------
(* Free slots                                                              *)

\* From any slot the probes of a listener come round to every slot.
LEMMA ProbeFacts ==
  ASSUME NEW l \in ListenerIds
  PROVE  /\ \A i \in 0 .. RateSlots - 1 : Probe(l, i) \in 1 .. RateSlots
         /\ \A s \in 1 .. RateSlots : \E i \in 0 .. RateSlots - 1 : Probe(l, i) = s
<1> DEFINE h == Hash[l]
           n == RateSlots
<1>1. n \in Nat \ {0} /\ h \in 1 .. n
  BY LimitsConstants DEF LimitsConstants
<1> HIDE DEF h, n
<1>2. ASSUME NEW i \in 0 .. n - 1
      PROVE  (h + i - 1) % n = IF h + i <= n THEN h + i - 1 ELSE h + i - 1 - n
  BY <1>1
<1>3. \A i \in 0 .. n - 1 : Probe(l, i) = IF h + i <= n THEN h + i ELSE h + i - n
  <2> TAKE i \in 0 .. n - 1
  <2>1. Probe(l, i) = ((h + i - 1) % n) + 1
    BY DEF Probe, h, n
  <2>2. QED BY <1>1, <1>2, <2>1
<1>4. \A i \in 0 .. n - 1 : Probe(l, i) \in 1 .. n
  BY <1>1, <1>3
<1>5. ASSUME NEW s \in 1 .. n
      PROVE  \E i \in 0 .. n - 1 : Probe(l, i) = s
  <2> DEFINE i == IF s >= h THEN s - h ELSE s - h + n
  <2>1. i \in 0 .. n - 1 /\ (IF h + i <= n THEN h + i ELSE h + i - n) = s
    BY <1>1
  <2>2. QED BY <1>3, <2>1
<1>6. QED BY <1>4, <1>5 DEF n

\* As long as fewer slots are used than there are, FreeSlot finds one that is not.
LEMMA FreeSlotFacts ==
  ASSUME NEW l \in ListenerIds, NEW used, IsFiniteSet(used), Cardinality(used) < RateSlots
  PROVE  FreeSlot(l, used) \in 1 .. RateSlots \ used
<1> DEFINE T == {i \in 0 .. RateSlots - 1 : Probe(l, i) \notin used}
           First(i) == Probe(l, i) \notin used /\ \A j \in 0 .. i - 1 : Probe(l, j) \in used
<1>1. RateSlots \in Nat \ {0}
  BY LimitsConstants DEF LimitsConstants
<1>2. T # {}
  <2>1. SUFFICES ASSUME \A i \in 0 .. RateSlots - 1 : Probe(l, i) \in used
                 PROVE  FALSE
    OBVIOUS
  <2>2. 1 .. RateSlots \in SUBSET used
    BY <2>1, ProbeFacts
  <2>3. Cardinality(1 .. RateSlots) <= Cardinality(used)
    BY <2>2, FS_Subset
  <2>4. Cardinality(1 .. RateSlots) = RateSlots
    BY <1>1, FS_Interval
  <2>5. Cardinality(used) \in Nat
    BY FS_CardinalityType
  <2>6. QED BY <1>1, <2>3, <2>4, <2>5
<1>3. T \in SUBSET Nat
  OBVIOUS
<1>4. PICK x \in T : \A y \in T : x <= y
  <2> HIDE DEF T
  <2>1. QED BY <1>2, <1>3, LeastElement
<1>5. x \in 0 .. RateSlots - 1 /\ First(x)
  BY <1>1, <1>4
<1> DEFINE i == CHOOSE i \in 0 .. RateSlots - 1 : First(i)
<1>6. FreeSlot(l, used) = Probe(l, i)
  BY DEF FreeSlot
<1>7. i \in 0 .. RateSlots - 1 /\ First(i)
  <2> HIDE DEF First
  <2>1. QED BY <1>5
<1>8. Probe(l, i) \notin used
  BY <1>7
<1> HIDE DEF i
<1>9. QED BY <1>6, <1>7, <1>8, ProbeFacts

-----------------------------------------------------------------------------
(* Slots of a set of ids                                                   *)

\* The ids that are served before l.
Before(ids, l) == {k \in ids : k < l}

\* f gives the ids below n what allocateRateSlots would.
Allocates(ids, n, f) ==
  /\ f = [l \in Before(ids, n) |-> f[l]]
  /\ \A l \in Before(ids, n) : f[l] = FreeSlot(l, {f[k] : k \in Before(ids, l)})

\* Two allocations agree as far as both go.
LEMMA OneAllocation ==
  ASSUME NEW ids \in SUBSET Nat, NEW m \in Nat, NEW n \in Nat, NEW f, NEW g,
         Allocates(ids, m, f), Allocates(ids, n, g),
         NEW d \in ids, d < m, d < n
  PROVE  f[d] = g[d]
<1> DEFINE T == {l \in ids : l < m /\ l < n /\ f[l] # g[l]}
<1>1. SUFFICES ASSUME T # {} PROVE FALSE
  OBVIOUS
<1>2. PICK x \in T : \A y \in T : x <= y
  <2>1. T \in SUBSET Nat
    OBVIOUS
  <2> HIDE DEF T
  <2>2. QED BY <1>1, <2>1, LeastElement
<1>3. \A k \in Before(ids, x) : f[k] = g[k]
  BY <1>2 DEF Before
<1>4. {f[k] : k \in Before(ids, x)} = {g[k] : k \in Before(ids, x)}
  BY <1>3
<1>5. x \in Before(ids, m) /\ x \in Before(ids, n)
  BY DEF Before
<1>6. /\ f[x] = FreeSlot(x, {f[k] : k \in Before(ids, x)})
      /\ g[x] = FreeSlot(x, {g[k] : k \in Before(ids, x)})
  BY <1>5 DEF Allocates
<1>7. f[x] = g[x]
  BY <1>4, <1>6
<1>8. QED BY <1>7

\* However far, there is one.
LEMMA AllocationExists ==
  ASSUME NEW ids \in SUBSET Nat, NEW n \in Nat
  PROVE  \E f : Allocates(ids, n, f)
<1> DEFINE T == {i \in Nat : ~\E f : Allocates(ids, i, f)}
<1>1. SUFFICES ASSUME T # {} PROVE FALSE
  OBVIOUS
<1>2. PICK m \in T : \A y \in T : m <= y
  <2>1. T \in SUBSET Nat
    OBVIOUS
  <2> HIDE DEF T
  <2>2. QED BY <1>1, <2>1, LeastElement
<1>3. SUFFICES \E f : Allocates(ids, m, f)
  OBVIOUS
<1>4. CASE m = 0
  <2>1. Before(ids, 0) = {}
    <3>1. \A k \in ids : k \in Nat
      OBVIOUS
    <3>2. \A k \in Nat : ~(k < 0)
      OBVIOUS
    <3>3. QED BY <3>1, <3>2 DEF Before
  <2>2. PICK f : f = [l \in Before(ids, 0) |-> 0]
    OBVIOUS
  <2>3. f = [l \in Before(ids, 0) |-> f[l]]
    BY <2>2
  <2>4. Allocates(ids, 0, f)
    BY <2>1, <2>3 DEF Allocates
  <2>5. QED BY <1>4, <2>4
<1>5. CASE m # 0
  <2> DEFINE p == m - 1
  <2>1. p \in Nat /\ p \notin T /\ m = p + 1
    BY <1>2, <1>5
  <2>2. PICK f : Allocates(ids, p, f)
    BY <2>1
  <2> HIDE DEF p
  <2> DEFINE g == [l \in Before(ids, m) |->
                     IF l = p THEN FreeSlot(l, {f[k] : k \in Before(ids, l)}) ELSE f[l]]
  <2>3. \A l \in Before(ids, m) : l = p \/ l \in Before(ids, p)
    BY <2>1 DEF Before
  <2>4. \A l \in Before(ids, m) : \A k \in Before(ids, l) :
          k \in Before(ids, m) /\ k # p /\ k \in Before(ids, p)
    BY <2>1 DEF Before
  <2>5. \A l \in Before(ids, m) : \A k \in Before(ids, l) : g[k] = f[k]
    BY <2>4
  <2>6. ASSUME NEW l \in Before(ids, m)
        PROVE  {g[k] : k \in Before(ids, l)} = {f[k] : k \in Before(ids, l)}
    <3> HIDE DEF g
    <3>1. QED BY <2>5
  <2>7. ASSUME NEW l \in Before(ids, m)
        PROVE  g[l] = FreeSlot(l, {f[k] : k \in Before(ids, l)})
    <3>1. CASE l = p
      BY <3>1
    <3>2. CASE l # p
      <4>1. l \in Before(ids, p)
        BY <2>3, <3>2
      <4>2. f[l] = FreeSlot(l, {f[k] : k \in Before(ids, l)})
        BY <2>2, <4>1 DEF Allocates
      <4>3. g[l] = f[l]
        BY <3>2
      <4>4. QED BY <4>2, <4>3
    <3>3. QED BY <3>1, <3>2
  <2>8. g = [l \in Before(ids, m) |-> g[l]]
    OBVIOUS
  <2> HIDE DEF g
  <2>9. \A l \in Before(ids, m) : g[l] = FreeSlot(l, {g[k] : k \in Before(ids, l)})
    BY <2>6, <2>7
  <2>10. Allocates(ids, m, g)
    BY <2>8, <2>9 DEF Allocates
  <2>11. QED BY <2>10
<1>6. QED BY <1>4, <1>5

\* What the recursive function of SlotsOf computes.
LEMMA SlotsEquation ==
  ASSUME NEW ids \in SUBSET Nat
  PROVE  /\ DOMAIN SlotsOf(ids) = ids
         /\ \A l \in ids :
              SlotsOf(ids)[l] = FreeSlot(l, {SlotsOf(ids)[k] : k \in Before(ids, l)})
<1> DEFINE Is(f) == f = [l \in ids |-> FreeSlot(l, {f[k] : k \in Before(ids, l)})]
           part(n) == CHOOSE f : Allocates(ids, n, f)
           all == [l \in ids |-> part(l + 1)[l]]
<1>1. \A n \in Nat : Allocates(ids, n, part(n))
  BY AllocationExists
<1>2. ASSUME NEW l \in ids
      PROVE  part(l + 1)[l] = FreeSlot(l, {all[k] : k \in Before(ids, l)})
  <2> DEFINE f == part(l + 1)
  <2>1. Allocates(ids, l + 1, f) /\ l + 1 \in Nat /\ l \in Nat
    BY <1>1
  <2> HIDE DEF f
  <2>2. ASSUME NEW k \in Before(ids, l)
        PROVE  all[k] = f[k]
    <3>1. k \in ids /\ k \in Nat /\ k < l
      BY DEF Before
    <3>2. Allocates(ids, k + 1, part(k + 1)) /\ k + 1 \in Nat
      BY <1>1, <3>1
    <3>3. all[k] = part(k + 1)[k]
      BY <3>1
    <3> HIDE DEF part, all
    <3>4. k < k + 1 /\ k < l + 1
      BY <2>1, <3>1
    <3>5. part(k + 1)[k] = f[k]
      BY <2>1, <3>1, <3>2, <3>4, OneAllocation
    <3>6. QED BY <3>3, <3>5
  <2>3. {all[k] : k \in Before(ids, l)} = {f[k] : k \in Before(ids, l)}
    <3> HIDE DEF all
    <3>1. QED BY <2>2
  <2>4. l \in Before(ids, l + 1)
    BY <2>1 DEF Before
  <2>5. f[l] = FreeSlot(l, {f[k] : k \in Before(ids, l)})
    BY <2>1, <2>4 DEF Allocates
  <2> HIDE DEF all
  <2>6. f[l] = FreeSlot(l, {all[k] : k \in Before(ids, l)})
    BY <2>3, <2>5
  <2>7. QED BY <2>6 DEF f
<1>3. Is(all)
  <2>1. all = [l \in ids |-> part(l + 1)[l]]
    OBVIOUS
  <2> HIDE DEF all, part
  <2>2. QED BY <1>2, <2>1
<1>4. SlotsOf(ids) = CHOOSE f : Is(f)
  BY DEF SlotsOf, Before
<1>5. Is(SlotsOf(ids))
  <2> HIDE DEF Is, all
  <2>1. QED BY <1>3, <1>4
<1> DEFINE slot == SlotsOf(ids)
<1>6. slot = [l \in ids |-> FreeSlot(l, {slot[k] : k \in Before(ids, l)})]
  BY <1>5
<1> HIDE DEF slot
<1>7. DOMAIN slot = ids /\ \A l \in ids : slot[l] = FreeSlot(l, {slot[k] : k \in Before(ids, l)})
  BY <1>6
<1>8. QED BY <1>7 DEF slot

\* allocateRateSlots gives any listeners that are not more than the slots slots of
\* their own, whatever their hashes: no two are policed by one policer.
THEOREM SlotsDiffer ==
  ASSUME NEW ids \in SUBSET ListenerIds, Cardinality(ids) <= RateSlots
  PROVE  /\ DOMAIN SlotsOf(ids) = ids
         /\ \A l \in ids : SlotsOf(ids)[l] \in 1 .. RateSlots
         /\ \A k, l \in ids : k # l => SlotsOf(ids)[k] # SlotsOf(ids)[l]
<1> DEFINE slot == SlotsOf(ids)
           used(l) == {slot[k] : k \in Before(ids, l)}
<1>1. /\ ids \in SUBSET Nat /\ IsFiniteSet(ids) /\ RateSlots \in Nat
      /\ Cardinality(ids) \in Nat
  <2>1. ids \in SUBSET Nat /\ IsFiniteSet(ListenerIds) /\ RateSlots \in Nat
    BY LimitsConstants DEF LimitsConstants
  <2>2. IsFiniteSet(ids)
    BY <2>1, FS_Subset
  <2>3. QED BY <2>1, <2>2, FS_CardinalityType
<1>2. DOMAIN slot = ids /\ \A l \in ids : slot[l] = FreeSlot(l, used(l))
  BY <1>1, SlotsEquation
<1> HIDE DEF slot
<1>3. ASSUME NEW l \in ids
      PROVE  slot[l] \in 1 .. RateSlots \ used(l)
  <2> DEFINE B == Before(ids, l)
             f == [k \in B |-> slot[k]]
  <2>1. B \in SUBSET (ids \ {l})
    BY <1>1 DEF Before
  <2>2. IsFiniteSet(ids \ {l}) /\ Cardinality(ids \ {l}) = Cardinality(ids) - 1
    BY <1>1, FS_RemoveElement
  <2>3. IsFiniteSet(B) /\ Cardinality(B) <= Cardinality(ids \ {l})
    <3> HIDE DEF B
    <3>1. QED BY <2>1, <2>2, FS_Subset
  <2>4. f \in Surjection(B, used(l))
    BY DEF Surjection
  <2>5. IsFiniteSet(used(l)) /\ Cardinality(used(l)) <= Cardinality(B)
    <3> DEFINE U == used(l)
    <3>1. f \in Surjection(B, U)
      BY <2>4
    <3> HIDE DEF B, f, U
    <3>2. IsFiniteSet(U) /\ Cardinality(U) <= Cardinality(B)
      BY <2>3, <3>1, FS_Surjection
    <3>3. QED BY <3>2 DEF U
  <2>6. Cardinality(B) \in Nat /\ Cardinality(used(l)) \in Nat
    BY <2>3, <2>5, FS_CardinalityType
  <2> HIDE DEF B, f
  <2>7. Cardinality(used(l)) < RateSlots
    BY <1>1, <2>2, <2>3, <2>5, <2>6
  <2>8. l \in ListenerIds
    OBVIOUS
  <2>9. FreeSlot(l, used(l)) \in 1 .. RateSlots \ used(l)
    <3> HIDE DEF used
    <3>1. QED BY <2>5, <2>7, <2>8, FreeSlotFacts
  <2>10. slot[l] = FreeSlot(l, used(l))
    BY <1>2
  <2>11. QED BY <2>9, <2>10
<1>4. ASSUME NEW k \in ids, NEW l \in ids, k < l
      PROVE  slot[k] # slot[l]
  <2>1. slot[k] \in used(l)
    BY <1>4 DEF Before
  <2>2. QED BY <1>3, <2>1
<1>5. ASSUME NEW k \in ids, NEW l \in ids, k # l
      PROVE  slot[k] # slot[l]
  <2>1. k < l \/ l < k
    BY <1>1, <1>5
  <2>2. QED BY <1>4, <2>1
<1>6. QED BY <1>2, <1>3, <1>5 DEF slot

-----------------------------------------------------------------------------
(* Rate limits: the inductive invariant                                    *)

\* The controls of l in slot s, and that controls limit l there at rate.
Keys(routes, l, s) == {<<routes[l], s, "original">>, <<ClientDevice, s, "reply">>}
Police(controls, routes, l, s, rate) ==
  \A key \in Keys(routes, l, s) : key \in DOMAIN controls /\ controls[key] = rate

\* What a call or the state file may limit, or nothing.
Wanted == Profiled \cup {None}

\* The controls and the marks of limits.
ControlsFit(controls, routes, limits) ==
  /\ (DOMAIN controls = {}) <=> (DOMAIN limits = {})
  /\ \A l \in DOMAIN limits :
       Police(controls, routes, l, SlotsOf(DOMAIN limits)[l], limits[l])
MarksFit(marks, limits) ==
  /\ DOMAIN marks = DOMAIN limits
  /\ \A l \in DOMAIN limits : marks[l] = SlotsOf(DOMAIN limits)[l]
InPlace(marks, controls, routes, limits) ==
  /\ MarksFit(marks, limits)
  /\ \A l \in DOMAIN limits :
       Police(controls, routes, l, SlotsOf(DOMAIN limits)[l], limits[l])

\* A listener that both limits give one rate and one slot.
Stays(l, before, after) ==
  /\ l \in DOMAIN before /\ l \in DOMAIN after /\ before[l] = after[l]
  /\ SlotsOf(DOMAIN before)[l] = SlotsOf(DOMAIN after)[l]

JobFields == {"call", "stage", "limits", "controls", "old", "left", "wanted"}

LimitsTypes ==
  /\ state.limits \in Wanted
  /\ (DOMAIN state.controls = {}) <=> (DOMAIN state.limits = {})
  /\ DOMAIN job = JobFields
  /\ job.limits \in Wanted /\ job.wanted \in Wanted
  /\ settled \in {"in place", "leaving", "no"}

\* How far a call has got, stage by stage.
Progressed ==
  /\ \/ job = Waiting
     \/ /\ job.call \in {"reconcile", "rollback", "restore"}
        /\ job.stage \in {"install", "delete", "end"}
  /\ job.stage \in {"install", "delete"} => ControlsFit(job.controls, route, job.limits)
  /\ job.stage = "end" => job.limits = None /\ job.controls = None
  /\ job.stage = "install" =>
       \A key \in (DOMAIN job.controls) \ job.left :
         key \in DOMAIN policers /\ policers[key] = job.controls[key]
  /\ job.stage = "delete" =>
       /\ MarksFit(chain, job.limits)
       /\ \A key \in job.left : key \notin DOMAIN job.controls
       /\ \A key \in DOMAIN job.controls :
            key \in DOMAIN policers /\ policers[key] = job.controls[key]
  /\ job.call = "rollback" => job.limits = state.limits

\* A call that leaves limits that are in place has the marks of before or those
\* it wants, and never drops a policer that both have.
Leaving ==
  /\ job.call \in {"reconcile", "rollback"}
  /\ job.call = "reconcile" => job.wanted = job.limits
  /\ job.stage = "end" => DOMAIN chain = {} /\ DOMAIN state.limits = {}
  /\ job.stage = "install" =>
       MarksFit(chain, state.limits) \/ (job.call = "rollback" /\ MarksFit(chain, job.wanted))
  /\ job.stage # "end" =>
       \A l \in DOMAIN state.limits : Stays(l, state.limits, job.wanted) =>
         Police(policers, route, l, SlotsOf(DOMAIN state.limits)[l], state.limits[l])

LimitsInv ==
  /\ LimitsTypes /\ Progressed
  /\ settled = "in place" => job = Waiting /\ InPlace(chain, policers, route, state.limits)
  /\ settled = "leaving" => Leaving

\* Profiles, and the absence of limits, have slots enough for their listeners.
LEMMA WantedFacts ==
  ASSUME NEW limits \in Wanted
  PROVE  /\ DOMAIN limits \in SUBSET ListenerIds
         /\ Cardinality(DOMAIN limits) <= RateSlots
         /\ DOMAIN None = {}
<1>1. DOMAIN None = {}
  BY DEF None
<1>2. CASE limits \in Profiled
  BY <1>1, <1>2, LimitsConstants DEF LimitsConstants
<1>3. CASE limits = None
  BY <1>1, <1>3, FS_EmptySet, LimitsConstants DEF LimitsConstants
<1>4. QED BY <1>1, <1>2, <1>3 DEF Wanted

\* buildTrafficControls gives every listener its two controls at its own rate.
LEMMA BuiltControls ==
  ASSUME NEW limits \in Wanted
  PROVE  ControlsFit(Controls(limits), route, limits)
<1> DEFINE slot == SlotsOf(DOMAIN limits)
           all == UNION {Keys(route, l, slot[l]) : l \in DOMAIN limits}
           rate(key) == limits[CHOOSE l \in DOMAIN limits : slot[l] = key[2]]
           built == [key \in all |-> rate(key)]
<1>1. Controls(limits) = built
  BY DEF Controls, Keys
<1>2. \A k, l \in DOMAIN limits : slot[k] = slot[l] => k = l
  BY WantedFacts, SlotsDiffer
<1> HIDE DEF slot
<1>3. ASSUME NEW l \in DOMAIN limits, NEW key \in Keys(route, l, slot[l])
      PROVE  key \in DOMAIN built /\ built[key] = limits[l]
  <2>1. key \in all
    OBVIOUS
  <2>2. key[2] = slot[l]
    BY DEF Keys
  <2>3. (CHOOSE k \in DOMAIN limits : slot[k] = key[2]) = l
    BY <1>2, <2>2
  <2>4. rate(key) = limits[l]
    BY <2>3
  <2> HIDE DEF rate, all
  <2>5. QED BY <2>1, <2>4
<1>4. DOMAIN built = {} <=> DOMAIN limits = {}
  <2>1. \A l \in DOMAIN limits : <<route[l], slot[l], "original">> \in all
    BY DEF Keys
  <2>2. DOMAIN built = all
    OBVIOUS
  <2>3. DOMAIN limits = {} => all = {}
    OBVIOUS
  <2> HIDE DEF built, all
  <2>4. QED BY <2>1, <2>2, <2>3
<1> HIDE DEF built
<1>5. QED BY <1>1, <1>3, <1>4 DEF ControlsFit, Police, slot

\* Limits in place limit every listener as LimitsExact and LimitKept say.
LEMMA MarkedIsLimited ==
  ASSUME NEW limits \in Wanted, MarksFit(chain, limits), NEW l \in DOMAIN limits, NEW rate,
         Police(policers, route, l, SlotsOf(DOMAIN limits)[l], rate)
  PROVE  Limited(l, rate)
<1> DEFINE slot == SlotsOf(DOMAIN limits)
<1>1. \A k, m \in DOMAIN limits : slot[k] = slot[m] => k = m
  BY WantedFacts, SlotsDiffer
<1>2. DOMAIN chain = DOMAIN limits /\ \A k \in DOMAIN limits : chain[k] = slot[k]
  BY DEF MarksFit
<1>3. \A key \in Keys(route, l, slot[l]) : key \in DOMAIN policers /\ policers[key] = rate
  BY DEF Police
<1> HIDE DEF slot
<1>4. QED BY <1>1, <1>2, <1>3 DEF Limited, Keys

-----------------------------------------------------------------------------
(* Rate limits: the actions keep the invariant                             *)

LEMMA LimitsInitInv == LimitsInit => LimitsInv
<1> SUFFICES ASSUME LimitsInit PROVE LimitsInv
  OBVIOUS
<1>1. DOMAIN None = {} /\ None \in Wanted
  BY DEF None, Wanted
<1>2. /\ job = Waiting /\ settled = "in place" /\ chain = None
      /\ state.limits = None /\ state.controls = None
  BY DEF LimitsInit
<1>3. LimitsTypes
  BY <1>1, <1>2 DEF LimitsTypes, Waiting, JobFields
<1>4. Progressed
  BY <1>2 DEF Progressed, Waiting
<1>5. InPlace(chain, policers, route, state.limits)
  BY <1>1, <1>2 DEF InPlace, MarksFit
<1>6. QED BY <1>2, <1>3, <1>4, <1>5 DEF LimitsInv

\* A call that begins has all its controls before it.
LEMMA CallBegins ==
  ASSUME LimitsInv, NEW call \in {"reconcile", "rollback", "restore"}, NEW limits \in Wanted,
         NEW old, NEW wanted \in Wanted, job' = Job(call, limits, old, wanted),
         UNCHANGED <<policers, chain, route, state>>,
         call = "rollback" => limits = state.limits,
         settled' \in {"in place", "leaving", "no"}
  PROVE  LimitsTypes' /\ Progressed'
<1>1. /\ DOMAIN job' = JobFields /\ job'.call = call
      /\ IF old = {} /\ limits = None
         THEN /\ job'.stage = "end" /\ job'.limits = None /\ job'.controls = None
              /\ job'.wanted = None /\ job'.left = {}
         ELSE /\ job'.stage = "install" /\ job'.limits = limits /\ job'.wanted = wanted
              /\ job'.controls = Controls(limits) /\ job'.left = DOMAIN Controls(limits)
  BY DEF Job, Waiting, JobFields
<1>2. None \in Wanted /\ ControlsFit(Controls(limits), route, limits)
  BY BuiltControls DEF Wanted
<1>3. LimitsTypes'
  BY <1>1, <1>2 DEF LimitsInv, LimitsTypes
<1>4. Progressed'
  BY <1>1, <1>2 DEF Progressed
<1>5. QED BY <1>3, <1>4

LEMMA ApplyInv ==
  ASSUME LimitsInv, NEW limits \in Profiled, Apply(limits)
  PROVE  LimitsInv'
<1>1. /\ job = Waiting /\ job' = Job("reconcile", limits, DOMAIN state.controls, limits)
      /\ settled' = IF settled = "in place" THEN "leaving" ELSE "no"
      /\ UNCHANGED <<policers, chain, route, state>>
  BY DEF Apply
<1>2. limits \in Wanted
  BY DEF Wanted
<1>3. LimitsTypes' /\ Progressed'
  BY <1>1, <1>2, CallBegins
<1>4. ASSUME settled' = "leaving"
      PROVE  Leaving'
  <2>1. /\ job'.call = "reconcile"
        /\ IF DOMAIN state.controls = {} /\ limits = None
           THEN job'.stage = "end" /\ job'.limits = None /\ job'.wanted = None
           ELSE job'.stage = "install" /\ job'.limits = limits /\ job'.wanted = limits
    BY <1>1 DEF Job, Waiting
  <2>2. /\ MarksFit(chain, state.limits)
        /\ \A l \in DOMAIN state.limits :
             Police(policers, route, l, SlotsOf(DOMAIN state.limits)[l], state.limits[l])
    BY <1>1, <1>4 DEF LimitsInv, InPlace
  <2>3. DOMAIN chain = DOMAIN state.limits
    BY <2>2 DEF MarksFit
  <2>4. DOMAIN state.controls = {} <=> DOMAIN state.limits = {}
    BY DEF LimitsInv, LimitsTypes
  <2>5. QED BY <1>1, <2>1, <2>2, <2>3, <2>4 DEF Leaving
<1>5. settled' # "in place"
  BY <1>1
<1>6. QED BY <1>3, <1>4, <1>5 DEF LimitsInv

\* The fields of a call that goes on in its stage.
LEMMA LeftFacts ==
  ASSUME LimitsInv, NEW left, job' = [job EXCEPT !.left = left]
  PROVE  /\ DOMAIN job' = JobFields /\ job'.left = left
         /\ job'.call = job.call /\ job'.stage = job.stage /\ job'.limits = job.limits
         /\ job'.controls = job.controls /\ job'.wanted = job.wanted /\ job'.old = job.old
<1>1. DOMAIN job = JobFields
  BY DEF LimitsInv, LimitsTypes
<1>2. QED BY <1>1 DEF JobFields

\* A waiting call has no stage.
LEMMA BusyFacts ==
  ASSUME LimitsInv, job.stage # "none"
  PROVE  /\ job # Waiting /\ settled # "in place"
         /\ job.call \in {"reconcile", "rollback", "restore"}
         /\ job.stage \in {"install", "delete", "end"}
<1>1. job # Waiting
  BY DEF Waiting
<1>2. QED BY <1>1 DEF LimitsInv, Progressed

\* A listener that stays as it is has its controls among those of the call.
LEMMA StayingControls ==
  ASSUME LimitsInv, Leaving, job.stage \in {"install", "delete"},
         NEW l \in DOMAIN state.limits, Stays(l, state.limits, job.wanted)
  PROVE  /\ Police(job.controls, route, l, SlotsOf(DOMAIN state.limits)[l], state.limits[l])
         /\ Police(policers, route, l, SlotsOf(DOMAIN state.limits)[l], state.limits[l])
<1>1. job.stage \notin {"none", "end"}
  OBVIOUS
<1>2. /\ l \in DOMAIN job.wanted /\ state.limits[l] = job.wanted[l]
      /\ SlotsOf(DOMAIN state.limits)[l] = SlotsOf(DOMAIN job.wanted)[l]
  BY DEF Stays
<1>3. job.limits = state.limits \/ job.limits = job.wanted
  BY DEF Leaving, LimitsInv, Progressed
<1>4. ControlsFit(job.controls, route, job.limits)
  BY DEF LimitsInv, Progressed
<1>5. Police(job.controls, route, l, SlotsOf(DOMAIN job.limits)[l], job.limits[l])
  BY <1>2, <1>3, <1>4 DEF ControlsFit
<1>6. QED BY <1>1, <1>2, <1>3, <1>5 DEF Leaving

LEMMA InstallControlInv ==
  ASSUME LimitsInv, NEW key \in job.left, InstallControl(key)
  PROVE  LimitsInv'
<1>1. /\ job.stage = "install"
      /\ policers' = [k \in DOMAIN policers \cup {key} |->
                       IF k = key THEN job.controls[key] ELSE policers[k]]
      /\ job' = [job EXCEPT !.left = job.left \ {key}]
      /\ UNCHANGED <<chain, route, state, settled>>
  BY DEF InstallControl
<1>2. /\ DOMAIN job' = JobFields /\ job'.left = job.left \ {key}
      /\ job'.call = job.call /\ job'.stage = job.stage /\ job'.limits = job.limits
      /\ job'.controls = job.controls /\ job'.wanted = job.wanted
  BY <1>1, LeftFacts
<1>3. /\ job.call \in {"reconcile", "rollback", "restore"} /\ settled # "in place"
  BY <1>1, BusyFacts
<1>4. /\ \A k \in DOMAIN policers : k \in DOMAIN policers'
      /\ \A k \in DOMAIN policers : k # key => policers'[k] = policers[k]
      /\ key \in DOMAIN policers' /\ policers'[key] = job.controls[key]
  BY <1>1
<1>5. LimitsTypes'
  BY <1>1, <1>2 DEF LimitsInv, LimitsTypes
<1>6. Progressed'
  <2>1. ASSUME NEW k \in (DOMAIN job.controls) \ (job.left \ {key})
        PROVE  k \in DOMAIN policers' /\ policers'[k] = job.controls[k]
    <3>1. k # key => k \in DOMAIN policers /\ policers[k] = job.controls[k]
      BY <1>1 DEF LimitsInv, Progressed
    <3>2. QED BY <1>4, <3>1
  <2>2. ControlsFit(job.controls, route, job.limits)
        /\ (job.call = "rollback" => job.limits = state.limits)
    BY <1>1 DEF LimitsInv, Progressed
  <2>3. QED BY <1>1, <1>2, <1>3, <2>1, <2>2 DEF Progressed
<1>7. ASSUME settled' = "leaving"
      PROVE  Leaving'
  <2>1. Leaving
    BY <1>1, <1>7 DEF LimitsInv
  <2>2. ASSUME NEW l \in DOMAIN state.limits, Stays(l, state.limits, job.wanted)
        PROVE  Police(policers', route, l, SlotsOf(DOMAIN state.limits)[l], state.limits[l])
    <3> DEFINE s == SlotsOf(DOMAIN state.limits)[l]
               rate == state.limits[l]
    <3>1. Police(job.controls, route, l, s, rate) /\ Police(policers, route, l, s, rate)
      BY <1>1, <2>1, <2>2, StayingControls
    <3> HIDE DEF s, rate
    <3>2. Police(policers', route, l, s, rate)
      BY <1>4, <3>1 DEF Police
    <3>3. QED BY <3>2 DEF s, rate
  <2>3. QED BY <1>1, <1>2, <2>1, <2>2 DEF Leaving
<1>8. QED BY <1>1, <1>3, <1>5, <1>6, <1>7 DEF LimitsInv

LEMMA ApplyMarksInv ==
  ASSUME LimitsInv, ApplyMarks
  PROVE  LimitsInv'
<1>1. /\ job.stage = "install" /\ job.left = {}
      /\ chain' = SlotsOf(DOMAIN job.limits)
      /\ job' = [job EXCEPT !.stage = "delete", !.left = Obsolete(job)]
      /\ UNCHANGED <<policers, route, state, settled>>
  BY DEF ApplyMarks
<1>2. DOMAIN job = JobFields /\ job.limits \in Wanted
  BY DEF LimitsInv, LimitsTypes
<1>3. /\ DOMAIN job' = JobFields /\ job'.left = Obsolete(job) /\ job'.stage = "delete"
      /\ job'.call = job.call /\ job'.limits = job.limits
      /\ job'.controls = job.controls /\ job'.wanted = job.wanted
  BY <1>1, <1>2 DEF JobFields
<1>4. /\ job.call \in {"reconcile", "rollback", "restore"} /\ settled # "in place"
  BY <1>1, BusyFacts
<1>5. MarksFit(chain', job.limits)
  BY <1>1, <1>2, WantedFacts, SlotsDiffer DEF MarksFit
<1>6. LimitsTypes'
  BY <1>1, <1>3 DEF LimitsInv, LimitsTypes
<1>7. Progressed'
  <2>1. /\ ControlsFit(job.controls, route, job.limits)
        /\ job.call = "rollback" => job.limits = state.limits
        /\ \A key \in DOMAIN job.controls :
             key \in DOMAIN policers /\ policers[key] = job.controls[key]
    BY <1>1 DEF LimitsInv, Progressed
  <2>2. \A key \in Obsolete(job) : key \notin DOMAIN job.controls
    BY DEF Obsolete
  <2>3. QED BY <1>1, <1>3, <1>4, <1>5, <2>1, <2>2 DEF Progressed
<1>8. settled' = "leaving" => Leaving'
  BY <1>1, <1>3 DEF LimitsInv, Leaving
<1>9. QED BY <1>1, <1>4, <1>6, <1>7, <1>8 DEF LimitsInv

LEMMA DeleteControlInv ==
  ASSUME LimitsInv, NEW key \in job.left, DeleteControl(key)
  PROVE  LimitsInv'
<1>1. /\ job.stage = "delete"
      /\ policers' = Without(policers, {key})
      /\ job' = [job EXCEPT !.left = job.left \ {key}]
      /\ UNCHANGED <<chain, route, state, settled>>
  BY DEF DeleteControl
<1>2. /\ DOMAIN job' = JobFields /\ job'.left = job.left \ {key}
      /\ job'.call = job.call /\ job'.stage = job.stage /\ job'.limits = job.limits
      /\ job'.controls = job.controls /\ job'.wanted = job.wanted
  BY <1>1, LeftFacts
<1>3. /\ job.call \in {"reconcile", "rollback", "restore"} /\ settled # "in place"
  BY <1>1, BusyFacts
<1>4. \A k \in DOMAIN policers : k # key => k \in DOMAIN policers' /\ policers'[k] = policers[k]
  BY <1>1 DEF Without
<1>5. key \notin DOMAIN job.controls
  BY <1>1 DEF LimitsInv, Progressed
<1>6. LimitsTypes'
  BY <1>1, <1>2 DEF LimitsInv, LimitsTypes
<1>7. Progressed'
  <2>1. ControlsFit(job.controls, route, job.limits) /\ MarksFit(chain, job.limits)
        /\ (job.call = "rollback" => job.limits = state.limits)
    BY <1>1 DEF LimitsInv, Progressed
  <2>2. \A k \in job.left \ {key} : k \notin DOMAIN job.controls
    BY <1>1 DEF LimitsInv, Progressed
  <2>3. \A k \in DOMAIN job.controls : k \in DOMAIN policers /\ policers[k] = job.controls[k]
    BY <1>1 DEF LimitsInv, Progressed
  <2>4. \A k \in DOMAIN job.controls : k \in DOMAIN policers' /\ policers'[k] = job.controls[k]
    BY <1>4, <1>5, <2>3
  <2>5. QED BY <1>1, <1>2, <1>3, <2>1, <2>2, <2>4 DEF Progressed
<1>8. ASSUME settled' = "leaving"
      PROVE  Leaving'
  <2>1. Leaving
    BY <1>1, <1>8 DEF LimitsInv
  <2>2. ASSUME NEW l \in DOMAIN state.limits, Stays(l, state.limits, job.wanted)
        PROVE  Police(policers', route, l, SlotsOf(DOMAIN state.limits)[l], state.limits[l])
    <3> DEFINE s == SlotsOf(DOMAIN state.limits)[l]
               rate == state.limits[l]
    <3>1. Police(job.controls, route, l, s, rate) /\ Police(policers, route, l, s, rate)
      BY <1>1, <2>1, <2>2, StayingControls
    <3> HIDE DEF s, rate
    <3>2. Police(policers', route, l, s, rate)
      BY <1>4, <1>5, <3>1 DEF Police
    <3>3. QED BY <3>2 DEF s, rate
  <2>3. QED BY <1>1, <1>2, <2>1, <2>2 DEF Leaving
<1>9. QED BY <1>1, <1>3, <1>6, <1>7, <1>8 DEF LimitsInv

\* A call that is over leaves its types and no stage.
LEMMA NobodyWaits ==
  ASSUME LimitsTypes, job' = Waiting, settled' \in {"in place", "leaving", "no"},
         state'.limits \in Wanted,
         (DOMAIN state'.controls = {}) <=> (DOMAIN state'.limits = {})
  PROVE  LimitsTypes' /\ Progressed'
<1>1. None \in Wanted
  BY DEF Wanted
<1>2. LimitsTypes'
  BY <1>1 DEF LimitsTypes, Waiting, JobFields
<1>3. Progressed'
  BY DEF Progressed, Waiting
<1>4. QED BY <1>2, <1>3

LEMMA EndCallInv ==
  ASSUME LimitsInv, EndCall
  PROVE  LimitsInv'
<1>1. /\ job.stage \in {"delete", "end"} /\ job.left = {} /\ job' = Waiting
      /\ UNCHANGED <<policers, chain, route>>
  BY DEF EndCall
<1>2. /\ job.call \in {"reconcile", "rollback", "restore"} /\ settled # "in place"
  BY <1>1, BusyFacts
<1>3. /\ LimitsTypes /\ Progressed /\ DOMAIN None = {}
  BY WantedFacts DEF LimitsInv, LimitsTypes
<1>4. CASE settled' = "no" /\ UNCHANGED state
  <2>1. LimitsTypes' /\ Progressed'
    BY <1>1, <1>3, <1>4, NobodyWaits DEF LimitsTypes
  <2>2. QED BY <1>4, <2>1 DEF LimitsInv
<1>5. CASE /\ state' = IF job.call = "rollback" THEN state
                       ELSE [limits |-> job.limits, controls |-> job.controls]
           /\ settled' = IF job.stage = "end" /\ settled = "no" THEN "no" ELSE "in place"
  <2>1. state'.limits = job.limits
    BY <1>3, <1>5 DEF Progressed
  <2>2. (DOMAIN state'.controls = {}) <=> (DOMAIN state'.limits = {})
    <3>1. CASE job.call = "rollback"
      BY <1>3, <1>5, <3>1 DEF LimitsTypes
    <3>2. CASE job.call # "rollback"
      <4>1. state'.controls = job.controls
        BY <1>5, <3>2
      <4>2. CASE job.stage = "end"
        BY <1>3, <2>1, <4>1, <4>2 DEF Progressed
      <4>3. CASE job.stage = "delete"
        BY <1>3, <2>1, <4>1, <4>3 DEF Progressed, ControlsFit
      <4>4. QED BY <1>1, <4>2, <4>3
    <3>3. QED BY <3>1, <3>2
  <2>3. LimitsTypes' /\ Progressed'
    BY <1>1, <1>3, <1>5, <2>1, <2>2, NobodyWaits DEF LimitsTypes
  <2>4. ASSUME settled' = "in place"
        PROVE  InPlace(chain, policers, route, job.limits)
    <3>1. CASE job.stage = "delete"
      <4>1. /\ MarksFit(chain, job.limits) /\ ControlsFit(job.controls, route, job.limits)
            /\ \A key \in DOMAIN job.controls :
                 key \in DOMAIN policers /\ policers[key] = job.controls[key]
        BY <1>3, <3>1 DEF Progressed
      <4>2. QED BY <4>1 DEF InPlace, ControlsFit, Police
    <3>2. CASE job.stage = "end"
      <4>1. settled = "leaving"
        BY <1>2, <1>3, <1>5, <2>4, <3>2 DEF LimitsTypes
      <4>2. DOMAIN chain = {} /\ job.limits = None
        BY <1>3, <3>2, <4>1 DEF LimitsInv, Leaving, Progressed
      <4>3. QED BY <1>3, <4>2 DEF InPlace, MarksFit
    <3>3. QED BY <1>1, <3>1, <3>2
  <2>5. settled' # "leaving"
    BY <1>5
  <2>6. QED BY <1>1, <2>1, <2>3, <2>4, <2>5 DEF LimitsInv
<1>6. QED BY <1>4, <1>5 DEF EndCall

LEMMA CommandRefusedInv ==
  ASSUME LimitsInv, CommandRefused
  PROVE  LimitsInv'
<1>1. /\ job.stage \in {"install", "delete"}
      /\ settled' = IF job.call = "reconcile" THEN settled ELSE "no"
      /\ UNCHANGED <<policers, chain, route, state>>
  BY DEF CommandRefused
<1>2. PICK built : /\ job' = AfterRefusal(built)
                   /\ \/ built = DOMAIN job.controls
                      \/ built = {} /\ job.left = DOMAIN job.controls
  BY DEF CommandRefused
<1>3. /\ job.call \in {"reconcile", "rollback", "restore"} /\ settled # "in place"
  BY <1>1, BusyFacts
<1>4. LimitsTypes /\ Progressed /\ DOMAIN None = {}
  BY WantedFacts DEF LimitsInv, LimitsTypes
<1>5. CASE job.call # "reconcile"
  <2>1. job' = Waiting
    BY <1>2, <1>5 DEF AfterRefusal
  <2>2. LimitsTypes' /\ Progressed'
    BY <1>1, <1>4, <2>1, NobodyWaits DEF LimitsTypes
  <2>3. QED BY <1>1, <1>5, <2>2 DEF LimitsInv
<1>6. CASE job.call = "reconcile"
  <2>1. job' = Job("rollback", state.limits, built, job.wanted)
    BY <1>2, <1>6 DEF AfterRefusal
  <2>2. state.limits \in Wanted /\ job.wanted \in Wanted
    BY <1>4 DEF LimitsTypes
  <2>3. LimitsTypes' /\ Progressed'
    BY <1>1, <1>4, <1>6, <2>1, <2>2, CallBegins DEF LimitsTypes
  <2>4. /\ job'.call = "rollback"
        /\ IF built = {} /\ state.limits = None
           THEN job'.stage = "end"
           ELSE /\ job'.stage = "install" /\ job'.limits = state.limits
                /\ job'.wanted = job.wanted
    BY <2>1 DEF Job, Waiting
  <2>5. ASSUME settled' = "leaving"
        PROVE  Leaving'
    <3>1. Leaving /\ job.wanted = job.limits
      BY <1>1, <1>6, <2>5 DEF LimitsInv, Leaving
    <3>2. MarksFit(chain, state.limits) \/ MarksFit(chain, job.wanted)
      BY <1>1, <1>4, <3>1 DEF Leaving, Progressed
    <3>3. ASSUME built = {}, state.limits = None
          PROVE  DOMAIN chain = {}
      <4>1. CASE job.stage = "install"
        BY <1>4, <1>6, <3>1, <3>3, <4>1 DEF Leaving, MarksFit
      <4>2. CASE job.stage = "delete"
        <5>1. /\ MarksFit(chain, job.limits) /\ ControlsFit(job.controls, route, job.limits)
              /\ \A key \in job.left : key \notin DOMAIN job.controls
          BY <1>4, <4>2 DEF Progressed
        <5>2. DOMAIN job.controls = {}
          BY <1>2, <3>3, <5>1
        <5>3. QED BY <5>1, <5>2 DEF MarksFit, ControlsFit
      <4>3. QED BY <1>1, <4>1, <4>2
    <3>4. \A l \in DOMAIN state.limits : Stays(l, state.limits, job.wanted) =>
            Police(policers, route, l, SlotsOf(DOMAIN state.limits)[l], state.limits[l])
      BY <1>1, <3>1 DEF Leaving
    <3>5. QED BY <1>1, <1>4, <2>4, <3>2, <3>3, <3>4 DEF Leaving
  <2>6. QED BY <1>1, <1>3, <2>3, <2>5 DEF LimitsInv
<1>7. QED BY <1>5, <1>6

LEMMA RouteMovesInv ==
  ASSUME LimitsInv, NEW l \in ListenerIds, NEW d \in Devices, RouteMoves(l, d)
  PROVE  LimitsInv'
<1>1. job' = Waiting /\ settled' = "no" /\ UNCHANGED state
  BY DEF RouteMoves
<1>2. LimitsTypes' /\ Progressed'
  BY <1>1, NobodyWaits DEF LimitsInv, LimitsTypes
<1>3. QED BY <1>1, <1>2 DEF LimitsInv

LEMMA AgentDiesInv ==
  ASSUME LimitsInv, AgentDies
  PROVE  LimitsInv'
<1>1. /\ job' = Job("restore", state.limits, DOMAIN state.controls, state.limits)
      /\ settled' = "no" /\ UNCHANGED <<policers, chain, route, state>>
  BY DEF AgentDies
<1>2. state.limits \in Wanted
  BY DEF LimitsInv, LimitsTypes
<1>3. LimitsTypes' /\ Progressed'
  BY <1>1, <1>2, CallBegins
<1>4. QED BY <1>1, <1>3 DEF LimitsInv

LEMMA LimitsStepInv == ASSUME LimitsInv, [LimitsNext]_limitVars PROVE LimitsInv'
<1>1. CASE UNCHANGED limitVars
  BY <1>1 DEF limitVars, LimitsInv, LimitsTypes, Progressed, Leaving
<1>2. CASE LimitsNext
  BY <1>2, ApplyInv, InstallControlInv, DeleteControlInv, ApplyMarksInv, EndCallInv,
     CommandRefusedInv, RouteMovesInv, AgentDiesInv DEF LimitsNext
<1>3. QED BY <1>1, <1>2

-----------------------------------------------------------------------------
(* Rate limits: the theorems                                               *)

\* The inductive invariant of the rate limits: stage by stage, which policers and
\* which marks a call has in force, and which of before it has not yet taken away.
THEOREM LimitsSafety == LimitsSpec => []LimitsInv
<1>1. LimitsInit => LimitsInv
  BY LimitsInitInv
<1>2. LimitsInv /\ [LimitsNext]_limitVars => LimitsInv'
  BY LimitsStepInv
<1>3. QED BY <1>1, <1>2, PTL DEF LimitsSpec

LEMMA InvLimitsExact == LimitsInv => LimitsExact
<1> SUFFICES ASSUME LimitsInv, settled = "in place"
             PROVE  /\ DOMAIN chain = DOMAIN state.limits
                    /\ \A l \in DOMAIN chain : Limited(l, state.limits[l])
  BY DEF LimitsExact
<1>1. InPlace(chain, policers, route, state.limits) /\ state.limits \in Wanted
  BY DEF LimitsInv, LimitsTypes
<1>2. MarksFit(chain, state.limits) /\ DOMAIN chain = DOMAIN state.limits
  BY <1>1 DEF InPlace, MarksFit
<1>3. ASSUME NEW l \in DOMAIN state.limits
      PROVE  Limited(l, state.limits[l])
  <2>1. Police(policers, route, l, SlotsOf(DOMAIN state.limits)[l], state.limits[l])
    BY <1>1 DEF InPlace
  <2>2. QED BY <1>1, <1>2, <2>1, MarkedIsLimited
<1>4. QED BY <1>2, <1>3

LEMMA InvLimitKept == LimitsInv => LimitKept
<1> SUFFICES ASSUME LimitsInv, settled = "leaving", job.stage # "end",
                    NEW l \in DOMAIN state.limits, l \in DOMAIN job.wanted,
                    Stays(l, state.limits, job.wanted)
             PROVE  Limited(l, state.limits[l])
  BY DEF LimitKept, Stays
<1>1. LimitsTypes /\ Progressed /\ Leaving
  BY DEF LimitsInv
<1>2. Police(policers, route, l, SlotsOf(DOMAIN state.limits)[l], state.limits[l])
  BY <1>1 DEF Leaving
<1>3. Police(policers, route, l, SlotsOf(DOMAIN job.wanted)[l], state.limits[l])
  BY <1>2 DEF Stays
<1>4. MarksFit(chain, state.limits) \/ MarksFit(chain, job.wanted)
  <2>1. job.call # "none" /\ job # Waiting
    BY <1>1 DEF Leaving, Waiting
  <2>2. CASE job.stage = "install"
    BY <1>1, <2>2 DEF Leaving
  <2>3. CASE job.stage = "delete"
    BY <1>1, <2>3 DEF Leaving, Progressed
  <2>4. QED BY <1>1, <2>1, <2>2, <2>3 DEF Progressed
<1>5. state.limits \in Wanted /\ job.wanted \in Wanted
  BY <1>1 DEF LimitsTypes
<1>6. QED BY <1>2, <1>3, <1>4, <1>5, MarkedIsLimited

\* After a call that reports success or goes back, whatever failed or crashed
\* before, exactly the listeners of the state file are limited, each at its own
\* rate and by itself, for any hash and any profiles that have no more limits than
\* there are slots (reconcileTrafficControl and allocateRateSlots).
THEOREM LimitsAreExact == LimitsSpec => []LimitsExact
BY LimitsSafety, InvLimitsExact, PTL

\* A call that begins with the limits in place interrupts no limit that it leaves
\* as it is, between no two of its commands and whichever of them fails: new
\* controls come before new marks, and what is obsolete goes last.
THEOREM LimitsAreKept == LimitsSpec => []LimitKept
BY LimitsSafety, InvLimitKept, PTL
=============================================================================
