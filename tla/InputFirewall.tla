---------------------------- MODULE InputFirewall ----------------------------
(***************************************************************************)
(* The inbound firewall of a hidden node (internal/agent/hidden.go): the   *)
(* chain EZHIKLB-INPUT drops what does not go to a port of ssh, of a panel *)
(* on the same node, or of a UDP record.  Reconcile installs it, rolls it  *)
(* back and removes it, Restore brings it back, and every minute           *)
(* EnsureInputFirewall follows the ports of ssh and repairs what other     *)
(* tools removed.  The state file says what should be there, the kernel    *)
(* what is; each of the steps between them may fail.                       *)
(*                                                                         *)
(* Reconciler has the order of this phase among the others; here are the   *)
(* ports, and the calls it leaves out.  Left out here: IPv6, which never   *)
(* fails a call, and the ports every hidden node opens (22, 80, 443).      *)
(***************************************************************************)
EXTENDS Integers

CONSTANTS
  SSHPorts,      \* sets of ports ssh may listen on
  RecordPorts,   \* sets of ports of the UDP records a hidden profile may have
  MaxPublished,  \* bound: publications
  MaxBroken,     \* bound: steps that fail, and crashes
  MaxHost        \* bound: changes of the host by somebody else

ASSUME InputConstants == {"none"} \notin RecordPorts

VARIABLES
  listening,   \* the ports ssh listens on now
  inChain,     \* [tcp, udp]: what EZHIKLB-INPUT lets through, or NoChain
  inJump,      \* INPUT jumps to it
  inState,     \* [hidden, services, tcp, udp] of state.json; services: there are
               \* any, which for a plain state makes no difference here
  inCall,      \* the call in progress
  running,     \* the agent runs and has called Restore
  happened,    \* publications, failures and changes of the host so far
  vouched,     \* history: the last call did its work on the host as it is
  torn         \* history: a call was cut off, or could not be undone, since the
               \* last one that saved

inputVars == <<listening, inChain, inJump, inState, inCall, running, happened,
               vouched, torn>>

NoChain == [tcp |-> {}, udp |-> {"none"}]
Plain == [hidden |-> FALSE, services |-> FALSE, tcp |-> {}, udp |-> {}]
Hidden(services, tcp, udp) ==
  [hidden |-> TRUE, services |-> services, tcp |-> tcp, udp |-> udp]
\* A call to reach target, on what ssh was seen to listen on.
InCall(name, stage, target, seen) ==
  [name |-> name, stage |-> stage, target |-> target, seen |-> seen]
NoInCall == InCall("none", "none", Plain, {})
Once(kind, limit) == happened[kind] < limit /\ happened' = [happened EXCEPT ![kind] = @ + 1]

\* The UDP ports are not looked at.
BadActive(udp) == inJump /\ inChain # NoChain
\* inputFirewallActive looks at the jump, the DROP and, if there are any, the
\* UDP ports.
Active(udp) == inJump /\ inChain # NoChain /\ udp \in {{}, inChain.udp}

-----------------------------------------------------------------------------
(* The calls                                                               *)

Starts(call) ==
  /\ inCall' = call
  /\ vouched' = FALSE
  /\ UNCHANGED <<listening, inChain, inJump, inState, torn>>

\* A hidden profile without an enabled record is accepted, and has no services.
PublishHidden(services, udp) ==
  /\ running /\ inCall = NoInCall /\ (udp # {} => services)
  /\ Once("published", MaxPublished)
  /\ Starts(InCall("publish", "chain", Hidden(services, listening, udp), listening))
  /\ UNCHANGED running

\* Only a node that leaves hidden mode touches the chain.
PublishPlain ==
  /\ running /\ inCall = NoInCall
  /\ Once("published", MaxPublished)
  /\ Starts(InCall("publish", IF inState.hidden THEN "unjump" ELSE "save", Plain, listening))
  /\ UNCHANGED running

EnsureInputFirewall ==
  /\ running /\ inCall = NoInCall /\ inState.hidden
  /\ IF listening = inState.tcp /\ Active(inState.udp)
     THEN /\ vouched' = TRUE
          /\ UNCHANGED <<listening, inChain, inJump, inState, torn, inCall>>
     ELSE Starts(InCall("ensure", "chain",
                        Hidden(inState.services, listening, inState.udp), listening))
  /\ UNCHANGED <<running, happened>>

\* Without services Restore returns at once, and looks at no chain.  ssh may still
\* be starting, and need not be seen: saved ports stay open.
RestoreInput ==
  /\ ~running
  /\ running' = TRUE
  /\ \E seen \in {{}, listening} :
       Starts(IF inState.hidden /\ inState.services
              THEN InCall("restore", "chain",
                          Hidden(TRUE, inState.tcp \cup seen, inState.udp), seen)
              ELSE NoInCall)
  /\ UNCHANGED happened

-----------------------------------------------------------------------------
(* Their steps                                                             *)

NextStage(stage) ==
  inCall' = IF inCall.name = "rollback" /\ stage = "save" THEN NoInCall
            ELSE [inCall EXCEPT !.stage = stage]

ReplaceChain ==
  /\ inCall.stage = "chain"
  /\ inChain' = [tcp |-> inCall.target.tcp, udp |-> inCall.target.udp]
  /\ NextStage("jump")
  /\ UNCHANGED <<listening, inJump, inState, running, happened, vouched, torn>>

InsertJump ==
  /\ inCall.stage = "jump"
  /\ inJump' = TRUE
  /\ NextStage("save")
  /\ UNCHANGED <<listening, inChain, inState, running, happened, vouched, torn>>

RemoveJump ==
  /\ inCall.stage = "unjump"
  /\ inJump' = FALSE
  /\ NextStage("unchain")
  /\ UNCHANGED <<listening, inChain, inState, running, happened, vouched, torn>>

RemoveInChain ==
  /\ inCall.stage = "unchain"
  /\ inChain' = NoChain
  /\ NextStage("save")
  /\ UNCHANGED <<listening, inJump, inState, running, happened, vouched, torn>>

SaveInput ==
  /\ inCall.stage = "save"
  /\ inState' = inCall.target
  /\ torn' = (torn /\ ~inState.hidden /\ ~inCall.target.hidden)
  /\ vouched' = (inCall.seen = listening)
  /\ inCall' = NoInCall
  /\ UNCHANGED <<listening, inChain, inJump, running, happened>>

\* What was not there before is left behind.
BadUndoStage == IF inState.hidden THEN "chain" ELSE "save"
UndoStage == IF inState.hidden THEN "chain" ELSE "unjump"

\* Only the failure of the firewall itself is undone: in the stage "save" the
\* limiters, or the saving of the state file, fail.
StepFails ==
  /\ inCall # NoInCall
  /\ Once("broken", MaxBroken)
  /\ IF inCall.name = "publish" /\ inCall.stage \in {"chain", "jump"}
     THEN inCall' = InCall("rollback", UndoStage, inState, {}) /\ UNCHANGED torn
     ELSE inCall' = NoInCall /\ torn' = TRUE
  /\ UNCHANGED <<listening, inChain, inJump, inState, running, vouched>>

InputCrash ==
  /\ Once("broken", MaxBroken)
  /\ running' = FALSE /\ inCall' = NoInCall /\ vouched' = FALSE
  /\ \/ UNCHANGED <<inChain, inJump>>
     \/ inChain' = NoChain /\ inJump' = FALSE  \* a reboot
  /\ torn' = (torn \/ inCall # NoInCall)
  /\ UNCHANGED <<listening, inState>>

SSHMoves(ports) ==
  /\ ports # listening
  /\ Once("host", MaxHost)
  /\ listening' = ports
  /\ vouched' = FALSE
  /\ UNCHANGED <<inChain, inJump, inState, inCall, running, torn>>

\* ufw, or a reload of another firewall.
JumpRemoved ==
  /\ Once("host", MaxHost)
  /\ inJump' = FALSE
  /\ inChain' \in {inChain, NoChain}
  /\ inCall = NoInCall
  /\ vouched' = FALSE
  /\ UNCHANGED <<listening, inState, inCall, running, torn>>

InputInit ==
  /\ listening \in SSHPorts
  /\ inChain = NoChain /\ inJump = FALSE /\ inState = Plain
  /\ inCall = NoInCall /\ running = FALSE
  /\ happened = [published |-> 0, broken |-> 0, host |-> 0]
  /\ vouched = FALSE /\ torn = FALSE

InputNext ==
  \/ \E services \in BOOLEAN, udp \in RecordPorts : PublishHidden(services, udp)
  \/ PublishPlain \/ EnsureInputFirewall \/ RestoreInput
  \/ ReplaceChain \/ InsertJump \/ RemoveJump \/ RemoveInChain \/ SaveInput
  \/ StepFails \/ InputCrash
  \/ \E ports \in SSHPorts : SSHMoves(ports)
  \/ JumpRemoved

InputSpec == InputInit /\ [][InputNext]_inputVars

-----------------------------------------------------------------------------
(* Properties                                                              *)

\* After a call that did its work, or a minute's check that finds nothing to do, a
\* hidden node has its chain in force and lets the UDP records through, and ssh
\* where it listens, whatever failed, crashed or was removed before.  A Restore of a
\* hidden state without services does no work and vouches for nothing, though it
\* reports success: after a reboot the chain is missing until the minute's check.
\* The check compares the ports of ssh with the state file, not with the chain:
\* once a call was cut off between the two, nothing is said of them.
HiddenIsReachable ==
  vouched /\ inState.hidden =>
    /\ inJump /\ inChain # NoChain
    /\ inState.udp \subseteq inChain.udp
    /\ ~torn => listening \subseteq inChain.tcp

\* After a publication of a plain profile that reports success no inbound
\* firewall is left, neither of a hidden profile that was published nor of one
\* that failed and was undone.  Where a call was cut off it may be left:
\* Reconciler's LeavingHiddenRemovesInput shows that.
PlainIsOpen == vouched /\ ~inState.hidden /\ ~torn => ~inJump /\ inChain = NoChain
=============================================================================
