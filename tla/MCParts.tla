------------------------------- MODULE MCParts -------------------------------
(***************************************************************************)
(* Six parts that do not meet in these models, checked in one run.  The    *)
(* behaviours of a part are those of its module: part never changes, and   *)
(* what belongs to the other parts stays as it began.                      *)
(***************************************************************************)
EXTENDS MCReconciler, TCPMemory, RateLimits, InputFirewall, Traffic, ProfileRules

VARIABLE part

-----------------------------------------------------------------------------
(* Constants                                                               *)

ManualValues == {<<1, 2, 160>>}

\* Listeners 1 and 2 collide, 3 has the slot where 2 then goes and has to move
\* in its turn.
HashOf == [l \in 1 .. 3 |-> IF l = 3 THEN 3 ELSE 2]
LimitedProfiles ==
  {<<>>, [l \in {1, 3} |-> 1], [l \in {2} |-> 1], [l \in {2, 3} |-> 2],
   [l \in 1 .. 3 |-> IF l = 1 THEN 2 ELSE 1]}

\* A month without the days 29 to 31 has a day less than the next one here.
Months == <<2, 3>>

Com == <<"com", "ex">>
A == Append(Com, "a")
ClientNames == {Com, A, Append(Com, "b"), Append(A, "z"), Append(Append(Com, "b"), "z"),
                Append(A, "z") \o <<"y">>}
ClientPaths == {<<>>, <<"ws">>, <<"ws", "x">>, <<"ws", "x", "y">>, <<"p">>}
All(labels) == Append(labels, "*")

\* match: what the listener of a hidden profile matches; "off" is not enabled.
Listener(id, address, protocols, host, path, match) ==
  [id |-> id, enabled |-> match # "off", address |-> address, port |-> 443,
   protocols |-> protocols, host |-> host, path |-> path,
   matchHost |-> match \in {"host", "root"}, matchPort |-> match = "port",
   rooted |-> match = "root"]

ProfileRecords ==
  {Listener(1, "", {"tcp"}, A, <<>>, "sni"),
   Listener(2, "ip2", {"tcp"}, All(Com), <<>>, "sni"),
   Listener(3, "0.0.0.0", {"tcp"}, All(A), <<>>, "sni"),
   Listener(4, "ip2", {"tcp"}, AnyHost, <<"ws">>, "host"),
   Listener(5, "", {"tcp"}, AnyHost, <<"ws", "x">>, "host"),
   Listener(6, "", {"tcp"}, All(Com), <<>>, "host"),
   Listener(7, "", {"tcp"}, A, <<"ws">>, "host"),
   Listener(8, "", {"tcp"}, AnyHost, <<>>, "port"),
   Listener(9, "", {"udp"}, AnyHost, <<>>, "sni"),
   Listener(10, "ip1", {"tcp", "udp"}, A, <<>>, "sni"),
   Listener(11, "0.0.0.0", {"udp"}, AnyHost, <<>>, "off"),
   Listener(12, "0.0.0.0", {"tcp"}, A, <<>>, "off"),
   Listener(13, "", {"tcp"}, AnyHost, <<>>, "root"),
   Listener(14, "ip2", {"tcp"}, A, <<>>, "sni")}

-----------------------------------------------------------------------------
(* Parts                                                                   *)

PartInit ==
  /\ part \in {"reconciler", "tcpmem", "limits", "input", "traffic", "rules"}
  /\ Init
  /\ TunerInit /\ (part # "tcpmem" => tcpMem = KernelDefault(1))
  /\ LimitsInit
  /\ InputInit /\ (part # "input" => listening = {"22"})
  /\ TrafficInit /\ (part # "traffic" => ~node.auto)
  /\ RulesInit /\ (part # "rules" => ~hidden)

PartNext ==
  /\ \/ /\ part = "reconciler" /\ Next
        /\ UNCHANGED <<tunerVars, limitVars, inputVars, trafficVars, rulesVars>>
     \/ /\ part = "tcpmem" /\ TunerNext
        /\ UNCHANGED <<vars, limitVars, inputVars, trafficVars, rulesVars>>
     \/ /\ part = "limits" /\ LimitsNext
        /\ UNCHANGED <<vars, tunerVars, inputVars, trafficVars, rulesVars>>
     \/ /\ part = "input" /\ InputNext
        /\ UNCHANGED <<vars, tunerVars, limitVars, trafficVars, rulesVars>>
     \/ /\ part = "traffic" /\ TrafficNext
        /\ UNCHANGED <<vars, tunerVars, limitVars, inputVars, rulesVars>>
     \/ /\ part = "rules" /\ RulesNext
        /\ UNCHANGED <<vars, tunerVars, limitVars, inputVars, trafficVars>>
  /\ UNCHANGED part

PartSpec ==
  PartInit /\ [][PartNext]_<<vars, tunerVars, limitVars, inputVars, trafficVars, rulesVars, part>>
=============================================================================
