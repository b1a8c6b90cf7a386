---------------------------- MODULE MCReconciler -----------------------------
(***************************************************************************)
(* Model-checking instances of Reconciler.                                 *)
(***************************************************************************)
EXTENDS Reconciler

CONSTANTS a, b, c, e, s1, s2, d1, d2, t1, t2

\* a: UDP only.  b: the same service with another destination, a second
\* service, TCP and a limited listener.  c: hidden, with TCP on another port.  e:
\* hidden, and without any service.
Contents ==
  [x \in {a, b, c, e} |->
     CASE x = a -> [udp |-> [s \in {s1} |-> {d1}], tcp |-> NoTCP,
                    hidden |-> FALSE, limited |-> {}]
       [] x = b -> [udp |-> [s \in {s1, s2} |-> IF s = s1 THEN {d1, d2} ELSE {d1}],
                    tcp |-> t1, hidden |-> FALSE, limited |-> {s1}]
       [] x = c -> [udp |-> [s \in {s2} |-> {d2}], tcp |-> t2, hidden |-> TRUE,
                    limited |-> {}]
       [] x = e -> [udp |-> <<>>, tcp |-> NoTCP, hidden |-> TRUE, limited |-> {}]]
TCPPorts == [t \in {t1, t2} |-> IF t = t1 THEN {"8443"} ELSE {"443"}]

\* A service of IPVS that somebody else set up.
HostItems == {<<"svc", "other">>, <<"dst", "other", d1>>}
=============================================================================
