----------------------------- MODULE ProfileRules -----------------------------
(***************************************************************************)
(* What a profile may contain and what a node makes of it: Validate        *)
(* (internal/domain/model.go), compileServices (internal/agent/            *)
(* reconciler.go), the routing of the shared frontend and the inbound      *)
(* firewall of hidden profiles (internal/agent/hidden.go).  An             *)
(* administrator edits a draft; what holds for every draft that Validate   *)
(* accepts is what a node may count on.                                    *)
(*                                                                         *)
(* A host name is the sequence of its labels from the last to the first, a *)
(* path the sequence of its segments; *.example.com is <<"com", "example", *)
(* "*">>.  Left out: the syntax of names, addresses and paths, ranges of   *)
(* numbers, schedulers and backends.                                       *)
(***************************************************************************)
EXTENDS Integers, Sequences, SequencesExt

CONSTANTS
  Records,     \* listeners an administrator may add, ids included
  Names,       \* host names clients may ask for
  Paths,       \* paths clients may ask for
  Ingress,     \* the node's ingress address
  MaxRecords   \* bound: records of a draft

\* "/" is the only path that names its root: rooted stands for it.
ASSUME RulesConstants ==
  /\ MaxRecords \in Nat /\ Ingress \notin {"", "0.0.0.0"}
  /\ \A l \in Records :
       /\ l.host \in Seq(STRING) \ {<<>>} /\ l.path \in Seq(STRING)
       /\ l.rooted \in BOOLEAN /\ (l.rooted => l.path = <<>>)

VARIABLES
  draft,     \* the listeners, in the order of the profile
  hidden     \* the profile is a hidden one

rulesVars == <<draft, hidden>>

HiddenPorts == {80, 443}
AnyHost == <<"*">>
NoName == <<>>
Listeners == ToSet(draft)

-----------------------------------------------------------------------------
(* Validate                                                                *)

HiddenUDP(l) == l.protocols = {"udp"}
HiddenTCPPort(l) == l.matchPort /\ l.protocols = {"tcp"}
HiddenRoute(l) == ~HiddenUDP(l) /\ ~HiddenTCPPort(l)
HTTPRoute(l) == HiddenRoute(l) /\ l.matchHost
TLSRoute(l) == HiddenRoute(l) /\ ~l.matchHost

\* Only equal addresses conflict.
BadConflict(first, second) ==
  /\ first.port = second.port /\ first.protocols \cap second.protocols # {}
  /\ first.address = second.address

\* Two records of a regular profile want one address, port and protocol.
Conflict(first, second) ==
  /\ first.port = second.port /\ first.protocols \cap second.protocols # {}
  /\ \/ first.address = second.address
     \/ "0.0.0.0" \in {first.address, second.address}

\* RouteLabel for routes, the port for the others.
Owns(l) ==
  CASE HiddenUDP(l)     -> <<"udp", l.port>>
    [] HiddenTCPPort(l) -> <<"tcp", l.port>>
    [] TLSRoute(l)      -> <<"sni", l.host>>
    [] HTTPRoute(l)     -> <<"http", l.host, l.path, l.rooted>>

\* A name with nothing else is an SNI route; a path needs Host matching.
RightHidden(l) ==
  /\ l.protocols \in {{"tcp"}, {"udp"}}
  /\ ~HiddenRoute(l) => l.port \in HiddenPorts
  /\ HTTPRoute(l) => l.host # AnyHost \/ l.path # <<>> \/ l.rooted
  /\ TLSRoute(l) => l.host # AnyHost /\ l.path = <<>> /\ ~l.rooted

\* Two routes may have one label.
BadUnique(first, second) == HiddenRoute(first) \/ Owns(first) # Owns(second)
Unique(first, second) == Owns(first) # Owns(second)

Pairs == {p \in (DOMAIN draft) \X (DOMAIN draft) : p[1] < p[2]}

Valid ==
  /\ \A p \in Pairs : draft[p[1]].id # draft[p[2]].id
  /\ IF hidden
     THEN /\ \A l \in Listeners : RightHidden(l)
          /\ \A p \in Pairs : Unique(draft[p[1]], draft[p[2]])
     ELSE /\ \A l \in Listeners : l.protocols # {}
          /\ \A p \in Pairs : ~Conflict(draft[p[1]], draft[p[2]])

-----------------------------------------------------------------------------
(* compileServices and serviceEndpoints                                    *)

BindAddress(l) == IF hidden \/ l.address \in {"", "0.0.0.0"} THEN Ingress ELSE l.address

\* The services IPVS and HAProxy have for a record of its own.
ServicesOf(l) ==
  IF ~l.enabled THEN {}
  ELSE IF hidden /\ ~HiddenUDP(l) THEN {}
  ELSE {[protocol |-> p, address |-> BindAddress(l), port |-> l.port] : p \in l.protocols}

\* The sockets of the shared frontend.
SharedSockets ==
  IF hidden /\ \E l \in Listeners : l.enabled /\ ~HiddenUDP(l)
  THEN {[protocol |-> "tcp", address |-> Ingress, port |-> p] : p \in HiddenPorts}
  ELSE {}

Endpoints == SharedSockets \cup UNION {ServicesOf(l) : l \in Listeners}

\* The inbound chain of a hidden node: TCP ports of the host, SSH and the panel,
\* whatever the profile says, and the UDP ports of the profile.
BaseInputPorts == {22, 80, 443}
\* The ports of TCP port records are taken instead.
BadHiddenUDPPorts == {l.port : l \in {r \in Listeners : HiddenTCPPort(r)}}
HiddenUDPPorts == {l.port : l \in {r \in Listeners : r.enabled /\ HiddenUDP(r)}}
Admits(socket) ==
  \/ socket.protocol = "tcp" /\ socket.port \in BaseInputPorts
  \/ socket.protocol = "udp" /\ socket.port \in HiddenUDPPorts

-----------------------------------------------------------------------------
(* The shared frontend                                                     *)

Wild(host) == Last(host) = "*"
HostMatches(host, name) ==
  IF Wild(host) THEN IsStrictPrefix(Front(host), name) ELSE host = name

\* What a connection shows: TLS with or without a name, HTTP, or neither.
Connections ==
  [kind: {"tls", "http"}, name: Names \cup {NoName}, path: Paths, port: HiddenPorts]
    \cup [kind: {"other"}, name: {NoName}, path: {<<>>}, port: HiddenPorts]

Matches(l, c) ==
  CASE TLSRoute(l) -> c.kind = "tls" /\ c.name # NoName /\ HostMatches(l.host, c.name)
    [] HTTPRoute(l) -> /\ c.kind = "http"
                       /\ l.host = AnyHost \/ (c.name # NoName /\ HostMatches(l.host, c.name))
                       /\ IsPrefix(l.path, c.path)
    [] HiddenTCPPort(l) -> c.port = l.port
    [] OTHER -> FALSE

\* There are names enough to tell hosts apart: what a wildcard matches only a
\* wildcard of one of its own parents matches as well.  A client may ask for any.
ASSUME NamesTellHostsApart ==
  /\ Names \subseteq Seq(STRING) /\ Paths \subseteq Seq(STRING)
  /\ \A l, r \in Records :
       /\ Wild(r.host) /\ r.host # AnyHost
       /\ \A name \in Names : HostMatches(r.host, name) => HostMatches(l.host, name)
       => Wild(l.host) /\ IsPrefix(Front(l.host), Front(r.host))

\* A client may ask for any name and path of a record, and for a name below a
\* wildcard that a draft, which has finitely many records, names no closer.
ASSUME NamesBelowWildcards ==
  /\ \A l \in Records : l.path \in Paths /\ (~Wild(l.host) => l.host \in Names)
  /\ \A some \in SUBSET Records : IsFiniteSet(some) =>
       \A l \in some : Wild(l.host) /\ l.host # AnyHost =>
         \E name \in Names :
           /\ HostMatches(l.host, name)
           /\ \A r \in some : HostMatches(r.host, name) =>
                Wild(r.host) /\ Len(r.host) <= Len(l.host)

Covers == [l \in Records |-> {c \in Connections : Matches(l, c)}]

\* Wildcards come before exact names.
BadRank(l) ==
  CASE TLSRoute(l) -> IF Wild(l.host) THEN 1 ELSE 2
    [] HTTPRoute(l) -> IF l.host = AnyHost THEN 5 ELSE IF Wild(l.host) THEN 3 ELSE 4
    [] OTHER -> 6

Rank(l) ==
  CASE TLSRoute(l) -> IF Wild(l.host) THEN 2 ELSE 1
    [] HTTPRoute(l) -> IF l.host = AnyHost THEN 5 ELSE IF Wild(l.host) THEN 4 ELSE 3
    [] OTHER -> 6

\* Lengths as far as they order records that match one connection.
HostLength(l) == Len(l.host)
PathLength(l) == IF l.path = <<>> THEN (IF l.rooted THEN 1 ELSE 0) ELSE 1 + Len(l.path)

\* Among wildcards the first one wins; paths are compared across hosts.
BadEarlier(l, r) ==
  \/ Rank(l) < Rank(r)
  \/ Rank(l) = Rank(r) /\ Rank(l) \in 3 .. 5 /\ PathLength(l) > PathLength(r)

\* sniRoutingOrder and httpRoutingOrder: exact names, then wildcards from the
\* longest, then any host; under one host the longest path; then ports.
Earlier(l, r) ==
  \/ Rank(l) < Rank(r)
  \/ Rank(l) = Rank(r) /\ Rank(l) < 6 /\ HostLength(l) > HostLength(r)
  \/ /\ Rank(l) = Rank(r) /\ Rank(l) \in 3 .. 5 /\ l.host = r.host
     /\ PathLength(l) > PathLength(r)

\* The records a connection may end up at: those that match and come first.
Routes(c) ==
  LET matching == {l \in Listeners : l.enabled /\ ~HiddenUDP(l) /\ c \in Covers[l]}
  IN {l \in matching : ~\E r \in matching : Earlier(r, l)}

-----------------------------------------------------------------------------
AddListener(l) ==
  /\ Len(draft) < MaxRecords
  /\ draft' = Append(draft, l)
  /\ UNCHANGED hidden

RemoveListener(i) == draft' = RemoveAt(draft, i) /\ UNCHANGED hidden
ToggleHidden == hidden' = ~hidden /\ UNCHANGED draft

RulesInit == draft = <<>> /\ hidden \in BOOLEAN
RulesNext ==
  \/ \E l \in Records : AddListener(l)
  \/ \E i \in DOMAIN draft : RemoveListener(i)
  \/ ToggleHidden
RulesSpec == RulesInit /\ [][RulesNext]_rulesVars
-----------------------------------------------------------------------------
(* Properties                                                              *)

NamesIngress == \E l \in Listeners : l.address = Ingress

\* Whatever Validate accepts compiles to services that are all different: no
\* record takes another one's backends, or its port of the shared frontend.
\* (An address that names the ingress address of the node, where another record
\* has the empty address, is not noticed.)
ServicesDistinct ==
  Valid /\ (hidden \/ ~NamesIngress) =>
    /\ \A p \in Pairs : ServicesOf(draft[p[1]]) \cap ServicesOf(draft[p[2]]) = {}
    /\ \A l \in Listeners : ServicesOf(l) \cap SharedSockets = {}

\* The order of the records in the profile never decides: every connection to an
\* accepted hidden profile ends at one record or at the reject backend.
RouteIsUnique ==
  hidden /\ Valid => \A c \in Connections : \A l, r \in Routes(c) : l = r

\* hidden.go:55, "the most specific record always wins": a connection passes no
\* record over for one that takes all the same connections and others.
MostSpecificWins ==
  hidden /\ Valid =>
    \A l, r \in Listeners :
      (r.enabled /\ Covers[r] \subseteq Covers[l] /\ Covers[r] # Covers[l])
        => \A c \in Covers[r] : l \notin Routes(c)

\* No record of an accepted hidden profile is dead: some connection ends at it.
\* (With one host and no path, "/" takes all that the empty path would.)
EveryRouteIsReached ==
  hidden /\ Valid =>
    \A l \in Listeners :
      (l.enabled /\ ~HiddenUDP(l)
         /\ ~\E r \in Listeners \ {l} : Covers[r] = Covers[l])
        => \E c \in Covers[l] : Routes(c) = {l}

\* The inbound chain of a hidden node lets in what the profile listens on.
InputAdmitsServices == hidden /\ Valid => \A s \in Endpoints : Admits(s)
=============================================================================
