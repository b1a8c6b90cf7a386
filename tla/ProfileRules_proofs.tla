-------------------------- MODULE ProfileRules_proofs --------------------------
(***************************************************************************)
(* What Validate guarantees a node, for every set of records, names and    *)
(* paths and for drafts of any length.  That the most specific record wins *)
(* rests on NamesTellHostsApart, that no record is dead on                 *)
(* NamesBelowWildcards: clients may ask for more names than a draft has.   *)
(***************************************************************************)
EXTENDS ProfileRules, SequenceTheorems, FiniteSetTheorems, TLAPS

\* A draft holds records an administrator can add.
DraftInv == draft \in Seq(Records)

-----------------------------------------------------------------------------
(* Sequences                                                               *)

\* A sequence has one prefix of each length.
LEMMA PrefixIsUnique ==
  ASSUME NEW S, NEW s \in Seq(S), NEW u \in Seq(S), Len(s) = Len(u),
         NEW t, IsPrefix(s, t), IsPrefix(u, t)
  PROVE  s = u
<1>1. SubSeq(s, 1, Len(s)) = s /\ SubSeq(u, 1, Len(u)) = u
  BY SubSeqFull
<1>2. QED BY <1>1 DEF IsPrefix

\* The first elements of a sequence.
LEMMA FirstElements ==
  ASSUME NEW S, NEW s, NEW n \in Nat, \A i \in 1 .. n : s[i] \in S
  PROVE  /\ SubSeq(s, 1, n) \in Seq(S) /\ Len(SubSeq(s, 1, n)) = n
         /\ \A i \in 1 .. n : SubSeq(s, 1, n)[i] = s[i]
<1>1. /\ SubSeq(s, 1, n) \in Seq(S)
      /\ Len(SubSeq(s, 1, n)) = IF 1 <= n THEN n - 1 + 1 ELSE 0
      /\ \A i \in 1 .. n - 1 + 1 : SubSeq(s, 1, n)[i] = s[1 + i - 1]
  BY SubSeqProperties
<1>2. QED BY <1>1

\* The front of a sequence that is not empty.
LEMMA FrontFacts ==
  ASSUME NEW S, NEW s \in Seq(S), s # <<>>
  PROVE  /\ Front(s) \in Seq(S) /\ Len(Front(s)) = Len(s) - 1 /\ Len(s) \in Nat \ {0}
         /\ \A i \in 1 .. Len(s) - 1 : Front(s)[i] = s[i]
<1> DEFINE n == Len(s) - 1
<1>1. Len(s) \in Nat \ {0} /\ n \in Nat
  BY EmptySeq
<1>2. \A i \in 1 .. n : s[i] \in S
  BY <1>1, ElementOfSeq
<1>3. Front(s) = SubSeq(s, 1, n)
  BY DEF Front
<1> HIDE DEF n
<1>4. /\ SubSeq(s, 1, n) \in Seq(S) /\ Len(SubSeq(s, 1, n)) = n
      /\ \A i \in 1 .. n : SubSeq(s, 1, n)[i] = s[i]
  BY <1>1, <1>2, FirstElements
<1>5. Front(s) \in Seq(S) /\ Len(Front(s)) = n /\ \A i \in 1 .. n : Front(s)[i] = s[i]
  BY <1>3, <1>4
<1>6. QED BY <1>1, <1>5 DEF n

\* A sequence that is not empty is its front and its last element.
LEMMA FrontAndLast ==
  ASSUME NEW S, NEW s \in Seq(S), NEW u \in Seq(S), s # <<>>, u # <<>>,
         Len(s) = Len(u), Front(s) = Front(u), Last(s) = Last(u)
  PROVE  s = u
<1>1. /\ Len(s) \in Nat \ {0}
      /\ \A i \in 1 .. Len(s) - 1 : Front(s)[i] = s[i] /\ Front(u)[i] = u[i]
  BY FrontFacts
<1>2. s[Len(s)] = u[Len(s)]
  BY DEF Last
<1>3. \A i \in 1 .. Len(s) : i \in 1 .. Len(s) - 1 \/ i = Len(s)
  BY <1>1
<1>4. \A i \in 1 .. Len(s) : s[i] = u[i]
  BY <1>1, <1>2, <1>3
<1>5. QED BY <1>4, SeqEqual

\* A prefix, element by element.
LEMMA PrefixElements ==
  ASSUME NEW S, NEW s \in Seq(S), NEW t \in Seq(S)
  PROVE  IsPrefix(s, t) <=> Len(s) <= Len(t) /\ \A i \in 1 .. Len(s) : s[i] = t[i]
<1> DEFINE n == Len(s)
<1>1. n \in Nat /\ Len(t) \in Nat /\ SubSeq(s, 1, n) = s
  BY LenProperties, SubSeqFull
<1>2. ASSUME n <= Len(t)
      PROVE  /\ SubSeq(t, 1, n) \in Seq(S) /\ Len(SubSeq(t, 1, n)) = n
             /\ \A i \in 1 .. n : SubSeq(t, 1, n)[i] = t[i]
  <2>1. \A i \in 1 .. n : t[i] \in S
    BY <1>1, <1>2, ElementOfSeq
  <2>2. QED BY <1>1, <2>1, FirstElements
<1>3. ASSUME n <= Len(t), \A i \in 1 .. n : s[i] = t[i]
      PROVE  s = SubSeq(t, 1, n)
  BY <1>1, <1>2, <1>3, SeqEqual
<1>4. QED BY <1>1, <1>2, <1>3 DEF IsPrefix

\* Of two prefixes of a sequence the shorter one is a prefix of the longer one,
\* and a prefix of a prefix is a prefix.
LEMMA PrefixOrder ==
  ASSUME NEW S, NEW s \in Seq(S), NEW u \in Seq(S), NEW t \in Seq(S)
  PROVE  /\ IsPrefix(s, t) /\ IsPrefix(u, t) /\ Len(s) <= Len(u) => IsPrefix(s, u)
         /\ IsPrefix(s, u) /\ IsPrefix(u, t) => IsPrefix(s, t)
<1>1. Len(s) \in Nat /\ Len(u) \in Nat /\ Len(t) \in Nat
  BY LenProperties
<1>2. QED BY <1>1, PrefixElements

\* The empty sequence is a prefix of all.
LEMMA EmptyPrefix ==
  ASSUME NEW S, NEW t \in Seq(S)
  PROVE  IsPrefix(<<>>, t)
<1>1. <<>> \in Seq(S) /\ Len(<<>>) = 0 /\ Len(t) \in Nat
  BY EmptySeq, LenProperties
<1>2. Len(<<>>) <= Len(t) /\ \A i \in 1 .. Len(<<>>) : <<>>[i] = t[i]
  BY <1>1
<1>3. QED BY <1>1, <1>2, PrefixElements

\* Removing an element leaves a sequence of the others.
LEMMA RemoveAtType ==
  ASSUME NEW S, NEW s \in Seq(S), NEW i \in DOMAIN s
  PROVE  RemoveAt(s, i) \in Seq(S)
<1>1. Len(s) \in Nat /\ i \in 1 .. Len(s) /\ \A j \in 1 .. Len(s) : s[j] \in S
  BY LenProperties, ElementOfSeq
<1>2. SubSeq(s, 1, i - 1) \in Seq(S)
  BY <1>1, SubSeqProperties
<1>3. SubSeq(s, i + 1, Len(s)) \in Seq(S)
  BY <1>1, SubSeqProperties
<1>4. QED BY <1>2, <1>3, ConcatProperties DEF RemoveAt

-----------------------------------------------------------------------------
(* Records of a draft                                                      *)

\* The listeners of a draft are records, each at an index.
LEMMA ListenerFacts ==
  ASSUME DraftInv, NEW l \in Listeners
  PROVE  /\ l \in Records /\ \E i \in DOMAIN draft : l = draft[i]
         /\ l.host \in Seq(STRING) /\ l.host # <<>> /\ l.path \in Seq(STRING)
         /\ l.rooted \in BOOLEAN /\ (l.rooted => l.path = <<>>)
<1>1. PICK i \in DOMAIN draft : l = draft[i]
  BY DEF Listeners, ToSet
<1>2. DOMAIN draft = 1 .. Len(draft)
  BY LenProperties DEF DraftInv
<1>3. l \in Records
  BY <1>1, <1>2, ElementOfSeq DEF DraftInv
<1>4. QED BY <1>1, <1>3, RulesConstants DEF RulesConstants

\* Validate looks at every two records, in whichever order they are.
LEMMA EveryPair ==
  ASSUME DraftInv, NEW i \in DOMAIN draft, NEW j \in DOMAIN draft, i # j
  PROVE  <<i, j>> \in Pairs \/ <<j, i>> \in Pairs
<1>1. DOMAIN draft = 1 .. Len(draft) /\ Len(draft) \in Nat
  BY LenProperties DEF DraftInv
<1>2. i < j \/ j < i
  BY <1>1
<1>3. QED BY <1>2 DEF Pairs

\* In a hidden profile no two records own the same route or port.
LEMMA OwnersDiffer ==
  ASSUME DraftInv, hidden, Valid, NEW i \in DOMAIN draft, NEW j \in DOMAIN draft,
         Owns(draft[i]) = Owns(draft[j])
  PROVE  i = j
<1>1. \A p \in Pairs : Owns(draft[p[1]]) # Owns(draft[p[2]])
  BY DEF Valid, Unique
<1>2. SUFFICES ASSUME i # j PROVE FALSE
  OBVIOUS
<1>3. CASE <<i, j>> \in Pairs
  BY <1>1, <1>3
<1>4. CASE <<j, i>> \in Pairs
  BY <1>1, <1>4
<1>5. QED BY <1>2, <1>3, <1>4, EveryPair

LEMMA OneOwner ==
  ASSUME DraftInv, hidden, Valid, NEW l \in Listeners, NEW r \in Listeners,
         Owns(l) = Owns(r)
  PROVE  l = r
BY ListenerFacts, OwnersDiffer

-----------------------------------------------------------------------------
(* The shared frontend                                                     *)

\* What kind of record has which rank.
LEMMA RankFacts ==
  ASSUME NEW l, ~HiddenUDP(l)
  PROVE  /\ Rank(l) \in 1 .. 6
         /\ Rank(l) = 1 => TLSRoute(l) /\ ~Wild(l.host)
         /\ Rank(l) = 2 => TLSRoute(l) /\ Wild(l.host)
         /\ Rank(l) = 3 => HTTPRoute(l) /\ ~Wild(l.host) /\ l.host # AnyHost
         /\ Rank(l) = 4 => HTTPRoute(l) /\ Wild(l.host) /\ l.host # AnyHost
         /\ Rank(l) = 5 => HTTPRoute(l) /\ l.host = AnyHost
         /\ Rank(l) = 6 => HiddenTCPPort(l)
         /\ TLSRoute(l) => ~HTTPRoute(l)
         /\ HiddenTCPPort(l) => ~TLSRoute(l) /\ ~HTTPRoute(l)
BY DEF Rank, TLSRoute, HTTPRoute, HiddenRoute

\* Records of one rank that both match a connection, and of which neither comes
\* first, have the same host.
LEMMA HostIsUnique ==
  ASSUME NEW a \in Seq(STRING), NEW b \in Seq(STRING), a # <<>>, b # <<>>, NEW name,
         HostMatches(a, name), HostMatches(b, name), Wild(a) <=> Wild(b),
         Wild(a) => Len(a) = Len(b)
  PROVE  a = b
<1>1. CASE ~Wild(a)
  BY <1>1 DEF HostMatches
<1>2. CASE Wild(a)
  <2>1. IsPrefix(Front(a), name) /\ IsPrefix(Front(b), name) /\ Last(a) = Last(b)
    BY <1>2 DEF HostMatches, IsStrictPrefix, Wild
  <2>2. Len(a) \in Nat \ {0} /\ Len(a) = Len(b)
    BY <1>2, EmptySeq
  <2>3. /\ Front(a) \in Seq(STRING) /\ Len(Front(a)) = Len(a) - 1
        /\ Front(b) \in Seq(STRING) /\ Len(Front(b)) = Len(b) - 1
    BY FrontFacts
  <2>4. Front(a) = Front(b)
    BY <2>1, <2>2, <2>3, PrefixIsUnique
  <2>5. QED BY <2>1, <2>2, <2>4, FrontAndLast
<1>3. QED BY <1>1, <1>2

\* Under one host, records with paths that match one request and are equally
\* long have the same path.
LEMMA PathIsUnique ==
  ASSUME NEW l, NEW r, l.path \in Seq(STRING), r.path \in Seq(STRING),
         l.rooted => l.path = <<>>, r.rooted => r.path = <<>>,
         NEW path, IsPrefix(l.path, path), IsPrefix(r.path, path),
         PathLength(l) = PathLength(r)
  PROVE  l.path = r.path /\ (l.rooted <=> r.rooted)
<1>1. \A s \in Seq(STRING) : s # <<>> => Len(s) \in Nat \ {0}
  BY EmptySeq
<1>2. CASE l.path = <<>> \/ r.path = <<>>
  BY <1>1, <1>2 DEF PathLength
<1>3. CASE l.path # <<>> /\ r.path # <<>>
  <2>1. Len(l.path) = Len(r.path)
    BY <1>1, <1>3 DEF PathLength
  <2>2. l.path = r.path
    BY <2>1, PrefixIsUnique
  <2>3. QED BY <1>3, <2>2
<1>4. QED BY <1>2, <1>3

\* Of two records that match a connection and of which neither comes first, each
\* owns what the other one does.
LEMMA RoutesShareOwner ==
  ASSUME DraftInv, hidden, Valid, NEW c \in Connections,
         NEW l \in Routes(c), NEW r \in Routes(c)
  PROVE  Owns(l) = Owns(r)
<1>1. /\ l \in Listeners /\ r \in Listeners /\ ~HiddenUDP(l) /\ ~HiddenUDP(r)
      /\ c \in Covers[l] /\ c \in Covers[r] /\ ~Earlier(l, r) /\ ~Earlier(r, l)
  BY DEF Routes
<1>2. /\ l \in Records /\ l.host \in Seq(STRING) /\ l.host # <<>> /\ l.path \in Seq(STRING)
      /\ l.rooted \in BOOLEAN /\ (l.rooted => l.path = <<>>)
      /\ r \in Records /\ r.host \in Seq(STRING) /\ r.host # <<>> /\ r.path \in Seq(STRING)
      /\ r.rooted \in BOOLEAN /\ (r.rooted => r.path = <<>>)
  BY <1>1, ListenerFacts
<1>3. Matches(l, c) /\ Matches(r, c)
  BY <1>1, <1>2 DEF Covers
<1>4. Rank(l) \in 1 .. 6 /\ Rank(r) \in 1 .. 6
  BY <1>1, RankFacts
<1>5. Rank(l) = Rank(r)
  BY <1>1, <1>4 DEF Earlier
<1>6. Rank(l) < 6 => Len(l.host) = Len(r.host)
  <2>1. Len(l.host) \in Nat /\ Len(r.host) \in Nat
    BY <1>2, LenProperties
  <2>2. QED BY <1>1, <1>5, <2>1 DEF Earlier, HostLength
<1>7. Rank(l) \in 3 .. 5 /\ l.host = r.host => PathLength(l) = PathLength(r)
  <2>1. PathLength(l) \in Nat /\ PathLength(r) \in Nat
    <3>1. Len(l.path) \in Nat /\ Len(r.path) \in Nat
      BY <1>2, LenProperties
    <3>2. QED BY <3>1 DEF PathLength
  <2>2. QED BY <1>1, <1>5, <2>1 DEF Earlier
<1>8. ASSUME HTTPRoute(l), HTTPRoute(r), l.host = r.host, Rank(l) \in 3 .. 5
      PROVE  Owns(l) = Owns(r)
  <2>1. ~TLSRoute(l) /\ ~HiddenTCPPort(l) /\ ~TLSRoute(r) /\ ~HiddenTCPPort(r)
    BY <1>8 DEF HTTPRoute, TLSRoute, HiddenRoute
  <2>2. IsPrefix(l.path, c.path) /\ IsPrefix(r.path, c.path)
    BY <1>3, <1>8, <2>1 DEF Matches
  <2>3. l.path = r.path /\ l.rooted = r.rooted
    BY <1>2, <1>7, <1>8, <2>2, PathIsUnique
  <2>4. Owns(l) = <<"http", l.host, l.path, l.rooted>>
    BY <1>1, <1>8, <2>1 DEF Owns
  <2>5. Owns(r) = <<"http", r.host, r.path, r.rooted>>
    BY <1>1, <1>8, <2>1 DEF Owns
  <2>6. QED BY <1>8, <2>3, <2>4, <2>5
<1>9. CASE Rank(l) \in {1, 2}
  <2>1. TLSRoute(l) /\ TLSRoute(r) /\ (Wild(l.host) <=> Wild(r.host))
    BY <1>1, <1>5, <1>9, RankFacts
  <2>2. ~HiddenTCPPort(l) /\ ~HTTPRoute(l) /\ ~HiddenTCPPort(r) /\ ~HTTPRoute(r)
    BY <2>1 DEF TLSRoute, HTTPRoute, HiddenRoute
  <2>3. HostMatches(l.host, c.name) /\ HostMatches(r.host, c.name)
    BY <1>3, <2>1, <2>2 DEF Matches
  <2>4. l.host = r.host
    BY <1>2, <1>6, <1>9, <2>1, <2>3, HostIsUnique
  <2>5. Owns(l) = <<"sni", l.host>> /\ Owns(r) = <<"sni", r.host>>
    BY <1>1, <2>1, <2>2 DEF Owns
  <2>6. QED BY <2>4, <2>5
<1>10. CASE Rank(l) \in {3, 4}
  <2>1. /\ HTTPRoute(l) /\ HTTPRoute(r) /\ l.host # AnyHost /\ r.host # AnyHost
        /\ Wild(l.host) <=> Wild(r.host)
    BY <1>1, <1>5, <1>10, RankFacts
  <2>2. HostMatches(l.host, c.name) /\ HostMatches(r.host, c.name)
    BY <1>1, <1>3, <2>1, RankFacts DEF Matches
  <2>3. l.host = r.host
    BY <1>2, <1>6, <1>10, <2>1, <2>2, HostIsUnique
  <2>4. QED BY <1>8, <1>10, <2>1, <2>3
<1>11. CASE Rank(l) = 5
  <2>1. HTTPRoute(l) /\ HTTPRoute(r) /\ l.host = AnyHost /\ r.host = AnyHost
    BY <1>1, <1>5, <1>11, RankFacts
  <2>2. QED BY <1>8, <1>11, <2>1
<1>12. CASE Rank(l) = 6
  <2>1. HiddenTCPPort(l) /\ HiddenTCPPort(r)
    BY <1>1, <1>5, <1>12, RankFacts
  <2>2. ~TLSRoute(l) /\ ~HTTPRoute(l) /\ ~TLSRoute(r) /\ ~HTTPRoute(r)
    BY <1>1, <2>1, RankFacts
  <2>3. l.port = c.port /\ r.port = c.port
    BY <1>3, <2>1, <2>2 DEF Matches
  <2>4. QED BY <1>1, <2>1, <2>2, <2>3 DEF Owns
<1>13. QED BY <1>4, <1>9, <1>10, <1>11, <1>12

-----------------------------------------------------------------------------
(* The most specific record                                                *)

\* Connections are made of names or none, paths and the two ports.
LEMMA ConnectionFacts ==
  ASSUME NEW c \in Connections
  PROVE  /\ c.port \in HiddenPorts
         /\ c.kind \in {"tls", "http", "other"}
         /\ c.name \in Seq(STRING) /\ c.path \in Seq(STRING)
         /\ c.kind # "other" =>
              /\ c \in [kind: {"tls", "http"}, name: Names \cup {NoName}, path: Paths,
                       port: HiddenPorts]
              /\ \A name \in Names \cup {NoName} : [c EXCEPT !.name = name] \in Connections
         /\ [kind |-> "other", name |-> NoName, path |-> <<>>, port |-> c.port] \in Connections
<1>1. <<>> \in Seq(STRING)
  BY EmptySeq
<1>2. QED BY <1>1, NamesTellHostsApart DEF NamesTellHostsApart, Connections, NoName

\* What a record that is no UDP record matches, kind by kind.
LEMMA MatchFacts ==
  ASSUME NEW l, NEW c
  PROVE  /\ TLSRoute(l) => (Matches(l, c) <=>
              c.kind = "tls" /\ c.name # NoName /\ HostMatches(l.host, c.name))
         /\ HTTPRoute(l) => (Matches(l, c) <=>
              /\ c.kind = "http"
              /\ l.host = AnyHost \/ (c.name # NoName /\ HostMatches(l.host, c.name))
              /\ IsPrefix(l.path, c.path))
         /\ HiddenTCPPort(l) => (Matches(l, c) <=> c.port = l.port)
         /\ Matches(l, c) => ~HiddenUDP(l)
<1>1. /\ TLSRoute(l) => ~HTTPRoute(l) /\ ~HiddenTCPPort(l)
      /\ HTTPRoute(l) => ~HiddenTCPPort(l)
      /\ HiddenUDP(l) => ~TLSRoute(l) /\ ~HTTPRoute(l) /\ ~HiddenTCPPort(l)
  BY DEF TLSRoute, HTTPRoute, HiddenRoute, HiddenUDP, HiddenTCPPort
<1>2. QED BY <1>1 DEF Matches

\* A wildcard that matches every name another one matches, and is not shorter
\* than it, is the same.
LEMMA WildHostIsUnique ==
  ASSUME NEW l \in Records, NEW r \in Records, Wild(r.host), r.host # AnyHost,
         \A name \in Names : HostMatches(r.host, name) => HostMatches(l.host, name),
         NEW name \in Names, HostMatches(r.host, name),
         Wild(l.host) => Len(r.host) <= Len(l.host)
  PROVE  l.host = r.host
<1>1. Wild(l.host) /\ IsPrefix(Front(l.host), Front(r.host))
  BY NamesTellHostsApart DEF NamesTellHostsApart
<1>2. /\ l.host \in Seq(STRING) /\ l.host # <<>>
      /\ r.host \in Seq(STRING) /\ r.host # <<>>
  BY RulesConstants DEF RulesConstants
<1>3. /\ Len(Front(l.host)) = Len(l.host) - 1 /\ Len(l.host) \in Nat
      /\ Len(Front(r.host)) = Len(r.host) - 1 /\ Len(r.host) \in Nat
  BY <1>2, FrontFacts
<1>4. Len(Front(l.host)) <= Len(Front(r.host))
  BY <1>1 DEF IsPrefix
<1>5. Len(l.host) = Len(r.host)
  BY <1>1, <1>3, <1>4
<1>6. QED BY <1>1, <1>2, <1>5, HostIsUnique

\* Under one host, an HTTP record takes whatever one with a longer path takes.
LEMMA LongerPathCoversLess ==
  ASSUME NEW l \in Records, NEW r \in Records, HTTPRoute(l), HTTPRoute(r), l.host = r.host,
         NEW c \in Connections, Matches(l, c), Matches(r, c),
         PathLength(r) <= PathLength(l)
  PROVE  Covers[l] \subseteq Covers[r]
<1>1. /\ l.path \in Seq(STRING) /\ l.rooted \in BOOLEAN /\ (l.rooted => l.path = <<>>)
      /\ r.path \in Seq(STRING) /\ r.rooted \in BOOLEAN /\ (r.rooted => r.path = <<>>)
  BY RulesConstants DEF RulesConstants
<1>2. IsPrefix(l.path, c.path) /\ IsPrefix(r.path, c.path) /\ c.path \in Seq(STRING)
  BY MatchFacts, ConnectionFacts
<1>3. IsPrefix(r.path, l.path)
  <2>1. CASE r.path = <<>>
    BY <1>1, <2>1, EmptyPrefix
  <2>2. CASE r.path # <<>>
    <3>1. Len(r.path) \in Nat \ {0} /\ Len(l.path) \in Nat
      BY <1>1, <2>2, EmptySeq, LenProperties
    <3>2. Len(r.path) <= Len(l.path)
      BY <2>2, <3>1 DEF PathLength
    <3>3. QED BY <1>1, <1>2, <3>2, PrefixOrder
  <2>3. QED BY <2>1, <2>2
<1>4. ASSUME NEW d \in Connections, Matches(l, d)
      PROVE  Matches(r, d)
  <2>1. IsPrefix(l.path, d.path) /\ d.path \in Seq(STRING)
    BY <1>4, MatchFacts, ConnectionFacts
  <2>2. IsPrefix(r.path, d.path)
    BY <1>1, <1>3, <2>1, PrefixOrder
  <2>3. QED BY <1>4, <2>2, MatchFacts
<1>5. QED BY <1>4 DEF Covers

LEMMA DraftMostSpecificWins == DraftInv => MostSpecificWins
<1> SUFFICES ASSUME DraftInv, hidden, Valid, NEW l \in Listeners, NEW r \in Listeners,
                    r.enabled, Covers[r] \subseteq Covers[l], NEW c \in Covers[r],
                    l \in Routes(c)
             PROVE  Covers[l] \subseteq Covers[r]
  BY DEF MostSpecificWins
<1>1. l \in Records /\ r \in Records
  BY ListenerFacts
<1>2. /\ Covers[l] = {d \in Connections : Matches(l, d)}
      /\ Covers[r] = {d \in Connections : Matches(r, d)}
  BY <1>1 DEF Covers
<1>3. c \in Connections /\ Matches(l, c) /\ Matches(r, c)
  BY <1>2
<1>4. ~HiddenUDP(l) /\ ~HiddenUDP(r)
  BY <1>3, MatchFacts
<1>5. ~Earlier(r, l)
  BY <1>2, <1>3, <1>4 DEF Routes
<1>6. \A d \in Connections : Matches(r, d) => Matches(l, d)
  BY <1>2
<1>7. SUFFICES \A d \in Connections : Matches(l, d) => Matches(r, d)
  BY <1>2
<1>8. /\ l.host \in Seq(STRING) /\ l.host # <<>> /\ r.host \in Seq(STRING) /\ r.host # <<>>
      /\ l.path \in Seq(STRING) /\ r.path \in Seq(STRING)
      /\ Len(l.host) \in Nat /\ Len(r.host) \in Nat
      /\ PathLength(l) \in Nat /\ PathLength(r) \in Nat
  <2>1. /\ l.host \in Seq(STRING) /\ l.host # <<>> /\ r.host \in Seq(STRING) /\ r.host # <<>>
        /\ l.path \in Seq(STRING) /\ r.path \in Seq(STRING)
    BY <1>1, RulesConstants DEF RulesConstants
  <2>2. Len(l.path) \in Nat /\ Len(r.path) \in Nat /\ Len(l.host) \in Nat /\ Len(r.host) \in Nat
    BY <2>1, LenProperties
  <2>3. QED BY <2>1, <2>2 DEF PathLength
<1>9. Rank(l) \in 1 .. 6 /\ Rank(r) \in 1 .. 6 /\ Rank(l) <= Rank(r)
  <2>1. Rank(l) \in 1 .. 6 /\ Rank(r) \in 1 .. 6
    BY <1>4, RankFacts
  <2>2. QED BY <1>5, <2>1 DEF Earlier
<1>10. Rank(l) = Rank(r) /\ Rank(r) < 6 => Len(r.host) <= Len(l.host)
  BY <1>5, <1>8 DEF Earlier, HostLength
<1>11. Rank(l) = Rank(r) /\ Rank(r) \in 3 .. 5 /\ l.host = r.host => PathLength(r) <= PathLength(l)
  BY <1>5, <1>8 DEF Earlier
\* A record that takes all that a wildcard takes is the same wildcard.
<1>12. ASSUME Rank(r) \in {2, 4},
              \/ TLSRoute(l) /\ TLSRoute(r)
              \/ HTTPRoute(l) /\ HTTPRoute(r) /\ l.host # AnyHost
       PROVE  l.host = r.host
  <2>1. Wild(r.host) /\ r.host # AnyHost
    <3>1. RightHidden(r)
      BY DEF Valid
    <3>2. QED BY <1>4, <1>12, <3>1, RankFacts DEF RightHidden
  <2>2. c.kind # "other" /\ c.name # NoName /\ HostMatches(r.host, c.name) /\ c.name \in Names
    <3>1. c.kind # "other" /\ c.name # NoName /\ HostMatches(r.host, c.name)
      BY <1>3, <1>12, <2>1, MatchFacts
    <3>2. QED BY <1>3, <3>1, ConnectionFacts
  <2>3. ASSUME NEW name \in Names, HostMatches(r.host, name)
        PROVE  HostMatches(l.host, name)
    <3> DEFINE d == [c EXCEPT !.name = name]
    <3>1. d \in Connections /\ d.name = name /\ d.kind = c.kind /\ d.path = c.path
      BY <1>3, <2>2, ConnectionFacts
    <3> HIDE DEF d
    <3>2. name # NoName
      <4>1. name \in Seq(STRING) /\ Front(r.host) \in Seq(STRING)
        BY <1>8, FrontFacts, NamesTellHostsApart DEF NamesTellHostsApart
      <4>2. IsPrefix(Front(r.host), name) /\ Front(r.host) # name
        BY <2>1, <2>3 DEF HostMatches, IsStrictPrefix
      <4>3. Len(Front(r.host)) <= Len(name) /\ Len(Front(r.host)) \in Nat
        BY <4>1, <4>2, LenProperties DEF IsPrefix
      <4>4. ASSUME name = <<>> PROVE FALSE
        BY <4>1, <4>2, <4>3, <4>4, EmptySeq
      <4>5. QED BY <4>4 DEF NoName
    <3>3. Matches(r, d)
      BY <1>3, <1>12, <2>3, <3>1, <3>2, MatchFacts
    <3>4. Matches(l, d)
      BY <1>6, <3>1, <3>3
    <3>5. QED BY <1>12, <3>1, <3>4, MatchFacts
  <2>4. Wild(l.host) => Len(r.host) <= Len(l.host)
    <3>1. Wild(l.host) => Rank(l) = Rank(r)
      BY <1>4, <1>12, <2>1, RankFacts
    <3>2. QED BY <1>10, <1>12, <3>1
  <2>5. QED BY <1>1, <2>1, <2>2, <2>3, <2>4, WildHostIsUnique
\* One host, and neither path is longer.
<1>13. ASSUME Rank(l) = Rank(r), Rank(r) \in 3 .. 5, l.host = r.host
       PROVE  \A d \in Connections : Matches(l, d) => Matches(r, d)
  <2>1. HTTPRoute(l) /\ HTTPRoute(r)
    BY <1>4, <1>13, RankFacts
  <2>2. Covers[l] \subseteq Covers[r]
    BY <1>1, <1>3, <1>11, <1>13, <2>1, LongerPathCoversLess
  <2>3. QED BY <1>2, <2>2
<1>14. CASE Rank(r) \in {1, 2}
  <2>1. TLSRoute(r) /\ TLSRoute(l)
    BY <1>4, <1>9, <1>14, RankFacts
  <2>2. l.host = r.host
    <3>1. CASE Rank(r) = 1
      <4>1. ~Wild(r.host) /\ ~Wild(l.host)
        BY <1>4, <1>9, <3>1, RankFacts
      <4>2. HostMatches(r.host, c.name) /\ HostMatches(l.host, c.name)
        BY <1>3, <2>1, MatchFacts
      <4>3. QED BY <4>1, <4>2 DEF HostMatches
    <3>2. CASE Rank(r) = 2
      BY <1>12, <2>1, <3>2
    <3>3. QED BY <1>14, <3>1, <3>2
  <2>3. QED BY <2>1, <2>2, MatchFacts
<1>15. CASE Rank(r) \in {3, 4, 5}
  <2>1. HTTPRoute(r) /\ c.kind = "http"
    BY <1>3, <1>4, <1>15, RankFacts, MatchFacts
  <2>2. HTTPRoute(l) /\ Rank(l) \in {3, 4, 5}
    <3>1. ~TLSRoute(l)
      BY <1>3, <2>1, MatchFacts
    <3>2. Rank(l) \notin {1, 2}
      BY <1>4, <3>1, RankFacts
    <3>3. Rank(l) \in {3, 4, 5}
      BY <1>9, <1>15, <3>2
    <3>4. QED BY <1>4, <3>3, RankFacts
  <2>3. CASE Rank(r) = 3
    <3>1. Rank(l) = 3
      BY <1>9, <2>2, <2>3
    <3>2. /\ ~Wild(l.host) /\ ~Wild(r.host) /\ l.host # AnyHost /\ r.host # AnyHost
      BY <1>4, <2>3, <3>1, RankFacts
    <3>3. HostMatches(r.host, c.name) /\ HostMatches(l.host, c.name)
      BY <1>3, <2>1, <2>2, <3>2, MatchFacts
    <3>4. l.host = r.host
      BY <3>2, <3>3 DEF HostMatches
    <3>5. QED BY <1>13, <2>3, <3>1, <3>4
  <2>4. CASE Rank(r) = 4
    <3>1. Rank(l) \in {3, 4}
      BY <1>9, <2>2, <2>4
    <3>2. l.host # AnyHost
      BY <1>4, <3>1, RankFacts
    <3>3. l.host = r.host
      BY <1>12, <2>1, <2>2, <2>4, <3>2
    <3>4. Rank(l) = 4
      BY <1>4, <2>4, <3>1, <3>3, RankFacts
    <3>5. QED BY <1>13, <2>4, <3>3, <3>4
  <2>5. CASE Rank(r) = 5
    <3> DEFINE d == [c EXCEPT !.name = NoName]
    <3>1. d \in Connections /\ d.name = NoName /\ d.kind = c.kind /\ d.path = c.path
      BY <1>3, <2>1, ConnectionFacts
    <3> HIDE DEF d
    <3>2. r.host = AnyHost
      BY <1>4, <2>5, RankFacts
    <3>3. Matches(r, d)
      BY <1>3, <2>1, <3>1, <3>2, MatchFacts
    <3>4. Matches(l, d)
      BY <1>6, <3>1, <3>3
    <3>5. l.host = AnyHost
      BY <2>2, <3>1, <3>4, MatchFacts
    <3>6. Rank(l) = 5
      BY <1>4, <2>2, <3>5, RankFacts
    <3>7. QED BY <1>13, <2>5, <3>2, <3>5, <3>6
  <2>6. QED BY <1>15, <2>3, <2>4, <2>5
<1>16. CASE Rank(r) = 6
  <2> DEFINE d == [kind |-> "other", name |-> NoName, path |-> <<>>, port |-> c.port]
  <2>1. d \in Connections /\ d.kind = "other" /\ d.port = c.port
    BY <1>3, ConnectionFacts
  <2> HIDE DEF d
  <2>2. HiddenTCPPort(r)
    BY <1>4, <1>16, RankFacts
  <2>3. Matches(l, d)
    BY <1>3, <1>6, <2>1, <2>2, MatchFacts
  <2>4. ~TLSRoute(l) /\ ~HTTPRoute(l)
    BY <2>1, <2>3, MatchFacts
  <2>5. HiddenTCPPort(l)
    BY <1>4, <2>4 DEF TLSRoute, HTTPRoute, HiddenRoute
  <2>6. l.port = c.port /\ r.port = c.port
    BY <1>3, <2>2, <2>5, MatchFacts
  <2>7. QED BY <2>2, <2>5, <2>6, MatchFacts
<1>17. QED BY <1>9, <1>14, <1>15, <1>16

-----------------------------------------------------------------------------
(* The properties of a draft                                               *)

\* The services of a record are on its port, with its protocols and its address.
LEMMA ServiceFacts ==
  ASSUME NEW l, NEW s \in ServicesOf(l)
  PROVE  /\ s.protocol \in l.protocols /\ s.port = l.port /\ s.address = BindAddress(l)
         /\ l.enabled
         /\ hidden => HiddenUDP(l) /\ s.protocol = "udp"
BY DEF ServicesOf, HiddenUDP

LEMMA DraftServicesDistinct == DraftInv => ServicesDistinct
<1> SUFFICES ASSUME DraftInv, Valid, hidden \/ ~NamesIngress
             PROVE  /\ \A p \in Pairs : ServicesOf(draft[p[1]]) \cap ServicesOf(draft[p[2]]) = {}
                    /\ \A l \in Listeners : ServicesOf(l) \cap SharedSockets = {}
  BY DEF ServicesDistinct
<1>1. ASSUME NEW p \in Pairs, NEW s \in ServicesOf(draft[p[1]]), s \in ServicesOf(draft[p[2]])
      PROVE  FALSE
  <2> DEFINE l == draft[p[1]]
             r == draft[p[2]]
  <2>1. /\ s.protocol \in l.protocols \cap r.protocols /\ l.port = r.port
        /\ BindAddress(l) = BindAddress(r)
        /\ hidden => HiddenUDP(l) /\ HiddenUDP(r)
    BY <1>1, ServiceFacts
  <2>2. p[1] \in DOMAIN draft /\ p[2] \in DOMAIN draft
    BY DEF Pairs
  <2>3. l \in Listeners /\ r \in Listeners
    BY <2>2 DEF Listeners, ToSet
  <2> HIDE DEF l, r
  <2>4. CASE hidden
    <3>1. Owns(l) = <<"udp", l.port>> /\ Owns(r) = <<"udp", r.port>>
      BY <2>1, <2>4 DEF Owns, HiddenUDP, HiddenTCPPort, TLSRoute, HTTPRoute, HiddenRoute
    <3>2. Owns(l) # Owns(r)
      BY <2>4 DEF Valid, Unique, l, r
    <3>3. QED BY <2>1, <3>1, <3>2
  <2>5. CASE ~hidden
    <3>1. ~Conflict(l, r)
      BY <2>5 DEF Valid, l, r
    <3>2. l.address # Ingress /\ r.address # Ingress
      BY <2>3, <2>5 DEF NamesIngress
    <3>3. \/ l.address = r.address
          \/ "0.0.0.0" \in {l.address, r.address}
      BY <2>1, <2>5, <3>2 DEF BindAddress
    <3>4. QED BY <2>1, <3>1, <3>3 DEF Conflict
  <2>6. QED BY <2>4, <2>5
<1>2. ASSUME NEW l \in Listeners, NEW s \in ServicesOf(l), s \in SharedSockets
      PROVE  FALSE
  <2>1. hidden /\ s.protocol = "tcp"
    BY <1>2 DEF SharedSockets
  <2>2. s.protocol = "udp"
    BY <2>1, ServiceFacts
  <2>3. QED BY <2>1, <2>2
<1>3. QED BY <1>1, <1>2

LEMMA DraftRoutesUnique == DraftInv => RouteIsUnique
<1> SUFFICES ASSUME DraftInv, hidden, Valid, NEW c \in Connections,
                    NEW l \in Routes(c), NEW r \in Routes(c)
             PROVE  l = r
  BY DEF RouteIsUnique
<1>1. l \in Listeners /\ r \in Listeners
  BY DEF Routes
<1>2. Owns(l) = Owns(r)
  BY RoutesShareOwner
<1>3. QED BY <1>1, <1>2, OneOwner

LEMMA DraftInputAdmits == InputAdmitsServices
<1> SUFFICES ASSUME hidden, NEW s \in Endpoints
             PROVE  Admits(s)
  BY DEF InputAdmitsServices
<1>1. CASE s \in SharedSockets
  BY <1>1 DEF SharedSockets, Admits, HiddenPorts, BaseInputPorts
<1>2. ASSUME NEW l \in Listeners, s \in ServicesOf(l)
      PROVE  Admits(s)
  <2>1. s.protocol = "udp" /\ s.port = l.port /\ l.enabled /\ HiddenUDP(l)
    BY <1>2, ServiceFacts
  <2>2. s.port \in HiddenUDPPorts
    BY <2>1 DEF HiddenUDPPorts
  <2>3. QED BY <2>1, <2>2 DEF Admits
<1>3. QED BY <1>1, <1>2 DEF Endpoints

-----------------------------------------------------------------------------
(* No record is dead                                                       *)

\* Whoever names a name that a host matches, names one.
LEMMA MatchedIsName ==
  ASSUME NEW host \in Seq(STRING), host # <<>>, NEW name \in Seq(STRING),
         HostMatches(host, name)
  PROVE  name # NoName
<1>1. CASE ~Wild(host)
  BY <1>1 DEF HostMatches, NoName
<1>2. CASE Wild(host)
  <2>1. IsPrefix(Front(host), name) /\ Front(host) # name /\ Front(host) \in Seq(STRING)
    BY <1>2, FrontFacts DEF HostMatches, IsStrictPrefix
  <2>2. Len(Front(host)) <= Len(name) /\ Len(Front(host)) \in Nat
    BY <2>1, LenProperties DEF IsPrefix
  <2>3. ASSUME name = <<>> PROVE FALSE
    BY <2>1, <2>2, <2>3, EmptySeq
  <2>4. QED BY <2>3 DEF NoName
<1>3. QED BY <1>1, <1>2

\* A draft has finitely many records.
LEMMA ListenersAreFinite ==
  ASSUME DraftInv
  PROVE  IsFiniteSet(Listeners) /\ Listeners \in SUBSET Records
<1>1. DOMAIN draft = 1 .. Len(draft) /\ Len(draft) \in Nat
  BY LenProperties DEF DraftInv
<1>2. draft \in Surjection(1 .. Len(draft), Listeners)
  <2>1. draft \in [1 .. Len(draft) -> Records]
    BY <1>1, ElementOfSeq DEF DraftInv
  <2>2. QED BY <1>1, <2>1 DEF Surjection, Listeners, ToSet
<1>3. IsFiniteSet(1 .. Len(draft))
  BY <1>1, FS_Interval
<1>4. QED BY <1>2, <1>3, FS_Surjection, ListenerFacts

\* The names a client asks for to be sure of a record: its host, one below its
\* wildcard that no closer record of the draft matches, or none.
LEMMA NameOfItsOwn ==
  ASSUME DraftInv, NEW l \in Listeners, l.host # AnyHost
  PROVE  \E name \in Names :
           /\ name # NoName /\ HostMatches(l.host, name)
           /\ \A r \in Listeners : HostMatches(r.host, name) =>
                IF Wild(l.host) THEN Wild(r.host) /\ Len(r.host) <= Len(l.host)
                ELSE Wild(r.host) \/ r.host = l.host
<1>1. l \in Records /\ l.host \in Seq(STRING) /\ l.host # <<>>
  BY ListenerFacts
<1>2. Names \subseteq Seq(STRING)
  BY NamesTellHostsApart DEF NamesTellHostsApart
<1>3. CASE ~Wild(l.host)
  <2>1. l.host \in Names
    BY <1>1, <1>3, NamesBelowWildcards DEF NamesBelowWildcards
  <2>2. HostMatches(l.host, l.host) /\ l.host # NoName
    BY <1>1, <1>3 DEF HostMatches, NoName
  <2>3. \A r \in Listeners : HostMatches(r.host, l.host) => Wild(r.host) \/ r.host = l.host
    BY DEF HostMatches
  <2>4. QED BY <1>3, <2>1, <2>2, <2>3
<1>4. CASE Wild(l.host)
  <2>1. PICK name \in Names :
          /\ HostMatches(l.host, name)
          /\ \A r \in Listeners : HostMatches(r.host, name) =>
               Wild(r.host) /\ Len(r.host) <= Len(l.host)
    BY <1>4, ListenersAreFinite, NamesBelowWildcards DEF NamesBelowWildcards
  <2>2. name # NoName
    BY <1>1, <1>2, <2>1, MatchedIsName
  <2>3. QED BY <1>4, <2>1, <2>2
<1>5. QED BY <1>3, <1>4

\* A record that no matching one comes before gets the connection.
LEMMA FirstGetsIt ==
  ASSUME DraftInv, hidden, Valid, NEW l \in Listeners, l.enabled,
         NEW c \in Connections, Matches(l, c),
         \A r \in Listeners : Matches(r, c) /\ ~HiddenUDP(r) => ~Earlier(r, l)
  PROVE  c \in Covers[l] /\ Routes(c) = {l}
<1>1. \A r \in Listeners : c \in Covers[r] <=> Matches(r, c)
  BY ListenerFacts DEF Covers
<1>2. ~HiddenUDP(l)
  BY MatchFacts
<1>3. l \in Routes(c)
  BY <1>1, <1>2 DEF Routes
<1>4. \A r \in Routes(c) : r = l
  BY <1>3, DraftRoutesUnique DEF RouteIsUnique
<1>5. QED BY <1>1, <1>3, <1>4

\* Of two records with one host, the one with the longer path does not match the
\* path of the other one, unless it takes all that the other one takes.
LEMMA OwnPathIsOwn ==
  ASSUME NEW l \in Records, NEW r \in Records, HTTPRoute(l), HTTPRoute(r), l.host = r.host,
         Covers[r] # Covers[l], IsPrefix(r.path, l.path)
  PROVE  ~(PathLength(r) > PathLength(l))
<1>1. SUFFICES ASSUME PathLength(r) > PathLength(l) PROVE FALSE
  OBVIOUS
<1>2. /\ l.path \in Seq(STRING) /\ l.rooted \in BOOLEAN
      /\ r.path \in Seq(STRING) /\ r.rooted \in BOOLEAN
      /\ (l.rooted => l.path = <<>>) /\ (r.rooted => r.path = <<>>)
  BY RulesConstants DEF RulesConstants
<1>3. Len(r.path) <= Len(l.path) /\ Len(r.path) \in Nat /\ Len(l.path) \in Nat
  BY <1>2, LenProperties DEF IsPrefix
<1>4. (l.path # <<>> => Len(l.path) # 0) /\ (r.path # <<>> => Len(r.path) # 0)
      /\ Len(<<>>) = 0
  BY <1>2, EmptySeq
<1>5. l.path = r.path
  BY <1>1, <1>3, <1>4 DEF PathLength
<1>6. \A c \in Connections : Matches(l, c) <=> Matches(r, c)
  BY <1>5, MatchFacts
<1>7. QED BY <1>6 DEF Covers

LEMMA DraftRoutesReached == DraftInv => EveryRouteIsReached
<1> SUFFICES ASSUME DraftInv, hidden, Valid, NEW l \in Listeners, l.enabled, ~HiddenUDP(l),
                    \A r \in Listeners \ {l} : Covers[r] # Covers[l]
             PROVE  \E c \in Covers[l] : Routes(c) = {l}
  BY DEF EveryRouteIsReached
<1> SUFFICES \E c \in Connections :
               /\ Matches(l, c)
               /\ \A r \in Listeners : Matches(r, c) /\ ~HiddenUDP(r) => ~Earlier(r, l)
  BY FirstGetsIt
<1>1. /\ l \in Records /\ l.host \in Seq(STRING) /\ l.host # <<>> /\ l.path \in Seq(STRING)
      /\ l.rooted \in BOOLEAN /\ (l.rooted => l.path = <<>>) /\ l.path \in Paths
  BY ListenerFacts, NamesBelowWildcards DEF NamesBelowWildcards
<1>2. RightHidden(l)
  BY DEF Valid
<1>3. \A r \in Listeners : Len(r.host) \in Nat /\ r \in Records
  BY ListenerFacts, LenProperties
<1>4. 80 \in HiddenPorts
  BY DEF HiddenPorts
<1>5. IsPrefix(l.path, l.path)
  BY <1>1, PrefixElements, LenProperties
<1>6. CASE HiddenTCPPort(l)
  <2> DEFINE c == [kind |-> "other", name |-> NoName, path |-> <<>>, port |-> l.port]
  <2>1. ~HiddenRoute(l) /\ Rank(l) = 6
    BY <1>6 DEF HiddenRoute, Rank, TLSRoute, HTTPRoute
  <2>2. c \in Connections /\ c.kind = "other" /\ c.port = l.port
    BY <1>2, <2>1 DEF RightHidden, Connections
  <2> HIDE DEF c
  <2>3. Matches(l, c)
    BY <1>6, <2>2, MatchFacts
  <2>4. ASSUME NEW r \in Listeners, Matches(r, c), ~HiddenUDP(r)
        PROVE  ~Earlier(r, l)
    <3>1. ~TLSRoute(r) /\ ~HTTPRoute(r)
      BY <2>2, <2>4, MatchFacts
    <3>2. Rank(r) = 6
      BY <3>1 DEF Rank
    <3>3. QED BY <2>1, <3>2 DEF Earlier
  <2>5. QED BY <2>2, <2>3, <2>4
<1>7. CASE TLSRoute(l)
  <2>1. l.host # AnyHost
    BY <1>2, <1>7 DEF RightHidden
  <2>2. PICK name \in Names :
          /\ name # NoName /\ HostMatches(l.host, name)
          /\ \A r \in Listeners : HostMatches(r.host, name) =>
               IF Wild(l.host) THEN Wild(r.host) /\ Len(r.host) <= Len(l.host)
               ELSE Wild(r.host) \/ r.host = l.host
    BY <2>1, NameOfItsOwn
  <2> DEFINE c == [kind |-> "tls", name |-> name, path |-> l.path, port |-> 80]
  <2>3. c \in Connections /\ c.kind = "tls" /\ c.name = name
    BY <1>1, <1>4 DEF Connections
  <2> HIDE DEF c
  <2>4. Matches(l, c)
    BY <1>7, <2>2, <2>3, MatchFacts
  <2>5. ASSUME NEW r \in Listeners, Matches(r, c), ~HiddenUDP(r)
        PROVE  ~Earlier(r, l)
    <3>1. CASE TLSRoute(r)
      <4>1. HostMatches(r.host, name)
        BY <2>3, <2>5, <3>1, MatchFacts
      <4>2. IF Wild(l.host) THEN Wild(r.host) /\ Len(r.host) <= Len(l.host)
            ELSE Wild(r.host) \/ r.host = l.host
        BY <2>2, <4>1
      <4>3. Rank(l) = IF Wild(l.host) THEN 2 ELSE 1
        BY <1>7 DEF Rank, TLSRoute, HTTPRoute
      <4>4. Rank(r) = IF Wild(r.host) THEN 2 ELSE 1
        BY <3>1 DEF Rank, TLSRoute, HTTPRoute
      <4>5. QED BY <1>3, <4>2, <4>3, <4>4 DEF Earlier, HostLength
    <3>2. CASE ~TLSRoute(r)
      <4>1. ~HTTPRoute(r)
        BY <2>3, <2>5, MatchFacts
      <4>2. Rank(r) = 6
        BY <3>2, <4>1 DEF Rank
      <4>3. Rank(l) = IF Wild(l.host) THEN 2 ELSE 1
        BY <1>7 DEF Rank, TLSRoute, HTTPRoute
      <4>4. QED BY <4>2, <4>3 DEF Earlier
    <3>3. QED BY <3>1, <3>2
  <2>6. QED BY <2>3, <2>4, <2>5
<1>8. CASE HTTPRoute(l)
  <2>1. \E name \in Names \cup {NoName} :
          /\ l.host = AnyHost => name = NoName
          /\ l.host # AnyHost => name # NoName /\ HostMatches(l.host, name)
          /\ l.host # AnyHost =>
               \A r \in Listeners : HostMatches(r.host, name) =>
                 IF Wild(l.host) THEN Wild(r.host) /\ Len(r.host) <= Len(l.host)
                 ELSE Wild(r.host) \/ r.host = l.host
    BY NameOfItsOwn
  <2>2. PICK name \in Names \cup {NoName} :
          /\ l.host = AnyHost => name = NoName
          /\ l.host # AnyHost => name # NoName /\ HostMatches(l.host, name)
          /\ l.host # AnyHost =>
               \A r \in Listeners : HostMatches(r.host, name) =>
                 IF Wild(l.host) THEN Wild(r.host) /\ Len(r.host) <= Len(l.host)
                 ELSE Wild(r.host) \/ r.host = l.host
    BY <2>1
  <2> DEFINE c == [kind |-> "http", name |-> name, path |-> l.path, port |-> 80]
  <2>3. c \in Connections /\ c.kind = "http" /\ c.name = name /\ c.path = l.path
    BY <1>1, <1>4 DEF Connections
  <2> HIDE DEF c
  <2>4. Matches(l, c)
    BY <1>5, <1>8, <2>2, <2>3, MatchFacts
  <2>5. /\ Rank(l) = (IF l.host = AnyHost THEN 5 ELSE IF Wild(l.host) THEN 4 ELSE 3)
        /\ ~TLSRoute(l)
    BY <1>8 DEF Rank, TLSRoute, HTTPRoute
  <2>6. ASSUME NEW r \in Listeners, Matches(r, c), ~HiddenUDP(r)
        PROVE  ~Earlier(r, l)
    <3>1. CASE HTTPRoute(r)
      <4>1. /\ r.host = AnyHost \/ (name # NoName /\ HostMatches(r.host, name))
            /\ IsPrefix(r.path, l.path)
        BY <2>3, <2>6, <3>1, MatchFacts
      <4>2. /\ Rank(r) = (IF r.host = AnyHost THEN 5 ELSE IF Wild(r.host) THEN 4 ELSE 3)
        BY <3>1 DEF Rank, TLSRoute, HTTPRoute
      <4>3. r.host = l.host /\ r # l => ~(PathLength(r) > PathLength(l))
        BY <1>3, <1>8, <3>1, <4>1, OwnPathIsOwn
      <4>4. PathLength(l) \in Nat
        BY <1>1, LenProperties DEF PathLength
      <4>5. r.host = l.host => ~(PathLength(r) > PathLength(l))
        BY <4>3, <4>4
      <4>6. ~(Rank(r) < Rank(l)) /\ (Rank(r) = Rank(l) => Len(r.host) <= Len(l.host))
        <5>1. Wild(AnyHost)
          BY DEF Wild, AnyHost, Last
        <5>2. CASE l.host = AnyHost
          BY <1>3, <2>2, <2>5, <4>1, <4>2, <5>2
        <5>3. CASE l.host # AnyHost /\ r.host = AnyHost
          BY <2>5, <4>2, <5>3
        <5>4. CASE l.host # AnyHost /\ r.host # AnyHost
          <6>1. IF Wild(l.host) THEN Wild(r.host) /\ Len(r.host) <= Len(l.host)
                ELSE Wild(r.host) \/ r.host = l.host
            BY <2>2, <4>1, <5>4
          <6>2. QED BY <1>3, <2>5, <4>2, <5>4, <6>1
        <5>5. QED BY <5>2, <5>3, <5>4
      <4>7. QED BY <1>3, <4>5, <4>6 DEF Earlier, HostLength
    <3>2. CASE ~HTTPRoute(r)
      <4>1. ~TLSRoute(r)
        BY <2>3, <2>6, MatchFacts
      <4>2. Rank(r) = 6
        BY <3>2, <4>1 DEF Rank
      <4>3. QED BY <2>5, <4>2 DEF Earlier
    <3>3. QED BY <3>1, <3>2
  <2>7. QED BY <2>3, <2>4, <2>6
<1>9. QED BY <1>6, <1>7, <1>8 DEF HTTPRoute, TLSRoute, HiddenRoute

-----------------------------------------------------------------------------
(* Theorems                                                                *)

\* Every edit leaves a draft of records an administrator can add.
LEMMA RulesSafety == RulesSpec => []DraftInv
<1>1. RulesInit => DraftInv
  BY EmptySeq DEF RulesInit, DraftInv
<1>2. ASSUME DraftInv, [RulesNext]_rulesVars
      PROVE  DraftInv'
  <2>1. ASSUME NEW l \in Records, AddListener(l)
        PROVE  DraftInv'
    BY <1>2, <2>1, AppendProperties DEF AddListener, DraftInv
  <2>2. ASSUME NEW i \in DOMAIN draft, RemoveListener(i)
        PROVE  DraftInv'
    BY <1>2, <2>2, RemoveAtType DEF RemoveListener, DraftInv
  <2>3. CASE ToggleHidden \/ UNCHANGED rulesVars
    BY <1>2, <2>3 DEF ToggleHidden, rulesVars, DraftInv
  <2>4. QED BY <1>2, <2>1, <2>2, <2>3 DEF RulesNext
<1>3. QED BY <1>1, <1>2, PTL DEF RulesSpec

\* Whatever Validate accepts, the services of any two records are different, and
\* none is one of the shared frontend's, for drafts of any length.
THEOREM AcceptedServicesDistinct == RulesSpec => []ServicesDistinct
BY RulesSafety, DraftServicesDistinct, PTL

\* In every accepted hidden profile, whatever its records, every connection of
\* whatever client ends at one record, or at none.
THEOREM AcceptedRoutesUnique == RulesSpec => []RouteIsUnique
BY RulesSafety, DraftRoutesUnique, PTL

\* hidden.go:55 for every accepted profile: of two records of which one takes
\* less, the one that takes less gets every connection it takes.
THEOREM AcceptedMostSpecificWins == RulesSpec => []MostSpecificWins
BY RulesSafety, DraftMostSpecificWins, PTL

\* No accepted hidden profile has a dead record: whatever the others, a client
\* can ask for something that only this one gets, unless another one takes
\* exactly the same connections.
THEOREM AcceptedRoutesReached == RulesSpec => []EveryRouteIsReached
BY RulesSafety, DraftRoutesReached, PTL

\* The inbound chain of a hidden node lets in whatever its profile listens on.
THEOREM AcceptedInputAdmits == RulesSpec => []InputAdmitsServices
BY DraftInputAdmits, PTL
=============================================================================
