------------------------- MODULE PanelStore_proofs --------------------------
(***************************************************************************)
(* What the panel's database guarantees for any number of nodes, profiles, *)
(* revisions and concurrent handlers: theorems about PanelStore.           *)
(***************************************************************************)
EXTENDS PanelStore, TLAPS

-----------------------------------------------------------------------------
(* Type correctness                                                        *)

\* A fresh or emptied node row is a row.
LEMMA BlankOK == ASSUME NEW s \in Statuses PROVE Blank(s) \in Row
<1>1. (CHOOSE i \in IPs : TRUE) \in IPs BY PanelStoreConstants
<1>2. (CHOOSE t \in Tunings : TRUE) \in Tunings BY PanelStoreConstants
<1> QED BY <1>1, <1>2 DEF Blank, Row, ApplyStates, Credentials

\* The state of a handler between two requests is a request record.
LEMMA IdleOK == Idle \in Request
<1>1. SomeNode \in Nodes BY PanelStoreConstants DEF SomeNode
<1> QED BY <1>1, PanelStoreConstants DEF Idle, Request, Versions

\* Remembering what a handler read, and forgetting it, keep req well typed.
LEMMA RequestTypes ==
  ASSUME StoreTypeOK
  PROVE  /\ \A h \in Handlers : Answers(h) => req' \in [Handlers -> Request]
         /\ \A h \in Handlers, n \in Nodes, p \in Profiles \cup {NoProfile},
               rev \in Nat, need \in Versions,
               op \in {"create", "gate", "assign", "drop", "revoke", "rotate"} :
              Later(h, op, n, p, rev, need) => req' \in [Handlers -> Request]
<1>1. ASSUME NEW h \in Handlers, Answers(h) PROVE req' \in [Handlers -> Request]
  BY <1>1, IdleOK DEF StoreTypeOK, Answers
<1>2. ASSUME NEW h \in Handlers, NEW n \in Nodes, NEW p \in Profiles \cup {NoProfile},
             NEW rev \in Nat, NEW need \in Versions,
             NEW op \in {"create", "gate", "assign", "drop", "revoke", "rotate"},
             Later(h, op, n, p, rev, need)
      PROVE  req' \in [Handlers -> Request]
  <2> DEFINE q == [op |-> op, node |-> n, profile |-> p, rev |-> rev, need |-> need]
  <2>1. q \in Request BY DEF Request
  <2>2. req' = [req EXCEPT ![h] = q] BY <1>2 DEF Later
  <2> HIDE DEF q
  <2> QED BY <2>1, <2>2 DEF StoreTypeOK
<1> QED BY <1>1, <1>2

\* Writing a well-typed row keeps the nodes table well typed.
LEMMA UpdateTypes ==
  ASSUME StoreTypeOK, NEW n \in Nodes, NEW r \in Row, Update(n, r)
  PROVE  row' \in [Nodes -> Row]
BY DEF StoreTypeOK, Update

\* A row keeps its shape when its status, or status and apply state, change.
LEMMA StatusTypes ==
  ASSUME NEW r \in Row, NEW s \in Statuses, NEW a \in ApplyStates
  PROVE  /\ [r EXCEPT !.status = s] \in Row
         /\ [r EXCEPT !.status = s, !.state = a] \in Row
<1>1. [r EXCEPT !.status = s] \in Row BY DEF Row
<1>2. [r EXCEPT !.status = s, !.state = a] \in Row BY DEF Row
<1> QED BY <1>1, <1>2

\* The current revision number of a live profile is one of its revisions.
LEMMA CurrentOK ==
  ASSUME StoreTypeOK, NEW p \in Profiles
  PROVE  /\ Current(p) \in Nat
         /\ Live(p) => /\ Current(p) \in 1 .. Current(p)
                       /\ revisions[p][Current(p)] \in Versions
<1>1. revisions[p] \in Seq(Versions) BY DEF StoreTypeOK
<1>2. Len(revisions[p]) \in Nat BY <1>1
<1>3. revisions[p] # <<>> => Len(revisions[p]) > 0 BY <1>1
<1>4. \A i \in 1 .. Len(revisions[p]) : revisions[p][i] \in Versions BY <1>1
<1> QED BY <1>2, <1>3, <1>4 DEF Current, Live

\* Every statement of an administrator handler writes rows, revisions and
\* requests of the shape the schema declares.
LEMMA AdminTypes ==
  ASSUME StoreTypeOK, AdminNext
  PROVE  StoreTypeOK'
<1> USE DEF StoreTypeOK
<1>1. ASSUME NEW p \in Profiles, NEW need \in Versions, CreateProfile(p, need)
      PROVE  StoreTypeOK'
  <2>1. <<need>> \in Seq(Versions) OBVIOUS
  <2> QED BY <1>1, <2>1 DEF CreateProfile
<1>2. ASSUME NEW p \in Profiles, NEW need \in Versions, NEW reset \in BOOLEAN,
             PublishRevision(p, need, reset)
      PROVE  StoreTypeOK'
  <2>1. Append(revisions[p], need) \in Seq(Versions) OBVIOUS
  <2>2. revisions' \in [Profiles -> Seq(Versions)]
    BY <1>2, <2>1 DEF PublishRevision
  <2> DEFINE number == Current(p) + 1
             mark == ResetMark(p, reset)
             next(n) == [row[n] EXCEPT !.desired = number, !.reset = mark]
  <2>3. number \in Nat /\ mark \in Nat BY CurrentOK DEF ResetMark
  <2>4. row' = [n \in Nodes |-> IF n \in Assigned(p) THEN next(n) ELSE row[n]]
    BY <1>2 DEF PublishRevision
  <2> HIDE DEF number, mark
  <2>5. \A n \in Nodes : next(n) \in Row BY <2>3 DEF Row
  <2> HIDE DEF next
  <2>6. row' \in [Nodes -> Row] BY <2>4, <2>5
  <2> QED BY <1>2, <2>2, <2>6 DEF PublishRevision
<1>3. ASSUME NEW p \in Profiles, NEW number \in 1 .. MaxRev, RollbackProfile(p, number)
      PROVE  StoreTypeOK'
  <2>1. revisions[p][number] \in Versions
    BY <1>3 DEF RollbackProfile, Current
  <2> QED BY <1>2, <1>3, <2>1 DEF RollbackProfile
<1>4. ASSUME NEW h \in Handlers, NEW p \in Profiles, DeleteProfileCount(h, p)
      PROVE  StoreTypeOK'
  <2>1. SomeNode \in Nodes /\ 1 \in Versions
    BY PanelStoreConstants DEF SomeNode, Versions
  <2> QED BY <1>4, <2>1, RequestTypes DEF DeleteProfileCount
<1>5. ASSUME NEW h \in Handlers, DeleteProfileDelete(h) PROVE StoreTypeOK'
  <2> DEFINE p == req[h].profile
  <2>1. p \in Profiles BY <1>5 DEF DeleteProfileDelete, Live
  <2>2. revisions' \in [Profiles -> Seq(Versions)] /\ deleted' \in SUBSET Profiles
    BY <1>5, <2>1 DEF DeleteProfileDelete
  <2> DEFINE next(n) == [row[n] EXCEPT !.profile = NoProfile]
  <2>3. \A n \in Nodes : next(n) \in Row BY DEF Row
  <2>4. row' = [n \in Nodes |-> IF n \in Assigned(p) THEN next(n) ELSE row[n]]
    BY <1>5 DEF DeleteProfileDelete, Unassign
  <2> HIDE DEF next
  <2>5. row' \in [Nodes -> Row] BY <2>3, <2>4
  <2> QED BY <1>5, <2>2, <2>5, RequestTypes DEF DeleteProfileDelete
<1>6. ASSUME NEW h \in Handlers, NEW n \in Nodes, NEW p \in Profiles,
             CreateNodeRead(h, n, p) \/ AssignProfileRead(h, n, p)
      PROVE  StoreTypeOK'
  <2>1. 1 \in Versions BY PanelStoreConstants DEF Versions
  <2>2. CASE CreateNodeRead(h, n, p)
    <3>1. req' \in [Handlers -> Request]
      BY <2>1, <2>2, CurrentOK, RequestTypes DEF CreateNodeRead
    <3> QED BY <3>1, <2>2 DEF CreateNodeRead
  <2>3. CASE AssignProfileRead(h, n, p)
    <3> DEFINE need == revisions[p][Current(p)]
               op == IF need > 1 THEN "gate" ELSE "assign"
    <3>1. need \in Versions /\ Current(p) \in Nat
      BY <2>3, CurrentOK DEF AssignProfileRead
    <3>2. Later(h, op, n, p, Current(p), need) BY <2>3 DEF AssignProfileRead
    <3>3. op \in {"gate", "assign"} OBVIOUS
    <3> HIDE DEF need, op
    <3>4. req' \in [Handlers -> Request] BY <3>1, <3>2, <3>3, RequestTypes
    <3> QED BY <3>4, <2>3 DEF AssignProfileRead
  <2> QED BY <1>6, <2>2, <2>3
<1>7. ASSUME NEW h \in Handlers, NEW ip \in IPs, CreateNodeInsert(h, ip)
      PROVE  StoreTypeOK'
  <2>1. req[h] \in Request OBVIOUS
  <2>2. Blank("connecting") \in Row BY BlankOK DEF Statuses
  <2> DEFINE r == [Blank("connecting") EXCEPT !.profile = req[h].profile, !.ip = ip,
            !.desired = req[h].rev, !.cred = "agent"]
  <2>3. r \in Row BY <2>1, <2>2 DEF Request, Row, Credentials
  <2>4. req[h].node \in Nodes BY <2>1 DEF Request
  <2>5. Update(req[h].node, r) BY <1>7 DEF CreateNodeInsert
  <2> HIDE DEF r
  <2>6. row' \in [Nodes -> Row] BY <2>3, <2>4, <2>5, UpdateTypes
  <2> QED BY <1>7, <2>6, RequestTypes DEF CreateNodeInsert
<1>8. ASSUME NEW h \in Handlers, AssignProfileGate(h) PROVE StoreTypeOK'
  <2>1. [req[h] EXCEPT !.op = "assign"] \in Request BY DEF Request
  <2> QED BY <1>8, <2>1 DEF AssignProfileGate
<1>9. ASSUME NEW h \in Handlers, AssignProfileUpdate(h) PROVE StoreTypeOK'
  <2>1. req[h] \in Request OBVIOUS
  <2>2. req[h].node \in Nodes /\ row[req[h].node] \in Row BY <2>1 DEF Request
  <2>3. PointTo(row[req[h].node], req[h]) \in Row
    BY <2>1, <2>2 DEF PointTo, Request, Row
  <2>4. row' \in [Nodes -> Row]
    BY <1>9, <2>2, <2>3, UpdateTypes DEF AssignProfileUpdate
  <2> QED BY <1>9, <2>4, RequestTypes DEF AssignProfileUpdate
<1>10. ASSUME NEW h \in Handlers, RotateStatus(h) \/ RevokeStatus(h) PROVE StoreTypeOK'
  <2> DEFINE n == req[h].node
  <2>1. req[h] \in Request OBVIOUS
  <2>2. n \in Nodes BY <2>1 DEF Request
  <2>3. /\ [row[n] EXCEPT !.status = "offline"] \in Row
        /\ [row[n] EXCEPT !.status = "disabled"] \in Row
    BY <2>2, StatusTypes DEF Statuses, ApplyStates
  <2>4. row' \in [Nodes -> Row]
    BY <1>10, <2>2, <2>3, UpdateTypes DEF RotateStatus, RevokeStatus
  <2> QED BY <1>10, <2>4, RequestTypes DEF RotateStatus, RevokeStatus
<1>11. ASSUME NEW h \in Handlers, Abandon(h) PROVE StoreTypeOK'
  BY <1>11, RequestTypes DEF Abandon
<1>12. ASSUME NEW h \in Handlers, NEW n \in Nodes,
              RotateCredential(h, n) \/ RevokeCredential(h, n)
       PROVE  StoreTypeOK'
  <2> DEFINE r(c) == [row[n] EXCEPT !.cred = c]
  <2>1. r("issued") \in Row /\ r("none") \in Row BY DEF Row, Credentials
  <2>2. 1 \in Versions BY PanelStoreConstants DEF Versions
  <2>3. row' \in [Nodes -> Row]
    BY <1>12, <2>1, UpdateTypes DEF RotateCredential, RevokeCredential
  <2>4. req' \in [Handlers -> Request]
    BY <1>12, <2>2, RequestTypes DEF RotateCredential, RevokeCredential
  <2> QED BY <1>12, <2>3, <2>4 DEF RotateCredential, RevokeCredential
<1>13. ASSUME NEW n \in Nodes,
              RequestNodeRestart(n) \/ RequestHealthProbe(n) \/ RequestNodeUpdate(n)
       PROVE  StoreTypeOK'
  <2> DEFINE more(x) == x + 1
             nonce == [row[n] EXCEPT !.nonce = more(@)]
             probe == [row[n] EXCEPT !.probe = more(@)]
             target == [row[n] EXCEPT !.target = PanelVersion]
  <2>1. nonce \in Row /\ probe \in Row /\ target \in Row
    <3>1. PanelVersion \in Versions BY PanelStoreConstants DEF Versions
    <3>0. more(row[n].nonce) \in Nat /\ more(row[n].probe) \in Nat BY DEF Row
    <3> HIDE DEF more
    <3>2. nonce \in Row BY <3>0 DEF Row
    <3>3. probe \in Row BY <3>0 DEF Row
    <3>4. target \in Row BY <3>1 DEF Row
    <3> QED BY <3>2, <3>3, <3>4
  <2>2. row' \in [Nodes -> Row]
    BY <1>13, <2>1, UpdateTypes
    DEF RequestNodeRestart, RequestHealthProbe, RequestNodeUpdate
  <2> QED BY <1>13, <2>2
          DEF RequestNodeRestart, RequestHealthProbe, RequestNodeUpdate
<1>14. ASSUME NEW n \in Nodes, DeleteNode(n) \/ ForceDeleteNode(n) PROVE StoreTypeOK'
  <2>1. Blank("removed") \in Row BY BlankOK DEF Statuses
  <2>2. [row[n] EXCEPT !.status = "deleting", !.state = "decommissioning"] \in Row
    BY StatusTypes DEF Statuses, ApplyStates
  <2>3. row' \in [Nodes -> Row]
    BY <1>14, <2>1, <2>2, UpdateTypes DEF DeleteNode, MarkDeleting, ForceDeleteNode
  <2> QED BY <1>14, <2>3 DEF DeleteNode, MarkDeleting, ForceDeleteNode
<1>15. ASSUME NEW n \in Nodes, NEW ip \in IPs, UpdateNode(n, ip) PROVE StoreTypeOK'
  <2>1. [row[n] EXCEPT !.ip = ip] \in Row BY DEF Row
  <2> QED BY <1>15, <2>1, UpdateTypes DEF UpdateNode
<1>16. ASSUME NEW n \in Nodes, NEW t \in Tunings, UpdateTCPTuning(n, t)
       PROVE  StoreTypeOK'
  <2>1. [row[n] EXCEPT !.tuning = t] \in Row BY DEF Row
  <2> QED BY <1>16, <2>1, UpdateTypes DEF UpdateTCPTuning
<1>17. ASSUME NEW n \in Nodes, NEW e \in BOOLEAN, SetNodeEnabled(n, e)
       PROVE  StoreTypeOK'
  <2> DEFINE status == IF e THEN "connecting" ELSE "disabled"
             state == IF e THEN "waiting" ELSE "disabled"
             r == [row[n] EXCEPT !.status = status, !.state = state]
  <2>1. r \in Row
    <3>1. status \in Statuses /\ state \in ApplyStates BY DEF Statuses, ApplyStates
    <3> HIDE DEF status, state
    <3> QED BY <3>1, StatusTypes
  <2>2. Update(n, r) BY <1>17 DEF SetNodeEnabled
  <2> HIDE DEF r
  <2>3. row' \in [Nodes -> Row] BY <2>1, <2>2, UpdateTypes
  <2> QED BY <1>17, <2>3 DEF SetNodeEnabled
<1> QED
  BY <1>1, <1>2, <1>3, <1>4, <1>5, <1>6, <1>7, <1>8, <1>9, <1>10, <1>11, <1>12,
     <1>13, <1>14, <1>15, <1>16, <1>17 DEF AdminNext

\* So does the transaction of a heartbeat.
LEMMA HeartbeatTypes ==
  ASSUME StoreTypeOK, NEW n \in Nodes, NEW hb \in Report, Heartbeat(n, hb)
  PROVE  StoreTypeOK'
<1> USE DEF StoreTypeOK
<1>1. /\ hb.rev \in Nat /\ hb.ack \in Nat /\ hb.version \in Versions
      /\ hb.profile \in Profiles \cup {NoProfile} /\ hb.state \in ApplyStates
  BY DEF Report
<1>2. AckAfter(row[n], hb) \in Nat /\ ResetAfter(row[n], hb) \in Nat
  BY <1>1 DEF AckAfter, ResetAfter, Row
<1>3. Blank("removed") \in Row BY BlankOK DEF Statuses
<1> DEFINE deleting == row[n].status = "deleting"
           status == IF deleting THEN "deleting" ELSE "online"
           state == IF deleting THEN "decommissioning" ELSE hb.state
           target == IF hb.version >= row[n].target THEN 0 ELSE row[n].target
           ack == AckAfter(row[n], hb)
           reset == ResetAfter(row[n], hb)
           s == [row[n] EXCEPT
                   !.status = status, !.state = state,
                   !.applied = hb.rev, !.appliedProfile = hb.profile]
           r == [s EXCEPT !.version = hb.version, !.target = target,
                          !.ack = ack, !.reset = reset]
<1>4. r \in Row
  <2>1. status \in Statuses /\ state \in ApplyStates
    BY <1>1 DEF Statuses, ApplyStates
  <2>2. target \in Versions \cup {0} BY DEF Row
  <2> HIDE DEF status, state, target, ack, reset
  <2>3. ack \in Nat /\ reset \in Nat BY <1>2 DEF ack, reset
  <2>4. s \in Row BY <1>1, <2>1 DEF Row
  <2> HIDE DEF s
  <2> QED BY <1>1, <2>2, <2>3, <2>4 DEF Row
<1>5. Update(n, IF Forgets(row[n], hb) THEN Blank("removed") ELSE r)
  BY DEF Heartbeat
<1> HIDE DEF r
<1>6. row' \in [Nodes -> Row] BY <1>3, <1>4, <1>5, UpdateTypes
<1> QED BY <1>6 DEF Heartbeat

\* What the store's own specification lets agents report are reports.
LEMMA ReportsAreReports == Reports \subseteq Report
BY PanelStoreConstants DEF Reports, Report, ApplyStates

\* Every statement of the store writes rows, revisions and requests of the
\* shape the schema declares.
THEOREM StoreTypes == StoreSpec => []StoreTypeOK
<1>1. StoreInit => StoreTypeOK
  BY BlankOK, IdleOK DEF StoreInit, StoreTypeOK, Statuses
<1>2. StoreTypeOK /\ [StoreNext]_storeVars => StoreTypeOK'
  <2>1. StoreTypeOK /\ UNCHANGED storeVars => StoreTypeOK' BY DEF StoreTypeOK, storeVars
  <2> QED BY <2>1, AdminTypes, HeartbeatTypes, ReportsAreReports DEF StoreNext
<1> QED BY <1>1, <1>2, PTL DEF StoreSpec

-----------------------------------------------------------------------------
(* The revision a node is to apply                                         *)

Reading == {"create", "gate", "assign"}

\* A profile that was deleted has no revisions, and never gets any again.
DeletedIsEmpty == \A p \in deleted : revisions[p] = <<>>

\* A handler that read a revision read it from a profile that is still there
\* or was deleted meanwhile: never from one that is yet to be created.
ReadingExisted ==
  \A h \in Handlers : req[h].op \in Reading =>
    Live(req[h].profile) \/ req[h].profile \in deleted

\* DesiredExists is not inductive: an assignment writes the number its handler
\* read earlier, which is a revision only because RequestsStayValid holds, and
\* that survives the creation of a profile only because ReadingExisted and
\* DeletedIsEmpty exclude that the profile is one some handler has read.
RevisionInv ==
  /\ DesiredExists
  /\ ResetMarksDesired
  /\ RequestsStayValid
  /\ ReadingExisted
  /\ DeletedIsEmpty

\* The row of a node still points where it pointed, or the node is forgotten.
SamePlace(n) ==
  \/ row'[n].status = "removed" /\ row'[n].reset = 0
  \/ /\ row'[n].status \notin {"absent", "removed"} => Exists(n)
     /\ row'[n].profile = row[n].profile
     /\ row'[n].desired = row[n].desired
     /\ row'[n].reset \in {0, row[n].reset}

\* A handler that has read a revision had read the same one before.
SameReads(h) ==
  \/ req'[h].op \notin Reading
  \/ /\ req[h].op \in Reading
     /\ req'[h].profile = req[h].profile
     /\ req'[h].rev = req[h].rev

\* Steps that touch neither profiles nor where nodes point keep the invariant.
LEMMA SamePlaceKeeps ==
  ASSUME StoreTypeOK, RevisionInv, UNCHANGED <<revisions, deleted>>,
         \A n \in Nodes : SamePlace(n), \A h \in Handlers : SameReads(h)
  PROVE  RevisionInv'
<1>1. \A p : (Live(p) <=> Live(p)') /\ Current(p)' = Current(p)
  BY DEF Live, Current
<1>2. DesiredExists'
  BY <1>1 DEF RevisionInv, DesiredExists, SamePlace, Exists, HasProfileRevision
<1>3. ResetMarksDesired'
  BY DEF RevisionInv, ResetMarksDesired, SamePlace
<1>4. RequestsStayValid'
  BY <1>1 DEF RevisionInv, RequestsStayValid, SameReads, Reading
<1>5. ReadingExisted'
  BY <1>1 DEF RevisionInv, ReadingExisted, SameReads
<1>6. DeletedIsEmpty' BY DEF RevisionInv, DeletedIsEmpty
<1> QED BY <1>2, <1>3, <1>4, <1>5, <1>6 DEF RevisionInv

\* A statement that writes one row leaves every other node where it was.
LEMMA OneRow ==
  ASSUME StoreTypeOK, NEW n \in Nodes, NEW r, Update(n, r)
  PROVE  /\ row'[n] = r
         /\ \A m \in Nodes \ {n} : SamePlace(m)
<1>1. row'[n] = r BY DEF Update, StoreTypeOK
<1>2. \A m \in Nodes \ {n} : row'[m] = row[m] BY DEF Update, StoreTypeOK
<1>3. \A m \in Nodes \ {n} : SamePlace(m) BY <1>2 DEF SamePlace, Exists
<1> QED BY <1>1, <1>3

\* A request that is unchanged, answered or not about revisions reads nothing.
LEMMA NoNewReads ==
  ASSUME StoreTypeOK,
         \/ UNCHANGED req
         \/ \E h \in Handlers : Answers(h)
         \/ \E h \in Handlers, op \in {"drop", "rotate", "revoke"} :
              \E m, p, rev, need : Later(h, op, m, p, rev, need)
  PROVE  \A g \in Handlers : SameReads(g)
<1>1. CASE UNCHANGED req BY <1>1 DEF SameReads
<1>2. ASSUME NEW h \in Handlers, Answers(h) PROVE \A g \in Handlers : SameReads(g)
  <2>1. req'[h].op \notin Reading BY <1>2 DEF Answers, StoreTypeOK, Idle, Reading
  <2>2. \A g \in Handlers \ {h} : req'[g] = req[g] BY <1>2 DEF Answers, StoreTypeOK
  <2> QED BY <2>1, <2>2 DEF SameReads
<1>3. ASSUME NEW h \in Handlers, NEW op \in {"drop", "rotate", "revoke"},
             NEW m, NEW p, NEW rev, NEW need, Later(h, op, m, p, rev, need)
      PROVE  \A g \in Handlers : SameReads(g)
  <2>1. req'[h].op \notin Reading BY <1>3 DEF Later, StoreTypeOK, Reading
  <2>2. \A g \in Handlers \ {h} : req'[g] = req[g] BY <1>3 DEF Later, StoreTypeOK
  <2> QED BY <2>1, <2>2 DEF SameReads
<1> QED BY <1>1, <1>2, <1>3

\* The write of an assignment or of a new node: one node is pointed at the
\* revision its handler read, which is one the profile has.
LEMMA PointAtRead ==
  ASSUME StoreTypeOK, RevisionInv, UNCHANGED <<revisions, deleted>>,
         NEW h \in Handlers, req[h].op \in Reading, Live(req[h].profile), Answers(h),
         NEW n \in Nodes, NEW r, Update(n, r),
         r.profile = req[h].profile, r.desired = req[h].rev, r.reset = 0
  PROVE  RevisionInv'
<1>1. \A p : (Live(p) <=> Live(p)') /\ Current(p)' = Current(p)
  BY DEF Live, Current
<1>2. row'[n] = r BY DEF Update, StoreTypeOK
<1>3. \A m \in Nodes \ {n} : row'[m] = row[m] BY DEF Update, StoreTypeOK
<1>4. req[h].rev \in 1 .. Current(req[h].profile)
  BY DEF RevisionInv, RequestsStayValid, Reading
<1>5. DesiredExists'
  BY <1>1, <1>2, <1>3, <1>4 DEF RevisionInv, DesiredExists, HasProfileRevision, Exists
<1>6. ResetMarksDesired'
  BY <1>2, <1>3 DEF RevisionInv, ResetMarksDesired
<1>7. \A g \in Handlers : SameReads(g) BY NoNewReads
<1>8. RequestsStayValid' BY <1>1, <1>7 DEF RevisionInv, RequestsStayValid, SameReads, Reading
<1>9. ReadingExisted' BY <1>1, <1>7 DEF RevisionInv, ReadingExisted, SameReads
<1>10. DeletedIsEmpty' BY DEF RevisionInv, DeletedIsEmpty
<1> QED BY <1>5, <1>6, <1>8, <1>9, <1>10 DEF RevisionInv

\* A handler reads the current revision of a live profile.
LEMMA ReadsCurrent ==
  ASSUME StoreTypeOK, RevisionInv, UNCHANGED <<revisions, deleted, row>>,
         NEW h \in Handlers, NEW p \in Profiles, Live(p),
         NEW op, NEW n, NEW need, Later(h, op, n, p, Current(p), need)
  PROVE  RevisionInv'
<1>1. \A q : (Live(q) <=> Live(q)') /\ Current(q)' = Current(q)
  BY DEF Live, Current
<1>2. req'[h].profile = p /\ req'[h].rev = Current(p) BY DEF Later, StoreTypeOK
<1>3. \A g \in Handlers \ {h} : req'[g] = req[g] BY DEF Later, StoreTypeOK
<1>4. Current(p) \in 1 .. Current(p) BY CurrentOK
<1>5. RequestsStayValid'
  BY <1>1, <1>2, <1>3, <1>4 DEF RevisionInv, RequestsStayValid
<1>6. ReadingExisted' BY <1>1, <1>2, <1>3 DEF RevisionInv, ReadingExisted
<1>7. DesiredExists' /\ ResetMarksDesired' /\ DeletedIsEmpty'
  BY <1>1 DEF RevisionInv, DesiredExists, ResetMarksDesired, DeletedIsEmpty,
              Exists, HasProfileRevision
<1> QED BY <1>5, <1>6, <1>7 DEF RevisionInv

\* A profile id that was never used gets its first revision.
LEMMA CreateKeeps ==
  ASSUME StoreTypeOK, RevisionInv, NEW p \in Profiles, NEW need \in Versions,
         CreateProfile(p, need)
  PROVE  RevisionInv'
<1>1. ~Live(p) /\ p \notin deleted BY DEF CreateProfile
<1>2. \A q : q # p => (Live(q) <=> Live(q)') /\ (Live(q) => Current(q)' = Current(q))
  BY DEF CreateProfile, Live, Current, StoreTypeOK
<1>3. Live(p)' BY DEF CreateProfile, Live, StoreTypeOK
<1>4. UNCHANGED <<deleted, row, req>> BY DEF CreateProfile
<1>5. DesiredExists'
  BY <1>1, <1>2, <1>4 DEF RevisionInv, DesiredExists, HasProfileRevision, Exists
<1>6. RequestsStayValid'
  BY <1>1, <1>2, <1>4 DEF RevisionInv, RequestsStayValid, ReadingExisted, Reading
<1>7. ReadingExisted'
  BY <1>2, <1>3, <1>4 DEF RevisionInv, ReadingExisted
<1>8. DeletedIsEmpty'
  BY <1>1, <1>4 DEF RevisionInv, DeletedIsEmpty, CreateProfile, StoreTypeOK
<1>9. ResetMarksDesired' BY <1>4 DEF RevisionInv, ResetMarksDesired
<1> QED BY <1>5, <1>6, <1>7, <1>8, <1>9 DEF RevisionInv

\* A publication appends a revision and moves every assigned node to it.
LEMMA PublishKeeps ==
  ASSUME StoreTypeOK, RevisionInv, NEW p \in Profiles, NEW need \in Versions,
         NEW reset \in BOOLEAN, PublishRevision(p, need, reset)
  PROVE  RevisionInv'
<1> DEFINE next(n) == [row[n] EXCEPT !.desired = Current(p) + 1,
                                     !.reset = ResetMark(p, reset)]
<1>1. revisions[p] \in Seq(Versions) /\ Current(p) \in Nat
  BY CurrentOK DEF StoreTypeOK
<1>2. revisions'[p] = Append(revisions[p], need)
  BY DEF PublishRevision, StoreTypeOK
<1>3. Live(p) /\ Live(p)' /\ Current(p)' = Current(p) + 1
  <2>1. Len(revisions'[p]) = Len(revisions[p]) + 1 BY <1>1, <1>2
  <2>2. revisions'[p] # <<>> BY <1>1, <2>1 DEF Current
  <2> QED BY <2>1, <2>2 DEF PublishRevision, Live, Current
<1>4. \A q \in Profiles \ {p} : (Live(q) <=> Live(q)') /\ Current(q)' = Current(q)
  BY DEF PublishRevision, Live, Current, StoreTypeOK
<1>5. \A n \in Nodes : row'[n] = IF n \in Assigned(p) THEN next(n) ELSE row[n]
  BY DEF PublishRevision
<1>6. \A n \in Nodes : /\ next(n).status = row[n].status
                       /\ next(n).profile = row[n].profile
                       /\ next(n).desired = Current(p) + 1
                       /\ next(n).reset \in {0, Current(p) + 1}
  BY DEF StoreTypeOK, Row, ResetMark
<1>7. UNCHANGED <<deleted, req>> BY DEF PublishRevision
<1> HIDE DEF next
<1>8. DesiredExists'
  <2> SUFFICES ASSUME NEW n \in Nodes, Exists(n)', row'[n].profile # NoProfile
               PROVE  HasProfileRevision(n)'
    BY DEF DesiredExists
  <2>1. Exists(n) /\ row'[n].profile = row[n].profile
    BY <1>5, <1>6 DEF Exists
  <2>2. HasProfileRevision(n) BY <2>1 DEF RevisionInv, DesiredExists
  <2>3. CASE row[n].profile = p
    <3>1. row'[n].desired = Current(p) + 1 BY <1>5, <1>6, <2>1, <2>3 DEF Assigned
    <3> QED BY <1>1, <1>3, <2>1, <2>3, <3>1 DEF HasProfileRevision
  <2>4. CASE row[n].profile # p
    <3>1. row'[n] = row[n] BY <1>5, <2>4 DEF Assigned
    <3>2. row[n].profile \in Profiles BY <2>2 DEF HasProfileRevision, Live
    <3> QED BY <1>4, <2>2, <2>4, <3>1, <3>2 DEF HasProfileRevision
  <2> QED BY <2>3, <2>4
<1>9. ResetMarksDesired'
  BY <1>5, <1>6 DEF RevisionInv, ResetMarksDesired
<1>10. RequestsStayValid'
  <2>1. ASSUME NEW h \in Handlers, NEW q, q = req[h].profile,
               req[h].op \in {"create", "gate", "assign"}, Live(q)'
        PROVE  req[h].rev \in 1 .. Current(q)'
    <3>1. q \in Profiles BY <2>1 DEF Live
    <3>2. Live(q) BY <1>3, <1>4, <2>1, <3>1
    <3>3. req[h].rev \in 1 .. Current(q)
      BY <2>1, <3>2 DEF RevisionInv, RequestsStayValid
    <3>4. CASE q = p BY <1>1, <1>3, <3>3, <3>4
    <3>5. CASE q # p BY <1>4, <3>1, <3>3, <3>5
    <3> QED BY <3>4, <3>5
  <2> QED BY <1>7, <2>1 DEF RequestsStayValid
<1>11. ReadingExisted'
  BY <1>3, <1>4, <1>7 DEF RevisionInv, ReadingExisted, Live
<1>12. DeletedIsEmpty'
  BY <1>3, <1>7 DEF RevisionInv, DeletedIsEmpty, PublishRevision, StoreTypeOK, Live
<1> QED BY <1>8, <1>9, <1>10, <1>11, <1>12 DEF RevisionInv

\* A deletion removes the revisions and unassigns whoever was assigned.
LEMMA DeleteKeeps ==
  ASSUME StoreTypeOK, RevisionInv, NEW h \in Handlers, DeleteProfileDelete(h)
  PROVE  RevisionInv'
<1> DEFINE p == req[h].profile
           next(n) == [row[n] EXCEPT !.profile = NoProfile]
<1>1. p \in Profiles /\ revisions'[p] = <<>> /\ deleted' = deleted \cup {p}
  BY DEF DeleteProfileDelete, Live, StoreTypeOK
<1>2. \A q \in Profiles \ {p} : revisions'[q] = revisions[q]
  BY DEF DeleteProfileDelete, StoreTypeOK
<1>4. \A n \in Nodes : row'[n] = IF n \in Assigned(p) THEN next(n) ELSE row[n]
  BY DEF DeleteProfileDelete, Unassign
<1>5. \A n \in Nodes : /\ next(n).status = row[n].status
                       /\ next(n).profile = NoProfile
                       /\ next(n).desired = row[n].desired
                       /\ next(n).reset = row[n].reset
  BY DEF StoreTypeOK, Row
<1>6. \A g \in Handlers : SameReads(g) BY NoNewReads DEF DeleteProfileDelete
<1> HIDE DEF p, next
<1>7. DesiredExists'
  <2> SUFFICES ASSUME NEW n \in Nodes, Exists(n)', row'[n].profile # NoProfile
               PROVE  HasProfileRevision(n)'
    BY DEF DesiredExists
  <2>1. n \notin Assigned(p) /\ row'[n] = row[n] BY <1>4, <1>5
  <2>2. Exists(n) /\ HasProfileRevision(n)
    BY <2>1 DEF RevisionInv, DesiredExists, Exists
  <2>3. row[n].profile \in Profiles \ {p}
    BY <2>1, <2>2 DEF Assigned, HasProfileRevision, Live
  <2> QED BY <1>2, <2>1, <2>2, <2>3 DEF HasProfileRevision, Live, Current
<1>8. ResetMarksDesired' BY <1>4, <1>5 DEF RevisionInv, ResetMarksDesired
<1>9. RequestsStayValid'
  <2>1. ASSUME NEW g \in Handlers, NEW q, q = req'[g].profile,
               req'[g].op \in {"create", "gate", "assign"}, Live(q)'
        PROVE  req'[g].rev \in 1 .. Current(q)'
    <3>1. /\ req[g].op \in Reading
          /\ req[g].profile = q /\ req'[g].rev = req[g].rev
      BY <1>6, <2>1 DEF SameReads, Reading
    <3>2. q \in Profiles \ {p} BY <1>1, <2>1 DEF Live
    <3>3. Live(q) BY <1>2, <2>1, <3>2 DEF Live
    <3>4. req[g].rev \in 1 .. Current(q)
      BY <3>1, <3>3 DEF RevisionInv, RequestsStayValid, Reading
    <3> QED BY <1>2, <3>1, <3>2, <3>4 DEF Current
  <2> QED BY <2>1 DEF RequestsStayValid
<1>10. ReadingExisted'
  <2>1. ASSUME NEW g \in Handlers, NEW q, q = req'[g].profile, req'[g].op \in Reading
        PROVE  Live(q)' \/ q \in deleted'
    <3>1. req[g].op \in Reading /\ req[g].profile = q BY <1>6, <2>1 DEF SameReads
    <3>2. Live(q) \/ q \in deleted BY <3>1 DEF RevisionInv, ReadingExisted
    <3> QED BY <1>1, <1>2, <3>2 DEF Live
  <2> QED BY <2>1 DEF ReadingExisted
<1>11. DeletedIsEmpty'
  BY <1>1 DEF RevisionInv, DeletedIsEmpty, DeleteProfileDelete, StoreTypeOK
<1> QED BY <1>7, <1>8, <1>9, <1>10, <1>11 DEF RevisionInv

\* Every statement of an administrator handler keeps the invariant.
LEMMA AdminKeeps ==
  ASSUME StoreTypeOK, RevisionInv, AdminNext
  PROVE  RevisionInv'
<1>1. ASSUME NEW p \in Profiles, NEW need \in Versions,
             \/ CreateProfile(p, need)
             \/ \E reset \in BOOLEAN : PublishRevision(p, need, reset)
      PROVE  RevisionInv'
  BY <1>1, CreateKeeps, PublishKeeps
<1>2. ASSUME NEW p \in Profiles, NEW number \in 1 .. MaxRev, RollbackProfile(p, number)
      PROVE  RevisionInv'
  <2>1. revisions[p][number] \in Versions
    BY <1>2 DEF RollbackProfile, Current, StoreTypeOK
  <2> QED BY <1>2, <2>1, PublishKeeps DEF RollbackProfile
<1>3. ASSUME NEW h \in Handlers, NEW p \in Profiles, DeleteProfileCount(h, p)
      PROVE  RevisionInv'
  <2>1. \A g \in Handlers : SameReads(g) BY <1>3, NoNewReads DEF DeleteProfileCount
  <2>2. \A n \in Nodes : SamePlace(n) BY <1>3 DEF DeleteProfileCount, SamePlace, Exists
  <2> QED BY <1>3, <2>1, <2>2, SamePlaceKeeps DEF DeleteProfileCount
<1>4. ASSUME NEW h \in Handlers, DeleteProfileDelete(h) PROVE RevisionInv'
  BY <1>4, DeleteKeeps
<1>5. ASSUME NEW h \in Handlers, NEW n \in Nodes, NEW p \in Profiles,
             CreateNodeRead(h, n, p) \/ AssignProfileRead(h, n, p)
      PROVE  RevisionInv'
  <2>1. UNCHANGED <<revisions, deleted, row>> /\ Live(p)
    BY <1>5 DEF CreateNodeRead, AssignProfileRead
  <2>2. \E op, need : Later(h, op, n, p, Current(p), need)
    BY <1>5 DEF CreateNodeRead, AssignProfileRead
  <2> QED BY <2>1, <2>2, ReadsCurrent
<1>6. ASSUME NEW h \in Handlers, NEW ip \in IPs, CreateNodeInsert(h, ip)
      PROVE  RevisionInv'
  <2> DEFINE r == [Blank("connecting") EXCEPT !.profile = req[h].profile, !.ip = ip,
                      !.desired = req[h].rev, !.cred = "agent"]
  <2>1. r.profile = req[h].profile /\ r.desired = req[h].rev /\ r.reset = 0
    BY DEF Blank
  <2>2. Update(req[h].node, r) BY <1>6 DEF CreateNodeInsert
  <2>3. req[h].node \in Nodes BY DEF StoreTypeOK, Request
  <2>4. /\ req[h].op \in Reading /\ Live(req[h].profile) /\ Answers(h)
        /\ UNCHANGED <<revisions, deleted>>
    BY <1>6 DEF CreateNodeInsert, Reading
  <2> HIDE DEF r
  <2> QED BY <2>1, <2>2, <2>3, <2>4, PointAtRead
<1>7. ASSUME NEW h \in Handlers, AssignProfileGate(h) PROVE RevisionInv'
  <2>1. /\ req'[h].op = "assign" /\ req[h].op \in Reading
        /\ req'[h].profile = req[h].profile /\ req'[h].rev = req[h].rev
    BY <1>7 DEF AssignProfileGate, StoreTypeOK, Request, Reading
  <2>2. \A g \in Handlers \ {h} : req'[g] = req[g]
    BY <1>7 DEF AssignProfileGate, StoreTypeOK
  <2>3. \A g \in Handlers : SameReads(g) BY <2>1, <2>2 DEF SameReads
  <2>4. \A n \in Nodes : SamePlace(n) BY <1>7 DEF AssignProfileGate, SamePlace, Exists
  <2> QED BY <1>7, <2>3, <2>4, SamePlaceKeeps DEF AssignProfileGate
<1>8. ASSUME NEW h \in Handlers, AssignProfileUpdate(h) PROVE RevisionInv'
  <2> DEFINE n == req[h].node
             r == PointTo(row[n], req[h])
  <2>1. n \in Nodes BY DEF StoreTypeOK, Request
  <2>2. r.profile = req[h].profile /\ r.desired = req[h].rev /\ r.reset = 0
    BY <2>1 DEF PointTo, StoreTypeOK, Row
  <2>3. Update(n, r) BY <1>8 DEF AssignProfileUpdate
  <2>4. /\ req[h].op \in Reading /\ Live(req[h].profile) /\ Answers(h)
        /\ UNCHANGED <<revisions, deleted>>
    BY <1>8 DEF AssignProfileUpdate, Reading
  <2> HIDE DEF r, n
  <2> QED BY <2>1, <2>2, <2>3, <2>4, PointAtRead
<1>9. ASSUME NEW h \in Handlers, RotateStatus(h) \/ RevokeStatus(h) PROVE RevisionInv'
  <2> DEFINE n == req[h].node
  <2>1. n \in Nodes /\ row[n] \in Row BY DEF StoreTypeOK, Request
  <2>2. Exists(n) BY <1>9 DEF RotateStatus, RevokeStatus
  <2>3. PICK s \in {"offline", "disabled"} : Update(n, [row[n] EXCEPT !.status = s])
    BY <1>9 DEF RotateStatus, RevokeStatus
  <2>4. SamePlace(n) /\ \A m \in Nodes \ {n} : SamePlace(m)
    BY <2>1, <2>2, <2>3, OneRow DEF Row, SamePlace
  <2>5. \A g \in Handlers : SameReads(g)
    BY <1>9, NoNewReads DEF RotateStatus, RevokeStatus
  <2> QED BY <1>9, <2>4, <2>5, SamePlaceKeeps DEF RotateStatus, RevokeStatus
<1>10. ASSUME NEW h \in Handlers, Abandon(h) PROVE RevisionInv'
  <2>1. \A g \in Handlers : SameReads(g) BY <1>10, NoNewReads DEF Abandon
  <2>2. \A n \in Nodes : SamePlace(n) BY <1>10 DEF Abandon, SamePlace, Exists
  <2> QED BY <1>10, <2>1, <2>2, SamePlaceKeeps DEF Abandon
<1>11. ASSUME NEW h \in Handlers, NEW n \in Nodes,
              RotateCredential(h, n) \/ RevokeCredential(h, n)
       PROVE  RevisionInv'
  <2>1. row[n] \in Row BY DEF StoreTypeOK
  <2>2. Exists(n) BY <1>11 DEF RotateCredential, RevokeCredential
  <2>3. PICK c : Update(n, [row[n] EXCEPT !.cred = c])
    BY <1>11 DEF RotateCredential, RevokeCredential
  <2>4. SamePlace(n) /\ \A m \in Nodes \ {n} : SamePlace(m)
    BY <2>1, <2>2, <2>3, OneRow DEF Row, SamePlace
  <2>5. \A g \in Handlers : SameReads(g)
    BY <1>11, NoNewReads DEF RotateCredential, RevokeCredential
  <2> QED BY <1>11, <2>4, <2>5, SamePlaceKeeps DEF RotateCredential, RevokeCredential
<1>12. ASSUME NEW n \in Nodes,
              \/ RequestNodeRestart(n) \/ RequestHealthProbe(n) \/ RequestNodeUpdate(n)
              \/ DeleteNode(n) \/ ForceDeleteNode(n)
              \/ \E ip \in IPs : UpdateNode(n, ip)
              \/ \E t \in Tunings : UpdateTCPTuning(n, t)
              \/ \E e \in BOOLEAN : SetNodeEnabled(n, e)
       PROVE  RevisionInv'
  <2>1. row[n] \in Row BY DEF StoreTypeOK
  <2>2. UNCHANGED <<revisions, deleted, req>>
    BY <1>12 DEF RequestNodeRestart, RequestHealthProbe, RequestNodeUpdate, DeleteNode,
                 MarkDeleting, ForceDeleteNode, UpdateNode, UpdateTCPTuning, SetNodeEnabled
  <2>3. SamePlace(n) /\ \A m \in Nodes \ {n} : SamePlace(m)
    <3>1. CASE RequestNodeRestart(n)
      BY <2>1, <3>1, OneRow DEF RequestNodeRestart, Row, SamePlace
    <3>2. CASE RequestHealthProbe(n)
      BY <2>1, <3>2, OneRow DEF RequestHealthProbe, Row, SamePlace
    <3>3. CASE RequestNodeUpdate(n)
      BY <2>1, <3>3, OneRow DEF RequestNodeUpdate, Row, SamePlace
    <3>4. CASE DeleteNode(n)
      <4> DEFINE r == [row[n] EXCEPT !.status = "deleting", !.state = "decommissioning"]
      <4>1. Exists(n) /\ Update(n, r) BY <3>4 DEF DeleteNode, MarkDeleting
      <4>2. /\ r.profile = row[n].profile /\ r.desired = row[n].desired
            /\ r.reset = row[n].reset
        BY <2>1 DEF Row
      <4> HIDE DEF r
      <4> QED BY <4>1, <4>2, OneRow DEF SamePlace
    <3>5. CASE ForceDeleteNode(n)
      BY <3>5, OneRow DEF ForceDeleteNode, Blank, SamePlace
    <3>6. CASE \E ip \in IPs : UpdateNode(n, ip)
      BY <2>1, <3>6, OneRow DEF UpdateNode, Row, SamePlace
    <3>7. CASE \E t \in Tunings : UpdateTCPTuning(n, t)
      BY <2>1, <3>7, OneRow DEF UpdateTCPTuning, Row, SamePlace
    <3>8. CASE \E e \in BOOLEAN : SetNodeEnabled(n, e)
      <4>1. PICK status, state :
              Exists(n) /\ Update(n, [row[n] EXCEPT !.status = status, !.state = state])
        BY <3>8 DEF SetNodeEnabled
      <4> DEFINE r == [row[n] EXCEPT !.status = status, !.state = state]
      <4>2. /\ r.profile = row[n].profile /\ r.desired = row[n].desired
            /\ r.reset = row[n].reset
        BY <2>1 DEF Row
      <4>3. Update(n, r) BY <4>1
      <4> HIDE DEF r
      <4> QED BY <4>1, <4>2, <4>3, OneRow DEF SamePlace
    <3> QED BY <1>12, <3>1, <3>2, <3>3, <3>4, <3>5, <3>6, <3>7, <3>8
  <2>4. \A m \in Nodes : SamePlace(m) BY <2>3
  <2>5. \A g \in Handlers : SameReads(g) BY <2>2, NoNewReads
  <2> QED BY <2>2, <2>4, <2>5, SamePlaceKeeps
<1> QED
  BY <1>1, <1>2, <1>3, <1>4, <1>5, <1>6, <1>7, <1>8, <1>9, <1>10, <1>11, <1>12
     DEF AdminNext

\* A heartbeat keeps the invariant.
LEMMA HeartbeatKeeps ==
  ASSUME StoreTypeOK, RevisionInv, NEW n \in Nodes, NEW hb \in Report, Heartbeat(n, hb)
  PROVE  RevisionInv'
<1>1. row[n] \in Row /\ Exists(n) BY DEF StoreTypeOK, Heartbeat, MayReport
<1>2. UNCHANGED <<revisions, deleted, req>> BY DEF Heartbeat
<1>3. ASSUME Forgets(row[n], hb) PROVE \A m \in Nodes : SamePlace(m)
  <2>1. Update(n, Blank("removed")) BY <1>3 DEF Heartbeat
  <2>2. row'[n] = Blank("removed") /\ \A m \in Nodes \ {n} : SamePlace(m)
    BY <2>1, OneRow
  <2> QED BY <2>2 DEF Blank, SamePlace
<1>4. ASSUME ~Forgets(row[n], hb) PROVE \A m \in Nodes : SamePlace(m)
  <2> DEFINE target == IF hb.version >= row[n].target THEN 0 ELSE row[n].target
             status == IF row[n].status = "deleting" THEN "deleting" ELSE "online"
             state == IF row[n].status = "deleting" THEN "decommissioning" ELSE hb.state
             ack == AckAfter(row[n], hb)
             reset == ResetAfter(row[n], hb)
             s == [row[n] EXCEPT
                     !.status = status, !.state = state,
                     !.applied = hb.rev, !.appliedProfile = hb.profile]
             r == [s EXCEPT !.version = hb.version, !.target = target,
                            !.ack = ack, !.reset = reset]
  <2>1. Update(n, r) BY <1>4 DEF Heartbeat
  <2>2. reset \in {0, row[n].reset} BY DEF ResetAfter
  <2>3. /\ r.profile = row[n].profile /\ r.desired = row[n].desired /\ r.reset = reset
    <3> HIDE DEF target, status, state, ack, reset
    <3>1. s.profile = row[n].profile /\ s.desired = row[n].desired
      BY <1>1 DEF Row
    <3>2. DOMAIN s = DOMAIN row[n] OBVIOUS
    <3>3. "reset" \in DOMAIN row[n] BY <1>1 DEF Row
    <3> HIDE DEF s
    <3> QED BY <3>1, <3>2, <3>3
  <2> HIDE DEF r, reset
  <2>4. row'[n] = r /\ \A m \in Nodes \ {n} : SamePlace(m) BY <2>1, OneRow
  <2>5. SamePlace(n)
    <3>1. row'[n].profile = row[n].profile /\ row'[n].desired = row[n].desired
      BY <2>3, <2>4
    <3>2. row'[n].reset \in {0, row[n].reset} BY <2>2, <2>3, <2>4
    <3> QED BY <1>1, <3>1, <3>2 DEF SamePlace
  <2> QED BY <2>4, <2>5
<1>5. \A m \in Nodes : SamePlace(m) BY <1>3, <1>4
<1>6. \A g \in Handlers : SameReads(g) BY <1>2, NoNewReads
<1> QED BY <1>2, <1>5, <1>6, SamePlaceKeeps

\* So does a step that leaves the store alone.
LEMMA UnchangedKeeps ==
  ASSUME StoreTypeOK, RevisionInv, UNCHANGED storeVars
  PROVE  RevisionInv'
<1>1. \A m \in Nodes : SamePlace(m) BY DEF storeVars, SamePlace, Exists
<1>2. \A g \in Handlers : SameReads(g) BY NoNewReads DEF storeVars
<1> QED BY <1>1, <1>2, SamePlaceKeeps DEF storeVars

\* The inductive invariant holds in every reachable state of the store.
THEOREM RevisionSafety == StoreSpec => []RevisionInv
<1>1. StoreInit => RevisionInv
  <2> SUFFICES ASSUME StoreInit PROVE RevisionInv
    OBVIOUS
  <2>1. \A n \in Nodes : row[n].status = "absent" /\ row[n].reset = 0
    BY DEF StoreInit, Blank
  <2>2. \A h \in Handlers : req[h].op = "idle" BY DEF StoreInit, Idle
  <2> QED BY <2>1, <2>2 DEF RevisionInv, DesiredExists, ResetMarksDesired, Exists,
             RequestsStayValid, ReadingExisted, Reading, DeletedIsEmpty, StoreInit
<1>2. StoreTypeOK /\ RevisionInv /\ [StoreNext]_storeVars => RevisionInv'
  BY AdminKeeps, HeartbeatKeeps, UnchangedKeeps, ReportsAreReports DEF StoreNext
<1> QED BY <1>1, <1>2, StoreTypes, PTL DEF StoreSpec

\* An assigned node always points at a revision its profile has: DesiredState
\* finds it, whatever the interleaving of assignments, publications, deletions.
THEOREM NodesHaveRevisions == StoreSpec => []DesiredExists
<1>1. RevisionInv => DesiredExists BY DEF RevisionInv
<1> QED BY <1>1, RevisionSafety, PTL

\* A pending connection reset belongs to the revision the node is to apply.
THEOREM ResetsBelong == StoreSpec => []ResetMarksDesired
<1>1. RevisionInv => ResetMarksDesired BY DEF RevisionInv
<1> QED BY <1>1, RevisionSafety, PTL

\* What a handler read of a live profile is still a revision when it writes.
THEOREM ReadsStayValid == StoreSpec => []RequestsStayValid
<1>1. RevisionInv => RequestsStayValid BY DEF RevisionInv
<1> QED BY <1>1, RevisionSafety, PTL

-----------------------------------------------------------------------------
(* The life of a node row                                                  *)

\* How the status of a node may change in one step.
StatusStep(n) ==
  LET old == row[n].status new == row'[n].status IN
  \/ new \in {old, "connecting", "disabled", "deleting", "offline"}
  \/ new = "removed" /\ old = "deleting"
  \/ new = "online" /\ old \notin {"absent", "removed", "disabled"}

\* A statement that writes one row with an allowed status.
LEMMA OneStatus ==
  ASSUME StoreTypeOK, NEW n \in Nodes, NEW r, Update(n, r),
         \/ r.status \in {row[n].status, "connecting", "disabled", "deleting", "offline"}
         \/ r.status = "removed" /\ row[n].status = "deleting"
         \/ r.status = "online" /\ row[n].status \notin {"absent", "removed", "disabled"}
  PROVE  \A m \in Nodes : StatusStep(m)
<1>1. row'[n] = r BY DEF Update, StoreTypeOK
<1>2. \A m \in Nodes \ {n} : row'[m] = row[m] BY DEF Update, StoreTypeOK
<1>3. StatusStep(n) BY <1>1 DEF StatusStep
<1>4. \A m \in Nodes \ {n} : StatusStep(m) BY <1>2 DEF StatusStep
<1> QED BY <1>3, <1>4

\* Every step of the store changes statuses in these ways only.
LEMMA StatusSteps ==
  ASSUME StoreTypeOK, [StoreNext]_storeVars
  PROVE  \A m \in Nodes : StatusStep(m)
<1>1. ASSUME UNCHANGED row PROVE \A m \in Nodes : StatusStep(m)
  BY <1>1 DEF StatusStep
<1>2. ASSUME NEW p \in Profiles, NEW need \in Versions, NEW reset \in BOOLEAN,
             PublishRevision(p, need, reset)
      PROVE  \A m \in Nodes : StatusStep(m)
  <2> DEFINE next(n) == [row[n] EXCEPT !.desired = Current(p) + 1,
                                       !.reset = ResetMark(p, reset)]
  <2>1. \A n \in Nodes : row'[n] = IF n \in Assigned(p) THEN next(n) ELSE row[n]
    BY <1>2 DEF PublishRevision
  <2>2. \A n \in Nodes : next(n).status = row[n].status BY DEF StoreTypeOK, Row
  <2> HIDE DEF next
  <2> QED BY <2>1, <2>2 DEF StatusStep
<1>3. ASSUME NEW p \in Profiles, NEW number \in 1 .. MaxRev, RollbackProfile(p, number)
      PROVE  \A m \in Nodes : StatusStep(m)
  <2>1. revisions[p][number] \in Versions
    BY <1>3 DEF RollbackProfile, Current, StoreTypeOK
  <2> QED BY <1>2, <1>3, <2>1 DEF RollbackProfile
<1>4. ASSUME NEW h \in Handlers, DeleteProfileDelete(h)
      PROVE  \A m \in Nodes : StatusStep(m)
  <2> DEFINE next(n) == [row[n] EXCEPT !.profile = NoProfile]
  <2>1. \A n \in Nodes : row'[n] \in {next(n), row[n]}
    BY <1>4 DEF DeleteProfileDelete, Unassign
  <2>2. \A n \in Nodes : next(n).status = row[n].status BY DEF StoreTypeOK, Row
  <2> HIDE DEF next
  <2> QED BY <2>1, <2>2 DEF StatusStep
<1>5. ASSUME NEW h \in Handlers, NEW ip \in IPs, CreateNodeInsert(h, ip)
      PROVE  \A m \in Nodes : StatusStep(m)
  <2> DEFINE r == [Blank("connecting") EXCEPT !.profile = req[h].profile, !.ip = ip,
                      !.desired = req[h].rev, !.cred = "agent"]
  <2>1. r.status = "connecting" BY DEF Blank
  <2>2. Update(req[h].node, r) BY <1>5 DEF CreateNodeInsert
  <2>3. req[h].node \in Nodes BY DEF StoreTypeOK, Request
  <2> HIDE DEF r
  <2> QED BY <2>1, <2>2, <2>3, OneStatus
<1>6. ASSUME NEW h \in Handlers, AssignProfileUpdate(h)
      PROVE  \A m \in Nodes : StatusStep(m)
  <2> DEFINE r == PointTo(row[req[h].node], req[h])
  <2>1. req[h].node \in Nodes BY DEF StoreTypeOK, Request
  <2>2. r.status = row[req[h].node].status BY <2>1 DEF PointTo, StoreTypeOK, Row
  <2>3. Update(req[h].node, r) BY <1>6 DEF AssignProfileUpdate
  <2> HIDE DEF r
  <2> QED BY <2>1, <2>2, <2>3, OneStatus
<1>7. ASSUME NEW n \in Nodes, NEW s \in {"offline", "disabled", "deleting", "connecting"},
             NEW a, \/ Update(n, [row[n] EXCEPT !.status = s])
                    \/ Update(n, [row[n] EXCEPT !.status = s, !.state = a])
      PROVE  \A m \in Nodes : StatusStep(m)
  <2> DEFINE r1 == [row[n] EXCEPT !.status = s]
             r2 == [row[n] EXCEPT !.status = s, !.state = a]
  <2>1. r1.status = s /\ r2.status = s BY DEF StoreTypeOK, Row
  <2>2. Update(n, r1) \/ Update(n, r2) BY <1>7
  <2> HIDE DEF r1, r2
  <2> QED BY <2>1, <2>2, OneStatus
<1>8. ASSUME NEW h \in Handlers, RotateStatus(h) \/ RevokeStatus(h)
      PROVE  \A m \in Nodes : StatusStep(m)
  <2>1. req[h].node \in Nodes BY DEF StoreTypeOK, Request
  <2> QED BY <1>7, <1>8, <2>1 DEF RotateStatus, RevokeStatus
<1>9. ASSUME NEW n \in Nodes, NEW r, Update(n, r), r.status = row[n].status
      PROVE  \A m \in Nodes : StatusStep(m)
  BY <1>9, OneStatus
<1>10. ASSUME NEW h \in Handlers, NEW n \in Nodes,
              RotateCredential(h, n) \/ RevokeCredential(h, n)
       PROVE  \A m \in Nodes : StatusStep(m)
  <2>1. PICK c : Update(n, [row[n] EXCEPT !.cred = c])
    BY <1>10 DEF RotateCredential, RevokeCredential
  <2>2. [row[n] EXCEPT !.cred = c].status = row[n].status BY DEF StoreTypeOK, Row
  <2> QED BY <1>9, <2>1, <2>2
<1>11. ASSUME NEW n \in Nodes, NEW x,
              \/ Update(n, [row[n] EXCEPT !.nonce = x])
              \/ Update(n, [row[n] EXCEPT !.probe = x])
              \/ Update(n, [row[n] EXCEPT !.target = x])
              \/ Update(n, [row[n] EXCEPT !.ip = x])
              \/ Update(n, [row[n] EXCEPT !.tuning = x])
       PROVE  \A m \in Nodes : StatusStep(m)
  <2>1. /\ [row[n] EXCEPT !.nonce = x].status = row[n].status
        /\ [row[n] EXCEPT !.probe = x].status = row[n].status
        /\ [row[n] EXCEPT !.target = x].status = row[n].status
        /\ [row[n] EXCEPT !.ip = x].status = row[n].status
        /\ [row[n] EXCEPT !.tuning = x].status = row[n].status
    BY DEF StoreTypeOK, Row
  <2> QED BY <1>9, <1>11, <2>1
<1>12. ASSUME NEW n \in Nodes,
              \/ RequestNodeRestart(n) \/ RequestHealthProbe(n) \/ RequestNodeUpdate(n)
              \/ \E ip \in IPs : UpdateNode(n, ip)
              \/ \E t \in Tunings : UpdateTCPTuning(n, t)
       PROVE  \A m \in Nodes : StatusStep(m)
  BY <1>11, <1>12 DEF RequestNodeRestart, RequestHealthProbe, RequestNodeUpdate,
                     UpdateNode, UpdateTCPTuning
<1>13. ASSUME NEW n \in Nodes, DeleteNode(n) \/ \E e \in BOOLEAN : SetNodeEnabled(n, e)
       PROVE  \A m \in Nodes : StatusStep(m)
  BY <1>7, <1>13 DEF DeleteNode, MarkDeleting, SetNodeEnabled
<1>14. ASSUME NEW n \in Nodes, row[n].status = "deleting", Update(n, Blank("removed"))
       PROVE  \A m \in Nodes : StatusStep(m)
  <2>1. Blank("removed").status = "removed" BY DEF Blank
  <2> QED BY <1>14, <2>1, OneStatus
<1>15. ASSUME NEW n \in Nodes, ForceDeleteNode(n) PROVE \A m \in Nodes : StatusStep(m)
  BY <1>14, <1>15 DEF ForceDeleteNode
<1>16. ASSUME NEW n \in Nodes, NEW hb \in Reports, Heartbeat(n, hb)
       PROVE  \A m \in Nodes : StatusStep(m)
  <2>1. row[n] \in Row /\ row[n].status \notin {"absent", "removed", "disabled"}
    BY <1>16 DEF StoreTypeOK, Heartbeat, MayReport, Exists
  <2>2. ASSUME Forgets(row[n], hb) PROVE \A m \in Nodes : StatusStep(m)
    BY <1>14, <1>16, <2>2 DEF Heartbeat, Forgets
  <2>3. ASSUME ~Forgets(row[n], hb) PROVE \A m \in Nodes : StatusStep(m)
    <3>1. PICK r : Update(n, r)
                   /\ r.status = IF row[n].status = "deleting" THEN "deleting" ELSE "online"
      <4> DEFINE status == IF row[n].status = "deleting" THEN "deleting" ELSE "online"
                 state == IF row[n].status = "deleting" THEN "decommissioning" ELSE hb.state
                 target == IF hb.version >= row[n].target THEN 0 ELSE row[n].target
                 s == [row[n] EXCEPT
                         !.status = status, !.state = state,
                         !.applied = hb.rev, !.appliedProfile = hb.profile]
                 r == [s EXCEPT !.version = hb.version, !.target = target,
                                !.ack = AckAfter(row[n], hb),
                                !.reset = ResetAfter(row[n], hb)]
      <4>1. Update(n, r) BY <1>16, <2>3 DEF Heartbeat
      <4>2. s.status = status
        <5> HIDE DEF status, state
        <5> QED BY <2>1 DEF Row
      <4> HIDE DEF s, target
      <4>3. r.status = s.status OBVIOUS
      <4> HIDE DEF r
      <4> QED BY <4>1, <4>2, <4>3
    <3> QED BY <2>1, <3>1, OneStatus
  <2> QED BY <2>2, <2>3
<1>17. ASSUME NEW h \in Handlers, NEW n \in Nodes, NEW p \in Profiles,
              \/ DeleteProfileCount(h, p) \/ CreateNodeRead(h, n, p)
              \/ AssignProfileRead(h, n, p) \/ AssignProfileGate(h) \/ Abandon(h)
       PROVE  UNCHANGED row
  BY <1>17 DEF DeleteProfileCount, CreateNodeRead, AssignProfileRead,
               AssignProfileGate, Abandon
<1>18. ASSUME NEW h \in Handlers, AssignProfileGate(h) \/ Abandon(h) PROVE UNCHANGED row
  BY <1>18 DEF AssignProfileGate, Abandon
<1>19. ASSUME NEW h \in Handlers, NEW p \in Profiles, DeleteProfileCount(h, p)
       PROVE  UNCHANGED row
  BY <1>19 DEF DeleteProfileCount
<1>20. ASSUME NEW p \in Profiles, NEW need \in Versions, CreateProfile(p, need)
       PROVE  UNCHANGED row
  BY <1>20 DEF CreateProfile
<1>21. CASE UNCHANGED storeVars BY <1>1, <1>21 DEF storeVars
<1> QED
  BY <1>1, <1>2, <1>3, <1>4, <1>5, <1>6, <1>8, <1>10, <1>12, <1>13, <1>15, <1>16, <1>17,
     <1>18, <1>19, <1>20, <1>21 DEF StoreNext, AdminNext

\* No heartbeat brings a disabled node back: only an administrator does.
THEOREM DisabledStaysOffline == StoreSpec => DisabledNeverOnline
<1>1. StoreTypeOK /\ [StoreNext]_storeVars =>
        [\A n \in Nodes : row[n].status = "disabled" => row'[n].status # "online"]_storeVars
  BY StatusSteps DEF StatusStep
<1> QED BY <1>1, StoreTypes, PTL DEF StoreSpec, DisabledNeverOnline

\* A node row disappears only while it is marked for deletion.
THEOREM RemovedWasDeleting == StoreSpec => OnlyDeletingRemoved
<1>1. StoreTypeOK /\ [StoreNext]_storeVars =>
        [\A n \in Nodes : Exists(n) /\ row'[n].status = "removed"
           => row[n].status = "deleting"]_storeVars
  BY StatusSteps DEF StatusStep, Exists
<1> QED BY <1>1, StoreTypes, PTL DEF StoreSpec, OnlyDeletingRemoved

=============================================================================
