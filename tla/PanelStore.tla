----------------------------- MODULE PanelStore -----------------------------
(***************************************************************************)
(* The control-plane database of the panel: profiles with their published  *)
(* revisions, and the node rows that point at them (internal/store).       *)
(*                                                                         *)
(* SQLite is opened with a single connection, so one statement, or one     *)
(* transaction, is one step.  A handler that runs several statements       *)
(* outside a transaction is several steps: what it read is kept in req[h], *)
(* the local state of the HTTP goroutine h, and any other handler may run  *)
(* before its write.                                                       *)
(*                                                                         *)
(* Abstractions: a revision is the lowest agent version that can apply its *)
(* configuration (1 = any agent), names, labels, audit rows and telemetry  *)
(* are left out, and only remote nodes are modelled ('local' cannot be     *)
(* deleted, rotated or revoked).                                           *)
(*                                                                         *)
(* An operator named Bad... is the definition after it with one plausible  *)
(* mistake; nothing uses it.  It shows that the properties notice.         *)
(***************************************************************************)
EXTENDS Integers, Sequences, FiniteSets

CONSTANTS
  Profiles,       \* profile ids; an id is never used twice
  NoProfile,      \* profile_id IS NULL
  Nodes,          \* ids of remote nodes; an id is never used twice
  Handlers,       \* HTTP goroutines of the administrator API
  IPs,            \* ingress addresses an administrator may give a node
  Tunings,        \* TCP tuning settings (nodes.tcp_tuning_enabled, _percent)
  PanelVersion,   \* the release the panel runs: the newest agent version
  AdminOps,       \* the administrator operations a run exercises
  MaxRev,         \* bound: revisions of a profile
  MaxNonce,       \* bound: restart requests of a node
  MaxProbe        \* bound: health probe requests of a node

\* Release numbers, oldest first; 0 is the empty agent_version of a node that
\* never connected, which CompareVersions orders before every release.
Versions == 1 .. PanelVersion

ASSUME PanelStoreConstants ==
  /\ NoProfile \notin Profiles
  /\ PanelVersion \in Nat \ {0}
  /\ MaxRev \in Nat /\ MaxNonce \in Nat /\ MaxProbe \in Nat
  /\ Nodes # {} /\ IPs # {} /\ Tunings # {}

VARIABLES
  revisions,  \* revisions[p]: minimal agent version of each revision of p
  deleted,    \* profiles that were deleted
  row,        \* row[n]: the nodes row of n joined with its credential
  req         \* req[h]: what handler h has read and not yet written

storeVars == <<revisions, deleted, row, req>>

-----------------------------------------------------------------------------
(* Rows and requests                                                       *)

Statuses == {"absent", "connecting", "online", "offline", "disabled",
             "deleting", "removed"}
ApplyStates == {"connecting", "waiting", "applying", "applied", "error",
                "decommissioning", "disabled"}
\* "agent" is the token installed on the node, "issued" one that replaced it
\* and was only shown to the administrator, "none" no row in node_credentials.
Credentials == {"none", "agent", "issued"}

Row == [status: Statuses, profile: Profiles \cup {NoProfile}, desired: Nat,
        reset: Nat, appliedProfile: Profiles \cup {NoProfile}, applied: Nat,
        state: ApplyStates, version: Versions \cup {0},
        target: Versions \cup {0}, nonce: Nat, ack: Nat, probe: Nat,
        ip: IPs, tuning: Tunings, cred: Credentials]

Request == [op: {"idle", "create", "gate", "assign", "drop", "revoke", "rotate"},
            node: Nodes, profile: Profiles \cup {NoProfile}, rev: Nat,
            need: Versions]

SomeNode == CHOOSE n \in Nodes : TRUE
Idle == [op |-> "idle", node |-> SomeNode, profile |-> NoProfile, rev |-> 0,
         need |-> 1]

Blank(status) ==
  [status |-> status, profile |-> NoProfile, desired |-> 0, reset |-> 0,
   appliedProfile |-> NoProfile, applied |-> 0, state |-> "waiting",
   version |-> 0, target |-> 0, nonce |-> 0, ack |-> 0, probe |-> 0,
   ip |-> CHOOSE i \in IPs : TRUE, tuning |-> CHOOSE t \in Tunings : TRUE,
   cred |-> "none"]

Live(p) == p \in Profiles /\ revisions[p] # <<>>
Current(p) == Len(revisions[p])
Exists(n) == row[n].status \notin {"absent", "removed"}
Assigned(p) == {n \in Nodes : Exists(n) /\ row[n].profile = p}

\* An administrator's request for op arrives at the idle handler h.
Arrives(op, h) == op \in AdminOps /\ req[h] = Idle
Update(n, r) == row' = [row EXCEPT ![n] = r]
Later(h, op, n, p, rev, need) ==
  req' = [req EXCEPT ![h] = [op |-> op, node |-> n, profile |-> p,
                             rev |-> rev, need |-> need]]
Answers(h) == req' = [req EXCEPT ![h] = Idle]

-----------------------------------------------------------------------------
(* Profiles                                                                *)

\* CreateProfile, and CloneProfile of any revision.
CreateProfile(p, need) ==
  /\ "profile" \in AdminOps
  /\ ~Live(p) /\ p \notin deleted
  /\ revisions' = [revisions EXCEPT ![p] = <<need>>]
  /\ UNCHANGED <<deleted, row, req>>

BadResetMark(p, reset) == IF reset THEN Current(p) + 1 ELSE -1
ResetMark(p, reset) == IF reset THEN Current(p) + 1 ELSE 0

\* PublishRevision is one transaction.  It refuses a configuration an assigned
\* agent is too old for and, with a connection reset, any agent that never
\* reported a version.  Agents that never connected pass the other gates; those of
\* a configuration with rate limits (store.go:591) the code refuses too, so it
\* publishes in fewer states than this does.
PublishRevision(p, need, reset) ==
  /\ "publish" \in AdminOps
  /\ Live(p) /\ Current(p) < MaxRev
  /\ \A n \in Assigned(p) : row[n].version \notin 1 .. need - 1
  /\ reset => \A n \in Assigned(p) : row[n].version > 0
  /\ revisions' = [revisions EXCEPT ![p] = Append(@, need)]
  /\ row' = [n \in Nodes |->
               IF n \in Assigned(p)
               THEN [row[n] EXCEPT !.desired = Current(p) + 1,
                                   !.reset = ResetMark(p, reset)]
               ELSE row[n]]
  /\ UNCHANGED <<deleted, req>>

BadRollbackProfile(p, number) ==
  /\ "publish" \in AdminOps /\ Live(p) /\ number \in 1 .. Current(p)
  /\ revisions' = [revisions EXCEPT ![p] = SubSeq(@, 1, number)]
  /\ row' = [n \in Nodes |-> IF n \in Assigned(p)
                             THEN [row[n] EXCEPT !.desired = number, !.reset = 0]
                             ELSE row[n]]
  /\ UNCHANGED <<deleted, req>>

\* RollbackProfile publishes the configuration of an earlier revision again.
RollbackProfile(p, number) ==
  /\ Live(p) /\ number \in 1 .. Current(p)
  /\ PublishRevision(p, revisions[p][number], FALSE)

\* DeleteProfile counts the assigned nodes, then deletes: two statements.
DeleteProfileCount(h, p) ==
  /\ Arrives("drop", h)
  /\ Assigned(p) = {}
  /\ Later(h, "drop", SomeNode, p, 0, 1)
  /\ UNCHANGED <<revisions, deleted, row>>

BadUnassign(p) == row
\* nodes.profile_id is ON DELETE SET NULL.
Unassign(p) ==
  [n \in Nodes |-> IF n \in Assigned(p) THEN [row[n] EXCEPT !.profile = NoProfile]
                                        ELSE row[n]]

\* profile_revisions.profile_id is ON DELETE CASCADE.
DeleteProfileDelete(h) ==
  LET p == req[h].profile IN
  /\ req[h].op = "drop" /\ Live(p)
  /\ revisions' = [revisions EXCEPT ![p] = <<>>]
  /\ deleted' = deleted \cup {p}
  /\ row' = Unassign(p)
  /\ Answers(h)

-----------------------------------------------------------------------------
(* Creating and assigning nodes: the revision is read before the write     *)

CreateNodeRead(h, n, p) ==
  /\ Arrives("create", h)
  /\ row[n].status = "absent"
  /\ \A g \in Handlers : ~(req[g].op = "create" /\ req[g].node = n)
  /\ Live(p)
  /\ Later(h, "create", n, p, Current(p), 1)
  /\ UNCHANGED <<revisions, deleted, row>>

CreateNodeInsert(h, ip) ==
  LET n == req[h].node p == req[h].profile IN
  /\ req[h].op = "create"
  /\ Live(p)                                        \* foreign key
  /\ Update(n, [Blank("connecting") EXCEPT !.profile = p, !.ip = ip,
                   !.desired = req[h].rev, !.cred = "agent"])
  /\ Answers(h)
  /\ UNCHANGED <<revisions, deleted>>

AssignProfileRead(h, n, p) ==
  /\ Arrives("assign", h)
  /\ Live(p)
  /\ Later(h, IF revisions[p][Current(p)] > 1 THEN "gate" ELSE "assign",
           n, p, Current(p), revisions[p][Current(p)])
  /\ UNCHANGED <<revisions, deleted, row>>

\* Only a configuration that needs a newer agent makes AssignProfile look at
\* the node's agent version.
AssignProfileGate(h) ==
  LET n == req[h].node IN
  /\ req[h].op = "gate"
  /\ Exists(n) /\ row[n].version \notin 1 .. req[h].need - 1
  /\ req' = [req EXCEPT ![h].op = "assign"]
  /\ UNCHANGED <<revisions, deleted, row>>

BadPointTo(r, q) == [r EXCEPT !.profile = q.profile, !.desired = q.rev]
PointTo(r, q) == [r EXCEPT !.profile = q.profile, !.desired = q.rev, !.reset = 0]

AssignProfileUpdate(h) ==
  LET n == req[h].node IN
  /\ req[h].op = "assign"
  /\ Exists(n) /\ Live(req[h].profile)              \* foreign key
  /\ Update(n, PointTo(row[n], req[h]))
  /\ Answers(h)
  /\ UNCHANGED <<revisions, deleted>>

-----------------------------------------------------------------------------
(* Operations on one node                                                  *)

UpdateNode(n, ip) ==
  /\ "ingress" \in AdminOps
  /\ Exists(n)
  /\ Update(n, [row[n] EXCEPT !.ip = ip])
  /\ UNCHANGED <<revisions, deleted, req>>

UpdateTCPTuning(n, tuning) ==
  /\ "tuning" \in AdminOps
  /\ Exists(n)
  /\ Update(n, [row[n] EXCEPT !.tuning = tuning])
  /\ UNCHANGED <<revisions, deleted, req>>

RequestNodeRestart(n) ==
  /\ "restart" \in AdminOps
  /\ Exists(n) /\ row[n].status # "disabled" /\ row[n].nonce < MaxNonce
  /\ Update(n, [row[n] EXCEPT !.nonce = @ + 1])
  /\ UNCHANGED <<revisions, deleted, req>>

RequestHealthProbe(n) ==
  /\ "probe" \in AdminOps
  /\ Exists(n) /\ row[n].probe < MaxProbe
  /\ Update(n, [row[n] EXCEPT !.probe = @ + 1])
  /\ UNCHANGED <<revisions, deleted, req>>

\* The version is always the panel's own build.  The agent version it reads
\* first only matters as "has connected": a later heartbeat cannot undo that.
RequestNodeUpdate(n) ==
  /\ "update" \in AdminOps
  /\ Exists(n) /\ row[n].status # "disabled" /\ row[n].version > 0
  /\ Update(n, [row[n] EXCEPT !.target = PanelVersion])
  /\ UNCHANGED <<revisions, deleted, req>>

SetNodeEnabled(n, enabled) ==
  /\ "enable" \in AdminOps
  /\ Exists(n)
  /\ Update(n, [row[n] EXCEPT !.status = IF enabled THEN "connecting" ELSE "disabled",
                              !.state = IF enabled THEN "waiting" ELSE "disabled"])
  /\ UNCHANGED <<revisions, deleted, req>>

\* DeleteNode only marks the row; the agent API's decommission call is the same.
MarkDeleting(n) ==
  /\ Exists(n)
  /\ Update(n, [row[n] EXCEPT !.status = "deleting", !.state = "decommissioning"])
  /\ UNCHANGED <<revisions, deleted, req>>

DeleteNode(n) == "delete" \in AdminOps /\ MarkDeleting(n)

ForceDeleteNode(n) ==
  /\ "force" \in AdminOps
  /\ row[n].status = "deleting"
  /\ Update(n, Blank("removed"))
  /\ UNCHANGED <<revisions, deleted, req>>

\* Rotation stores the new hash, then sets the status, whatever it was.
RotateCredential(h, n) ==
  /\ Arrives("rotate", h)
  /\ Exists(n)
  /\ Update(n, [row[n] EXCEPT !.cred = "issued"])
  /\ Later(h, "rotate", n, NoProfile, 0, 1)
  /\ UNCHANGED <<revisions, deleted>>

RotateStatus(h) ==
  LET n == req[h].node IN
  /\ req[h].op = "rotate"
  /\ Exists(n)
  /\ Update(n, [row[n] EXCEPT !.status = "offline"])
  /\ Answers(h)
  /\ UNCHANGED <<revisions, deleted>>

RevokeCredential(h, n) ==
  /\ Arrives("revoke", h)
  /\ Exists(n) /\ row[n].cred # "none"
  /\ Update(n, [row[n] EXCEPT !.cred = "none"])
  /\ Later(h, "revoke", n, NoProfile, 0, 1)
  /\ UNCHANGED <<revisions, deleted>>

RevokeStatus(h) ==
  LET n == req[h].node IN
  /\ req[h].op = "revoke"
  /\ Exists(n)
  /\ Update(n, [row[n] EXCEPT !.status = "disabled"])
  /\ Answers(h)
  /\ UNCHANGED <<revisions, deleted>>

\* A handler gives up between two statements: the client went away, the row or
\* the profile it needs is gone, or the database refused the statement.  A
\* restart of the panel is this step of every busy handler.
Abandon(h) ==
  /\ req[h] # Idle
  /\ Answers(h)
  /\ UNCHANGED <<revisions, deleted, row>>

-----------------------------------------------------------------------------
(* The agent's side of the store                                           *)

\* ValidateNodeCredential, with the token the agent was enrolled with.
Authorised(n) == Exists(n) /\ row[n].cred = "agent" /\ row[n].status # "disabled"

\* The joins of DesiredState find the node's profile and revision.
HasProfileRevision(n) ==
  /\ Live(row[n].profile)
  /\ row[n].desired \in 1 .. Current(row[n].profile)

HasDesired(n) == Exists(n) /\ row[n].status # "disabled" /\ HasProfileRevision(n)

DesiredState(n) ==
  LET r == row[n] IN
  [profile |-> r.profile, rev |-> r.desired, ip |-> r.ip, probe |-> r.probe,
   update |-> r.target, tuning |-> r.tuning,
   restart |-> IF r.nonce > r.ack THEN r.nonce ELSE 0,
   reset |-> r.reset = r.desired, decommission |-> r.status = "deleting"]

Report == [profile: Profiles \cup {NoProfile}, rev: Nat, state: ApplyStates,
           version: Versions, ack: Nat, decommissioned: BOOLEAN]

\* The status of a disabled node is checked again inside the transaction.
BadMayReport(n) == Exists(n)
MayReport(n) == Exists(n) /\ row[n].status # "disabled"

BadForgets(r, hb) == hb.decommissioned
Forgets(r, hb) == hb.decommissioned /\ r.status = "deleting"

BadAckAfter(r, hb) == hb.ack
AckAfter(r, hb) == IF hb.ack > r.ack THEN hb.ack ELSE r.ack

BadResetAfter(r, hb) == IF hb.rev > 0 THEN 0 ELSE r.reset
ResetAfter(r, hb) == IF hb.rev >= r.reset THEN 0 ELSE r.reset

\* Heartbeat is one transaction.
Heartbeat(n, hb) ==
  LET r == row[n] deleting == r.status = "deleting" IN
  /\ MayReport(n)
  /\ Update(n,
       IF Forgets(r, hb)
       THEN Blank("removed")
       ELSE [r EXCEPT
               !.status = IF deleting THEN "deleting" ELSE "online",
               !.state = IF deleting THEN "decommissioning" ELSE hb.state,
               !.applied = hb.rev, !.appliedProfile = hb.profile,
               !.version = hb.version,
               !.target = IF hb.version >= @ THEN 0 ELSE @,
               !.ack = AckAfter(r, hb), !.reset = ResetAfter(r, hb)])
  /\ UNCHANGED <<revisions, deleted, req>>

\* What an agent may report to the store on its own: any revision, any version.
Reports ==
  {hb \in [profile: Profiles \cup {NoProfile}, rev: 0 .. MaxRev,
           state: {"applied", "error"}, version: Versions, ack: 0 .. MaxNonce,
           decommissioned: BOOLEAN] :
     hb.profile = NoProfile <=> hb.rev = 0}

-----------------------------------------------------------------------------
StoreInit ==
  /\ revisions = [p \in Profiles |-> <<>>]
  /\ deleted = {}
  /\ row = [n \in Nodes |-> Blank("absent")]
  /\ req = [h \in Handlers |-> Idle]

AdminNext ==
  \/ \E p \in Profiles, need \in Versions :
       \/ CreateProfile(p, need)
       \/ \E reset \in BOOLEAN : PublishRevision(p, need, reset)
  \/ \E p \in Profiles, number \in 1 .. MaxRev : RollbackProfile(p, number)
  \/ \E h \in Handlers, p \in Profiles : DeleteProfileCount(h, p)
  \/ \E h \in Handlers : DeleteProfileDelete(h)
  \/ \E h \in Handlers, n \in Nodes, p \in Profiles :
       CreateNodeRead(h, n, p) \/ AssignProfileRead(h, n, p)
  \/ \E h \in Handlers, ip \in IPs : CreateNodeInsert(h, ip)
  \/ \E h \in Handlers :
       \/ AssignProfileGate(h) \/ AssignProfileUpdate(h)
       \/ RotateStatus(h) \/ RevokeStatus(h) \/ Abandon(h)
  \/ \E h \in Handlers, n \in Nodes : RotateCredential(h, n) \/ RevokeCredential(h, n)
  \/ \E n \in Nodes :
       \/ RequestNodeRestart(n) \/ RequestHealthProbe(n) \/ RequestNodeUpdate(n)
       \/ DeleteNode(n) \/ ForceDeleteNode(n)
       \/ \E ip \in IPs : UpdateNode(n, ip)
       \/ \E t \in Tunings : UpdateTCPTuning(n, t)
       \/ \E e \in BOOLEAN : SetNodeEnabled(n, e)

StoreNext ==
  \/ AdminNext
  \/ \E n \in Nodes, hb \in Reports : Heartbeat(n, hb)

StoreSpec == StoreInit /\ [][StoreNext]_storeVars

-----------------------------------------------------------------------------
(* Properties                                                              *)

\* Every row, request and revision has the shape the code gives it.
StoreTypeOK ==
  /\ revisions \in [Profiles -> Seq(Versions)]
  /\ deleted \in SUBSET Profiles
  /\ row \in [Nodes -> Row]
  /\ req \in [Handlers -> Request]

\* A node that points at a profile points at a revision that profile has, so
\* the joins of DesiredState succeed and its agent is never answered 404, in
\* whatever order assignments, publications and deletions finish.
DesiredExists ==
  \A n \in Nodes : Exists(n) /\ row[n].profile # NoProfile => HasProfileRevision(n)

\* A pending connection reset always belongs to the revision the node is to
\* apply: no operation moves the desired revision away and leaves the marker,
\* which would reset the clients of a later, unrelated publication.
ResetMarksDesired ==
  \A n \in Nodes : row[n].reset \in {0, row[n].desired}

\* A handler never writes a revision number that does not exist: what it read
\* stays valid until it writes, although the profile moves on meanwhile.
RequestsStayValid ==
  \A h \in Handlers :
    req[h].op \in {"create", "gate", "assign"} /\ Live(req[h].profile) =>
      req[h].rev \in 1 .. Current(req[h].profile)

\* A disabled node is brought back by an administrator only: no heartbeat that
\* was on its way when the credential was revoked or the node disabled turns
\* the row online again.
DisabledNeverOnline ==
  [][\A n \in Nodes : row[n].status = "disabled" => row'[n].status # "online"]_storeVars

\* A node row disappears only while it is marked for deletion.
OnlyDeletingRemoved ==
  [][\A n \in Nodes : Exists(n) /\ row'[n].status = "removed"
       => row[n].status = "deleting"]_storeVars

\* docs/ARCHITECTURE.md: "A node points to one profile and receives the latest
\* published revision as its desired state".
LatestDesired ==
  \A n \in Nodes : Exists(n) /\ row[n].profile # NoProfile =>
    row[n].desired = Current(row[n].profile)

\* DeleteProfile refuses a profile that "is assigned to %d node(s)": a node
\* never loses its profile.
AssignedProfileKept ==
  [][\A n \in Nodes : Exists(n) /\ row[n].profile # NoProfile =>
       row'[n].status = "removed" \/ row'[n].profile # NoProfile]_storeVars

=============================================================================
