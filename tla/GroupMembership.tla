-------------------------- MODULE GroupMembership --------------------------
(***************************************************************************)
(* The members of one activity group: join requests, direct invites, roles *)
(* and departures, while accounts are being deleted.                       *)
(*                                                                         *)
(* Unlike the commands on a session, these take no lock around what they   *)
(* read: a handler checks the account and the requester's role, then a     *)
(* READ COMMITTED transaction reads the row, decides, and writes the whole *)
(* row back by its id.  A request is therefore several actions with        *)
(* anything in between:                                                    *)
(*    begun    the middleware and the handler are done (account, role)     *)
(*    waiting  the row was read; the group's capacity lock comes next      *)
(*    decided  the row to write is known; only the commit is left          *)
(* Only approvals and join requests take the advisory lock of the group,   *)
(* and only after they read the row.                                       *)
(*                                                                         *)
(* The consumer of identity.account.deleted is one more process: it calls  *)
(* the same service methods for the user who is gone.                      *)
(***************************************************************************)
EXTENDS Integers, FiniteSets, Sequences

CONSTANTS
  Users,         \* everybody who may have to do with the group
  Creator,       \* activity_group.creator_id
  Workers,       \* requests in flight
  Consumer,      \* the consumer of identity's account events
  Capacity,      \* activity_group.default_capacity, NoLimit for none (NULL)
  Deletable,     \* accounts that may be deleted
  Targets,       \* bound: the users whom requests are about
  MaxInvites     \* bound: invites ever sent

NoLimit == 0

ASSUME GroupAssumption ==
  /\ IsFiniteSet(Users)
  /\ Creator \in Users
  /\ Consumer \notin Workers
  /\ Capacity \in Nat
  /\ Deletable \subseteq Users
  /\ Targets \subseteq Users
  /\ MaxInvites \in Nat

Procs == Workers \cup {Consumer}

Roles == {"creator", "admin", "member"}
Statuses == {"pending", "confirmed", "rejected", "left", "removed"}
Rows == [role : Roles, status : Statuses]
NoRow == [role |-> "none", status |-> "none"]

InviteStatuses == {"pending", "accepted", "declined", "expired", "gone"}

CreateKinds == {"invite_member", "join", "accept"}
UpdateKinds == {"approve", "reject", "remove", "promote", "demote", "leave"}
Kinds == CreateKinds \cup UpdateKinds \cup {"send", "decline"}

VARIABLES
  member,     \* member[u]: role and status of u's live member row, NoRow without one
  invites,    \* the group_invites rows in the order they were sent: invited_user_id,
              \* status, responded_at IS NOT NULL, expires_at < NOW(); "gone" once erased
  req,        \* req[p]: the request p is working on
  found,      \* invites the running expiry sweep has read and not written yet
  deletion,   \* deletion[u]: how far the deletion of u's account has come here
  uncounted,  \* members whose spot was never checked against the capacity
  late        \* users confirmed by a request older than their deletion here

vars == <<member, invites, req, found, deletion, uncounted, late>>

Idle == [kind |-> "idle", user |-> Creator, step |-> "idle", role |-> "none",
         row |-> NoRow, invite |-> 0, old |-> FALSE]

Requests ==
  [kind : Kinds, user : Users, step : {"begun", "waiting", "decided"},
   role : Roles \cup {"none"}, row : Rows \cup {NoRow},
   invite : 0..MaxInvites, old : BOOLEAN]

-----------------------------------------------------------------------------
(***************************************************************************)
(* The domain: what may be done to a row.  Each operator gives the row     *)
(* that results, or nothing when the domain refuses.                       *)
(***************************************************************************)

CanManageMembers(role) == role \in {"creator", "admin"}

IsActive(m) == m.status \in {"pending", "confirmed"}

NewCreatorMember == [role |-> "creator", status |-> "confirmed"]

NewJoinRequest == [role |-> "member", status |-> "pending"]

NewMemberFromInvite == [role |-> "member", status |-> "confirmed"]

Approve(m, role) ==
  {r \in {[m EXCEPT !.status = "confirmed"]} : CanManageMembers(role) /\ m.status = "pending"}

Reject(m, role) ==
  {r \in {[m EXCEPT !.status = "rejected"]} : CanManageMembers(role) /\ m.status = "pending"}

\* Faulty variant: the creator may leave like anybody else.
LeaveAnybody(m) ==
  {r \in {[m EXCEPT !.status = "left"]} : m.status = "confirmed"}

Leave(m) ==
  {r \in {[m EXCEPT !.status = "left"]} : m.role # "creator" /\ m.status = "confirmed"}

Remove(m, role) ==
  {r \in {[m EXCEPT !.status = "removed"]} :
     /\ m.role # "creator"
     /\ CanManageMembers(role)
     /\ ~(role = "admin" /\ m.role = "admin")
     /\ m.status = "confirmed"}

ChangeRole(m, role, new) ==
  {r \in {[m EXCEPT !.role = new]} :
     /\ role = "creator"
     /\ m.role # "creator"
     /\ m.status = "confirmed"
     /\ m.role # new}

\* An invite can be answered by the user it was sent to, once, in time.
Answerable(i) == invites[i].status = "pending" /\ ~invites[i].stale

-----------------------------------------------------------------------------
(***************************************************************************)
(* The repositories: what a statement reads, and what it leaves behind.    *)
(* A write that a unique constraint refuses is disabled: its transaction   *)
(* rolls back (Refuse).                                                    *)
(***************************************************************************)

GetMemberByGroupAndUser(u) == member[u]

ListMembers(status) == {u \in Users : member[u].status = status}

CountConfirmedMembers == Cardinality(ListMembers("confirmed"))

\* uq_active_membership: one live row per user, whatever its status.
CreateMember(u, row) ==
  /\ member[u] = NoRow
  /\ member' = [member EXCEPT ![u] = row]

\* Matches by id and writes role and status, whatever they are by now.
UpdateMember(u, row) == member' = [member EXCEPT ![u] = IF @ = NoRow THEN @ ELSE row]

InvitesOf(u) == {i \in 1..Len(invites) : invites[i].user = u /\ invites[i].status # "gone"}

GetPendingInviteByGroupAndUser(u) == {i \in InvitesOf(u) : invites[i].status = "pending"}

\* The rows uq_pending_invites counts as one: those never answered.
Unanswered(u) == {i \in InvitesOf(u) : ~invites[i].answered}

\* Faulty variant: no unique constraint on the pending invites.
CreateInviteAnyway(u) ==
  invites' = Append(invites,
    [user |-> u, status |-> "pending", answered |-> FALSE, stale |-> FALSE])

\* uq_pending_invites: one row without responded_at per user.
CreateInvite(u) ==
  /\ Unanswered(u) = {}
  /\ invites' = Append(invites,
       [user |-> u, status |-> "pending", answered |-> FALSE, stale |-> FALSE])

\* Writes status and responded_at by id; an erased row is matched no more.
UpdateInvite(i, status, answered) ==
  IF invites[i].status = "gone"
  THEN UNCHANGED invites
  ELSE /\ answered \/ Unanswered(invites[i].user) \subseteq {i}
       /\ invites' = [invites EXCEPT ![i].status = status, ![i].answered = answered]

FindExpiredPendingInvites ==
  {i \in 1..Len(invites) : invites[i].status = "pending" /\ invites[i].stale}

\* What an account that is being deleted can still answer, and still has to leave.
ListPendingGroupInvites(u) ==
  {i \in InvitesOf(u) : invites[i].status = "pending" /\ ~invites[i].stale}

HasGroupToLeave(u) == member[u].status = "confirmed" /\ member[u].role # "creator"

\* Faulty variant: the account is recorded as deleted last.
MarkedLast(u) == deletion[u] \in {"done", "erased"}

\* deleted_account has a row for u from MarkDeleted on.
IsInactive(u) == deletion[u] \notin {"none", "announced"}

-----------------------------------------------------------------------------
(***************************************************************************)
(* Handlers: a request begins with what the middleware                     *)
(* (RejectInactiveAccounts) and the handler check before the transaction.  *)
(* Requests the role refuses at once are left out.                         *)
(***************************************************************************)

Begin(p, kind, u, role, i) ==
  /\ req[p] = Idle
  /\ req' = [req EXCEPT ![p] =
       [kind |-> kind, user |-> u, step |-> "begun", role |-> role,
        row |-> NoRow, invite |-> i, old |-> FALSE]]
  /\ UNCHANGED <<member, invites, found, deletion, uncounted, late>>

\* RejectInactiveAccounts: a deleted account's access token outlives the account.
Accepted(by) == ~IsInactive(by)

\* getUserRole: the role of an active membership, read before the transaction.
getUserRole(by) == IF IsActive(member[by]) THEN member[by].role ELSE "none"

\* What a manager asks about another user.
Manage(w, kind, u) ==
  \E by \in Users :
    /\ Accepted(by)
    /\ CanManageMembers(getUserRole(by))
    /\ Begin(w, kind, u, getUserRole(by), 0)

\* What a user asks for itself.
Ask(w, kind, u, i) == Accepted(u) /\ Begin(w, kind, u, "none", i)

HandleInviteMember(w, u) == Manage(w, "invite_member", u)
HandleRemoveMember(w, u) == Manage(w, "remove", u)
HandleUpdateMemberRole(w, u) == Manage(w, "promote", u) \/ Manage(w, "demote", u)
HandleApproveMember(w, u) == Manage(w, "approve", u)
HandleRejectMember(w, u) == Manage(w, "reject", u)
HandleSendInvite(w, u) == Len(invites) < MaxInvites /\ Manage(w, "send", u)
HandleRequestToJoinGroup(w, u) == Ask(w, "join", u, 0)
HandleLeaveMember(w, u) == Ask(w, "leave", u, 0)
HandleAcceptInvite(w, i) == Ask(w, "accept", invites[i].user, i)
HandleDeclineInvite(w, i) == Ask(w, "decline", invites[i].user, i)

-----------------------------------------------------------------------------
(***************************************************************************)
(* Services, up to the commit: the transaction reads, the domain decides.  *)
(***************************************************************************)

Reading(p, kind) == req[p].kind = kind /\ req[p].step = "begun"

Decide(p, step, row) ==
  /\ req' = [req EXCEPT ![p].step = step, ![p].row = row, ![p].role = "none"]
  /\ UNCHANGED <<member, invites, found, deletion, uncounted, late>>

InviteMember(p) ==
  /\ Reading(p, "invite_member")
  /\ ~IsInactive(req[p].user)
  /\ GetMemberByGroupAndUser(req[p].user) = NoRow
  /\ Decide(p, "decided", NewMemberFromInvite)

\* The user has nothing to do with the group yet.  A group that is not active
\* and public by now (CanRequestToJoin) refuses: SessionSeries has its status.
RequestToJoinGroup(p) ==
  /\ Reading(p, "join")
  /\ GetMemberByGroupAndUser(req[p].user) = NoRow
  /\ Decide(p, IF Capacity = NoLimit THEN "decided" ELSE "waiting", NewJoinRequest)

ApproveMember(p) ==
  /\ Reading(p, "approve")
  /\ ~IsInactive(req[p].user)
  /\ \E row \in Approve(GetMemberByGroupAndUser(req[p].user), req[p].role) :
       Decide(p, IF Capacity = NoLimit THEN "decided" ELSE "waiting", row)

RejectMember(p) ==
  /\ Reading(p, "reject")
  /\ \E row \in Reject(GetMemberByGroupAndUser(req[p].user), req[p].role) :
       Decide(p, "decided", row)

RemoveMember(p) ==
  /\ Reading(p, "remove")
  /\ \E row \in Remove(GetMemberByGroupAndUser(req[p].user), req[p].role) :
       Decide(p, "decided", row)

PromoteMember(p) ==
  /\ Reading(p, "promote")
  /\ \E row \in ChangeRole(GetMemberByGroupAndUser(req[p].user), req[p].role, "admin") :
       Decide(p, "decided", row)

DemoteMember(p) ==
  /\ Reading(p, "demote")
  /\ \E row \in ChangeRole(GetMemberByGroupAndUser(req[p].user), req[p].role, "member") :
       Decide(p, "decided", row)

LeaveMember(p) ==
  /\ Reading(p, "leave")
  /\ \E row \in Leave(GetMemberByGroupAndUser(req[p].user)) : Decide(p, "decided", row)

SendInvite(p) ==
  /\ Reading(p, "send")
  /\ ~IsInactive(req[p].user)
  /\ GetMemberByGroupAndUser(req[p].user) = NoRow
  /\ GetPendingInviteByGroupAndUser(req[p].user) = {}
  /\ Decide(p, "decided", NoRow)

AcceptInvite(p) ==
  /\ Reading(p, "accept")
  /\ Answerable(req[p].invite)
  /\ Decide(p, "decided", NewMemberFromInvite)

DeclineInvite(p) ==
  /\ Reading(p, "decline")
  /\ Answerable(req[p].invite)
  /\ Decide(p, "decided", NoRow)

\* The capacity lock is held from the count to the end of the transaction.
HoldsLock(p) ==
  Capacity # NoLimit /\ req[p].step = "decided" /\ req[p].kind \in {"join", "approve"}

\* Faulty variant: nobody waits for the lock.
CountWithoutLock(p) ==
  /\ req[p].step = "waiting"
  /\ CountConfirmedMembers < Capacity
  /\ Decide(p, "decided", req[p].row)

\* lockGroupCapacity, then the count: the spot must still be there.
LockGroupCapacity(p) ==
  /\ req[p].step = "waiting"
  /\ \A q \in Procs : ~HoldsLock(q)
  /\ CountConfirmedMembers < Capacity
  /\ Decide(p, "decided", req[p].row)

-----------------------------------------------------------------------------
(***************************************************************************)
(* The end of a request.                                                   *)
(***************************************************************************)

Confirmed == ListMembers("confirmed")

\* The deletion goes on once the consumer's call succeeded.  When it failed, the
\* message is redelivered and everything starts over: MarkDeleted changes
\* nothing then, so the first list is next.
DeletionAfter(p, stage) ==
  deletion' = IF p = Consumer THEN [deletion EXCEPT ![req[p].user] = stage] ELSE deletion

\* Remember the requests of these kinds about u that are under way.
MarkOld(r, u, kinds) ==
  [p \in Procs |->
     IF r[p].user = u /\ r[p].kind \in kinds THEN [r[p] EXCEPT !.old = TRUE] ELSE r[p]]

\* Those that look at the account before they confirm u, and those that write
\* back a confirmed row.
CheckedKinds == {"invite_member", "accept", "approve"}
RoleKinds == {"promote", "demote"}

\* What the written row means for the ghosts uncounted and late.
NoteSpot(p) ==
  LET u == req[p].user
      row == req[p].row
  IN  /\ uncounted' =
           CASE row.status # "confirmed" \/ req[p].kind = "approve" -> uncounted \ {u}
             [] member[u].status = "confirmed" -> uncounted
             [] OTHER -> uncounted \cup {u}
      /\ late' = IF row.status = "confirmed" /\ req[p].old THEN late \cup {u} ELSE late

CommitMember(p) ==
  /\ req[p].step = "decided"
  /\ \/ /\ req[p].kind \in {"invite_member", "join"}
        /\ CreateMember(req[p].user, req[p].row)
        /\ UNCHANGED invites
     \/ /\ req[p].kind = "accept"
        /\ UpdateInvite(req[p].invite, "accepted", TRUE)
        /\ CreateMember(req[p].user, req[p].row)
     \/ /\ req[p].kind \in UpdateKinds
        /\ UpdateMember(req[p].user, req[p].row)
        /\ UNCHANGED invites
  /\ NoteSpot(p)
  /\ DeletionAfter(p, "done")
  /\ req' = LET ended == [req EXCEPT ![p] = Idle]
            IN  IF p = Consumer THEN MarkOld(ended, req[p].user, RoleKinds) ELSE ended
  /\ UNCHANGED found

CommitInvite(p) ==
  /\ req[p].step = "decided"
  /\ \/ req[p].kind = "send" /\ Len(invites) < MaxInvites /\ CreateInvite(req[p].user)
     \/ req[p].kind = "decline" /\ UpdateInvite(req[p].invite, "declined", TRUE)
  /\ DeletionAfter(p, "leaving")
  /\ req' = [req EXCEPT ![p] = Idle]
  /\ UNCHANGED <<member, found, uncounted, late>>

\* A check fails, a constraint refuses the write, the database is gone: the
\* transaction rolls back and nothing is written.
Refuse(p) ==
  /\ req[p] # Idle
  /\ req' = [req EXCEPT ![p] = Idle]
  /\ DeletionAfter(p, "declining")
  /\ UNCHANGED <<member, invites, found, uncounted, late>>

-----------------------------------------------------------------------------
(***************************************************************************)
(* The cron job that expires invites, and the deletion of an account.      *)
(***************************************************************************)

InviteRunsOut(i) ==
  /\ invites[i].status = "pending" /\ ~invites[i].stale
  /\ invites' = [invites EXCEPT ![i].stale = TRUE]
  /\ UNCHANGED <<member, req, found, deletion, uncounted, late>>

StartExpirySweep ==
  /\ found = {} /\ FindExpiredPendingInvites # {}
  /\ found' = FindExpiredPendingInvites
  /\ UNCHANGED <<member, invites, req, deletion, uncounted, late>>

\* Each invite in its own transaction, from what the sweep read: a pending one
\* becomes expired.  A failed write is skipped.
ExpireStaleInvites(i) ==
  /\ i \in found
  /\ found' = found \ {i}
  /\ UpdateInvite(i, "expired", FALSE) \/ UNCHANGED invites
  /\ UNCHANGED <<member, req, deletion, uncounted, late>>

\* identity.account.deleted is on its way.
AccountDeleted(u) ==
  /\ deletion[u] = "none"
  /\ deletion' = [deletion EXCEPT ![u] = "announced"]
  /\ UNCHANGED <<member, invites, req, found, uncounted, late>>

\* deactivate, from the top: also after a failure or a crash, and when the
\* event is delivered once more.
MarkDeleted(u) ==
  /\ req[Consumer] = Idle
  /\ deletion[u] \notin {"none", "erased"}
  /\ deletion' = [deletion EXCEPT ![u] = "declining"]
  /\ req' = IF deletion[u] = "announced" THEN MarkOld(req, u, CheckedKinds) ELSE req
  /\ UNCHANGED <<member, invites, found, uncounted, late>>

\* One step of deactivate lists what there is to give up, then calls the service for each.
DeclineInvites(u) ==
  /\ req[Consumer] = Idle /\ deletion[u] = "declining"
  /\ \/ \E i \in ListPendingGroupInvites(u) : Begin(Consumer, "decline", u, "none", i)
     \/ /\ ListPendingGroupInvites(u) = {}
        /\ deletion' = [deletion EXCEPT ![u] = "leaving"]
        /\ UNCHANGED <<member, invites, req, found, uncounted, late>>

LeaveGroups(u) ==
  /\ req[Consumer] = Idle /\ deletion[u] = "leaving"
  /\ \/ HasGroupToLeave(u) /\ Begin(Consumer, "leave", u, "none", 0)
     \/ /\ ~HasGroupToLeave(u)
        /\ deletion' = [deletion EXCEPT ![u] = "done"]
        /\ req' = MarkOld(req, u, RoleKinds)
        /\ UNCHANGED <<member, invites, found, uncounted, late>>

\* EraseAccount of somebody who did not create the group: its membership and
\* the invites it received go.  Updates by id under way match nothing any more.
EraseAccount(u) ==
  /\ u # Creator
  /\ deletion[u] = "done"
  /\ deletion' = [deletion EXCEPT ![u] = "erased"]
  /\ member' = [member EXCEPT ![u] = NoRow]
  /\ invites' = [i \in 1..Len(invites) |->
       IF invites[i].user = u THEN [invites[i] EXCEPT !.status = "gone"] ELSE invites[i]]
  /\ req' = [p \in Procs |->
       IF req[p].user = u /\ req[p].kind \in UpdateKinds /\ req[p].step # "begun"
       THEN Idle ELSE req[p]]
  /\ uncounted' = uncounted \ {u}
  /\ UNCHANGED <<found, late>>

-----------------------------------------------------------------------------
Init ==
  /\ member = [u \in Users |-> IF u = Creator THEN NewCreatorMember ELSE NoRow]
  /\ invites = <<>>
  /\ req = [p \in Procs |-> Idle]
  /\ found = {}
  /\ deletion = [u \in Users |-> "none"]
  /\ uncounted = {}
  /\ late = {}

UserRequest(w, u) ==
  \/ HandleInviteMember(w, u)
  \/ HandleRequestToJoinGroup(w, u)
  \/ HandleRemoveMember(w, u)
  \/ HandleUpdateMemberRole(w, u)
  \/ HandleApproveMember(w, u)
  \/ HandleRejectMember(w, u)
  \/ HandleLeaveMember(w, u)
  \/ HandleSendInvite(w, u)

Transaction(p) ==
  \/ InviteMember(p) \/ RequestToJoinGroup(p) \/ ApproveMember(p) \/ RejectMember(p)
  \/ RemoveMember(p) \/ PromoteMember(p) \/ DemoteMember(p) \/ LeaveMember(p)
  \/ SendInvite(p) \/ AcceptInvite(p) \/ DeclineInvite(p)
  \/ LockGroupCapacity(p) \/ CommitMember(p) \/ CommitInvite(p) \/ Refuse(p)

Deactivation(u) ==
  \/ AccountDeleted(u) \/ MarkDeleted(u) \/ DeclineInvites(u) \/ LeaveGroups(u)
  \/ EraseAccount(u)

Next ==
  \/ \E w \in Workers, u \in Targets : UserRequest(w, u)
  \/ \E w \in Workers, i \in 1..Len(invites) :
       HandleAcceptInvite(w, i) \/ HandleDeclineInvite(w, i)
  \/ \E p \in Procs : Transaction(p)
  \/ \E i \in 1..Len(invites) : InviteRunsOut(i) \/ ExpireStaleInvites(i)
  \/ StartExpirySweep
  \/ \E u \in Deletable : Deactivation(u)

Spec == Init /\ [][Next]_vars

-----------------------------------------------------------------------------
(***************************************************************************)
(* Properties.                                                             *)
(***************************************************************************)

Invites == [user : Users, status : InviteStatuses, answered : BOOLEAN, stale : BOOLEAN]

\* Rows, invites and requests are what the schema and the handlers can hold.
TypeOK ==
  /\ member \in [Users -> Rows \cup {NoRow}]
  /\ invites \in Seq(Invites) /\ Len(invites) \in 0..MaxInvites
  /\ req \in [Procs -> Requests \cup {Idle}]
  /\ found \subseteq 1..MaxInvites
  /\ deletion \in [Users -> {"none", "announced", "declining", "leaving", "done", "erased"}]
  /\ uncounted \subseteq Users /\ late \subseteq Users

\* The lock taken by approvals (lockGroupCapacity) keeps its promise to them:
\* however approvals, departures and stale writes interleave, a group holds
\* more members than its capacity only because of members nobody counted
\* (invites do not look at the capacity; a stale write brings somebody back).
OverCapacityOnlyUncounted ==
  Capacity # NoLimit => Cardinality(Confirmed \ uncounted) <= Capacity

\* Two managers who invite the same user at the same time both find no pending
\* invite (GetPendingInviteByGroupAndUser); the constraint lets only one commit,
\* and no late decline or expiry makes an old invite pending again.
OneOpenInvite ==
  \A u \in Users : Cardinality(GetPendingInviteByGroupAndUser(u)) <= 1

\* Once the deletion of an account has been handled here (DeactivateAccount
\* returned), the user is out of the group and stays out.  Marking the account
\* before anything is listed, the middleware and ensureAccountActive leave only
\* what was under way by then: an invite, acceptance or approval older than the
\* mark, or a change of role that had read the row before the user left.
DeletedStaysOut ==
  \A u \in Deletable :
    deletion[u] \in {"done", "erased"} /\ u \in Confirmed /\ member[u].role # "creator"
      => u \in late

\* Somebody can always decide about the requests to join: the creator neither
\* leaves nor is removed nor loses the role, whichever rows are written back
\* (managerUserIDs of a join request is never empty).
AlwaysManaged == \E u \in Confirmed : CanManageMembers(member[u].role)

\* The rows stay what the schema can hold, with a manager among them.
GroupOK == TypeOK /\ AlwaysManaged
=============================================================================
