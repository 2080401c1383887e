------------------------------ MODULE GroupProofs ------------------------------
(***************************************************************************)
(* Proofs about an activity group: its members and invites, for any users, *)
(* requests in flight, capacity and number of invites (GroupMembership);   *)
(* and the sessions made from its template, for any calendar, rules,       *)
(* lookahead, runs of the cron job and times at which they run             *)
(* (SessionSeries and Recurrence).                                         *)
(***************************************************************************)
EXTENDS GroupMembership, SessionSeries, WellFoundedInduction, FiniteSetTheorems, TLAPS

-----------------------------------------------------------------------------
(***************************************************************************)
(* Members and invites.                                                    *)
(***************************************************************************)

(***************************************************************************)
(* The inductive invariant.                                                *)
(***************************************************************************)

\* What a transaction is about to write, by the kind of its request: only a
\* request that looks at the account, or changes a role, writes a confirmed row,
\* and nobody is about to write the creator's.
RowToWrite(p) ==
  /\ req[p].kind \in {"invite_member", "accept"} => req[p].row = NewMemberFromInvite
  /\ req[p].kind = "join" => req[p].row = NewJoinRequest
  /\ req[p].kind \in UpdateKinds =>
       /\ req[p].user # Creator
       /\ req[p].row \in Rows /\ req[p].row.role # "creator"
       /\ req[p].row.status = "confirmed" => req[p].kind \in {"approve"} \cup RoleKinds

\* A request p may be working on.  Once the account it is about is marked, what
\* confirms that account was under way by then; once the account is out, what
\* changes its role as well.
Fits(p) ==
  /\ req[p].kind \in {"accept", "decline"} => req[p].invite \in 1..Len(invites)
  /\ req[p].step = "waiting" => req[p].kind \in {"join", "approve"}
  /\ req[p].step \in {"waiting", "decided"} => RowToWrite(p)
  /\ p = Consumer /\ req[p] # Idle =>
       req[p].kind \in {"decline", "leave"} /\ deletion[req[p].user] \in {"declining", "leaving"}
  /\ /\ IsInactive(req[p].user) /\ req[p].kind \in CheckedKinds
     /\ req[p].kind = "accept" \/ req[p].step # "begun"
     => req[p].old
  /\ deletion[req[p].user] \in {"done", "erased"} /\ req[p].kind \in RoleKinds /\ req[p].step = "decided" =>
       req[p].old \/ req[p].user \in late

RequestsFit == \A p \in Procs : Fits(p)

CreatorStays ==
  /\ member[Creator] = NewCreatorMember
  /\ \A u \in Users \ {Creator} : member[u].role # "creator"

Counted == Confirmed \ uncounted

\* Who holds the lock has found a spot, and it is still there.
SpotKept ==
  Capacity # NoLimit =>
    /\ Cardinality(Counted) <= Capacity
    /\ \A p \in Procs : HoldsLock(p) =>
         /\ Cardinality(Counted) < Capacity
         /\ \A q \in Procs : HoldsLock(q) => q = p

OneUnanswered ==
  \A i, j \in 1..Len(invites) :
    /\ invites[i].status = "pending" => ~invites[i].answered
    /\ /\ invites[i].user = invites[j].user
       /\ ~invites[i].answered /\ ~invites[j].answered
       /\ invites[i].status # "gone" /\ invites[j].status # "gone"
       => i = j

OutUnlessLate ==
  \A u \in Users : deletion[u] \in {"done", "erased"} /\ u \in Confirmed => u = Creator \/ u \in late

Shapes ==
  /\ member \in [Users -> Rows \cup {NoRow}]
  /\ invites \in Seq(Invites) /\ Len(invites) \in 0..MaxInvites
  /\ req \in [Procs -> Requests \cup {Idle}]
  /\ found \subseteq 1..Len(invites)
  /\ deletion \in [Users -> {"none", "announced", "declining", "leaving", "done", "erased"}]
  /\ uncounted \subseteq Users /\ late \subseteq Users

IInv ==
  /\ Shapes
  /\ RequestsFit
  /\ CreatorStays
  /\ SpotKept
  /\ OneUnanswered
  /\ OutUnlessLate

-----------------------------------------------------------------------------
(***************************************************************************)
(* What the steps have in common.                                          *)
(***************************************************************************)

LEMMA RequestOrIdle ==
  ASSUME Shapes, NEW p \in Procs
  PROVE  /\ req[p] \in Requests \cup {Idle}
         /\ req[p].user \in Users
         /\ req[p] # Idle => req[p] \in Requests
         /\ Idle.kind = "idle" /\ Idle.step = "idle" /\ "idle" \notin Kinds
         /\ Idle \notin Requests
BY GroupAssumption DEF Shapes, Requests, Idle, Kinds, CreateKinds, UpdateKinds

LEMMA KindsOfRequests ==
  /\ CheckedKinds \subseteq Kinds /\ RoleKinds \subseteq UpdateKinds /\ UpdateKinds \subseteq Kinds
  /\ Kinds = {"invite_member", "join", "accept", "approve", "reject", "remove", "promote", "demote",
              "leave", "send", "decline"}
BY DEF CheckedKinds, RoleKinds, UpdateKinds, CreateKinds, Kinds

\* A request nobody works on, or that is only remembered to be an old one.
LEMMA OthersFit ==
  ASSUME Shapes, NEW p \in Procs, Fits(p),
         req'[p] = req[p] \/ (req[p] # Idle /\ req'[p] = [req[p] EXCEPT !.old = TRUE]),
         Len(invites) \in Nat, Len(invites') \in Nat, Len(invites) <= Len(invites'),
         req[p].kind \in CheckedKinds /\ deletion'[req[p].user] \notin {"none", "announced"} =>
           IsInactive(req[p].user) \/ req'[p].old,
         req[p].kind \in RoleKinds /\ deletion'[req[p].user] \in {"done", "erased"} =>
           deletion[req[p].user] \in {"done", "erased"} \/ req'[p].old,
         late \subseteq late',
         p = Consumer /\ req[p] # Idle => deletion'[req[p].user] \in {"declining", "leaving"}
  PROVE  Fits(p)'
<1>1. /\ req'[p].kind = req[p].kind /\ req'[p].user = req[p].user /\ req'[p].step = req[p].step
      /\ req'[p].row = req[p].row /\ req'[p].invite = req[p].invite
      /\ req[p].old = TRUE => req'[p].old
      /\ req'[p] = Idle <=> req[p] = Idle
  <2>1. CASE req'[p] = req[p]
    BY <2>1
  <2>2. CASE req[p] # Idle /\ req'[p] = [req[p] EXCEPT !.old = TRUE]
    <3>1. req[p] \in Requests
      BY <2>2, RequestOrIdle
    <3>2. /\ req'[p].kind = req[p].kind /\ req'[p].user = req[p].user /\ req'[p].step = req[p].step
          /\ req'[p].row = req[p].row /\ req'[p].invite = req[p].invite
          /\ req'[p].old = TRUE
      BY <2>2, <3>1 DEF Requests
    <3>3. req'[p] # Idle
      BY <3>2 DEF Idle
    <3>. QED  BY <2>2, <3>2, <3>3
  <2>. QED  BY <2>1, <2>2
<1>2. req[p].old \in BOOLEAN
  <2>1. CASE req[p] \in Requests
    BY <2>1 DEF Requests
  <2>2. CASE req[p] = Idle
    BY <2>2 DEF Idle
  <2>. QED  BY <2>1, <2>2, RequestOrIdle
<1>3. RowToWrite(p) => RowToWrite(p)'
  BY <1>1 DEF RowToWrite
<1>4. req'[p].kind \in {"accept", "decline"} => req'[p].invite \in 1..Len(invites')
  BY <1>1 DEF Fits
<1>5. /\ IsInactive(req[p].user)' <=> deletion'[req'[p].user] \notin {"none", "announced"}
      /\ IsInactive(req[p].user) <=> deletion[req[p].user] \notin {"none", "announced"}
  BY DEF IsInactive
<1>6. /\ /\ IsInactive(req[p].user)' /\ req'[p].kind \in CheckedKinds
         /\ req'[p].kind = "accept" \/ req'[p].step # "begun"
         => req'[p].old
      /\ deletion'[req'[p].user] \in {"done", "erased"} /\ req'[p].kind \in RoleKinds /\ req'[p].step = "decided" =>
           req'[p].old \/ req'[p].user \in late'
  BY <1>1, <1>2, <1>5 DEF Fits
<1>. QED  BY <1>1, <1>3, <1>4, <1>6 DEF Fits

\* A process that has no request.
LEMMA IdleFits ==
  ASSUME Shapes, NEW p \in Procs, req'[p] = Idle
  PROVE  Fits(p)'
BY KindsOfRequests, RequestOrIdle DEF Fits

LEMMA ConfirmedIsFinite ==
  /\ IsFiniteSet(Confirmed) /\ IsFiniteSet(Counted)
  /\ Cardinality(Confirmed) \in Nat /\ Cardinality(Counted) \in Nat
  /\ Cardinality(Counted) <= Cardinality(Confirmed)
<1>1. Confirmed \subseteq Users /\ Counted \subseteq Confirmed
  BY DEF Confirmed, ListMembers, Counted
<1>2. IsFiniteSet(Users)
  BY GroupAssumption
<1>. QED  BY <1>1, <1>2, FS_Subset, FS_CardinalityType

\* Nobody more is counted, and nobody gets the lock.
LEMMA SpotStands ==
  ASSUME SpotKept, Counted' \subseteq Counted, \A p \in Procs : HoldsLock(p)' => HoldsLock(p)
  PROVE  SpotKept'
<1>1. /\ Cardinality(Counted') <= Cardinality(Counted)
      /\ Cardinality(Counted') \in Nat /\ Cardinality(Counted) \in Nat
  BY ConfirmedIsFinite, FS_Subset, FS_CardinalityType
<1>. QED  BY <1>1, GroupAssumption DEF SpotKept

\* The members are written by id.
LEMMA CountedStands ==
  ASSUME UNCHANGED <<member, uncounted>>
  PROVE  Counted' = Counted /\ Confirmed' = Confirmed
BY DEF Counted, Confirmed, ListMembers

-----------------------------------------------------------------------------
(***************************************************************************)
(* The steps of a request up to its commit.                                *)
(***************************************************************************)

\* Only p's request changes, to r.
LEMMA RequestStep ==
  ASSUME IInv, NEW p \in Procs, NEW r \in Requests \cup {Idle}, req' = [req EXCEPT ![p] = r],
         UNCHANGED <<member, invites, found, deletion, uncounted, late>>,
         Fits(p)', SpotKept'
  PROVE  IInv'
<1>. USE DEF IInv
<1>1. Shapes' /\ req'[p] = r /\ \A q \in Procs : q # p => req'[q] = req[q]
  BY DEF Shapes
<1>2. RequestsFit'
  <2>1. ASSUME NEW q \in Procs, q # p
        PROVE  Fits(q)'
    <3>1. Len(invites) \in Nat /\ Len(invites') \in Nat /\ Len(invites) <= Len(invites')
      BY DEF Shapes
    <3>2. Fits(q) /\ req'[q] = req[q]
      BY <1>1, <2>1 DEF RequestsFit
    <3>. QED  BY <3>1, <3>2, OthersFit DEF IsInactive, Fits
  <2>. QED  BY <2>1 DEF RequestsFit
<1>3. CreatorStays' /\ OneUnanswered' /\ OutUnlessLate'
  BY DEF CreatorStays, OneUnanswered, OutUnlessLate, Confirmed, ListMembers
<1>. QED  BY <1>1, <1>2, <1>3

\* Nobody gets the lock when p's request is not a decided one.
LEMMA NoNewLock ==
  ASSUME IInv, NEW p \in Procs, NEW r, req' = [req EXCEPT ![p] = r],
         r.step # "decided" \/ r.kind \notin {"join", "approve"} \/ Capacity = NoLimit,
         UNCHANGED <<member, uncounted>>
  PROVE  SpotKept'
<1>1. req'[p] = r /\ \A q \in Procs : q # p => req'[q] = req[q]
  BY DEF IInv, Shapes
<1>2. \A q \in Procs : HoldsLock(q)' => HoldsLock(q)
  BY <1>1 DEF HoldsLock
<1>. QED  BY <1>2, CountedStands, SpotStands DEF IInv

LEMMA BeginStep ==
  ASSUME IInv, NEW p \in Procs, NEW kind \in Kinds, NEW u \in Users, NEW role \in Roles \cup {"none"},
         NEW i \in 0..MaxInvites, Begin(p, kind, u, role, i),
         kind \in {"accept", "decline"} => i \in 1..Len(invites),
         kind = "accept" => ~IsInactive(u),
         p = Consumer => kind \in {"decline", "leave"} /\ deletion[u] \in {"declining", "leaving"}
  PROVE  IInv'
<1>1. PICK r : r = [kind |-> kind, user |-> u, step |-> "begun", role |-> role,
                    row |-> NoRow, invite |-> i, old |-> FALSE]
  OBVIOUS
<1>2. /\ req' = [req EXCEPT ![p] = r]
      /\ UNCHANGED <<member, invites, found, deletion, uncounted, late>>
  BY <1>1 DEF Begin
<1>3. r \in Requests /\ r.kind = kind /\ r.user = u /\ r.step = "begun" /\ r.invite = i
  BY <1>1 DEF Requests
<1>4. req'[p] = r
  BY <1>2 DEF IInv, Shapes
<1>5. Fits(p)'
  BY <1>2, <1>3, <1>4, KindsOfRequests DEF Fits, IsInactive
<1>6. SpotKept'
  BY <1>2, <1>3, NoNewLock
<1>. QED  BY <1>2, <1>3, <1>5, <1>6, RequestStep

LEMMA DecideStep ==
  ASSUME IInv, NEW p \in Procs, NEW step \in {"waiting", "decided"}, NEW row \in Rows \cup {NoRow},
         req[p].step \in {"begun", "waiting"}, Decide(p, step, row),
         req[p].kind \in {"invite_member", "accept"} => row = NewMemberFromInvite,
         req[p].kind = "join" => row = NewJoinRequest,
         req[p].kind \in UpdateKinds =>
           /\ req[p].user # Creator
           /\ row \in Rows /\ row.role # "creator"
           /\ row.status = "confirmed" => req[p].kind \in {"approve"} \cup RoleKinds,
         step = "waiting" => req[p].kind \in {"join", "approve"},
         req[p].kind \in {"invite_member", "approve"} /\ req[p].step = "begun" => ~IsInactive(req[p].user),
         req[p].kind \in RoleKinds => req[p].user \in Confirmed,
         step = "decided" /\ Capacity # NoLimit /\ req[p].kind \in {"join", "approve"} =>
           (\A q \in Procs : ~HoldsLock(q)) /\ CountConfirmedMembers < Capacity
  PROVE  IInv'
<1>1. req[p] \in Requests /\ Fits(p)
  BY RequestOrIdle DEF IInv, RequestsFit
<1>2. PICK r : r = [req[p] EXCEPT !.step = step, !.row = row, !.role = "none"]
  OBVIOUS
<1>3. /\ req' = [req EXCEPT ![p] = r]
      /\ UNCHANGED <<member, invites, found, deletion, uncounted, late>>
  BY <1>2 DEF Decide
<1>4. /\ r \in Requests /\ r.kind = req[p].kind /\ r.user = req[p].user /\ r.invite = req[p].invite
      /\ r.step = step /\ r.row = row /\ r.old = req[p].old
  BY <1>1, <1>2 DEF Requests
<1>5. req'[p] = r /\ \A q \in Procs : q # p => req'[q] = req[q]
  BY <1>3 DEF IInv, Shapes
<1>6. RowToWrite(p)'
  BY <1>4, <1>5 DEF RowToWrite
<1>7. /\ IsInactive(req[p].user)' /\ req[p].kind \in CheckedKinds => req[p].old
      /\ deletion[req[p].user] \in {"done", "erased"} /\ req[p].kind \in RoleKinds => req[p].user \in late
  <2>1. IsInactive(req[p].user) /\ req[p].kind \in CheckedKinds => req[p].old
    BY <1>1 DEF Fits, CheckedKinds
  <2>2. deletion[req[p].user] \in {"done", "erased"} /\ req[p].kind \in RoleKinds => req[p].user \in late
    BY <1>1, KindsOfRequests DEF IInv, OutUnlessLate, Requests
  <2>3. deletion'[req'[p].user] = deletion[req[p].user]
    BY <1>3, <1>4, <1>5
  <2>. QED  BY <2>1, <2>2, <2>3, <1>4, <1>5 DEF IsInactive
<1>8. Fits(p)'
  <2>1. p = Consumer => r.kind \in {"decline", "leave"} /\ deletion[r.user] \in {"declining", "leaving"}
    BY <1>1, <1>4, RequestOrIdle DEF Fits, IInv
  <2>2. r.kind \in {"accept", "decline"} => r.invite \in 1..Len(invites)
    BY <1>1, <1>4 DEF Fits
  <2>. QED  BY <1>3, <1>4, <1>5, <1>6, <1>7, <2>1, <2>2 DEF Fits, IsInactive
<1>9. SpotKept'
  <2>1. CASE step = "decided" /\ Capacity # NoLimit /\ req[p].kind \in {"join", "approve"}
    <3>1. \A q \in Procs : HoldsLock(q)' => q = p
      BY <1>5, <2>1 DEF HoldsLock
    <3>2. Cardinality(Counted') < Capacity
      BY <1>3, <2>1, CountedStands, ConfirmedIsFinite, GroupAssumption DEF CountConfirmedMembers, Confirmed
    <3>. QED  BY <3>1, <3>2, ConfirmedIsFinite, CountedStands, <1>3, GroupAssumption DEF SpotKept
  <2>2. CASE ~(step = "decided" /\ Capacity # NoLimit /\ req[p].kind \in {"join", "approve"})
    BY <1>3, <1>4, <2>2, NoNewLock
  <2>. QED  BY <2>1, <2>2
<1>. QED  BY <1>3, <1>4, <1>8, <1>9, RequestStep

\* What the domain makes of a row of another user than the creator.
LEMMA RowsDecided ==
  ASSUME NEW m \in Rows \cup {NoRow}, NEW role
  PROVE  /\ \A row \in Approve(m, role) : row \in Rows /\ row.role = m.role /\ m.status = "pending"
         /\ \A row \in Reject(m, role) :
              row \in Rows /\ row.role = m.role /\ row.status = "rejected" /\ m.status = "pending"
         /\ \A row \in Leave(m) :
              row \in Rows /\ row.role = m.role /\ row.status = "left" /\ m.role # "creator"
         /\ \A row \in Remove(m, role) :
              row \in Rows /\ row.role = m.role /\ row.status = "removed" /\ m.role # "creator"
         /\ \A new \in {"admin", "member"} : \A row \in ChangeRole(m, role, new) :
              row \in Rows /\ row.role = new /\ m.status = "confirmed" /\ m.role # "creator"
<1>1. CASE m \in Rows
  <2>1. PICK ro \in Roles, st \in Statuses : m = [role |-> ro, status |-> st]
    BY <1>1 DEF Rows
  <2>2. /\ \A x \in Statuses : [m EXCEPT !.status = x] = [role |-> ro, status |-> x]
        /\ \A x \in Roles : [m EXCEPT !.role = x] = [role |-> x, status |-> st]
    BY <2>1
  <2>3. "confirmed" \in Statuses /\ "rejected" \in Statuses /\ "left" \in Statuses /\ "removed" \in Statuses
        /\ {"admin", "member"} \subseteq Roles
    BY DEF Statuses, Roles
  <2>4. \A x \in Statuses, y \in Roles : [role |-> y, status |-> x] \in Rows
    BY DEF Rows
  <2>. QED  BY <2>1, <2>2, <2>3, <2>4 DEF Approve, Reject, Leave, Remove, ChangeRole
<1>2. CASE m = NoRow
  BY <1>2 DEF NoRow, Approve, Reject, Leave, Remove, ChangeRole
<1>. QED  BY <1>1, <1>2

-----------------------------------------------------------------------------
(***************************************************************************)
(* Every request begins, and is decided.                                   *)
(***************************************************************************)

LEMMA ManageStep ==
  ASSUME IInv, NEW w \in Workers, NEW kind \in Kinds \ {"accept", "decline"}, NEW u \in Users,
         Manage(w, kind, u)
  PROVE  IInv'
<1>1. PICK by \in Users : CanManageMembers(getUserRole(by)) /\ Begin(w, kind, u, getUserRole(by), 0)
  BY DEF Manage
<1>2. getUserRole(by) \in Roles \cup {"none"} /\ 0 \in 0..MaxInvites /\ w \in Procs /\ w # Consumer
  BY <1>1, GroupAssumption DEF CanManageMembers, Roles, Procs
<1>. QED  BY <1>1, <1>2, BeginStep

LEMMA AskStep ==
  ASSUME IInv, NEW w \in Workers, NEW kind \in Kinds, NEW u \in Users, NEW i \in 0..MaxInvites,
         Ask(w, kind, u, i), kind \in {"accept", "decline"} => i \in 1..Len(invites)
  PROVE  IInv'
<1>1. w \in Procs /\ w # Consumer
  BY GroupAssumption DEF Procs
<1>. QED  BY <1>1, BeginStep DEF Ask, Accepted

LEMMA UserRequestStep ==
  ASSUME IInv, NEW w \in Workers, NEW u \in Targets, UserRequest(w, u)
  PROVE  IInv'
<1>1. u \in Users /\ 0 \in 0..MaxInvites
  BY GroupAssumption
<1>2. ASSUME NEW kind \in Kinds \ {"accept", "decline"}, Manage(w, kind, u)
      PROVE  IInv'
  BY <1>1, <1>2, ManageStep
<1>3. ASSUME NEW kind \in Kinds \ {"accept", "decline"}, Ask(w, kind, u, 0)
      PROVE  IInv'
  BY <1>1, <1>3, AskStep
<1>4. \/ \E kind \in Kinds \ {"accept", "decline"} : Manage(w, kind, u)
      \/ \E kind \in Kinds \ {"accept", "decline"} : Ask(w, kind, u, 0)
  BY KindsOfRequests DEF UserRequest, HandleInviteMember, HandleRequestToJoinGroup, HandleRemoveMember,
     HandleUpdateMemberRole, HandleApproveMember, HandleRejectMember, HandleLeaveMember, HandleSendInvite
<1>. QED  BY <1>2, <1>3, <1>4

LEMMA InviteAnswerStep ==
  ASSUME IInv, NEW w \in Workers, NEW i \in 1..Len(invites),
         HandleAcceptInvite(w, i) \/ HandleDeclineInvite(w, i)
  PROVE  IInv'
<1>1. invites[i].user \in Users /\ i \in 0..MaxInvites
  <2>1. invites \in Seq(Invites) /\ Len(invites) \in 0..MaxInvites /\ MaxInvites \in Nat
    BY GroupAssumption DEF IInv, Shapes
  <2>2. i \in DOMAIN invites /\ i \in 0..MaxInvites
    BY <2>1
  <2>3. invites[i] \in Invites
    BY <2>1, <2>2
  <2>. QED  BY <2>2, <2>3 DEF Invites
<1>2. "accept" \in Kinds /\ "decline" \in Kinds
  BY KindsOfRequests
<1>3. \E kind \in {"accept", "decline"} : Ask(w, kind, invites[i].user, i)
  BY DEF HandleAcceptInvite, HandleDeclineInvite
<1>. QED  BY <1>1, <1>2, <1>3, AskStep

\* The row a request is about.
LEMMA RowRead ==
  ASSUME IInv, NEW p \in Procs
  PROVE  /\ req[p].user \in Users /\ member[req[p].user] \in Rows \cup {NoRow}
         /\ GetMemberByGroupAndUser(req[p].user) = member[req[p].user]
         /\ req[p].user # Creator => member[req[p].user].role # "creator"
         /\ member[Creator].role = "creator" /\ member[Creator].status = "confirmed"
         /\ member[req[p].user].status = "confirmed" => req[p].user \in Confirmed
BY RequestOrIdle DEF IInv, Shapes, CreatorStays, NewCreatorMember, GetMemberByGroupAndUser, Confirmed, ListMembers

LEMMA NewRows ==
  /\ NewMemberFromInvite \in Rows /\ NewJoinRequest \in Rows
  /\ NewMemberFromInvite.role = "member" /\ NewMemberFromInvite.status = "confirmed"
  /\ NewJoinRequest.role = "member" /\ NewJoinRequest.status = "pending"
BY DEF NewMemberFromInvite, NewJoinRequest, Rows, Roles, Statuses

LEMMA CreatingStep ==
  ASSUME IInv, NEW p \in Procs,
         \/ InviteMember(p) \/ RequestToJoinGroup(p) \/ AcceptInvite(p)
         \/ SendInvite(p) \/ DeclineInvite(p)
  PROVE  IInv'
<1>1. CASE InviteMember(p) \/ AcceptInvite(p)
  <2>1. /\ req[p].kind \in {"invite_member", "accept"} /\ req[p].step = "begun"
        /\ Decide(p, "decided", NewMemberFromInvite)
        /\ req[p].kind = "invite_member" => ~IsInactive(req[p].user)
    BY <1>1 DEF InviteMember, AcceptInvite, Reading
  <2>. QED  BY <2>1, NewRows, DecideStep DEF UpdateKinds, RoleKinds
<1>2. CASE RequestToJoinGroup(p)
  <2>1. PICK step \in {"waiting", "decided"} :
          /\ req[p].kind = "join" /\ req[p].step = "begun"
          /\ Decide(p, step, NewJoinRequest) /\ (step = "decided" => Capacity = NoLimit)
    BY <1>2 DEF RequestToJoinGroup, Reading
  <2>. QED  BY <2>1, NewRows, DecideStep DEF UpdateKinds, RoleKinds
<1>3. CASE SendInvite(p) \/ DeclineInvite(p)
  <2>1. /\ req[p].kind \in {"send", "decline"} /\ req[p].step = "begun"
        /\ Decide(p, "decided", NoRow)
    BY <1>3 DEF SendInvite, DeclineInvite, Reading
  <2>. QED  BY <2>1, DecideStep DEF UpdateKinds, RoleKinds
<1>. QED  BY <1>1, <1>2, <1>3

LEMMA ChangingStep ==
  ASSUME IInv, NEW p \in Procs,
         \/ ApproveMember(p) \/ RejectMember(p) \/ RemoveMember(p)
         \/ PromoteMember(p) \/ DemoteMember(p) \/ LeaveMember(p)
  PROVE  IInv'
<1> DEFINE u == req[p].user
           m == member[u]
<1>1. /\ u \in Users /\ m \in Rows \cup {NoRow} /\ GetMemberByGroupAndUser(u) = m
      /\ u # Creator => m.role # "creator"
      /\ u = Creator => m.role = "creator" /\ m.status = "confirmed"
      /\ m.status = "confirmed" => u \in Confirmed
  BY RowRead
<1>2. CASE ApproveMember(p)
  <2>1. PICK step \in {"waiting", "decided"}, row \in Approve(m, req[p].role) :
          /\ req[p].kind = "approve" /\ req[p].step = "begun" /\ ~IsInactive(u)
          /\ Decide(p, step, row) /\ (step = "decided" => Capacity = NoLimit)
    BY <1>1, <1>2 DEF ApproveMember, Reading
  <2>2. row \in Rows /\ u # Creator /\ row.role # "creator"
    BY <1>1, RowsDecided
  <2>. QED  BY <2>1, <2>2, DecideStep DEF UpdateKinds, RoleKinds
<1>3. CASE RejectMember(p) \/ RemoveMember(p) \/ LeaveMember(p)
  <2>1. PICK row \in Reject(m, req[p].role) \cup Remove(m, req[p].role) \cup Leave(m) :
          /\ req[p].kind \in {"reject", "remove", "leave"} /\ req[p].step = "begun"
          /\ Decide(p, "decided", row)
    BY <1>1, <1>3 DEF RejectMember, RemoveMember, LeaveMember, Reading
  <2>2. row \in Rows /\ u # Creator /\ row.role # "creator" /\ row.status # "confirmed"
    BY <1>1, RowsDecided
  <2>. QED  BY <2>1, <2>2, DecideStep DEF UpdateKinds, RoleKinds
<1>4. CASE PromoteMember(p) \/ DemoteMember(p)
  <2>0. PICK new \in {"admin", "member"} : \E row \in ChangeRole(m, req[p].role, new) :
          /\ req[p].kind \in {"promote", "demote"} /\ req[p].step = "begun"
          /\ Decide(p, "decided", row)
    BY <1>1, <1>4 DEF PromoteMember, DemoteMember, Reading
  <2>1. PICK row \in ChangeRole(m, req[p].role, new) :
          /\ req[p].kind \in {"promote", "demote"} /\ req[p].step = "begun"
          /\ Decide(p, "decided", row)
    BY <2>0
  <2>2. row \in Rows /\ u # Creator /\ row.role # "creator" /\ u \in Confirmed
    BY <1>1, RowsDecided
  <2>. QED  BY <2>1, <2>2, DecideStep DEF UpdateKinds, RoleKinds
<1>. QED  BY <1>2, <1>3, <1>4

LEMMA LockStep ==
  ASSUME IInv, NEW p \in Procs, LockGroupCapacity(p)
  PROVE  IInv'
<1>1. /\ req[p].step = "waiting" /\ Decide(p, "decided", req[p].row)
      /\ (\A q \in Procs : ~HoldsLock(q)) /\ CountConfirmedMembers < Capacity
  BY DEF LockGroupCapacity
<1>2. Fits(p) /\ req[p] \in Requests
  BY <1>1, RequestOrIdle DEF IInv, RequestsFit
<1>3. req[p].row \in Rows \cup {NoRow} /\ req[p].kind \in {"join", "approve"} /\ RowToWrite(p)
  BY <1>1, <1>2 DEF Fits, Requests
<1>4. req[p].kind \notin RoleKinds /\ req[p].kind \notin {"invite_member", "accept"}
  BY <1>3 DEF RoleKinds
<1>. QED  BY <1>1, <1>3, <1>4, DecideStep DEF RowToWrite

-----------------------------------------------------------------------------
(***************************************************************************)
(* Invites are written.                                                    *)
(***************************************************************************)

\* What is known of an invite.
LEMMA InviteShape ==
  ASSUME Shapes, NEW i \in 1..Len(invites)
  PROVE  invites[i] \in Invites /\ invites[i].user \in Users
<1>1. invites \in Seq(Invites)
  BY DEF Shapes
<1>2. invites[i] \in Invites
  BY <1>1
<1>. QED  BY <1>2 DEF Invites

\* One invite changes, and whose it is does not.
LEMMA InviteWritten ==
  ASSUME Shapes, NEW i \in 1..Len(invites), NEW status \in InviteStatuses, NEW answered \in BOOLEAN,
         NEW marked \in BOOLEAN,
         invites' = [invites EXCEPT ![i] = [user |-> invites[i].user, status |-> status,
                                            answered |-> answered, stale |-> marked]]
  PROVE  /\ invites' \in Seq(Invites) /\ Len(invites') = Len(invites)
         /\ \A j \in 1..Len(invites) : j # i => invites'[j] = invites[j]
         /\ invites'[i].user = invites[i].user /\ invites'[i].status = status
         /\ invites'[i].answered = answered /\ invites'[i].stale = marked
<1>1. invites \in Seq(Invites) /\ invites[i].user \in Users
  BY InviteShape DEF Shapes
<1>2. PICK v : v = [user |-> invites[i].user, status |-> status, answered |-> answered, stale |-> marked]
  OBVIOUS
<1>3. /\ v \in Invites /\ v.user = invites[i].user /\ v.status = status
      /\ v.answered = answered /\ v.stale = marked
  BY <1>1, <1>2 DEF Invites
<1>4. invites' = [invites EXCEPT ![i] = v]
  BY <1>2
<1>5. /\ invites' \in Seq(Invites) /\ Len(invites') = Len(invites)
      /\ \A j \in 1..Len(invites) : j # i => invites'[j] = invites[j]
      /\ invites'[i] = v
  BY <1>1, <1>3, <1>4
<1>. QED  BY <1>3, <1>5

LEMMA UpdateInviteKeeps ==
  ASSUME Shapes, OneUnanswered, NEW i \in 1..Len(invites),
         NEW status \in {"accepted", "declined", "expired"}, NEW answered \in BOOLEAN,
         UpdateInvite(i, status, answered)
  PROVE  /\ invites' \in Seq(Invites) /\ Len(invites') = Len(invites)
         /\ OneUnanswered'
<1>1. CASE UNCHANGED invites
  BY <1>1 DEF Shapes, OneUnanswered
<1>2. CASE /\ invites[i].status # "gone"
           /\ answered \/ Unanswered(invites[i].user) \subseteq {i}
           /\ invites' = [invites EXCEPT ![i].status = status, ![i].answered = answered]
  <2>1. /\ invites[i] \in Invites /\ invites[i].user \in Users
        /\ Len(invites) \in Nat /\ DOMAIN invites = 1..Len(invites) /\ i \in DOMAIN invites
    BY InviteShape DEF Shapes
  <2>2. PICK us \in Users, st \in InviteStatuses, an \in BOOLEAN, sl \in BOOLEAN :
          invites[i] = [user |-> us, status |-> st, answered |-> an, stale |-> sl]
    BY <2>1 DEF Invites
  <2>4. invites' = [invites EXCEPT ![i] = [user |-> invites[i].user, status |-> status,
                                           answered |-> answered, stale |-> sl]]
    <3>1. [invites EXCEPT ![i].status = status, ![i].answered = answered]
            = [invites EXCEPT ![i] = [[invites[i] EXCEPT !.status = status] EXCEPT !.answered = answered]]
      BY <2>1
    <3>2. [invites[i] EXCEPT !.status = status]
            = [user |-> us, status |-> status, answered |-> an, stale |-> sl]
      BY <2>2
    <3>. QED  BY <1>2, <2>2, <3>1, <3>2
  <2>5. status \in InviteStatuses
    BY DEF InviteStatuses
  <2>6. /\ invites' \in Seq(Invites) /\ Len(invites') = Len(invites)
        /\ \A j \in 1..Len(invites) : j # i => invites'[j] = invites[j]
        /\ invites'[i].user = invites[i].user /\ invites'[i].status = status
        /\ invites'[i].answered = answered
    BY <2>4, <2>5, InviteWritten
  <2>7. \A j \in 1..Len(invites) :
          /\ invites[j].user = invites[i].user /\ ~invites[j].answered /\ invites[j].status # "gone"
          /\ ~answered
          => j = i
    BY <1>2 DEF Unanswered, InvitesOf
  <2>8. OneUnanswered'
    BY <2>6, <2>7 DEF OneUnanswered
  <2>. QED  BY <2>6, <2>8
<1>. QED  BY <1>1, <1>2 DEF UpdateInvite

LEMMA CreateInviteKeeps ==
  ASSUME Shapes, OneUnanswered, NEW u \in Users, CreateInvite(u)
  PROVE  /\ invites' \in Seq(Invites) /\ Len(invites') = Len(invites) + 1
         /\ OneUnanswered'
<1>1. PICK v : v = [user |-> u, status |-> "pending", answered |-> FALSE, stale |-> FALSE]
  OBVIOUS
<1>2. v \in Invites /\ v.user = u /\ v.status = "pending" /\ ~v.answered
  BY <1>1 DEF Invites, InviteStatuses
<1>3. invites' = Append(invites, v) /\ Unanswered(u) = {}
  BY <1>1 DEF CreateInvite
<1>4. /\ invites' \in Seq(Invites) /\ Len(invites') = Len(invites) + 1 /\ Len(invites) \in Nat
      /\ invites'[Len(invites) + 1] = v
      /\ \A j \in 1..Len(invites) : invites'[j] = invites[j]
  BY <1>2, <1>3 DEF Shapes
<1>5. \A j \in 1..Len(invites) : ~(/\ invites[j].user = u /\ ~invites[j].answered
                                   /\ invites[j].status # "gone")
  BY <1>3 DEF Unanswered, InvitesOf
<1>6. \A j \in 1..Len(invites') : j \in 1..Len(invites) \/ j = Len(invites) + 1
  BY <1>4
<1>7. OneUnanswered'
  BY <1>2, <1>4, <1>5, <1>6 DEF OneUnanswered
<1>. QED  BY <1>4, <1>7

-----------------------------------------------------------------------------
(***************************************************************************)
(* A request ends.                                                         *)
(***************************************************************************)

\* The consumer's request is about an account whose deletion goes on.
LEMMA DeletionGoesOn ==
  ASSUME IInv, NEW p \in Procs, req[p] # Idle, NEW stage \in {"declining", "leaving", "done"},
         DeletionAfter(p, stage)
  PROVE  /\ deletion' \in [Users -> {"none", "announced", "declining", "leaving", "done", "erased"}]
         /\ \A u \in Users : deletion'[u] \notin {"none", "announced"} => IsInactive(u)
         /\ \A u \in Users : deletion'[u] \in {"done", "erased"} =>
              deletion[u] \in {"done", "erased"} \/ (p = Consumer /\ u = req[p].user /\ stage = "done")
         /\ p # Consumer => deletion' = deletion
         /\ p = Consumer => deletion'[req[p].user] = stage
<1>1. req[p].user \in Users /\ Fits(p)
  BY RequestOrIdle DEF IInv, RequestsFit
<1>2. p = Consumer => deletion[req[p].user] \in {"declining", "leaving"}
  BY <1>1 DEF Fits
<1>. QED  BY <1>1, <1>2 DEF DeletionAfter, IInv, Shapes, IsInactive

\* p's request is over; other requests about the same user may have become old.
LEMMA EndedFit ==
  ASSUME IInv, NEW p \in Procs, req[p] # Idle, NEW stage \in {"declining", "leaving", "done"},
         DeletionAfter(p, stage), req'[p] = Idle,
         \A q \in Procs : q # p =>
           /\ req'[q] = req[q] \/ (req[q] # Idle /\ req'[q] = [req[q] EXCEPT !.old = TRUE])
           /\ p = Consumer /\ stage = "done" /\ req[q].user = req[p].user /\ req[q].kind \in RoleKinds =>
                req'[q].old,
         Len(invites) <= Len(invites'), Len(invites') \in Nat, late \subseteq late'
  PROVE  RequestsFit'
<1>1. ASSUME NEW q \in Procs, q # p
      PROVE  Fits(q)'
  <2>1. Fits(q) /\ req[q].user \in Users
    BY RequestOrIdle DEF IInv, RequestsFit
  <2>2. Len(invites) \in Nat
    BY DEF IInv, Shapes
  <2>3. q = Consumer /\ req[q] # Idle => deletion'[req[q].user] \in {"declining", "leaving"}
    BY <1>1, <2>1, DeletionGoesOn DEF Fits
  <2>. QED  BY <1>1, <2>1, <2>2, <2>3, DeletionGoesOn, OthersFit DEF IInv
<1>2. Fits(p)'
  BY IdleFits DEF IInv
<1>. QED  BY <1>1, <1>2 DEF RequestsFit

LEMMA RefuseStep ==
  ASSUME IInv, NEW p \in Procs, Refuse(p)
  PROVE  IInv'
<1>1. /\ req[p] # Idle /\ req' = [req EXCEPT ![p] = Idle] /\ DeletionAfter(p, "declining")
      /\ UNCHANGED <<member, invites, found, uncounted, late>>
  BY DEF Refuse
<1>2. /\ req'[p] = Idle /\ \A q \in Procs : q # p => req'[q] = req[q]
      /\ req' \in [Procs -> Requests \cup {Idle}]
  BY <1>1 DEF IInv, Shapes
<1>3. Len(invites) \in Nat /\ Len(invites') = Len(invites)
  BY <1>1 DEF IInv, Shapes
<1>4. RequestsFit'
  BY <1>1, <1>2, <1>3, EndedFit
<1>5. Shapes' /\ OutUnlessLate'
  BY <1>1, <1>2, DeletionGoesOn DEF IInv, Shapes, OutUnlessLate, Confirmed, ListMembers
<1>6. CreatorStays' /\ OneUnanswered'
  BY <1>1 DEF IInv, CreatorStays, OneUnanswered
<1>7. SpotKept'
  BY <1>1, NoNewLock DEF Idle
<1>. QED  BY <1>4, <1>5, <1>6, <1>7 DEF IInv

LEMMA CommitInviteStep ==
  ASSUME IInv, NEW p \in Procs, CommitInvite(p)
  PROVE  IInv'
<1>1. /\ req[p].step = "decided" /\ req' = [req EXCEPT ![p] = Idle] /\ DeletionAfter(p, "leaving")
      /\ UNCHANGED <<member, found, uncounted, late>>
      /\ \/ req[p].kind = "send" /\ Len(invites) < MaxInvites /\ CreateInvite(req[p].user)
         \/ req[p].kind = "decline" /\ UpdateInvite(req[p].invite, "declined", TRUE)
  BY DEF CommitInvite
<1>2. /\ req'[p] = Idle /\ \A q \in Procs : q # p => req'[q] = req[q]
      /\ req' \in [Procs -> Requests \cup {Idle}] /\ req[p] # Idle
      /\ req[p].user \in Users /\ Fits(p)
  BY <1>1, RequestOrIdle DEF IInv, Shapes, RequestsFit
<1>3. /\ invites' \in Seq(Invites) /\ OneUnanswered' /\ Len(invites) \in Nat
      /\ Len(invites') \in 0..MaxInvites /\ Len(invites) <= Len(invites')
  <2>1. Len(invites) \in 0..MaxInvites /\ MaxInvites \in Nat
    BY GroupAssumption DEF IInv, Shapes
  <2>2. CASE Len(invites) < MaxInvites /\ CreateInvite(req[p].user)
    BY <1>2, <2>1, <2>2, CreateInviteKeeps DEF IInv
  <2>3. CASE req[p].kind = "decline" /\ UpdateInvite(req[p].invite, "declined", TRUE)
    <3>1. req[p].invite \in 1..Len(invites)
      BY <1>2, <2>3 DEF Fits
    <3>2. invites' \in Seq(Invites) /\ Len(invites') = Len(invites) /\ OneUnanswered'
      BY <2>3, <3>1, UpdateInviteKeeps DEF IInv
    <3>. QED  BY <2>1, <3>2
  <2>. QED  BY <1>1, <2>2, <2>3
<1>4. RequestsFit'
  BY <1>1, <1>2, <1>3, EndedFit
<1>5. Shapes' /\ OutUnlessLate'
  BY <1>1, <1>2, <1>3, DeletionGoesOn DEF IInv, Shapes, OutUnlessLate, Confirmed, ListMembers
<1>6. CreatorStays'
  BY <1>1 DEF IInv, CreatorStays
<1>7. SpotKept'
  BY <1>1, NoNewLock DEF Idle
<1>. QED  BY <1>3, <1>4, <1>5, <1>6, <1>7 DEF IInv

\* Requests that become old are otherwise what they were.
LEMMA MarkOldMarks ==
  ASSUME NEW r \in [Procs -> Requests \cup {Idle}], NEW u \in Users, NEW kinds \in SUBSET Kinds,
         NEW r2, r2 = MarkOld(r, u, kinds)
  PROVE  /\ r2 \in [Procs -> Requests \cup {Idle}]
         /\ \A q \in Procs :
              /\ r2[q] = r[q] \/ (r[q] # Idle /\ r2[q] = [r[q] EXCEPT !.old = TRUE])
              /\ r[q].user = u /\ r[q].kind \in kinds => r2[q].old
              /\ r2[q].step = r[q].step /\ r2[q].kind = r[q].kind
<1>1. Idle.kind \notin kinds
  BY KindsOfRequests DEF Idle
<1>2. \A x \in Requests : /\ [x EXCEPT !.old = TRUE] \in Requests
                          /\ [x EXCEPT !.old = TRUE].old = TRUE
                          /\ [x EXCEPT !.old = TRUE].kind = x.kind
                          /\ [x EXCEPT !.old = TRUE].step = x.step
  BY DEF Requests
<1>3. \A q \in Procs : r[q].kind \in kinds => r[q] \in Requests /\ r[q] # Idle
  BY <1>1
<1>4. r2 \in [Procs -> Requests \cup {Idle}]
  BY <1>2, <1>3 DEF MarkOld
<1>5. ASSUME NEW q \in Procs
      PROVE  /\ r2[q] = r[q] \/ (r[q] # Idle /\ r2[q] = [r[q] EXCEPT !.old = TRUE])
             /\ r[q].user = u /\ r[q].kind \in kinds => r2[q].old
             /\ r2[q].step = r[q].step /\ r2[q].kind = r[q].kind
  <2>1. CASE r[q].user = u /\ r[q].kind \in kinds
    <3>1. r2[q] = [r[q] EXCEPT !.old = TRUE] /\ r[q] \in Requests /\ r[q] # Idle
      BY <1>3, <2>1 DEF MarkOld
    <3>2. r2[q].old = TRUE /\ r2[q].step = r[q].step /\ r2[q].kind = r[q].kind
      BY <1>2, <3>1
    <3>. QED  BY <3>1, <3>2
  <2>2. CASE ~(r[q].user = u /\ r[q].kind \in kinds)
    BY <2>2 DEF MarkOld
  <2>. QED  BY <2>1, <2>2
<1>. QED  BY <1>4, <1>5

\* What a commit writes: a row of somebody but the creator, or nothing.
LEMMA RowWritten ==
  ASSUME IInv, NEW p \in Procs, CommitMember(p)
  PROVE  \E u \in Users \ {Creator}, row \in Rows :
           /\ req[p].user = u /\ req[p].row = row /\ row.role # "creator"
           /\ member' = [member EXCEPT ![u] = row] \/ (member' = member /\ member[u] = NoRow)
           /\ row.status = "confirmed" => req[p].kind \in CheckedKinds \cup RoleKinds
           /\ p = Consumer => row.status # "confirmed"
           /\ Fits(p) /\ req[p] \in Requests /\ req[p].step = "decided"
<1>1. req[p].step = "decided" /\ req[p] \in Requests /\ Fits(p) /\ RowToWrite(p)
  BY RequestOrIdle DEF CommitMember, IInv, RequestsFit, Fits
<1>2. PICK u : u = req[p].user
  OBVIOUS
<1>3. PICK row : row = req[p].row
  OBVIOUS
<1>4. u \in Users /\ row \in Rows \cup {NoRow} /\ req[p].kind \in Kinds
  BY <1>1, <1>2, <1>3 DEF Requests
<1>5. CASE req[p].kind \in {"invite_member", "join", "accept"}
  <2>1. CreateMember(u, row) /\ row \in {NewMemberFromInvite, NewJoinRequest}
    BY <1>1, <1>2, <1>3, <1>5, KindsOfRequests DEF CommitMember, RowToWrite, UpdateKinds
  <2>2. u # Creator
    BY <2>1 DEF CreateMember, IInv, CreatorStays, NewCreatorMember, NoRow
  <2>3. row.status = "confirmed" => req[p].kind \in CheckedKinds
    BY <1>1, <1>3, <1>5, NewRows DEF RowToWrite, CheckedKinds
  <2>4. p # Consumer
    BY <1>1, <1>5, RequestOrIdle DEF Fits, IInv
  <2>. QED  BY <1>1, <1>2, <1>3, <1>4, <2>1, <2>2, <2>3, <2>4, NewRows DEF CreateMember
<1>6. CASE req[p].kind \in UpdateKinds
  <2>1. /\ u # Creator /\ row \in Rows /\ row.role # "creator"
        /\ row.status = "confirmed" => req[p].kind \in {"approve"} \cup RoleKinds
    BY <1>1, <1>2, <1>3, <1>6 DEF RowToWrite
  <2>2. UpdateMember(u, row)
    BY <1>2, <1>3, <1>6 DEF CommitMember, UpdateKinds
  <2>3. member' = [member EXCEPT ![u] = row] \/ (member' = member /\ member[u] = NoRow)
    BY <1>4, <2>2 DEF UpdateMember, IInv, Shapes
  <2>4. p = Consumer => req[p].kind \notin {"approve"} \cup RoleKinds
    BY <1>1, RequestOrIdle DEF Fits, IInv, RoleKinds
  <2>. QED  BY <1>1, <1>2, <1>3, <1>4, <2>1, <2>3, <2>4 DEF CheckedKinds
<1>. QED  BY <1>4, <1>5, <1>6 DEF CommitMember

LEMMA CommitMemberStep ==
  ASSUME IInv, NEW p \in Procs, CommitMember(p)
  PROVE  IInv'
<1>1. PICK u \in Users \ {Creator}, row \in Rows :
        /\ req[p].user = u /\ req[p].row = row /\ row.role # "creator"
        /\ member' = [member EXCEPT ![u] = row] \/ (member' = member /\ member[u] = NoRow)
        /\ row.status = "confirmed" => req[p].kind \in CheckedKinds \cup RoleKinds
        /\ p = Consumer => row.status # "confirmed"
        /\ Fits(p) /\ req[p] \in Requests /\ req[p].step = "decided"
  BY RowWritten
<1>2. /\ DeletionAfter(p, "done") /\ UNCHANGED found /\ req[p] # Idle
      /\ uncounted' =
           CASE row.status # "confirmed" \/ req[p].kind = "approve" -> uncounted \ {u}
             [] member[u].status = "confirmed" -> uncounted
             [] OTHER -> uncounted \cup {u}
      /\ late' = IF row.status = "confirmed" /\ req[p].old THEN late \cup {u} ELSE late
  BY <1>1, RequestOrIdle DEF CommitMember, NoteSpot, IInv
<1>3. /\ member \in [Users -> Rows \cup {NoRow}] /\ req \in [Procs -> Requests \cup {Idle}]
      /\ uncounted \subseteq Users /\ late \subseteq Users
  BY DEF IInv, Shapes
<1>4. /\ req'[p] = Idle /\ req' \in [Procs -> Requests \cup {Idle}]
      /\ \A q \in Procs : q # p =>
           /\ req'[q] = req[q] \/ (req[q] # Idle /\ req'[q] = [req[q] EXCEPT !.old = TRUE])
           /\ p = Consumer /\ req[q].user = req[p].user /\ req[q].kind \in RoleKinds => req'[q].old
           /\ req'[q].step = req[q].step /\ req'[q].kind = req[q].kind
  <2>1. PICK finished : finished = [req EXCEPT ![p] = Idle]
    OBVIOUS
  <2>2. /\ finished \in [Procs -> Requests \cup {Idle}] /\ finished[p] = Idle
        /\ \A q \in Procs : q # p => finished[q] = req[q]
    BY <1>3, <2>1
  <2>3. CASE p # Consumer
    <3>1. req' = finished
      BY <2>1, <2>3 DEF CommitMember
    <3>. QED  BY <2>2, <2>3, <3>1
  <2>4. CASE p = Consumer
    <3>1. req' = MarkOld(finished, u, RoleKinds)
      BY <1>1, <2>1, <2>4 DEF CommitMember
    <3>2. /\ req' \in [Procs -> Requests \cup {Idle}]
          /\ \A q \in Procs :
               /\ req'[q] = finished[q] \/ (finished[q] # Idle /\ req'[q] = [finished[q] EXCEPT !.old = TRUE])
               /\ finished[q].user = u /\ finished[q].kind \in RoleKinds => req'[q].old
               /\ req'[q].step = finished[q].step /\ req'[q].kind = finished[q].kind
      BY <2>2, <3>1, KindsOfRequests, MarkOldMarks
    <3>3. req'[p] = Idle
      BY <2>2, <3>2
    <3>. QED  BY <1>1, <2>2, <3>2, <3>3
  <2>. QED  BY <2>3, <2>4
<1>5. /\ member' \in [Users -> Rows \cup {NoRow}]
      /\ \A v \in Users : v # u => member'[v] = member[v]
      /\ member'[u] = row \/ (member'[u] = NoRow /\ member[u] = NoRow)
  BY <1>1, <1>3
<1>6. /\ invites' \in Seq(Invites) /\ Len(invites') = Len(invites) /\ OneUnanswered'
      /\ Len(invites) \in 0..MaxInvites /\ MaxInvites \in Nat
  <2>1. CASE UNCHANGED invites
    BY <2>1, GroupAssumption DEF IInv, Shapes, OneUnanswered
  <2>2. CASE req[p].kind = "accept" /\ UpdateInvite(req[p].invite, "accepted", TRUE)
    <3>1. req[p].invite \in 1..Len(invites)
      BY <1>1, <2>2 DEF Fits
    <3>. QED  BY <2>2, <3>1, UpdateInviteKeeps, GroupAssumption DEF IInv, Shapes
  <2>. QED  BY <2>1, <2>2 DEF CommitMember
<1>7. late \subseteq late' /\ late' \subseteq Users /\ uncounted' \subseteq Users
  BY <1>2, <1>3
<1>8. RequestsFit'
  BY <1>1, <1>2, <1>4, <1>6, <1>7, EndedFit
<1>9. Shapes'
  BY <1>2, <1>4, <1>5, <1>6, <1>7, DeletionGoesOn DEF IInv, Shapes
<1>10. CreatorStays'
  <2>1. NoRow.role # "creator" /\ Creator \in Users
    BY GroupAssumption DEF NoRow
  <2>. QED  BY <1>1, <1>5, <2>1 DEF IInv, CreatorStays
<1>11. SpotKept'
  <2>1. NoRow.status # "confirmed"
    BY DEF NoRow
  <2>2. \A v \in Users : v # u => (v \in Confirmed' <=> v \in Confirmed)
    BY <1>5 DEF Confirmed, ListMembers
  <2>3. Confirmed' \subseteq Users /\ Confirmed \subseteq Users
    BY DEF Confirmed, ListMembers
  <2>4. u \in Confirmed' => row.status = "confirmed"
    BY <1>5, <2>1 DEF Confirmed, ListMembers
  <2>5. u \in Confirmed <=> member[u].status = "confirmed"
    BY DEF Confirmed, ListMembers
  <2>6. \A q \in Procs : HoldsLock(q)' => HoldsLock(q) /\ q # p
    BY <1>4 DEF HoldsLock, Idle
  <2>7. CASE req[p].kind # "approve" \/ row.status # "confirmed"
    <3>1. Counted' \subseteq Counted
      BY <1>2, <2>2, <2>3, <2>4, <2>5, <2>7 DEF Counted
    <3>. QED  BY <2>6, <3>1, SpotStands DEF IInv
  <2>8. CASE req[p].kind = "approve" /\ row.status = "confirmed" /\ Capacity # NoLimit
    <3>1. HoldsLock(p)
      BY <1>1, <2>8 DEF HoldsLock
    <3>2. Cardinality(Counted) < Capacity /\ \A q \in Procs : HoldsLock(q) => q = p
      BY <2>8, <3>1 DEF IInv, SpotKept
    <3>3. \A q \in Procs : ~HoldsLock(q)'
      BY <2>6, <3>2
    <3>4. Counted' \subseteq Counted \cup {u}
      BY <1>2, <2>2, <2>3, <2>8 DEF Counted
    <3>5. /\ IsFiniteSet(Counted) /\ Cardinality(Counted) \in Nat
          /\ IsFiniteSet(Counted \cup {u})
          /\ \/ Cardinality(Counted \cup {u}) = Cardinality(Counted)
             \/ Cardinality(Counted \cup {u}) = Cardinality(Counted) + 1
      BY ConfirmedIsFinite, FS_AddElement
    <3>6. Cardinality(Counted') <= Cardinality(Counted \cup {u}) /\ Cardinality(Counted') \in Nat
      BY <3>4, <3>5, FS_Subset, FS_CardinalityType
    <3>. QED  BY <3>2, <3>3, <3>5, <3>6, GroupAssumption DEF SpotKept
  <2>9. CASE Capacity = NoLimit
    BY <2>9 DEF SpotKept
  <2>. QED  BY <2>7, <2>8, <2>9
<1>12. OutUnlessLate'
  <2>. SUFFICES ASSUME NEW v \in Users, deletion'[v] \in {"done", "erased"}, v \in Confirmed', v # Creator
                PROVE  v \in late'
    BY DEF OutUnlessLate
  <2>1. CASE v # u
    <3>1. v \in Confirmed /\ deletion[v] \in {"done", "erased"}
      BY <1>1, <1>2, <1>5, <2>1, DeletionGoesOn DEF Confirmed, ListMembers
    <3>. QED  BY <1>7, <3>1 DEF IInv, OutUnlessLate
  <2>2. CASE v = u
    <3>1. row.status = "confirmed" /\ req[p].kind \in CheckedKinds \cup RoleKinds /\ p # Consumer
      BY <1>1, <1>5, <2>2 DEF Confirmed, ListMembers, NoRow
    <3>2. deletion[u] \in {"done", "erased"} /\ IsInactive(u)
      BY <1>2, <2>2, <3>1, DeletionGoesOn DEF IsInactive
    <3>3. req[p].old \/ u \in late
      BY <1>1, <3>1, <3>2 DEF Fits
    <3>. QED  BY <1>2, <1>7, <2>2, <3>1, <3>3
  <2>. QED  BY <2>1, <2>2
<1>. QED  BY <1>6, <1>8, <1>9, <1>10, <1>11, <1>12 DEF IInv

-----------------------------------------------------------------------------
(***************************************************************************)
(* Invites run out.                                                        *)
(***************************************************************************)

\* Only invites change, and the sweep's list of them.
LEMMA InvitesStep ==
  ASSUME IInv, UNCHANGED <<member, req, deletion, uncounted, late>>,
         invites' \in Seq(Invites), Len(invites') = Len(invites), OneUnanswered',
         found' \subseteq 1..Len(invites)
  PROVE  IInv'
<1>1. Shapes'
  BY DEF IInv, Shapes
<1>2. RequestsFit'
  <2>1. ASSUME NEW q \in Procs
        PROVE  Fits(q)'
    <3>1. Len(invites) \in Nat /\ Len(invites') \in Nat /\ Len(invites) <= Len(invites')
      BY DEF IInv, Shapes
    <3>2. Fits(q)
      BY DEF IInv, RequestsFit
    <3>. QED  BY <3>1, <3>2, OthersFit DEF IInv, IsInactive, Fits
  <2>. QED  BY <2>1 DEF RequestsFit
<1>3. CreatorStays' /\ OutUnlessLate'
  BY DEF IInv, CreatorStays, OutUnlessLate, Confirmed, ListMembers
<1>4. SpotKept'
  BY CountedStands, SpotStands DEF IInv, HoldsLock
<1>. QED  BY <1>1, <1>2, <1>3, <1>4 DEF IInv

LEMMA InviteRunsOutStep ==
  ASSUME IInv, NEW i \in 1..Len(invites), InviteRunsOut(i)
  PROVE  IInv'
<1>1. /\ invites[i].status = "pending" /\ invites' = [invites EXCEPT ![i].stale = TRUE]
      /\ UNCHANGED <<member, req, found, deletion, uncounted, late>>
  BY DEF InviteRunsOut
<1>2. invites[i] \in Invites /\ DOMAIN invites = 1..Len(invites)
  BY InviteShape DEF IInv, Shapes
<1>3. PICK us \in Users, st \in InviteStatuses, an \in BOOLEAN, sl \in BOOLEAN :
        invites[i] = [user |-> us, status |-> st, answered |-> an, stale |-> sl]
  BY <1>2 DEF Invites
<1>4. PICK yes \in BOOLEAN : yes = TRUE
  OBVIOUS
<1>5. [invites[i] EXCEPT !.stale = yes] = [user |-> invites[i].user, status |-> st, answered |-> an, stale |-> yes]
  BY <1>3
<1>6. invites' = [invites EXCEPT ![i] = [user |-> invites[i].user, status |-> st,
                                         answered |-> an, stale |-> yes]]
  BY <1>1, <1>2, <1>4, <1>5
<1>7. /\ invites' \in Seq(Invites) /\ Len(invites') = Len(invites)
      /\ \A j \in 1..Len(invites) : j # i => invites'[j] = invites[j]
      /\ invites'[i].user = invites[i].user /\ invites'[i].status = st /\ invites'[i].answered = an
  BY <1>6, InviteWritten DEF IInv
<1>8. invites[i].status = st /\ invites[i].answered = an
  BY <1>3
<1>9. OneUnanswered'
  BY <1>7, <1>8 DEF IInv, OneUnanswered
<1>. QED  BY <1>1, <1>7, <1>9, InvitesStep DEF IInv, Shapes

LEMMA StartExpirySweepStep ==
  ASSUME IInv, StartExpirySweep
  PROVE  IInv'
<1>1. /\ UNCHANGED <<member, invites, req, deletion, uncounted, late>>
      /\ found' \subseteq 1..Len(invites)
  BY DEF StartExpirySweep, FindExpiredPendingInvites
<1>2. invites' \in Seq(Invites) /\ Len(invites') = Len(invites) /\ OneUnanswered'
  BY <1>1 DEF IInv, Shapes, OneUnanswered
<1>. QED  BY <1>1, <1>2, InvitesStep

LEMMA ExpireStep ==
  ASSUME IInv, NEW i \in 1..Len(invites), ExpireStaleInvites(i)
  PROVE  IInv'
<1>1. /\ found' \subseteq 1..Len(invites)
      /\ UNCHANGED <<member, req, deletion, uncounted, late>>
  BY DEF ExpireStaleInvites, IInv, Shapes
<1>2. invites' \in Seq(Invites) /\ Len(invites') = Len(invites) /\ OneUnanswered'
  <2>1. CASE UNCHANGED invites
    BY <2>1 DEF IInv, Shapes, OneUnanswered
  <2>2. CASE UpdateInvite(i, "expired", FALSE)
    BY <2>2, UpdateInviteKeeps DEF IInv
  <2>. QED  BY <2>1, <2>2 DEF ExpireStaleInvites
<1>. QED  BY <1>1, <1>2, InvitesStep

-----------------------------------------------------------------------------
(***************************************************************************)
(* An account is deleted.                                                  *)
(***************************************************************************)

\* The deletion of u goes one stage further, and requests become old.
LEMMA StageStep ==
  ASSUME IInv, NEW u \in Users, NEW stage \in {"announced", "declining", "leaving", "done"},
         deletion' = [deletion EXCEPT ![u] = stage],
         UNCHANGED <<member, invites, found, uncounted, late>>,
         req' = req \/ \E kinds \in SUBSET Kinds : req' = MarkOld(req, u, kinds),
         req[Consumer] = Idle \/ deletion[u] = "none",
         stage # "announced" /\ ~IsInactive(u) => req' = MarkOld(req, u, CheckedKinds),
         stage = "done" => /\ req' = MarkOld(req, u, RoleKinds)
                           /\ u \notin Confirmed \/ u = Creator
  PROVE  IInv'
<1>1. /\ req' \in [Procs -> Requests \cup {Idle}]
      /\ \A q \in Procs :
           /\ req'[q] = req[q] \/ (req[q] # Idle /\ req'[q] = [req[q] EXCEPT !.old = TRUE])
           /\ req'[q].step = req[q].step /\ req'[q].kind = req[q].kind
  <2>1. req \in [Procs -> Requests \cup {Idle}]
    BY DEF IInv, Shapes
  <2>2. PICK r : r = req
    OBVIOUS
  <2>3. CASE req' = req
    BY <2>1, <2>3
  <2>4. CASE \E kinds \in SUBSET Kinds : req' = MarkOld(req, u, kinds)
    <3>1. PICK kinds \in SUBSET Kinds : req' = MarkOld(r, u, kinds)
      BY <2>2, <2>4
    <3>. QED  BY <2>1, <2>2, <3>1, MarkOldMarks
  <2>. QED  BY <2>3, <2>4
<1>2. /\ deletion \in [Users -> {"none", "announced", "declining", "leaving", "done", "erased"}]
      /\ deletion' \in [Users -> {"none", "announced", "declining", "leaving", "done", "erased"}]
      /\ deletion'[u] = stage /\ \A v \in Users : v # u => deletion'[v] = deletion[v]
  BY DEF IInv, Shapes
<1>3. \A q \in Procs :
        /\ req[q].user = u /\ req[q].kind \in CheckedKinds /\ stage # "announced" =>
             IsInactive(u) \/ req'[q].old
        /\ req[q].user = u /\ req[q].kind \in RoleKinds /\ stage = "done" => req'[q].old
  <2>1. PICK r \in [Procs -> Requests \cup {Idle}] : r = req
    BY DEF IInv, Shapes
  <2>2. CheckedKinds \in SUBSET Kinds /\ RoleKinds \in SUBSET Kinds
    BY KindsOfRequests
  <2>3. ASSUME stage = "done"
        PROVE  \A q \in Procs : r[q].user = u /\ r[q].kind \in RoleKinds => req'[q].old
    <3>1. req' = MarkOld(r, u, RoleKinds)
      BY <2>1, <2>3
    <3>2. /\ req' \in [Procs -> Requests \cup {Idle}]
          /\ \A q \in Procs :
               /\ req'[q] = r[q] \/ (r[q] # Idle /\ req'[q] = [r[q] EXCEPT !.old = TRUE])
               /\ r[q].user = u /\ r[q].kind \in RoleKinds => req'[q].old
               /\ req'[q].step = r[q].step /\ req'[q].kind = r[q].kind
      BY <2>1, <2>2, <3>1, MarkOldMarks
    <3>. QED  BY <3>2
  <2>4. ASSUME stage # "announced", ~IsInactive(u)
        PROVE  \A q \in Procs : r[q].user = u /\ r[q].kind \in CheckedKinds => req'[q].old
    <3>1. req' = MarkOld(r, u, CheckedKinds)
      BY <2>1, <2>4
    <3>2. /\ req' \in [Procs -> Requests \cup {Idle}]
          /\ \A q \in Procs :
               /\ req'[q] = r[q] \/ (r[q] # Idle /\ req'[q] = [r[q] EXCEPT !.old = TRUE])
               /\ r[q].user = u /\ r[q].kind \in CheckedKinds => req'[q].old
               /\ req'[q].step = r[q].step /\ req'[q].kind = r[q].kind
      BY <2>1, <2>2, <3>1, MarkOldMarks
    <3>. QED  BY <3>2
  <2>. QED  BY <2>1, <2>3, <2>4
<1>4. Shapes'
  BY <1>1, <1>2 DEF IInv, Shapes
<1>5. RequestsFit'
  <2>1. ASSUME NEW q \in Procs
        PROVE  Fits(q)'
    <3>1. Fits(q) /\ req[q].user \in Users
      BY RequestOrIdle DEF IInv, RequestsFit
    <3>2. Len(invites) \in Nat /\ Len(invites') \in Nat /\ Len(invites) <= Len(invites')
      BY DEF IInv, Shapes
    <3>3. q = Consumer /\ req[q] # Idle => deletion'[req[q].user] \in {"declining", "leaving"}
      BY <1>2, <3>1 DEF Fits
    <3>4. req[q].kind \in CheckedKinds /\ deletion'[req[q].user] \notin {"none", "announced"} =>
            IsInactive(req[q].user) \/ req'[q].old
      BY <1>2, <1>3, <3>1 DEF IsInactive
    <3>5. req[q].kind \in RoleKinds /\ deletion'[req[q].user] \in {"done", "erased"} =>
            deletion[req[q].user] \in {"done", "erased"} \/ req'[q].old
      BY <1>2, <1>3, <3>1
    <3>. QED  BY <1>1, <3>1, <3>2, <3>3, <3>4, <3>5, OthersFit DEF IInv
  <2>. QED  BY <2>1 DEF RequestsFit
<1>6. CreatorStays' /\ OneUnanswered'
  BY DEF IInv, CreatorStays, OneUnanswered
<1>7. SpotKept'
  BY <1>1, CountedStands, SpotStands DEF IInv, HoldsLock
<1>8. OutUnlessLate'
  BY <1>2 DEF IInv, OutUnlessLate, Confirmed, ListMembers
<1>. QED  BY <1>4, <1>5, <1>6, <1>7, <1>8 DEF IInv

LEMMA DeactivationStep ==
  ASSUME IInv, NEW u \in Deletable,
         AccountDeleted(u) \/ MarkDeleted(u) \/ DeclineInvites(u) \/ LeaveGroups(u)
  PROVE  IInv'
<1>1. /\ u \in Users /\ Consumer \in Procs
      /\ {"decline", "leave"} \subseteq Kinds /\ "none" \in Roles \cup {"none"} /\ 0 \in 0..MaxInvites
      /\ CheckedKinds \in SUBSET Kinds /\ RoleKinds \in SUBSET Kinds
  BY GroupAssumption, KindsOfRequests DEF Procs
<1>2. CASE AccountDeleted(u)
  <2>1. /\ deletion[u] = "none" /\ deletion' = [deletion EXCEPT ![u] = "announced"]
        /\ UNCHANGED <<member, invites, req, found, uncounted, late>>
    BY <1>2 DEF AccountDeleted
  <2>. QED  BY <1>1, <2>1, StageStep
<1>3. CASE MarkDeleted(u)
  <2>1. /\ req[Consumer] = Idle /\ deletion[u] # "none"
        /\ deletion' = [deletion EXCEPT ![u] = "declining"]
        /\ UNCHANGED <<member, invites, found, uncounted, late>>
        /\ req' = IF deletion[u] = "announced" THEN MarkOld(req, u, CheckedKinds) ELSE req
    BY <1>3 DEF MarkDeleted
  <2>2. req' = req \/ \E kinds \in SUBSET Kinds : req' = MarkOld(req, u, kinds)
    BY <1>1, <2>1
  <2>3. ~IsInactive(u) => req' = MarkOld(req, u, CheckedKinds)
    BY <2>1 DEF IsInactive
  <2>. QED  BY <1>1, <2>1, <2>2, <2>3, StageStep
<1>4. CASE DeclineInvites(u)
  <2>1. req[Consumer] = Idle /\ deletion[u] = "declining"
    BY <1>4 DEF DeclineInvites
  <2>2. ASSUME NEW i \in ListPendingGroupInvites(u), Begin(Consumer, "decline", u, "none", i)
        PROVE  IInv'
    <3>1. i \in 1..Len(invites) /\ i \in 0..MaxInvites
      BY GroupAssumption DEF ListPendingGroupInvites, InvitesOf, IInv, Shapes
    <3>. QED  BY <1>1, <2>1, <2>2, <3>1, BeginStep
  <2>3. ASSUME deletion' = [deletion EXCEPT ![u] = "leaving"],
               UNCHANGED <<member, invites, req, found, uncounted, late>>
        PROVE  IInv'
    <3>1. IsInactive(u)
      BY <2>1 DEF IsInactive
    <3>. QED  BY <1>1, <2>1, <2>3, <3>1, StageStep
  <2>. QED  BY <1>4, <2>2, <2>3 DEF DeclineInvites
<1>5. CASE LeaveGroups(u)
  <2>1. req[Consumer] = Idle /\ deletion[u] = "leaving"
    BY <1>5 DEF LeaveGroups
  <2>2. ASSUME Begin(Consumer, "leave", u, "none", 0)
        PROVE  IInv'
    BY <1>1, <2>1, <2>2, BeginStep
  <2>3. ASSUME ~HasGroupToLeave(u), deletion' = [deletion EXCEPT ![u] = "done"],
               req' = MarkOld(req, u, RoleKinds),
               UNCHANGED <<member, invites, found, uncounted, late>>
        PROVE  IInv'
    <3>1. IsInactive(u)
      BY <2>1 DEF IsInactive
    <3>2. u \notin Confirmed \/ u = Creator
      BY <1>1, <2>3 DEF HasGroupToLeave, Confirmed, ListMembers, IInv, CreatorStays
    <3>3. \E kinds \in SUBSET Kinds : req' = MarkOld(req, u, kinds)
      BY <1>1, <2>3
    <3>. QED  BY <1>1, <2>1, <2>3, <3>1, <3>2, <3>3, StageStep
  <2>. QED  BY <1>5, <2>2, <2>3 DEF LeaveGroups
<1>. QED  BY <1>2, <1>3, <1>4, <1>5

\* The erased rows leave nothing behind that a request could still write.
LEMMA EraseStep ==
  ASSUME IInv, NEW u \in Deletable, EraseAccount(u)
  PROVE  IInv'
<1>1. /\ u \in Users /\ u # Creator /\ deletion[u] = "done"
      /\ deletion' = [deletion EXCEPT ![u] = "erased"]
      /\ member' = [member EXCEPT ![u] = NoRow]
      /\ uncounted' = uncounted \ {u}
      /\ UNCHANGED <<found, late>>
  BY GroupAssumption DEF EraseAccount
<1>2. /\ deletion' \in [Users -> {"none", "announced", "declining", "leaving", "done", "erased"}]
      /\ deletion'[u] = "erased" /\ \A v \in Users : v # u => deletion'[v] = deletion[v]
      /\ member' \in [Users -> Rows \cup {NoRow}]
      /\ member'[u] = NoRow /\ \A v \in Users : v # u => member'[v] = member[v]
  BY <1>1 DEF IInv, Shapes
<1>3. /\ req' \in [Procs -> Requests \cup {Idle}]
      /\ \A q \in Procs : req'[q] = req[q] \/ req'[q] = Idle
  <2>1. PICK r \in [Procs -> Requests \cup {Idle}] : r = req
    BY DEF IInv, Shapes
  <2>2. req' = [q \in Procs |-> IF r[q].user = u /\ r[q].kind \in UpdateKinds /\ r[q].step # "begun"
                                THEN Idle ELSE r[q]]
    BY <2>1 DEF EraseAccount
  <2>. QED  BY <2>1, <2>2
<1>4. /\ invites' \in Seq(Invites) /\ Len(invites') = Len(invites)
      /\ \A i \in 1..Len(invites) :
           /\ invites'[i].user = invites[i].user /\ invites'[i].answered = invites[i].answered
           /\ invites'[i].status = invites[i].status \/ invites'[i].status = "gone"
  <2>1. PICK v \in Seq(Invites) : v = invites
    BY DEF IInv, Shapes
  <2>2. invites' = [i \in 1..Len(v) |-> IF v[i].user = u THEN [v[i] EXCEPT !.status = "gone"] ELSE v[i]]
    BY <2>1 DEF EraseAccount
  <2>3. \A x \in Invites : /\ [x EXCEPT !.status = "gone"] \in Invites
                           /\ [x EXCEPT !.status = "gone"].user = x.user
                           /\ [x EXCEPT !.status = "gone"].answered = x.answered
                           /\ [x EXCEPT !.status = "gone"].status = "gone"
    BY DEF Invites, InviteStatuses
  <2>4. \A i \in 1..Len(v) : v[i] \in Invites
    BY <2>1
  <2>5. \A i \in 1..Len(v) :
          /\ invites'[i] \in Invites
          /\ invites'[i].user = v[i].user /\ invites'[i].answered = v[i].answered
          /\ invites'[i].status = v[i].status \/ invites'[i].status = "gone"
    BY <2>2, <2>3, <2>4
  <2>6. invites' \in Seq(Invites) /\ Len(invites') = Len(v)
    BY <2>1, <2>2, <2>5
  <2>. QED  BY <2>1, <2>5, <2>6
<1>5. Shapes'
  BY <1>1, <1>2, <1>3, <1>4 DEF IInv, Shapes
<1>6. RequestsFit'
  <2>1. ASSUME NEW q \in Procs
        PROVE  Fits(q)'
    <3>1. CASE req'[q] = Idle
      BY <3>1, IdleFits DEF IInv
    <3>2. CASE req'[q] = req[q]
      <4>1. Fits(q) /\ req[q].user \in Users
        BY RequestOrIdle DEF IInv, RequestsFit
      <4>2. Len(invites) \in Nat /\ Len(invites') \in Nat /\ Len(invites) <= Len(invites')
        BY <1>4 DEF IInv, Shapes
      <4>3. q = Consumer /\ req[q] # Idle => deletion'[req[q].user] \in {"declining", "leaving"}
        BY <1>1, <1>2, <4>1 DEF Fits
      <4>4. /\ deletion'[req[q].user] \notin {"none", "announced"} => IsInactive(req[q].user)
            /\ deletion'[req[q].user] \in {"done", "erased"} => deletion[req[q].user] \in {"done", "erased"}
        BY <1>1, <1>2, <4>1 DEF IsInactive
      <4>. QED  BY <1>1, <3>2, <4>1, <4>2, <4>3, <4>4, OthersFit DEF IInv
    <3>. QED  BY <1>3, <3>1, <3>2
  <2>. QED  BY <2>1 DEF RequestsFit
<1>7. CreatorStays'
  BY <1>1, <1>2, GroupAssumption DEF IInv, CreatorStays, NoRow
<1>8. SpotKept'
  <2>1. Counted' \subseteq Counted
    BY <1>1, <1>2 DEF Counted, Confirmed, ListMembers, NoRow
  <2>2. \A p \in Procs : HoldsLock(p)' => HoldsLock(p)
    BY <1>3, RequestOrIdle DEF IInv, HoldsLock
  <2>. QED  BY <2>1, <2>2, SpotStands DEF IInv
<1>9. OneUnanswered'
  BY <1>4 DEF IInv, OneUnanswered
<1>10. OutUnlessLate'
  BY <1>1, <1>2 DEF IInv, OutUnlessLate, Confirmed, ListMembers, NoRow
<1>. QED  BY <1>5, <1>6, <1>7, <1>8, <1>9, <1>10 DEF IInv

-----------------------------------------------------------------------------
(***************************************************************************)
(* The invariant holds, and says what the properties say.                  *)
(***************************************************************************)

LEMMA InvariantAtStart == Init => IInv
<1>. SUFFICES ASSUME Init
              PROVE  IInv
  OBVIOUS
<1>1. /\ Idle \in Requests \cup {Idle} /\ NewCreatorMember \in Rows
      /\ NewCreatorMember.role = "creator" /\ NewCreatorMember.status = "confirmed"
      /\ NoRow.role = "none" /\ NoRow.status = "none"
  BY DEF Rows, Roles, Statuses, NewCreatorMember, NoRow
<1>2. Shapes
  <2>1. invites \in Seq(Invites) /\ Len(invites) \in 0..MaxInvites
    BY GroupAssumption DEF Init
  <2>. QED  BY <1>1, <2>1 DEF Init, Shapes
<1>3. RequestsFit
  BY KindsOfRequests DEF Init, RequestsFit, Fits, Idle
<1>4. CreatorStays
  BY <1>1, GroupAssumption DEF Init, CreatorStays
<1>5. SpotKept
  <2>1. Counted = {Creator}
    BY <1>1, GroupAssumption DEF Init, Counted, Confirmed, ListMembers
  <2>2. Cardinality(Counted) = 1
    BY <2>1, FS_Singleton
  <2>3. \A p \in Procs : ~HoldsLock(p)
    BY DEF Init, HoldsLock, Idle
  <2>. QED  BY <2>2, <2>3, GroupAssumption DEF SpotKept, NoLimit
<1>6. OneUnanswered /\ OutUnlessLate
  BY DEF Init, OneUnanswered, OutUnlessLate
<1>. QED  BY <1>2, <1>3, <1>4, <1>5, <1>6 DEF IInv

LEMMA TransactionStep ==
  ASSUME IInv, NEW p \in Procs, Transaction(p)
  PROVE  IInv'
BY CreatingStep, ChangingStep, LockStep, CommitMemberStep, CommitInviteStep, RefuseStep DEF Transaction

LEMMA InvariantKept == IInv /\ [Next]_vars => IInv'
<1>. SUFFICES ASSUME IInv, [Next]_vars
              PROVE  IInv'
  OBVIOUS
<1>1. CASE \E w \in Workers, u \in Targets : UserRequest(w, u)
  BY <1>1, UserRequestStep
<1>2. CASE \E w \in Workers, i \in 1..Len(invites) : HandleAcceptInvite(w, i) \/ HandleDeclineInvite(w, i)
  BY <1>2, InviteAnswerStep
<1>3. CASE \E p \in Procs : Transaction(p)
  BY <1>3, TransactionStep
<1>4. CASE \E i \in 1..Len(invites) : InviteRunsOut(i) \/ ExpireStaleInvites(i)
  BY <1>4, InviteRunsOutStep, ExpireStep
<1>5. CASE StartExpirySweep
  BY <1>5, StartExpirySweepStep
<1>6. CASE \E u \in Deletable : Deactivation(u)
  BY <1>6, DeactivationStep, EraseStep DEF Deactivation
<1>7. CASE UNCHANGED vars
  BY <1>7 DEF vars, IInv, Shapes, RequestsFit, Fits, RowToWrite, IsInactive, CreatorStays, SpotKept,
              Counted, Confirmed, ListMembers, HoldsLock, OneUnanswered, OutUnlessLate
<1>. QED  BY <1>1, <1>2, <1>3, <1>4, <1>5, <1>6, <1>7 DEF Next

\* The invariant holds in every reachable state.
THEOREM InvariantHolds == Spec => []IInv
BY InvariantAtStart, InvariantKept, PTL DEF Spec

LEMMA InvariantMeans == IInv => GroupOK /\ OverCapacityOnlyUncounted /\ OneOpenInvite /\ DeletedStaysOut
<1>. SUFFICES ASSUME IInv
              PROVE  GroupOK /\ OverCapacityOnlyUncounted /\ OneOpenInvite /\ DeletedStaysOut
  OBVIOUS
<1>1. TypeOK
  <2>1. found \subseteq 1..MaxInvites
    BY GroupAssumption DEF IInv, Shapes
  <2>. QED  BY <2>1 DEF IInv, Shapes, TypeOK
<1>2. AlwaysManaged
  BY GroupAssumption DEF IInv, CreatorStays, NewCreatorMember, AlwaysManaged, Confirmed, ListMembers,
                         CanManageMembers
<1>3. OverCapacityOnlyUncounted
  BY DEF IInv, SpotKept, Counted, OverCapacityOnlyUncounted
<1>4. OneOpenInvite
  <2>. SUFFICES ASSUME NEW u \in Users
                PROVE  Cardinality(GetPendingInviteByGroupAndUser(u)) <= 1
    BY DEF OneOpenInvite
  <2>1. \A i, j \in GetPendingInviteByGroupAndUser(u) : i = j
    BY DEF IInv, OneUnanswered, GetPendingInviteByGroupAndUser, InvitesOf
  <2>2. CASE GetPendingInviteByGroupAndUser(u) = {}
    BY <2>2, FS_EmptySet
  <2>3. CASE GetPendingInviteByGroupAndUser(u) # {}
    <3>1. PICK i : i \in GetPendingInviteByGroupAndUser(u)
      BY <2>3
    <3>2. GetPendingInviteByGroupAndUser(u) = {i}
      BY <2>1, <3>1
    <3>3. Cardinality(GetPendingInviteByGroupAndUser(u)) = 1
      BY <3>2, FS_Singleton
    <3>. QED  BY <3>3
  <2>. QED  BY <2>2, <2>3
<1>5. DeletedStaysOut
  BY GroupAssumption DEF IInv, OutUnlessLate, CreatorStays, NewCreatorMember, DeletedStaysOut
<1>. QED  BY <1>1, <1>2, <1>3, <1>4, <1>5 DEF GroupOK

\* The rows, invites and requests keep their shape, and the group always has a
\* confirmed manager: the creator's row is never written, whichever stale rows
\* the transactions write back by id.
THEOREM GroupStaysManaged == Spec => []GroupOK
BY InvariantHolds, InvariantMeans, PTL

\* lockGroupCapacity keeps its promise: without those whom nobody counted (an
\* accepted invite, a stale write that brings somebody back), a group never has
\* more confirmed members than its capacity.
THEOREM CapacityKept == Spec => []OverCapacityOnlyUncounted
BY InvariantHolds, InvariantMeans, PTL

\* A user never has two pending invites to the group, whoever sends, answers
\* and expires them at the same time.
THEOREM NeverTwoOpenInvites == Spec => []OneOpenInvite
BY InvariantHolds, InvariantMeans, PTL

\* Once DeactivateAccount has returned, the user is no confirmed member again,
\* except by a request that was under way before the account was marked (or,
\* for a change of role, before the user left).
THEOREM DeletedStayOut == Spec => []DeletedStaysOut
BY InvariantHolds, InvariantMeans, PTL

-----------------------------------------------------------------------------
(***************************************************************************)
(* Numbers.                                                                *)
(***************************************************************************)

\* Every set of natural numbers has a least one.
LEMMA LeastNumber ==
  ASSUME NEW T, T \subseteq Nat, T # {}
  PROVE  \E n \in T : \A m \in T : n <= m
<1> DEFINE Below(n) == 1 .. n
           Sets == {Below(n) : n \in T}
<1>1. \A n \in T : Below(n) \in FiniteSubsetsOf(Nat)
  BY FS_Interval DEF FiniteSubsetsOf
<1>2. Sets \subseteq FiniteSubsetsOf(Nat) /\ Sets # {}
  BY <1>1
<1>3. PICK x \in Sets : \A y \in Sets : ~ (<<y, x>> \in StrictSubsetOrdering(Nat))
  <2>. HIDE DEF Sets
  <2>. QED  BY <1>2, FS_StrictSubsetOrderingWellFounded, WFMin, Zenon
<1>4. PICK n \in T : x = Below(n)
  BY <1>3
<1>5. ASSUME NEW m \in T, m < n PROVE FALSE
  <2>1. Below(m) \subseteq Below(n) /\ n \in Below(n) /\ n \notin Below(m)
    BY <1>5
  <2>2. <<Below(m), Below(n)>> \in StrictSubsetOrdering(Nat)
    BY <2>1 DEF StrictSubsetOrdering
  <2>. QED  BY <2>2, <1>3, <1>4
<1>. QED  BY <1>5

\* Induction on the natural numbers, for a set of them.
LEMMA NumbersByInduction ==
  ASSUME NEW T, T \subseteq Nat, 0 \in T, \A n \in T : n + 1 \in T
  PROVE  T = Nat
<1>1. ASSUME Nat \ T # {} PROVE FALSE
  <2>1. PICK n \in Nat \ T : \A m \in Nat \ T : n <= m
    BY <1>1, LeastNumber
  <2>2. n # 0 /\ n - 1 \in Nat /\ ~(n <= n - 1) /\ (n - 1) + 1 = n
    BY <2>1
  <2>. QED  BY <2>1, <2>2
<1>. QED  BY <1>1

\* A remainder is what is left of a number when multiples are taken away.
LEMMA RemainderIsUnique ==
  ASSUME NEW n \in Nat \ {0}, NEW k \in Nat, NEW x \in 0 .. (n - 1)
  PROVE  (n * k + x) % n = x
BY SMT

\* A number is what % and \div make of it.
LEMMA RemainderSplits ==
  ASSUME NEW n \in Nat \ {0}, NEW d \in Nat
  PROVE  /\ d % n \in 0 .. (n - 1)
         /\ d \div n \in Nat
         /\ d = n * (d \div n) + (d % n)
BY SMT

\* Multiples do not change the remainder.
LEMMA RemainderOfSum ==
  ASSUME NEW n \in Nat \ {0}, NEW d \in Nat, NEW k \in Nat
  PROVE  (d + n * k) % n = d % n
<1> DEFINE q == d \div n
           x == d % n
<1>1. x \in 0 .. (n - 1) /\ q \in Nat /\ d = n * q + x
  BY RemainderSplits
<1>2. q + k \in Nat
  BY <1>1
<1>3. (n * (q + k) + x) % n = x
  BY <1>1, <1>2, RemainderIsUnique
<1> HIDE DEF q, x
<1>4. n * (q + k) = n * q + n * k
  BY <1>1
<1>5. n * q \in Nat /\ n * k \in Nat
  BY <1>1
<1>6. n * (q + k) + x = d + n * k
  BY <1>1, <1>4, <1>5
<1>. QED  BY <1>3, <1>6 DEF x

\* The next number with a given remainder, and nothing of that remainder between.
LEMMA NextWithRemainder ==
  ASSUME NEW n \in Nat \ {0}, NEW d \in Nat, NEW x \in 0 .. (n - 1)
  PROVE  LET gap == (x - (d % n) + n) % n
         IN /\ gap \in 0 .. (n - 1)
            /\ (d + gap) % n = x
            /\ \A e \in Nat : e >= d /\ e % n = x => e >= d + gap
            /\ \A e \in Nat : e > d + gap /\ e % n = x => e >= d + gap + n
<1> DEFINE gap == (x - (d % n) + n) % n
           q == d \div n
           z == d % n
<1>1. z \in 0 .. (n - 1) /\ q \in Nat /\ d = n * q + z
  BY RemainderSplits
<1>2. gap = IF x >= z THEN x - z ELSE x - z + n
  <2>1. CASE x >= z
    <3>1. x - z \in 0 .. (n - 1) /\ n * 1 + (x - z) = x - z + n
      BY <1>1, <2>1
    <3>2. (n * 1 + (x - z)) % n = x - z
      BY <3>1, RemainderIsUnique
    <3>. QED  BY <2>1, <3>1, <3>2
  <2>2. CASE ~(x >= z)
    <3>1. x - z + n \in 0 .. (n - 1) /\ n * 0 + (x - z + n) = x - z + n
      BY <1>1, <2>2
    <3>2. (n * 0 + (x - z + n)) % n = x - z + n
      BY <3>1, RemainderIsUnique
    <3>. QED  BY <2>2, <3>1, <3>2
  <2>. QED  BY <2>1, <2>2
<1> DEFINE p == IF x >= z THEN q ELSE q + 1
<1> HIDE DEF gap, q, z
<1>3. p \in Nat /\ n * (q + 1) = n * q + n /\ n * q \in Nat
  BY <1>1
<1>4. d + gap = n * p + x
  BY <1>1, <1>2, <1>3
<1>5. gap \in 0 .. (n - 1)
  BY <1>1, <1>2
<1>6. (n * p + x) % n = x
  <2>. HIDE DEF p
  <2>. QED  BY <1>3, RemainderIsUnique
<1>7. ASSUME NEW e \in Nat, e % n = x
      PROVE  /\ e >= d => e >= d + gap
             /\ e > d + gap => e >= d + gap + n
  <2> DEFINE k == e \div n
  <2>1. k \in Nat /\ e = n * k + x
    BY <1>7, RemainderSplits
  <2> HIDE DEF k
  <2>2. n * k \in Nat /\ n * p \in Nat
    BY <2>1, <1>3
  <2>3. ASSUME e >= d PROVE k >= p
    <3>1. SUFFICES ASSUME k < p PROVE FALSE
      BY <2>1, <1>3
    <3>2. k <= q
      BY <3>1, <2>1, <1>1
    <3>3. n * k <= n * q
      BY <3>2, <2>1, <1>1
    <3>4. CASE x >= z
      <4>1. k + 1 <= q /\ n * (k + 1) = n * k + n
        BY <3>1, <3>4, <2>1, <1>1
      <4>2. n * (k + 1) <= n * q
        BY <4>1, <2>1, <1>1
      <4>. QED  BY <4>1, <4>2, <2>1, <2>2, <2>3, <1>1, <1>3
    <3>5. CASE ~(x >= z)
      BY <3>3, <3>5, <2>1, <2>2, <2>3, <1>1, <1>3
    <3>. QED  BY <3>4, <3>5
  <2>4. ASSUME e >= d PROVE e >= d + gap
    <3>1. n * k >= n * p
      BY <2>3, <2>4, <2>1, <1>3
    <3>. QED  BY <3>1, <2>1, <2>2, <1>4
  <2>5. ASSUME e > d + gap PROVE e >= d + gap + n
    <3>1. k > p
      <4>1. SUFFICES ASSUME k <= p PROVE FALSE
        BY <2>1, <1>3
      <4>2. n * k <= n * p
        BY <4>1, <2>1, <1>3
      <4>. QED  BY <4>2, <2>1, <2>2, <2>5, <1>4
    <3>2. k >= p + 1 /\ n * (p + 1) = n * p + n
      BY <3>1, <2>1, <1>3
    <3>3. n * k >= n * (p + 1)
      BY <3>2, <2>1, <1>3
    <3>. QED  BY <3>2, <3>3, <2>1, <2>2, <1>4
  <2>. QED  BY <2>4, <2>5
<1>8. (d + gap) % n = x
  BY <1>4, <1>6
<1>. QED  BY <1>5, <1>7, <1>8 DEF gap, z

-----------------------------------------------------------------------------
(***************************************************************************)
(* The calendar.                                                           *)
(***************************************************************************)

\* Every month has a day.
LEMMA MonthLengthType ==
  \A m \in Nat : MonthLength(m) \in Nat \ {0}
<1> SUFFICES ASSUME NEW m \in Nat PROVE MonthLength(m) \in Nat \ {0}
  OBVIOUS
<1>1. Len(MonthLengths) \in Nat \ {0} /\ MonthLengths \in Seq(Nat \ {0})
  BY RecurrenceAssumption
<1>2. m % Len(MonthLengths) \in 0 .. (Len(MonthLengths) - 1)
  BY <1>1
<1>. QED  BY <1>1, <1>2 DEF MonthLength

\* The months' lengths repeat.
LEMMA MonthLengthRepeats ==
  \A m, i \in Nat :
    MonthLength(m + i) = MonthLength((m % Len(MonthLengths)) + i)
<1> SUFFICES ASSUME NEW m \in Nat, NEW i \in Nat
             PROVE MonthLength(m + i) = MonthLength((m % Len(MonthLengths)) + i)
  OBVIOUS
<1> DEFINE n == Len(MonthLengths)
           x == m % n
           k == m \div n
<1>1. n \in Nat \ {0}
  BY RecurrenceAssumption
<1> HIDE DEF n
<1>2. x \in Nat /\ k \in Nat /\ m = n * k + x
  BY <1>1, RemainderSplits
<1> HIDE DEF x, k
<1>3. ((x + i) + n * k) % n = (x + i) % n
  <2>1. x + i \in Nat
    BY <1>2
  <2>. QED  BY <1>1, <1>2, <2>1, RemainderOfSum
<1>4. m + i = (x + i) + n * k
  BY <1>1, <1>2
<1>. QED  BY <1>3, <1>4 DEF MonthLength, n, x

\* The first days of the months, by their recursive definition.
LEMMA MonthStarts ==
  /\ MonthStart[0] = 0
  /\ \A m \in Nat : /\ MonthStart[m] \in Nat
                    /\ MonthStart[m + 1] = MonthStart[m] + MonthLength(m)
<1> DEFINE Step(f, m) == IF m = 0 THEN 0 ELSE f[m - 1] + MonthLength(m - 1)
           Starts(f, n) ==
             /\ f \in [0 .. n -> Nat]
             /\ \A m \in 0 .. n : f[m] = Step(f, m)
           Begun == {n \in Nat : \E f : Starts(f, n)}
           First(n) == CHOOSE f : Starts(f, n)
<1>1. 0 \in Begun
  <2>1. Starts([m \in 0 .. 0 |-> 0], 0)
    OBVIOUS
  <2>. QED  BY <2>1
<1>2. ASSUME NEW n \in Begun PROVE n + 1 \in Begun
  <2>1. PICK f : Starts(f, n)
    OBVIOUS
  <2>2. n \in Nat /\ f[n] + MonthLength(n) \in Nat
    BY <2>1, MonthLengthType
  <2> DEFINE g == [m \in 0 .. n + 1 |-> IF m = n + 1 THEN f[n] + MonthLength(n) ELSE f[m]]
  <2>3. g \in [0 .. n + 1 -> Nat]
    BY <2>1, <2>2
  <2>4. ASSUME NEW m \in 0 .. n + 1 PROVE g[m] = Step(g, m)
    <3>1. CASE m = n + 1
      BY <2>2, <3>1
    <3>2. CASE m # n + 1 /\ m # 0
      BY <2>1, <2>2, <3>2
    <3>3. CASE m = 0
      BY <2>1, <2>2, <3>3
    <3>. QED  BY <3>1, <3>2, <3>3
  <2>5. \E e : Starts(e, n + 1)
    <3>1. Starts(g, n + 1)
      BY <2>3, <2>4
    <3>. HIDE DEF Starts, g
    <3>. QED  BY <3>1
  <2>. HIDE DEF Starts
  <2>. QED  BY <2>2, <2>5
<1>3. Begun = Nat
  <2>. HIDE DEF Begun
  <2>1. Begun \subseteq Nat
    BY DEF Begun
  <2>. QED  BY <1>1, <1>2, <2>1, NumbersByInduction
\* Two of them agree where both are defined.
<1>4. ASSUME NEW a \in Nat, NEW b \in Nat, NEW f, NEW g, Starts(f, a), Starts(g, b)
      PROVE  \A m \in Nat : m <= a /\ m <= b => f[m] = g[m]
  <2> DEFINE Agree == {m \in Nat : m <= a /\ m <= b => f[m] = g[m]}
  <2>1. 0 \in Agree
    BY <1>4
  <2>2. ASSUME NEW m \in Agree PROVE m + 1 \in Agree
    <3>1. SUFFICES ASSUME m + 1 <= a, m + 1 <= b PROVE f[m + 1] = g[m + 1]
      OBVIOUS
    <3>2. f[m] = g[m] /\ m + 1 \in 0 .. a /\ m + 1 \in 0 .. b /\ m + 1 # 0 /\ (m + 1) - 1 = m
      BY <3>1
    <3>. QED  BY <3>2, <1>4
  <2>3. Agree = Nat
    <3>. HIDE DEF Agree
    <3>1. Agree \subseteq Nat
      BY DEF Agree
    <3>. QED  BY <2>1, <2>2, <3>1, NumbersByInduction
  <2>. QED  BY <2>3
<1>5. \A n \in Nat : Starts(First(n), n)
  <2>. SUFFICES ASSUME NEW n \in Nat PROVE Starts(First(n), n)
    OBVIOUS
  <2>1. \E f : Starts(f, n)
    BY <1>3
  <2>. HIDE DEF Starts
  <2>. QED  BY <2>1
<1> DEFINE h == [m \in Nat |-> First(m)[m]]
<1>6. ASSUME NEW m \in Nat PROVE h[m] \in Nat /\ h[m] = Step(h, m)
  <2>1. Starts(First(m), m)
    BY <1>5
  <2>2. CASE m = 0
    <3>1. First(m)[m] = 0
      BY <2>1, <2>2
    <3>. QED  BY <2>2, <3>1
  <2>3. CASE m # 0
    <3>1. m - 1 \in Nat
      BY <2>3
    <3>2. Starts(First(m - 1), m - 1)
      BY <3>1, <1>5
    <3>3. First(m)[m - 1] = First(m - 1)[m - 1]
      <4>. HIDE DEF First, Starts
      <4>1. \A i \in Nat : i <= m /\ i <= m - 1 => First(m)[i] = First(m - 1)[i]
        BY <3>1, <2>1, <3>2, <1>4
      <4>. QED  BY <4>1, <3>1
    <3>4. First(m)[m] = First(m)[m - 1] + MonthLength(m - 1) /\ First(m)[m] \in Nat
      <4>. HIDE DEF First
      <4>. QED  BY <2>1, <2>3
    <3>5. h[m] = First(m)[m] /\ h[m - 1] = First(m - 1)[m - 1]
      <4>. HIDE DEF First
      <4>. QED  BY <3>1
    <3>. HIDE DEF First, h
    <3>. QED  BY <2>3, <3>3, <3>4, <3>5
  <2>. QED  BY <2>2, <2>3
<1> DEFINE Recursive(f) == f = [m \in Nat |-> IF m = 0 THEN 0 ELSE f[m - 1] + MonthLength(m - 1)]
<1>7. Recursive(h)
  <2> DEFINE k == [m \in Nat |-> IF m = 0 THEN 0 ELSE h[m - 1] + MonthLength(m - 1)]
  <2>1. \A m \in Nat : k[m] = h[m]
    <3>. HIDE DEF h
    <3>. QED  BY <1>6
  <2>2. h = [m \in Nat |-> h[m]] /\ k = [m \in Nat |-> k[m]]
    OBVIOUS
  <2>3. h = k
    <3>. HIDE DEF h, k
    <3>. QED  BY <2>1, <2>2
  <2>. QED  BY <2>3
<1>8. MonthStart = CHOOSE f : Recursive(f)
  BY DEF MonthStart
<1>9. Recursive(MonthStart)
  <2>. HIDE DEF h, Recursive
  <2>. QED  BY <1>7, <1>8
<1>10. \A m \in Nat : MonthStart[m] = Step(MonthStart, m)
  <2> DEFINE k == [m \in Nat |-> IF m = 0 THEN 0 ELSE MonthStart[m - 1] + MonthLength(m - 1)]
  <2>1. \A m \in Nat : k[m] = Step(MonthStart, m)
    OBVIOUS
  <2>2. MonthStart = k
    BY <1>9
  <2>. HIDE DEF k
  <2>. QED  BY <2>1, <2>2
<1> DEFINE Numbers == {m \in Nat : MonthStart[m] \in Nat}
<1>11. Numbers = Nat
  <2>1. 0 \in Numbers
    BY <1>10
  <2>2. ASSUME NEW m \in Numbers PROVE m + 1 \in Numbers
    <3>1. m + 1 \in Nat /\ m + 1 # 0 /\ (m + 1) - 1 = m /\ MonthLength(m) \in Nat
      BY MonthLengthType
    <3>2. MonthStart[m + 1] = MonthStart[m] + MonthLength(m)
      BY <3>1, <1>10
    <3>. QED  BY <3>1, <3>2
  <2>3. Numbers \subseteq Nat
    OBVIOUS
  <2>. HIDE DEF Numbers
  <2>. QED  BY <2>1, <2>2, <2>3, NumbersByInduction
<1>12. ASSUME NEW m \in Nat PROVE MonthStart[m + 1] = MonthStart[m] + MonthLength(m)
  <2>1. m + 1 \in Nat /\ m + 1 # 0 /\ (m + 1) - 1 = m
    OBVIOUS
  <2>. QED  BY <2>1, <1>10
<1>13. MonthStart[0] = 0
  BY <1>10
<1>. QED  BY <1>11, <1>12, <1>13

\* A month is over before a later one starts.
LEMMA MonthsFollow ==
  \A m, n \in Nat : m < n => MonthStart[m + 1] <= MonthStart[n]
<1> DEFINE Later(m) == {i \in Nat : MonthStart[m + 1] <= MonthStart[m + 1 + i]}
<1>1. ASSUME NEW m \in Nat PROVE Later(m) = Nat
  <2>1. 0 \in Later(m)
    <3>1. m + 1 + 0 = m + 1 /\ MonthStart[m + 1] \in Nat
      BY MonthStarts
    <3>. QED  BY <3>1
  <2>2. ASSUME NEW i \in Later(m) PROVE i + 1 \in Later(m)
    <3>1. m + 1 + i \in Nat /\ m + 1 + (i + 1) = (m + 1 + i) + 1
      OBVIOUS
    <3>2. /\ MonthStart[m + 1 + (i + 1)] = MonthStart[m + 1 + i] + MonthLength(m + 1 + i)
          /\ MonthStart[m + 1 + i] \in Nat /\ MonthStart[m + 1] \in Nat
          /\ MonthLength(m + 1 + i) \in Nat
      BY <3>1, MonthStarts, MonthLengthType
    <3>. QED  BY <3>2
  <2>3. Later(m) \subseteq Nat
    OBVIOUS
  <2>. HIDE DEF Later
  <2>. QED  BY <2>1, <2>2, <2>3, NumbersByInduction
<1>2. ASSUME NEW m \in Nat, NEW n \in Nat, m < n PROVE MonthStart[m + 1] <= MonthStart[n]
  <2>1. n - (m + 1) \in Nat /\ m + 1 + (n - (m + 1)) = n
    BY <1>2
  <2>2. n - (m + 1) \in Later(m)
    BY <2>1, <1>1
  <2>. QED  BY <2>1, <2>2
<1>. QED  BY <1>2

InMonth(d, m) == d \in MonthStart[m] .. (MonthStart[m + 1] - 1)

\* Every day lies in the month MonthOf gives, and in no other.
LEMMA MonthOfDay ==
  \A d \in Nat : /\ MonthOf(d) \in Nat
                 /\ InMonth(d, MonthOf(d))
                 /\ \A m \in Nat : InMonth(d, m) => m = MonthOf(d)
<1> DEFINE Dated == {d \in Nat : \E m \in 0 .. d : InMonth(d, m)}
<1>1. 0 \in Dated
  <2>1. MonthStart[0] = 0 /\ MonthStart[0 + 1] = MonthStart[0] + MonthLength(0) /\ MonthLength(0) \in Nat \ {0}
    BY MonthStarts, MonthLengthType
  <2>2. InMonth(0, 0)
    BY <2>1 DEF InMonth
  <2>. QED  BY <2>2
<1>2. ASSUME NEW d \in Dated PROVE d + 1 \in Dated
  <2>1. PICK m \in 0 .. d : InMonth(d, m)
    OBVIOUS
  <2>2. /\ MonthStart[m] \in Nat /\ MonthStart[m + 1] \in Nat
        /\ MonthStart[(m + 1) + 1] = MonthStart[m + 1] + MonthLength(m + 1)
        /\ MonthLength(m + 1) \in Nat \ {0}
    BY MonthStarts, MonthLengthType
  <2>3. CASE d + 1 < MonthStart[m + 1]
    <3>1. InMonth(d + 1, m)
      BY <2>1, <2>2, <2>3 DEF InMonth
    <3>. QED  BY <3>1
  <2>4. CASE ~(d + 1 < MonthStart[m + 1])
    <3>1. InMonth(d + 1, m + 1)
      BY <2>1, <2>2, <2>4 DEF InMonth
    <3>2. m + 1 \in 0 .. d + 1
      OBVIOUS
    <3>. QED  BY <3>1, <3>2
  <2>. QED  BY <2>3, <2>4
<1>3. Dated = Nat
  <2>1. Dated \subseteq Nat
    OBVIOUS
  <2>. HIDE DEF Dated
  <2>. QED  BY <1>1, <1>2, <2>1, NumbersByInduction
<1> SUFFICES ASSUME NEW d \in Nat
             PROVE  /\ MonthOf(d) \in Nat
                    /\ InMonth(d, MonthOf(d))
                    /\ \A m \in Nat : InMonth(d, m) => m = MonthOf(d)
  OBVIOUS
<1>4. MonthOf(d) \in 0 .. d /\ InMonth(d, MonthOf(d))
  <2>1. \E m \in 0 .. d : InMonth(d, m)
    BY <1>3
  <2>2. MonthOf(d) = CHOOSE m \in 0 .. d : InMonth(d, m)
    BY DEF MonthOf, InMonth
  <2>. QED  BY <2>1, <2>2
<1>5. ASSUME NEW m \in Nat, NEW n \in Nat, InMonth(d, m), InMonth(d, n), m < n PROVE FALSE
  <2>1. /\ MonthStart[m] \in Nat /\ MonthStart[m + 1] \in Nat /\ MonthStart[n] \in Nat
        /\ MonthStart[n + 1] \in Nat
    BY MonthStarts
  <2>2. MonthStart[m + 1] <= MonthStart[n]
    BY <1>5, MonthsFollow
  <2>. QED  BY <1>5, <2>1, <2>2 DEF InMonth
<1>6. ASSUME NEW m \in Nat, InMonth(d, m) PROVE m = MonthOf(d)
  <2>1. MonthOf(d) \in Nat
    BY <1>4
  <2>2. ~(m < MonthOf(d)) /\ ~(MonthOf(d) < m)
    BY <1>4, <1>5, <1>6, <2>1
  <2>. QED  BY <2>1, <2>2
<1>. QED  BY <1>4, <1>6

\* The k-th day of a month that has one lies in that month.
LEMMA DayOfMonth ==
  \A m \in Nat, k \in Nat \ {0} :
    HasDay(m, k) => /\ MonthStart[m] + k - 1 \in Nat
                    /\ MonthOf(MonthStart[m] + k - 1) = m
<1> SUFFICES ASSUME NEW m \in Nat, NEW k \in Nat \ {0}, HasDay(m, k)
             PROVE  /\ MonthStart[m] + k - 1 \in Nat
                    /\ MonthOf(MonthStart[m] + k - 1) = m
  OBVIOUS
<1>1. /\ MonthStart[m] \in Nat /\ MonthLength(m) \in Nat
      /\ MonthStart[m + 1] = MonthStart[m] + MonthLength(m)
  BY MonthStarts, MonthLengthType
<1>2. MonthStart[m] + k - 1 \in Nat /\ InMonth(MonthStart[m] + k - 1, m)
  BY <1>1 DEF InMonth, HasDay
<1>. QED  BY <1>2, MonthOfDay

\* The two ticks of a day.
LEMMA Ticks ==
  /\ \A t \in Nat : Day(t) \in Nat /\ t \in {2 * Day(t), 2 * Day(t) + 1}
  /\ \A t \in Nat : t % 2 = 1 => t = At(Day(t))
  /\ \A d \in Nat : At(d) \in Nat /\ At(d) % 2 = 1 /\ Day(At(d)) = d
BY SMT DEF Day, At

-----------------------------------------------------------------------------
(***************************************************************************)
(* The next occurrence: a date of the rule, later than the time asked for, *)
(* and at interval 1 the first of them.                                    *)
(***************************************************************************)

\* What a rule of a template is.
LEMMA RuleShape ==
  \A r \in Rules :
    /\ r.frequency \in Frequencies /\ r.interval \in Nat \ {0} /\ r.day \in Nat
    /\ r.endsAt = Never \/ r.endsAt \in Nat
    /\ r.frequency = "weekly" => r.day \in 0 .. (DaysPerWeek - 1)
    /\ r.frequency = "monthly" => r.day \in Nat \ {0}
BY SeriesAssumption, RecurrenceAssumption DEF NewRecurrenceRule

\* nextDaily: later, and at interval 1 the very next day's or today's.
LEMMA DailyDates ==
  \A r \in Rules, t \in Nat :
    LET next == nextDaily(r, t)
    IN /\ next \in Nat /\ next > t /\ next % 2 = 1
       /\ r.interval = 1 => \A x \in Nat : x % 2 = 1 /\ x > t => next <= x
<1> SUFFICES ASSUME NEW r \in Rules, NEW t \in Nat
             PROVE LET next == nextDaily(r, t)
                   IN /\ next \in Nat /\ next > t /\ next % 2 = 1
                      /\ r.interval = 1 => \A x \in Nat : x % 2 = 1 /\ x > t => next <= x
  OBVIOUS
<1>1. Day(t) \in Nat /\ t \in {2 * Day(t), 2 * Day(t) + 1}
  BY Ticks
<1>2. r.interval \in Nat \ {0}
  BY RuleShape
<1>3. CASE At(Day(t)) > t
  <2>1. nextDaily(r, t) = At(Day(t))
    BY <1>3 DEF nextDaily
  <2>2. ASSUME NEW x \in Nat, x % 2 = 1, x > t PROVE At(Day(t)) <= x
    <3>1. x = At(Day(x)) /\ Day(x) \in Nat
      BY <2>2, Ticks
    <3>2. Day(x) >= Day(t)
      BY <1>1, <2>2, <3>1 DEF At
    <3>. QED  BY <1>1, <3>1, <3>2 DEF At
  <2>. QED  BY <1>1, <1>3, <2>1, <2>2, Ticks
<1>4. CASE ~(At(Day(t)) > t)
  <2>1. nextDaily(r, t) = At(Day(t)) + 2 * r.interval
    BY <1>4 DEF nextDaily
  <2>2. At(Day(t)) + 2 * r.interval = At(Day(t) + r.interval)
    BY <1>1, <1>2 DEF At
  <2>3. At(Day(t) + r.interval) > t
    BY <1>1, <1>2 DEF At
  <2>4. ASSUME NEW x \in Nat, x % 2 = 1, x > t, r.interval = 1 PROVE At(Day(t) + r.interval) <= x
    <3>1. x = At(Day(x)) /\ Day(x) \in Nat
      BY <2>4, Ticks
    <3>2. Day(x) >= Day(t) + 1
      BY <1>1, <1>4, <2>4, <3>1 DEF At
    <3>. QED  BY <1>1, <2>4, <3>1, <3>2 DEF At
  <2>5. Day(t) + r.interval \in Nat
    BY <1>1, <1>2
  <2>. QED  BY <2>1, <2>2, <2>3, <2>4, <2>5, Ticks
<1>. QED  BY <1>3, <1>4

\* nextWeekly: a later date on the rule's weekday, and at interval 1 the first.
LEMMA WeeklyDates ==
  \A r \in Rules, t \in Nat :
    r.frequency = "weekly" =>
      LET next == nextWeekly(r, t)
          Weekday(x) == x % 2 = 1 /\ Day(x) % DaysPerWeek = r.day
      IN /\ next \in Nat /\ next > t /\ Weekday(next)
         /\ r.interval = 1 => \A x \in Nat : Weekday(x) /\ x > t => next <= x
<1> SUFFICES ASSUME NEW r \in Rules, NEW t \in Nat, r.frequency = "weekly"
             PROVE  LET next == nextWeekly(r, t)
                        Weekday(x) == x % 2 = 1 /\ Day(x) % DaysPerWeek = r.day
                    IN /\ next \in Nat /\ next > t /\ Weekday(next)
                       /\ r.interval = 1 => \A x \in Nat : Weekday(x) /\ x > t => next <= x
  OBVIOUS
<1> DEFINE n == DaysPerWeek
           d == Day(t)
           gap == (r.day - (d % n) + n) % n
           first == d + gap
           Weekday(x) == x % 2 = 1 /\ Day(x) % DaysPerWeek = r.day
<1>1. d \in Nat /\ t \in {2 * d, 2 * d + 1}
  BY Ticks
<1>2. r.interval \in Nat \ {0} /\ r.day \in 0 .. (n - 1) /\ n \in Nat \ {0}
  BY RuleShape, RecurrenceAssumption
<1>3. /\ gap \in 0 .. (n - 1)
      /\ first % n = r.day
      /\ \A e \in Nat : e >= d /\ e % n = r.day => e >= first
      /\ \A e \in Nat : e > first /\ e % n = r.day => e >= first + n
  <2>. HIDE DEF n, d
  <2>. QED  BY <1>1, <1>2, NextWithRemainder
<1>4. nextWeekly(r, t) = IF At(first) > t THEN At(first) ELSE At(first) + 2 * n * r.interval
  BY DEF nextWeekly
<1> HIDE DEF n, d, gap
<1>5. first \in Nat /\ n * r.interval \in Nat /\ n * r.interval >= 1
  BY <1>1, <1>2, <1>3
<1>6. ASSUME NEW x \in Nat, Weekday(x), x > t PROVE Day(x) \in Nat /\ x = At(Day(x)) /\ Day(x) >= first
  <2>1. Day(x) \in Nat /\ x = At(Day(x))
    BY <1>6, Ticks
  <2>2. Day(x) >= d
    BY <1>1, <1>6, <2>1 DEF At
  <2>3. Day(x) % n = r.day
    BY <1>6 DEF n
  <2>. QED  BY <2>1, <2>2, <2>3, <1>3
<1>7. CASE At(first) > t
  <2>1. nextWeekly(r, t) = At(first)
    BY <1>4, <1>7
  <2>2. \A x \in Nat : Weekday(x) /\ x > t => At(first) <= x
    <3>1. ASSUME NEW x \in Nat, Weekday(x), x > t PROVE At(first) <= x
      <4>1. Day(x) \in Nat /\ x = At(Day(x)) /\ Day(x) >= first
        BY <1>6, <3>1
      <4>. HIDE DEF first
      <4>. QED  BY <4>1, <1>5 DEF At
    <3>. QED  BY <3>1
  <2>3. At(first) \in Nat /\ At(first) % 2 = 1 /\ Day(At(first)) = first
    <3>. HIDE DEF first
    <3>. QED  BY <1>5, Ticks
  <2>4. Weekday(At(first))
    BY <2>3, <1>3 DEF n
  <2>. HIDE DEF first, Weekday
  <2>5. /\ At(first) \in Nat /\ At(first) > t /\ Weekday(At(first))
        /\ \A x \in Nat : Weekday(x) /\ x > t => At(first) <= x
    BY <1>7, <2>2, <2>3, <2>4
  <2>. QED  BY <2>1, <2>5 DEF Weekday
<1>8. CASE ~(At(first) > t)
  <2> DEFINE later == first + n * r.interval
  <2>1. nextWeekly(r, t) = At(later) /\ later \in Nat
    <3>. HIDE DEF first
    <3>1. 2 * n * r.interval = 2 * (n * r.interval)
      BY <1>2
    <3>. QED  BY <1>4, <1>5, <1>8, <3>1 DEF At
  <2>2. later % n = r.day
    <3>1. (first + n * r.interval) % n = first % n
      <4>. HIDE DEF first
      <4>. QED  BY <1>2, <1>5, RemainderOfSum
    <3>. QED  BY <3>1, <1>3
  <2>3. first >= d /\ At(first) <= t
    BY <1>1, <1>3, <1>5, <1>8 DEF At
  <2>4. At(later) > t
    <3>. HIDE DEF first
    <3>. QED  BY <1>1, <1>5, <2>3 DEF At
  <2>5. ASSUME NEW x \in Nat, Weekday(x), x > t, r.interval = 1 PROVE At(later) <= x
    <3>1. Day(x) \in Nat /\ x = At(Day(x)) /\ Day(x) >= first
      BY <1>6, <2>5
    <3>2. Day(x) % n = r.day
      BY <2>5 DEF n
    <3>3. Day(x) > first
      <4>. HIDE DEF first
      <4>. QED  BY <1>5, <2>3, <2>5, <3>1 DEF At
    <3>4. Day(x) >= first + n
      BY <3>1, <3>2, <3>3, <1>3
    <3>5. later = first + n
      BY <2>5, <1>2
    <3>. HIDE DEF later, first
    <3>. QED  BY <2>1, <3>1, <3>4, <3>5 DEF At
  <2>6. At(later) \in Nat /\ At(later) % 2 = 1 /\ Day(At(later)) = later
    <3>. HIDE DEF later
    <3>. QED  BY <2>1, Ticks
  <2>7. Weekday(At(later))
    BY <2>2, <2>6 DEF n
  <2>. HIDE DEF later, Weekday
  <2>8. /\ At(later) \in Nat /\ At(later) > t /\ Weekday(At(later))
        /\ r.interval = 1 => \A x \in Nat : Weekday(x) /\ x > t => At(later) <= x
    BY <2>4, <2>5, <2>6, <2>7
  <2>. QED  BY <2>1, <2>8 DEF Weekday
<1>. QED  BY <1>7, <1>8

Steps(r, m) == {i \in 0 .. (MaxMonthSearches - 1) : HasDay(m + i * r.interval, r.day)}

\* The search ends at the first step whose month has the day.
LEMMA SearchedMonth ==
  \A r \in Rules, m \in Nat :
    \A t \in nextValidMonth(r, m) :
      \E i \in Steps(r, m) : /\ t = DateIn(m + i * r.interval, r.day)
                             /\ \A j \in Steps(r, m) : i <= j
<1> SUFFICES ASSUME NEW r \in Rules, NEW m \in Nat, NEW t \in nextValidMonth(r, m)
             PROVE \E i \in Steps(r, m) : /\ t = DateIn(m + i * r.interval, r.day)
                                          /\ \A j \in Steps(r, m) : i <= j
  OBVIOUS
<1>1. Steps(r, m) \subseteq Nat /\ Steps(r, m) # {}
  BY DEF Steps, nextValidMonth
<1>2. \E i \in Steps(r, m) : \A j \in Steps(r, m) : i <= j
  BY <1>1, LeastNumber
<1>3. /\ Min(Steps(r, m)) \in Steps(r, m)
      /\ \A j \in Steps(r, m) : Min(Steps(r, m)) <= j
  BY <1>2 DEF Min
<1>4. t = DateIn(m + Min(Steps(r, m)) * r.interval, r.day)
  BY <1>1 DEF nextValidMonth, Steps
<1>. QED  BY <1>3, <1>4

\* A search that returns nothing has found no month with the day.
LEMMA SearchFails ==
  \A r \in Rules, m \in Nat : nextValidMonth(r, m) = {} => Steps(r, m) = {}
BY DEF Steps, nextValidMonth

\* At interval 1 a search for a day that some month has does not fail.
LEMMA SomeMonthHasTheDay ==
  \A r \in Rules, m, n \in Nat :
    r.interval = 1 /\ HasDay(n, r.day) => Steps(r, m) # {}
<1> SUFFICES ASSUME NEW r \in Rules, NEW m \in Nat, NEW n \in Nat, r.interval = 1, HasDay(n, r.day)
             PROVE Steps(r, m) # {}
  OBVIOUS
<1> DEFINE k == Len(MonthLengths)
<1>1. k \in Nat \ {0} /\ MaxMonthSearches \in Nat \ {0}
  BY RecurrenceAssumption
<1> HIDE DEF k
<1>2. m % k \in 0 .. (k - 1) /\ n % k \in 0 .. (k - 1)
  BY <1>1, RemainderSplits
<1>3. PICK i \in 0 .. (MaxMonthSearches - 1) : MonthLength((m % k) + i) >= MonthLength(n % k)
  BY <1>2, MonthsAssumption DEF k
<1>4. MonthLength(m + i) = MonthLength((m % k) + i)
  <2>1. i \in Nat
    BY <1>1
  <2>. QED  BY <2>1, MonthLengthRepeats DEF k
<1>5. MonthLength(n) = MonthLength(n % k)
  <2>1. MonthLength(n + 0) = MonthLength((n % k) + 0)
    BY MonthLengthRepeats DEF k
  <2>2. n + 0 = n /\ (n % k) + 0 = n % k
    BY <1>2
  <2>. QED  BY <2>1, <2>2
<1>6. MonthLength(m + i) \in Nat /\ MonthLength(n) \in Nat /\ r.day \in Nat
  BY <1>1, MonthLengthType, RuleShape
<1>7. m + i * r.interval = m + i
  BY <1>1
<1>8. HasDay(m + i, r.day)
  BY <1>3, <1>4, <1>5, <1>6 DEF HasDay
<1>. QED  BY <1>7, <1>8 DEF Steps

OnDay(r, x) == x % 2 = 1 /\ Day(x) - MonthStart[MonthOf(Day(x))] + 1 = r.day

\* What the day of a month that has one is, as a time.
LEMMA DateInMonth ==
  \A r \in Rules, m \in Nat :
    r.frequency = "monthly" /\ HasDay(m, r.day) =>
      /\ DateIn(m, r.day) \in Nat /\ OnDay(r, DateIn(m, r.day))
      /\ Day(DateIn(m, r.day)) = MonthStart[m] + r.day - 1
<1> SUFFICES ASSUME NEW r \in Rules, NEW m \in Nat, r.frequency = "monthly", HasDay(m, r.day)
             PROVE  /\ DateIn(m, r.day) \in Nat /\ OnDay(r, DateIn(m, r.day))
                    /\ Day(DateIn(m, r.day)) = MonthStart[m] + r.day - 1
  OBVIOUS
<1> DEFINE e == MonthStart[m] + r.day - 1
<1>1. r.day \in Nat \ {0} /\ MonthStart[m] \in Nat
  BY RuleShape, MonthStarts
<1>2. e \in Nat /\ MonthOf(e) = m
  BY <1>1, DayOfMonth
<1>3. DateIn(m, r.day) = At(e)
  BY DEF DateIn
<1> HIDE DEF e
<1>4. At(e) \in Nat /\ At(e) % 2 = 1 /\ Day(At(e)) = e
  BY <1>2, Ticks
<1>5. e - MonthStart[m] + 1 = r.day
  BY <1>1 DEF e
<1>6. OnDay(r, At(e))
  BY <1>2, <1>4, <1>5 DEF OnDay
<1>. QED  BY <1>3, <1>4, <1>6 DEF e

\* Conversely a date lies in a month that has the day, on that day.
LEMMA DateOfMonth ==
  \A r \in Rules, x \in Nat :
    OnDay(r, x) =>
      LET n == MonthOf(Day(x))
      IN n \in Nat /\ HasDay(n, r.day) /\ x = DateIn(n, r.day) /\ InMonth(Day(x), n)
<1> SUFFICES ASSUME NEW r \in Rules, NEW x \in Nat, OnDay(r, x)
             PROVE LET n == MonthOf(Day(x))
                   IN n \in Nat /\ HasDay(n, r.day) /\ x = DateIn(n, r.day) /\ InMonth(Day(x), n)
  OBVIOUS
<1> DEFINE n == MonthOf(Day(x))
<1>1. Day(x) \in Nat /\ x = At(Day(x))
  BY Ticks DEF OnDay
<1>2. n \in Nat /\ InMonth(Day(x), n)
  BY <1>1, MonthOfDay
<1>3. Day(x) - MonthStart[n] + 1 = r.day
  BY DEF OnDay
<1> HIDE DEF n
<1>4. /\ MonthStart[n] \in Nat /\ MonthLength(n) \in Nat
      /\ MonthStart[n + 1] = MonthStart[n] + MonthLength(n)
  BY <1>2, MonthStarts, MonthLengthType
<1>5. r.day <= MonthLength(n) /\ MonthStart[n] + r.day - 1 = Day(x)
  BY <1>1, <1>2, <1>3, <1>4 DEF InMonth
<1>6. HasDay(n, r.day) /\ x = DateIn(n, r.day)
  BY <1>1, <1>5 DEF HasDay, DateIn
<1>. QED  BY <1>2, <1>6 DEF n

\* In a later month the day comes later.
LEMMA DatesFollow ==
  \A r \in Rules, m, n \in Nat :
    r.frequency = "monthly" /\ m < n /\ HasDay(m, r.day) =>
      DateIn(m, r.day) < DateIn(n, r.day)
<1> SUFFICES ASSUME NEW r \in Rules, NEW m \in Nat, NEW n \in Nat, r.frequency = "monthly",
                    m < n, HasDay(m, r.day)
             PROVE DateIn(m, r.day) < DateIn(n, r.day)
  OBVIOUS
<1>1. /\ MonthStart[m] \in Nat /\ MonthStart[n] \in Nat /\ MonthLength(m) \in Nat \ {0}
      /\ MonthStart[m + 1] = MonthStart[m] + MonthLength(m)
      /\ MonthStart[m + 1] <= MonthStart[n] /\ r.day \in Nat
  BY MonthStarts, MonthLengthType, MonthsFollow, RuleShape
<1>. QED  BY <1>1 DEF DateIn, At

\* nextMonthly: a later date on the rule's day of the month, and at interval 1
\* the first; it is never empty when there is one.
LEMMA MonthlyDates ==
  \A r \in Rules, t \in Nat :
    r.frequency = "monthly" =>
      /\ \A next \in nextMonthly(r, t) : next \in Nat /\ next > t /\ OnDay(r, next)
      /\ r.interval = 1 =>
           \A x \in Nat : OnDay(r, x) /\ x > t => \E next \in nextMonthly(r, t) : next <= x
<1> SUFFICES ASSUME NEW r \in Rules, NEW t \in Nat, r.frequency = "monthly"
             PROVE  /\ \A next \in nextMonthly(r, t) : next \in Nat /\ next > t /\ OnDay(r, next)
                    /\ r.interval = 1 =>
                         \A x \in Nat : OnDay(r, x) /\ x > t => \E next \in nextMonthly(r, t) : next <= x
  OBVIOUS
<1> DEFINE m == MonthOf(Day(t))
           thisMonth == DateIn(m, r.day) > t /\ HasDay(m, r.day)
           start == m + r.interval
<1>1. Day(t) \in Nat /\ t \in {2 * Day(t), 2 * Day(t) + 1}
  BY Ticks
<1>2. m \in Nat /\ InMonth(Day(t), m)
  BY <1>1, MonthOfDay
<1>3. r.interval \in Nat \ {0} /\ r.day \in Nat \ {0}
  BY RuleShape
<1>4. nextMonthly(r, t) = IF thisMonth THEN {DateIn(m, r.day)} ELSE nextValidMonth(r, start)
  BY DEF nextMonthly
<1> HIDE DEF m
<1>5. start \in Nat /\ start > m
  BY <1>2, <1>3
<1>6. ASSUME NEW next \in nextMonthly(r, t) PROVE next \in Nat /\ next > t /\ OnDay(r, next)
  <2>1. CASE thisMonth
    BY <1>2, <1>4, <1>6, <2>1, DateInMonth
  <2>2. CASE ~thisMonth
    <3>1. next \in nextValidMonth(r, start)
      BY <1>4, <1>6, <2>2
    <3>2. PICK i \in Steps(r, start) : next = DateIn(start + i * r.interval, r.day)
      <4>. HIDE DEF start
      <4>. QED  BY <3>1, <1>5, SearchedMonth
    <3> DEFINE n == start + i * r.interval
    <3>3. i \in Nat /\ HasDay(n, r.day) /\ i * r.interval \in Nat
      BY <1>3 DEF Steps
    <3>4. n \in Nat /\ m < n
      <4>. HIDE DEF start
      <4>. QED  BY <1>2, <1>5, <3>3
    <3> HIDE DEF n, thisMonth, start
    <3>5. /\ next = DateIn(n, r.day) /\ next \in Nat /\ OnDay(r, next)
          /\ Day(next) = MonthStart[n] + r.day - 1
      BY <3>2, <3>3, <3>4, DateInMonth DEF n
    <3>6. MonthStart[m + 1] <= MonthStart[n] /\ MonthStart[m + 1] \in Nat /\ MonthStart[n] \in Nat
      BY <1>2, <3>4, MonthsFollow, MonthStarts
    <3>7. Day(next) > Day(t)
      BY <1>1, <1>2, <1>3, <3>5, <3>6 DEF InMonth
    <3>8. next \in {2 * Day(next), 2 * Day(next) + 1} /\ Day(next) \in Nat
      BY <3>5, Ticks
    <3>. QED  BY <1>1, <3>5, <3>7, <3>8
  <2>. QED  BY <2>1, <2>2
<1>7. ASSUME r.interval = 1, NEW x \in Nat, OnDay(r, x), x > t
      PROVE \E next \in nextMonthly(r, t) : next <= x
  <2> DEFINE n == MonthOf(Day(x))
  <2>1. n \in Nat /\ HasDay(n, r.day) /\ x = DateIn(n, r.day) /\ InMonth(Day(x), n)
    BY <1>7, DateOfMonth
  <2> HIDE DEF n
  <2>2. Day(x) \in Nat /\ x \in {2 * Day(x), 2 * Day(x) + 1}
    BY Ticks
  <2>3. Day(x) >= Day(t)
    BY <1>1, <1>7, <2>2
  <2>4. n >= m
    <3>1. ASSUME n < m PROVE FALSE
      <4>1. MonthStart[n + 1] <= MonthStart[m] /\ MonthStart[n + 1] \in Nat /\ MonthStart[m] \in Nat
        BY <1>2, <2>1, <3>1, MonthsFollow, MonthStarts
      <4>. QED  BY <1>1, <1>2, <2>1, <2>2, <2>3, <4>1 DEF InMonth
    <3>. QED  BY <3>1, <1>2, <2>1
  <2>5. CASE thisMonth
    <3>1. DateIn(m, r.day) <= x
      <4>1. CASE n = m
        BY <2>1, <4>1
      <4>2. CASE n > m
        <5>1. DateIn(m, r.day) < DateIn(n, r.day) /\ DateIn(m, r.day) \in Nat
          BY <1>2, <2>1, <2>5, <4>2, DatesFollow, DateInMonth
        <5>. QED  BY <5>1, <2>1
      <4>. QED  BY <4>1, <4>2, <2>4, <2>1, <1>2
    <3>. QED  BY <3>1, <2>5, <1>4
  <2>6. CASE ~thisMonth
    <3>1. n > m
      <4>1. n # m
        BY <1>7, <2>1, <2>6
      <4>. QED  BY <4>1, <2>1, <2>4, <1>2
    <3>2. Steps(r, start) # {}
      <4>. HIDE DEF start
      <4>. QED  BY <1>5, <1>7, <2>1, SomeMonthHasTheDay
    <3>3. PICK next \in nextValidMonth(r, start) : TRUE
      <4>. HIDE DEF start
      <4>. QED  BY <1>5, <3>2, SearchFails
    <3>4. PICK i \in Steps(r, start) : /\ next = DateIn(start + i * r.interval, r.day)
                                       /\ \A j \in Steps(r, start) : i <= j
      <4>. HIDE DEF start
      <4>. QED  BY <1>5, SearchedMonth
    <3> DEFINE j == n - start
    <3>5. /\ i \in 0 .. (MaxMonthSearches - 1) /\ MaxMonthSearches \in Nat
          /\ HasDay(start + i, r.day) /\ start + i * r.interval = start + i
      BY <1>7, <1>5, RecurrenceAssumption DEF Steps
    <3>6. j \in Nat /\ start + j = n /\ start + j * r.interval = n
      BY <1>2, <1>7, <2>1, <3>1
    <3>7. i <= j
      <4>1. CASE j <= MaxMonthSearches - 1
        <5>1. j \in Steps(r, start)
          <6>. HIDE DEF start, j
          <6>. QED  BY <2>1, <3>5, <3>6, <4>1 DEF Steps
        <5>. QED  BY <5>1, <3>4
      <4>2. CASE ~(j <= MaxMonthSearches - 1)
        <5>. HIDE DEF j
        <5>. QED  BY <3>5, <3>6, <4>2
      <4>. QED  BY <4>1, <4>2
    <3>8. next <= x
      <4>. HIDE DEF start, j
      <4>1. CASE i = j
        BY <2>1, <3>4, <3>5, <3>6, <4>1
      <4>2. CASE i < j
        <5>1. start + i \in Nat /\ start + i < n
          BY <1>5, <3>5, <3>6, <4>2
        <5>2. DateIn(start + i, r.day) < DateIn(n, r.day) /\ DateIn(start + i, r.day) \in Nat
          BY <5>1, <2>1, <3>5, DatesFollow, DateInMonth
        <5>. QED  BY <5>2, <2>1, <3>4, <3>5
      <4>. QED  BY <4>1, <4>2, <3>5, <3>6, <3>7
    <3>9. next \in nextMonthly(r, t)
      BY <1>4, <2>6, <3>3
    <3>. QED  BY <3>8, <3>9
  <2>. QED  BY <2>5, <2>6
<1>. QED  BY <1>6, <1>7

\* A date of a rule, apart from the rule's end.
DateOfRule(r, t) ==
  /\ t % 2 = 1
  /\ r.frequency = "weekly" => Day(t) % DaysPerWeek = r.day
  /\ r.frequency = "monthly" => Day(t) - MonthStart[MonthOf(Day(t))] + 1 = r.day

\* OnCalendar, case by case.
LEMMA CalendarDates ==
  \A r \in Rules, t \in Nat :
    OnCalendar(r, t) <=> DateOfRule(r, t) /\ (r.endsAt = Never \/ t <= r.endsAt)
BY RuleShape DEF OnCalendar, DateOfRule, Frequencies

\* What NextOccurrenceAfter returns is a later date of the rule, whatever its
\* frequency, interval and end (recurrence.go:136-262).
THEOREM OccurrencesAreDates ==
  \A r \in Rules, t \in Nat :
    \A next \in NextOccurrenceAfter(r, t) : next \in Nat /\ next > t /\ OnCalendar(r, next)
<1> SUFFICES ASSUME NEW r \in Rules, NEW t \in Nat, NEW next \in NextOccurrenceAfter(r, t)
             PROVE next \in Nat /\ next > t /\ OnCalendar(r, next)
  OBVIOUS
<1>1. r.endsAt = Never \/ next <= r.endsAt
  BY DEF NextOccurrenceAfter
<1>2. next \in Nat /\ next > t /\ DateOfRule(r, next)
  <2>1. CASE r.frequency = "daily"
    <3>1. next = nextDaily(r, t)
      BY <2>1 DEF NextOccurrenceAfter
    <3>. QED  BY <2>1, <3>1, DailyDates DEF DateOfRule
  <2>2. CASE r.frequency = "weekly"
    <3>1. next = nextWeekly(r, t)
      BY <2>2 DEF NextOccurrenceAfter
    <3>. QED  BY <2>2, <3>1, WeeklyDates DEF DateOfRule
  <2>3. CASE r.frequency = "monthly"
    <3>1. next \in nextMonthly(r, t)
      BY <2>3 DEF NextOccurrenceAfter
    <3>. QED  BY <2>3, <3>1, MonthlyDates DEF DateOfRule, OnDay
  <2>. QED  BY <2>1, <2>2, <2>3, RuleShape DEF Frequencies
<1>. QED  BY <1>1, <1>2, CalendarDates

\* At interval 1 it passes over no date of the rule, months that lack the day and
\* turns of the week included (recurrence.go:136-262).
THEOREM NoDateIsPassedOver ==
  \A r \in Rules, t, x \in Nat :
    r.interval = 1 /\ OnCalendar(r, x) /\ x > t => \E next \in NextOccurrenceAfter(r, t) : next <= x
<1> SUFFICES ASSUME NEW r \in Rules, NEW t \in Nat, NEW x \in Nat,
                    r.interval = 1, OnCalendar(r, x), x > t
             PROVE \E next \in NextOccurrenceAfter(r, t) : next <= x
  OBVIOUS
<1> DEFINE nexts == CASE r.frequency = "daily" -> {nextDaily(r, t)}
                      [] r.frequency = "weekly" -> {nextWeekly(r, t)}
                      [] r.frequency = "monthly" -> nextMonthly(r, t)
<1>1. DateOfRule(r, x) /\ (r.endsAt = Never \/ x <= r.endsAt)
  BY CalendarDates
<1>2. \E next \in nexts : next \in Nat /\ next <= x
  <2>1. CASE r.frequency = "daily"
    BY <1>1, <2>1, DailyDates DEF DateOfRule
  <2>2. CASE r.frequency = "weekly"
    BY <1>1, <2>2, WeeklyDates DEF DateOfRule
  <2>3. CASE r.frequency = "monthly"
    BY <1>1, <2>3, MonthlyDates DEF DateOfRule, OnDay
  <2>. QED  BY <2>1, <2>2, <2>3, RuleShape DEF Frequencies
<1>3. PICK next \in nexts : next \in Nat /\ next <= x
  BY <1>2
<1>4. r.endsAt = Never \/ next <= r.endsAt
  BY <1>1, <1>3, RuleShape
<1>5. NextOccurrenceAfter(r, t) = {u \in nexts : r.endsAt = Never \/ u <= r.endsAt}
  BY DEF NextOccurrenceAfter
<1>. QED  BY <1>3, <1>4, <1>5

-----------------------------------------------------------------------------
(***************************************************************************)
(* The invariant.                                                          *)
(***************************************************************************)

Times == {Null} \cup Nat

CronRows ==
  [step : {"idle", "due", "loop", "watermark"}, rule : Rules \cup {NoRule},
   from : Times, current : Times, until : Times, made : Nat]

EditRows ==
  [kind : {"idle", "update_group", "activate_group", "delete_group", "write_template", "delete_template"},
   group : GroupRows, template : TemplateRows]

SeriesShape ==
  /\ now \in 0 .. MaxTime
  /\ group \in GroupRows
  /\ template \in TemplateRows
  /\ sessions \in Seq(SessionRows) /\ Len(sessions) <= MaxSessions
  /\ cron \in [Crons -> CronRows]
  /\ \A c \in Crons : cron[c].made <= Len(sessions)
  /\ ended \in [Sweepers -> SUBSET Nat]
  /\ \A p \in Sweepers : ended[p] \subseteq DOMAIN sessions
  /\ editing \in [Editors -> EditRows]
  /\ edits \in 0 .. MaxEdits /\ faults \in 0 .. MaxFaults
  /\ since \in Times
  /\ failed \subseteq Nat
  /\ cut \in BOOLEAN /\ stale \in BOOLEAN

\* Sessions are deleted by the end of their group only, which ends them first; the
\* times a session was ended are told by its status.
RowOK(g, s) ==
  /\ s.deleted => s.status \in {"completed", "canceled"}
  /\ s.ends = IF s.status \in {"completed", "canceled"} THEN 1 ELSE 0
  /\ g.deleted /\ ~s.orphan => s.deleted

RowsOK == \A i \in DOMAIN sessions : RowOK(group, sessions[i])

\* There is a session of the series at t, or a run gave up on it.
Settled(ss, gaveUp, t) ==
  t \in gaveUp \/ \E i \in DOMAIN ss : InSeries(ss[i]) /\ ss[i].at = t

Covered(ss, gaveUp, r, a, b) ==
  \A t \in (a + 1) .. b : OnCalendar(r, t) => Settled(ss, gaveUp, t)

\* What a run has settled of the window it began with.
RunOK(ss, gaveUp, run) ==
  /\ run.step # "idle" => run.rule \in Rules
  /\ run.step \in {"idle", "due"} => run.made = 0
  /\ run.step \in {"loop", "watermark"} => {run.from, run.current, run.until} \subseteq Nat
  /\ run.step = "loop" =>
       /\ run.made > 0 => run.current <= run.until
       /\ run.rule.interval = 1 => Covered(ss, gaveUp, run.rule, run.from, run.current)
  /\ run.step = "watermark" =>
       /\ run.made > 0 /\ run.current <= run.until
       /\ run.rule.interval = 1 => Covered(ss, gaveUp, run.rule, run.from, run.until)

RunsOK == \A c \in Crons : RunOK(sessions, failed, cron[c])

DatesOK ==
  /\ \A i \in DOMAIN sessions : InSeries(sessions[i]) => OnCalendar(sessions[i].rule, sessions[i].at)
  /\ since = Null => template.upTo = Null
  /\ since # Null /\ template.upTo = Null => template.deleted
  /\ (since # Null /\ template.upTo # Null /\ ~stale /\ template.rule.interval = 1) =>
       Covered(sessions, failed, template.rule, since, template.upTo)

\* No session of the series lies beyond m; there is none when m is NULL.
Within(ss, m) == \A i \in DOMAIN ss : InSeries(ss[i]) => m # Null /\ ss[i].at <= m

\* A template that requests write or delete exists.
RequestsOK ==
  \A e \in Editors : editing[e].kind \in {"write_template", "delete_template"} =>
    template.status # "none" /\ editing[e].template.status # "none"

\* Before there is a template nothing is generated.
NothingBefore ==
  template.status = "none" =>
    since = Null /\ Within(sessions, Null) /\ \A c \in Crons : cron[c].step = "idle"

\* How far the series reaches while a run is under way.
Reached(run) == IF run.step = "due" THEN run.from ELSE run.current

\* As long as no run died or overlapped, what one run made lies within what it
\* has reached, and what earlier runs made within generated_up_to.
MarksOK ==
  ~cut =>
    /\ \A c, d \in Crons : Generating(c) /\ Generating(d) => c = d
    /\ \A c \in Crons : Generating(c) => Within(sessions, Reached(cron[c]))
    /\ (\A c \in Crons : cron[c].made = 0) => template.deleted \/ Within(sessions, template.upTo)

SeriesInv ==
  /\ SeriesShape /\ RowsOK /\ RequestsOK /\ NothingBefore
  /\ RunsOK /\ DatesOK /\ MarksOK /\ OneSessionPerDate

-----------------------------------------------------------------------------
(***************************************************************************)
(* Rows: what the domain's operations make of them.                        *)
(***************************************************************************)

HasEndedOnce(s) == s.ends = IF s.status \in {"completed", "canceled"} THEN 1 ELSE 0

\* t is what an operation leaves of the session s.
Follows(s, t) ==
  /\ t \in SessionRows
  /\ t.at = s.at /\ t.rule = s.rule /\ t.orphan = s.orphan /\ t.deleted = s.deleted
  /\ HasEndedOnce(s) => HasEndedOnce(t)
  /\ s.status \in {"completed", "canceled"} => t.status \in {"completed", "canceled"}

\* A row's fields.
LEMMA SessionRowIs ==
  \A s \in SessionRows :
    /\ s.at \in Nat /\ s.rule \in Rules \cup {NoRule} /\ s.ends \in Nat
    /\ s.status \in {"scheduled", "started", "canceled", "completed"}
    /\ s.deleted \in BOOLEAN /\ s.orphan \in BOOLEAN
BY DEF SessionRows

\* Every operation on a session leaves it in such a state.
LEMMA OperationsFollow ==
  \A s \in SessionRows :
    \A t \in Start(s) \cup Complete(s) \cup Cancel(s) \cup CancelFromGroup(s) \cup ExpireSchedule(s) :
      Follows(s, t)
<1> SUFFICES ASSUME NEW s \in SessionRows,
                    NEW t \in Start(s) \cup Complete(s) \cup Cancel(s) \cup CancelFromGroup(s)
                              \cup ExpireSchedule(s)
             PROVE Follows(s, t)
  OBVIOUS
<1>1. /\ s.at \in Nat /\ s.rule \in Rules \cup {NoRule} /\ s.ends \in Nat
      /\ s.status \in {"scheduled", "started", "canceled", "completed"}
  BY SessionRowIs
<1>2. CASE t = s
  BY <1>2 DEF Follows
<1>3. ASSUME NEW st \in {"canceled", "completed"}, s.status \notin {"canceled", "completed"},
             t = [s EXCEPT !.status = st, !.ends = s.ends + 1]
      PROVE Follows(s, t)
  <2>1. s.ends + 1 \in Nat
    BY <1>1
  <2>2. /\ t \in SessionRows /\ t.at = s.at /\ t.rule = s.rule /\ t.orphan = s.orphan
        /\ t.deleted = s.deleted /\ t.status = st /\ t.ends = s.ends + 1
    BY <1>1, <1>3, <2>1 DEF SessionRows
  <2>3. s.ends = 0 => t.ends = 1
    BY <2>2
  <2>. QED  BY <1>3, <2>2, <2>3 DEF Follows, HasEndedOnce
<1>4. CASE t \in Start(s)
  <2>1. t = [s EXCEPT !.status = "started"] /\ s.status = "scheduled"
    BY <1>4 DEF Start
  <2>2. /\ t \in SessionRows /\ t.at = s.at /\ t.rule = s.rule /\ t.orphan = s.orphan
        /\ t.deleted = s.deleted /\ t.status = "started" /\ t.ends = s.ends
    BY <2>1 DEF SessionRows
  <2>. QED  BY <2>1, <2>2 DEF Follows, HasEndedOnce
<1>5. CASE t \in Complete(s)
  BY <1>3, <1>5 DEF Complete
<1>6. CASE t \in Cancel(s)
  BY <1>3, <1>6 DEF Cancel
<1>7. CASE t \in CancelFromGroup(s)
  BY <1>3, <1>7 DEF CancelFromGroup
<1>8. CASE t \in ExpireSchedule(s)
  <2>1. t = IF s.status \in {"scheduled", "started"}
            THEN [s EXCEPT !.status = "completed", !.ends = s.ends + 1] ELSE s
    BY <1>8 DEF ExpireSchedule
  <2>. QED  BY <1>2, <1>3, <2>1
<1>. QED  BY <1>4, <1>5, <1>6, <1>7, <1>8

\* The rows of tt are those of ss, each as it was or changed by an operation, and
\* perhaps deleted once it had ended; tt may have more rows, of no series.
Moves(ss, tt) ==
  /\ tt \in Seq(SessionRows) /\ Len(ss) <= Len(tt) /\ Len(tt) <= MaxSessions
  /\ \A i \in DOMAIN ss : /\ i \in DOMAIN tt
                          /\ tt[i].at = ss[i].at /\ tt[i].rule = ss[i].rule
  /\ \A i \in DOMAIN tt \ DOMAIN ss : ~InSeries(tt[i])

\* Writing a row back that an operation made.
LEMMA UpdateMoves ==
  ASSUME SeriesShape, RowsOK, NEW i \in DOMAIN sessions, NEW t, Follows(sessions[i], t)
  PROVE  LET tt == [sessions EXCEPT ![i] = t]
         IN /\ Moves(sessions, tt) /\ DOMAIN tt = DOMAIN sessions
            /\ \A j \in DOMAIN tt : RowOK(group, tt[j])
<1> DEFINE tt == [sessions EXCEPT ![i] = t]
<1>1. /\ tt \in Seq(SessionRows) /\ Len(tt) = Len(sessions) /\ DOMAIN tt = DOMAIN sessions
      /\ Len(tt) <= MaxSessions /\ Len(tt) \in Nat
      /\ \A j \in DOMAIN sessions : tt[j] = IF j = i THEN t ELSE sessions[j]
  BY DEF SeriesShape, Follows
<1>2. \A j \in DOMAIN sessions : tt[j].at = sessions[j].at /\ tt[j].rule = sessions[j].rule
  BY <1>1 DEF Follows
<1>3. RowOK(group, sessions[i])
  BY DEF RowsOK
<1>4. RowOK(group, t)
  BY <1>3 DEF RowOK, Follows, HasEndedOnce
<1>5. \A j \in DOMAIN tt : RowOK(group, tt[j])
  BY <1>1, <1>4 DEF RowsOK
<1> HIDE DEF tt
<1>6. Moves(sessions, tt)
  BY <1>1, <1>2 DEF Moves
<1>. QED  BY <1>1, <1>5, <1>6 DEF tt

\* Making a session appends a row, and leaves the others.
LEMMA CreateMoves ==
  ASSUME SeriesShape, NEW at \in Nat, NEW rule \in Rules \cup {NoRule}, Len(sessions) < MaxSessions
  PROVE  LET tt == CreateSession(at, rule)
         IN /\ tt \in Seq(SessionRows) /\ Len(tt) = Len(sessions) + 1 /\ Len(tt) <= MaxSessions
            /\ DOMAIN sessions \subseteq DOMAIN tt
            /\ \A i \in DOMAIN sessions : tt[i] = sessions[i]
            /\ \A i \in DOMAIN tt \ DOMAIN sessions : i = Len(tt) /\ tt[i] = NewSession(at, rule)
            /\ Len(tt) \in DOMAIN tt
            /\ RowOK(group, NewSession(at, rule))
<1> DEFINE new == NewSession(at, rule)
           tt == CreateSession(at, rule)
<1>1. group.deleted \in BOOLEAN
  BY DEF SeriesShape, GroupRows
<1>2. new \in SessionRows
  BY <1>1, Zenon DEF NewSession, SessionRows
<1>3. RowOK(group, new)
  BY <1>1 DEF RowOK, NewSession
<1> HIDE DEF new
<1>4. /\ tt = Append(sessions, new) /\ sessions \in Seq(SessionRows) /\ Len(sessions) \in Nat
      /\ MaxSessions \in Nat
  BY SeriesAssumption DEF CreateSession, new, SeriesShape
<1> HIDE DEF tt
<1>5. /\ tt \in Seq(SessionRows) /\ Len(tt) = Len(sessions) + 1
      /\ DOMAIN sessions = 1 .. Len(sessions) /\ DOMAIN tt = 1 .. (Len(sessions) + 1)
      /\ \A i \in 1 .. Len(sessions) : tt[i] = sessions[i]
      /\ tt[Len(sessions) + 1] = new
  BY <1>2, <1>4
<1>6. \A i \in DOMAIN tt \ DOMAIN sessions : i = Len(tt) /\ tt[i] = new
  BY <1>4, <1>5
<1>7. Len(tt) <= MaxSessions
  BY <1>4, <1>5
<1>8. DOMAIN sessions \subseteq DOMAIN tt /\ Len(tt) \in DOMAIN tt
  BY <1>4, <1>5
<1>. QED  BY <1>3, <1>5, <1>6, <1>7, <1>8 DEF new, tt

\* The end of the group ends and deletes every session.
LEMMA DeleteMoves ==
  ASSUME SeriesShape, RowsOK
  PROVE  /\ Moves(sessions, DeleteGroupSessions)
         /\ DOMAIN DeleteGroupSessions = DOMAIN sessions
         /\ \A i \in DOMAIN sessions :
              LET t == DeleteGroupSessions[i]
              IN HasEndedOnce(t) /\ t.deleted /\ t.status \in {"completed", "canceled"}
<1> DEFINE cc == CancelGroupSessions
           tt == DeleteGroupSessions
<1>1. ASSUME NEW i \in DOMAIN sessions
      PROVE  /\ cc[i] \in SessionRows
             /\ cc[i].at = sessions[i].at /\ cc[i].rule = sessions[i].rule
             /\ HasEndedOnce(cc[i]) /\ cc[i].status \in {"completed", "canceled"}
  <2> DEFINE s == sessions[i]
  <2>1. s \in SessionRows /\ RowOK(group, s)
    BY <1>1 DEF SeriesShape, RowsOK
  <2>2. CASE IsLive(s)
    <3>1. ASSUME NEW x \in CancelFromGroup(s) PROVE Follows(s, x) /\ x.status = "canceled"
      <4>. HIDE DEF s
      <4>1. Follows(s, x)
        BY <2>1, OperationsFollow
      <4>2. x = [s EXCEPT !.status = "canceled", !.ends = s.ends + 1]
        BY DEF CancelFromGroup
      <4>3. x.status = "canceled"
        BY <2>1, <4>2 DEF SessionRows
      <4>. QED  BY <4>1, <4>3
    <3>2. CancelFromGroup(s) # {}
      BY <2>2 DEF CancelFromGroup, IsLive
    <3>3. i \in ListActiveSessionIDsByGroup
      BY <2>2, <1>1 DEF ListActiveSessionIDsByGroup
    <3>4. cc[i] \in CancelFromGroup(s)
      BY <3>2, <3>3, <1>1 DEF CancelGroupSessions
    <3>. QED  BY <3>1, <3>4, <2>1 DEF Follows, RowOK, HasEndedOnce
  <2>3. CASE ~IsLive(s)
    <3>1. cc[i] = s
      BY <2>3, <1>1 DEF CancelGroupSessions, ListActiveSessionIDsByGroup
    <3>2. s.status \in {"completed", "canceled"}
      BY <2>1, <2>3, SessionRowIs DEF IsLive, RowOK
    <3>. QED  BY <2>1, <3>1, <3>2 DEF RowOK, HasEndedOnce
  <2>. QED  BY <2>2, <2>3
<1>2. DOMAIN cc = DOMAIN sessions
  BY DEF CancelGroupSessions
<1>3. tt = [i \in DOMAIN cc |-> [cc[i] EXCEPT !.deleted = TRUE]]
  BY DEF DeleteGroupSessions, SoftDeleteGroupSessions
<1> HIDE DEF cc, tt
<1>4. ASSUME NEW i \in DOMAIN sessions
      PROVE  /\ tt[i] \in SessionRows
             /\ tt[i].at = sessions[i].at /\ tt[i].rule = sessions[i].rule
             /\ HasEndedOnce(tt[i]) /\ tt[i].deleted /\ tt[i].status \in {"completed", "canceled"}
  <2>1. PICK yes \in BOOLEAN : yes = TRUE
    BY Zenon
  <2>2. tt[i] = [cc[i] EXCEPT !.deleted = yes]
    BY <1>2, <1>3, <2>1, Zenon
  <2>3. PICK c \in SessionRows : c = cc[i]
    BY <1>1
  <2>4. PICK t : t = [c EXCEPT !.deleted = yes]
    OBVIOUS
  <2>5. /\ t \in SessionRows /\ t.at = c.at /\ t.rule = c.rule /\ t.status = c.status
        /\ t.ends = c.ends /\ t.deleted = yes
    BY <2>4 DEF SessionRows
  <2>6. tt[i] = t
    BY <2>2, <2>3, <2>4
  <2>. QED  BY <2>1, <2>3, <2>5, <2>6, <1>1 DEF HasEndedOnce
<1>5. DOMAIN tt = DOMAIN sessions /\ tt \in Seq(SessionRows) /\ Len(tt) = Len(sessions)
  <2>1. sessions \in Seq(SessionRows) /\ DOMAIN sessions = 1 .. Len(sessions) /\ Len(sessions) \in Nat
    BY DEF SeriesShape
  <2>2. DOMAIN tt = DOMAIN sessions
    BY <1>2, <1>3
  <2>3. tt \in [1 .. Len(sessions) -> SessionRows]
    <3>1. tt = [i \in DOMAIN tt |-> tt[i]]
      BY <1>3
    <3>. QED  BY <1>4, <2>1, <2>2, <3>1
  <2>4. tt \in Seq(SessionRows)
    BY <2>1, <2>3
  <2>. QED  BY <2>1, <2>2, <2>4
<1>6. Moves(sessions, tt)
  BY <1>4, <1>5 DEF Moves, SeriesShape
<1>. QED  BY <1>4, <1>5, <1>6 DEF tt

-----------------------------------------------------------------------------
(***************************************************************************)
(* What changes of the rows leave of the series.                           *)
(***************************************************************************)

\* Such changes unsettle no date, and add none to the series.
LEMMA SeriesMoves ==
  ASSUME NEW ss, NEW tt, Moves(ss, tt)
  PROVE  /\ \A gaveUp, t : Settled(ss, gaveUp, t) => Settled(tt, gaveUp, t)
         /\ \A i \in DOMAIN tt :
              InSeries(tt[i]) => /\ i \in DOMAIN ss /\ InSeries(ss[i])
                                 /\ tt[i].at = ss[i].at /\ tt[i].rule = ss[i].rule
BY DEF Moves, Settled, InSeries

\* What is settled stays covered when nothing is unsettled.
LEMMA CoveredStays ==
  ASSUME NEW ss, NEW tt, NEW before, NEW after,
         \A t : Settled(ss, before, t) => Settled(tt, after, t)
  PROVE  /\ \A r, a, b : Covered(ss, before, r, a, b) => Covered(tt, after, r, a, b)
         /\ \A run : RunOK(ss, before, run) => RunOK(tt, after, run)
<1>1. \A r, a, b : Covered(ss, before, r, a, b) => Covered(tt, after, r, a, b)
  BY DEF Covered
<1>. QED  BY <1>1 DEF RunOK

\* Changing nothing is such a change.
LEMMA MovesNothing ==
  ASSUME SeriesShape PROVE Moves(sessions, sessions)
BY DEF SeriesShape, Moves

\* Nor do they disturb what the invariant says of dates, runs and marks.
LEMMA SeriesStands ==
  ASSUME SeriesInv, Moves(sessions, sessions'),
         UNCHANGED <<cron, template, since, failed, cut, stale>>
  PROVE  RunsOK' /\ DatesOK' /\ NothingBefore' /\ MarksOK' /\ OneSessionPerDate'
<1>1. \A t : Settled(sessions, failed, t) => Settled(sessions', failed', t)
  BY SeriesMoves
<1>2. \A i \in DOMAIN sessions' :
        InSeries(sessions'[i]) => /\ i \in DOMAIN sessions /\ InSeries(sessions[i])
                                  /\ sessions'[i].at = sessions[i].at /\ sessions'[i].rule = sessions[i].rule
  BY SeriesMoves
<1>3. /\ \A r, a, b : Covered(sessions, failed, r, a, b) => Covered(sessions', failed', r, a, b)
      /\ \A run : RunOK(sessions, failed, run) => RunOK(sessions', failed', run)
  BY <1>1, CoveredStays
<1>4. \A m : Within(sessions, m) => Within(sessions', m)
  BY <1>2 DEF Within
<1>5. RunsOK'
  BY <1>3 DEF SeriesInv, RunsOK
<1>6. DatesOK'
  BY <1>2, <1>3 DEF SeriesInv, DatesOK
<1>7. NothingBefore'
  BY <1>4 DEF SeriesInv, NothingBefore
<1>8. MarksOK'
  BY <1>4 DEF SeriesInv, MarksOK, Generating
<1>9. OneSessionPerDate'
  BY <1>2 DEF SeriesInv, OneSessionPerDate
<1>. QED  BY <1>5, <1>6, <1>7, <1>8, <1>9

-----------------------------------------------------------------------------
(***************************************************************************)
(* Requests on the group and the template.                                 *)
(***************************************************************************)

\* A request that has read its row and decided what to write.
LEMMA RequestKeeps ==
  ASSUME SeriesInv, NEW e \in Editors, NEW r \in EditRows, MayRequest(e), DecideRequest(e, r),
         r.kind \in {"write_template", "delete_template"} =>
           template.status # "none" /\ r.template.status # "none"
  PROVE  SeriesInv'
<1>1. /\ editing' = [editing EXCEPT ![e] = r] /\ edits' = edits + 1
      /\ UNCHANGED <<now, group, template, sessions, cron, ended, faults, since, failed, cut, stale>>
  BY DEF DecideRequest
<1>2. SeriesShape
  BY DEF SeriesInv
<1>3. RunsOK' /\ DatesOK' /\ NothingBefore' /\ MarksOK' /\ OneSessionPerDate'
  BY <1>1, <1>2, MovesNothing, SeriesStands
<1>4. edits' \in 0 .. MaxEdits
  BY <1>1, <1>2, SeriesAssumption DEF SeriesShape, MayRequest
<1>5. editing' \in [Editors -> EditRows]
  BY <1>1, <1>2 DEF SeriesShape
<1>6. SeriesShape'
  BY <1>1, <1>2, <1>4, <1>5 DEF SeriesShape
<1>7. RowsOK'
  BY <1>1 DEF SeriesInv, RowsOK
<1>8. RequestsOK'
  BY <1>1, <1>2 DEF SeriesInv, RequestsOK, SeriesShape
<1>. QED  BY <1>3, <1>6, <1>7, <1>8 DEF SeriesInv

LEMMA GroupRequestsKeep ==
  ASSUME SeriesInv, NEW e \in Editors,
         \/ UpdateActivityGroupRequest(e) \/ ActivateActivityGroupRequest(e)
         \/ DeleteActivityGroupRequest(e)
  PROVE  SeriesInv'
<1>1. group \in GroupRows
  BY DEF SeriesInv, SeriesShape
<1>2. PICK kind \in {"update_group", "activate_group", "delete_group"},
           g \in UpdateGroup(group) \cup ActivateGroup(group) \cup DeleteGroup(group) :
        MayRequest(e) /\ DecideRequest(e, [IdleReq EXCEPT !.kind = kind, !.group = g])
  BY DEF UpdateActivityGroupRequest, ActivateActivityGroupRequest, DeleteActivityGroupRequest,
         BeginGroupRequest, GroupRequested
<1>3. g \in GroupRows
  <2>1. CASE g \in UpdateGroup(group)
    BY <1>1, <2>1 DEF UpdateGroup
  <2>2. CASE g \in ActivateGroup(group)
    <3>1. g = [group EXCEPT !.status = "active"]
      BY <2>2 DEF ActivateGroup
    <3>. QED  BY <1>1, <3>1 DEF GroupRows
  <2>3. CASE g \in DeleteGroup(group)
    <3>1. g = [group EXCEPT !.deleted = TRUE]
      BY <2>3, Zenon DEF DeleteGroup
    <3>2. PICK yes \in BOOLEAN : g = [group EXCEPT !.deleted = yes]
      BY <3>1, Zenon
    <3>. QED  BY <1>1, <3>2 DEF GroupRows
  <2>. QED  BY <1>2, <2>1, <2>2, <2>3
<1>4. NoTemplate \in TemplateRows /\ NoGroup \in GroupRows
  <2>1. PICK no \in BOOLEAN : no = FALSE
    BY Zenon
  <2>2. /\ NoTemplate = [status |-> "none", deleted |-> no, rule |-> NoRule, upTo |-> Null]
        /\ NoGroup = [status |-> "none", deleted |-> no]
    BY <2>1, Zenon DEF NoTemplate, NoGroup
  <2>. QED  BY <2>2 DEF TemplateRows, GroupRows
<1> DEFINE r == [IdleReq EXCEPT !.kind = kind, !.group = g]
<1>5. r \in EditRows /\ r.kind = kind
  BY <1>2, <1>3, <1>4 DEF IdleReq, EditRows
<1> HIDE DEF r
<1>6. MayRequest(e) /\ DecideRequest(e, r)
  BY <1>2 DEF r
<1>. QED  BY <1>2, <1>5, <1>6, RequestKeeps

\* The same, for what is read of the template.
LEMMA TemplateRequestKeeps ==
  ASSUME SeriesInv, NEW e \in Editors, NEW kind \in {"write_template", "delete_template"},
         NEW u \in TemplateRows, template.status # "none", u.status # "none", MayRequest(e),
         DecideRequest(e, [IdleReq EXCEPT !.kind = kind, !.template = u])
  PROVE  SeriesInv'
<1>1. PICK no \in BOOLEAN : NoGroup = [status |-> "none", deleted |-> no]
  BY Zenon DEF NoGroup
<1>2. NoGroup \in GroupRows
  BY <1>1 DEF GroupRows
<1> DEFINE r == [IdleReq EXCEPT !.kind = kind, !.template = u]
<1>3. r \in EditRows /\ r.kind = kind /\ r.template = u
  BY <1>2 DEF IdleReq, EditRows
<1> HIDE DEF r
<1>4. DecideRequest(e, r)
  BY DEF r
<1>. QED  BY <1>3, <1>4, RequestKeeps

LEMMA TemplateRequestsKeep ==
  ASSUME SeriesInv, NEW e \in Editors,
         \/ UpdateSessionTemplateRequest(e) \/ ActivateSessionTemplateRequest(e)
         \/ DeactivateSessionTemplateRequest(e) \/ DeleteSessionTemplateRequest(e)
  PROVE  SeriesInv'
<1>1. template \in TemplateRows
  BY DEF SeriesInv, SeriesShape
<1>2. ASSUME NEW t \in GetSessionTemplateByID
      PROVE t = template /\ t.status # "none"
  BY <1>2 DEF GetSessionTemplateByID
<1>3. CASE UpdateSessionTemplateRequest(e)
  <2>1. PICK rule \in Rules \cup {NoRule} :
          /\ MayRequest(e) /\ template.status # "none"
          /\ DecideRequest(e, [IdleReq EXCEPT !.kind = "write_template",
                                             !.template = [template EXCEPT !.rule = rule]])
    BY <1>2, <1>3 DEF UpdateSessionTemplateRequest, BeginTemplateRequest, TemplateRequested,
                      UpdateTemplate
  <2> DEFINE u == [template EXCEPT !.rule = rule]
  <2>2. u \in TemplateRows /\ u.status # "none"
    BY <1>1, <2>1 DEF TemplateRows
  <2>. HIDE DEF u
  <2>3. DecideRequest(e, [IdleReq EXCEPT !.kind = "write_template", !.template = u])
    BY <2>1 DEF u
  <2>. QED  BY <2>1, <2>2, <2>3, TemplateRequestKeeps
<1>4. CASE ActivateSessionTemplateRequest(e) \/ DeactivateSessionTemplateRequest(e)
  <2>1. PICK status \in {"active", "inactive"} :
          /\ MayRequest(e) /\ template.status # "none"
          /\ DecideRequest(e, [IdleReq EXCEPT !.kind = "write_template",
                                             !.template = [template EXCEPT !.status = status]])
    BY <1>2, <1>4 DEF ActivateSessionTemplateRequest, DeactivateSessionTemplateRequest,
                      BeginTemplateRequest, TemplateRequested, Activate, Deactivate
  <2> DEFINE u == [template EXCEPT !.status = status]
  <2>2. u \in TemplateRows /\ u.status # "none"
    BY <1>1, <2>1 DEF TemplateRows
  <2>. HIDE DEF u
  <2>3. DecideRequest(e, [IdleReq EXCEPT !.kind = "write_template", !.template = u])
    BY <2>1 DEF u
  <2>. QED  BY <2>1, <2>2, <2>3, TemplateRequestKeeps
<1>5. CASE DeleteSessionTemplateRequest(e)
  <2>1. PICK u :
          /\ MayRequest(e) /\ template.status # "none"
          /\ u \in Delete(template)
          /\ DecideRequest(e, [IdleReq EXCEPT !.kind = "delete_template", !.template = u])
    BY <1>2, <1>5 DEF DeleteSessionTemplateRequest, BeginTemplateRequest, TemplateRequested
  <2>2. PICK yes \in BOOLEAN : u = [template EXCEPT !.deleted = yes]
    BY <2>1, Zenon DEF Delete
  <2>3. u \in TemplateRows /\ u.status # "none"
    BY <1>1, <2>1, <2>2 DEF TemplateRows
  <2>. QED  BY <2>1, <2>3, TemplateRequestKeeps
<1>. QED  BY <1>3, <1>4, <1>5

\* A request that is not under way is typed.
LEMMA IdleReqIsRow == IdleReq \in EditRows /\ IdleReq.kind = "idle"
<1>1. PICK no \in BOOLEAN : no = FALSE
  BY Zenon
<1>2. /\ NoTemplate = [status |-> "none", deleted |-> no, rule |-> NoRule, upTo |-> Null]
      /\ NoGroup = [status |-> "none", deleted |-> no]
  BY <1>1, Zenon DEF NoTemplate, NoGroup
<1>3. NoTemplate \in TemplateRows /\ NoGroup \in GroupRows
  BY <1>2 DEF TemplateRows, GroupRows
<1>. QED  BY <1>3 DEF IdleReq, EditRows

\* A request that has been written is no longer one that could write.
LEMMA DoneKeeps ==
  ASSUME SeriesInv, NEW e \in Editors, Done(e), template.status # "none" => template'.status # "none"
  PROVE  editing' \in [Editors -> EditRows] /\ RequestsOK'
<1>1. editing \in [Editors -> EditRows] /\ editing' = [editing EXCEPT ![e] = IdleReq]
  BY DEF SeriesInv, SeriesShape, Done
<1>2. editing' \in [Editors -> EditRows] /\ \A d \in Editors : editing'[d] = IF d = e THEN IdleReq ELSE editing[d]
  BY <1>1, IdleReqIsRow
<1>. QED  BY <1>2, IdleReqIsRow DEF SeriesInv, RequestsOK

LEMMA GroupUpdateKeeps ==
  ASSUME SeriesInv, NEW e \in Editors, CommitGroupUpdate(e)
  PROVE  SeriesInv'
<1>1. /\ group' = [group EXCEPT !.status = editing[e].group.status] /\ Done(e)
      /\ UNCHANGED <<now, template, sessions, cron, ended, edits, faults, since, failed, cut, stale>>
  BY DEF CommitGroupUpdate, UpdateActivityGroup
<1>2. SeriesShape
  BY DEF SeriesInv
<1>3. RunsOK' /\ DatesOK' /\ NothingBefore' /\ MarksOK' /\ OneSessionPerDate'
  BY <1>1, <1>2, MovesNothing, SeriesStands
<1>4. editing' \in [Editors -> EditRows] /\ RequestsOK'
  BY <1>1, DoneKeeps
<1>5. group' \in GroupRows /\ group'.deleted = group.deleted
  BY <1>1, <1>2 DEF SeriesShape, EditRows, GroupRows
<1>6. SeriesShape'
  BY <1>1, <1>2, <1>4, <1>5 DEF SeriesShape
<1>7. RowsOK'
  BY <1>1, <1>5 DEF SeriesInv, RowsOK, RowOK
<1>. QED  BY <1>3, <1>4, <1>6, <1>7 DEF SeriesInv

LEMMA GroupDeleteKeeps ==
  ASSUME SeriesInv, NEW e \in Editors, CommitGroupDelete(e)
  PROVE  SeriesInv'
<1>1. /\ group' = [group EXCEPT !.deleted = TRUE] /\ sessions' = DeleteGroupSessions /\ Done(e)
      /\ UNCHANGED <<now, template, cron, ended, edits, faults, since, failed, cut, stale>>
  BY Zenon DEF CommitGroupDelete, DeleteActivityGroup
<1>2. SeriesShape /\ RowsOK
  BY DEF SeriesInv
<1>3. /\ Moves(sessions, sessions') /\ DOMAIN sessions' = DOMAIN sessions
      /\ \A i \in DOMAIN sessions :
           LET t == sessions'[i]
           IN HasEndedOnce(t) /\ t.deleted /\ t.status \in {"completed", "canceled"}
  BY <1>1, <1>2, DeleteMoves
<1>4. RunsOK' /\ DatesOK' /\ NothingBefore' /\ MarksOK' /\ OneSessionPerDate'
  BY <1>1, <1>3, SeriesStands
<1>5. editing' \in [Editors -> EditRows] /\ RequestsOK'
  BY <1>1, DoneKeeps
<1>6. group' \in GroupRows
  <2>1. PICK yes \in BOOLEAN : group' = [group EXCEPT !.deleted = yes]
    BY <1>1, Zenon
  <2>. QED  BY <1>2, <2>1 DEF SeriesShape, GroupRows
<1>7. Len(sessions') = Len(sessions) /\ sessions' \in Seq(SessionRows)
  BY <1>2, <1>3 DEF SeriesShape, Moves
<1>8. SeriesShape'
  BY <1>1, <1>2, <1>3, <1>5, <1>6, <1>7 DEF SeriesShape
<1>9. RowsOK'
  BY <1>3 DEF RowsOK, RowOK, HasEndedOnce
<1>. QED  BY <1>4, <1>5, <1>8, <1>9 DEF SeriesInv

\* Steps that change the template's row only, and not its mark.
LEMMA TemplateStands ==
  ASSUME SeriesInv, UNCHANGED <<sessions, cron, failed, cut, stale>>,
         template' \in TemplateRows, template'.upTo = template.upTo,
         template.deleted => template'.deleted,
         template.status # "none" => template'.status # "none",
         since' = IF template'.rule = template.rule THEN since ELSE template.upTo
  PROVE  RunsOK' /\ DatesOK' /\ NothingBefore' /\ MarksOK' /\ OneSessionPerDate'
<1>1. RunsOK' /\ OneSessionPerDate'
  BY DEF SeriesInv, RunsOK, OneSessionPerDate
<1>2. NothingBefore'
  BY DEF SeriesInv, NothingBefore, DatesOK
<1>3. MarksOK'
  BY DEF SeriesInv, MarksOK, Generating
<1>4. DatesOK'
  <2>1. /\ since' = Null => template'.upTo = Null
        /\ since' # Null /\ template'.upTo = Null => template'.deleted
    BY DEF SeriesInv, DatesOK
  <2>2. ASSUME since' # Null, template'.upTo # Null, ~stale', template'.rule.interval = 1
        PROVE Covered(sessions', failed', template'.rule, since', template'.upTo)
    <3>1. CASE template'.rule = template.rule
      BY <2>2, <3>1 DEF SeriesInv, DatesOK
    <3>2. CASE template'.rule # template.rule
      <4>1. since' = template'.upTo /\ since' \in Nat
        BY <2>2, <3>2 DEF SeriesInv, SeriesShape, TemplateRows
      <4>. QED  BY <4>1 DEF Covered
    <3>. QED  BY <3>1, <3>2
  <2>. QED  BY <2>1, <2>2 DEF SeriesInv, DatesOK
<1>. QED  BY <1>1, <1>2, <1>3, <1>4

LEMMA TemplateWriteKeeps ==
  ASSUME SeriesInv, NEW e \in Editors, CommitTemplate(e)
  PROVE  SeriesInv'
<1>1. /\ since' = IF template'.rule = template.rule THEN since ELSE template.upTo
      /\ Done(e)
      /\ UNCHANGED <<now, group, sessions, cron, ended, edits, faults, failed, cut, stale>>
  BY DEF CommitTemplate, WriteTemplate
<1>2. SeriesShape /\ RequestsOK
  BY DEF SeriesInv
<1>3. template \in TemplateRows /\ editing[e].template \in TemplateRows
  BY <1>2 DEF SeriesShape, EditRows
<1>4. template.status # "none" /\ editing[e].template.status # "none"
  BY <1>2 DEF CommitTemplate, RequestsOK
<1>5. /\ template' \in TemplateRows /\ template'.upTo = template.upTo
      /\ template.deleted => template'.deleted
      /\ template'.status # "none"
  <2>1. CASE template' = UpdateSessionTemplate(editing[e].template)
    <3>1. CASE template.deleted
      <4>1. template' = template
        BY <2>1, <3>1 DEF UpdateSessionTemplate
      <4>. QED  BY <1>3, <1>4, <4>1
    <3>2. CASE ~template.deleted
      <4>1. PICK t \in TemplateRows : t = editing[e].template
        BY <1>3
      <4>2. template' = [template EXCEPT !.status = t.status, !.rule = t.rule]
        BY <2>1, <3>2, <4>1 DEF UpdateSessionTemplate
      <4>3. template' \in TemplateRows /\ template'.upTo = template.upTo /\ template'.status = t.status
        BY <1>3, <4>1, <4>2 DEF TemplateRows
      <4>. QED  BY <1>4, <3>2, <4>1, <4>3
    <3>. QED  BY <3>1, <3>2
  <2>2. CASE template' = DeleteSessionTemplate
    <3>1. PICK yes \in BOOLEAN : yes = TRUE
      BY Zenon
    <3>2. template' = [template EXCEPT !.deleted = yes]
      BY <2>2, <3>1, Zenon DEF DeleteSessionTemplate
    <3>3. /\ template' \in TemplateRows /\ template'.upTo = template.upTo
          /\ template'.status = template.status /\ template'.deleted = yes
      BY <1>3, <3>2 DEF TemplateRows
    <3>. QED  BY <1>4, <3>1, <3>3
  <2>. QED  BY <2>1, <2>2 DEF CommitTemplate, WriteTemplate
<1>6. RunsOK' /\ DatesOK' /\ NothingBefore' /\ MarksOK' /\ OneSessionPerDate'
  BY <1>1, <1>5, TemplateStands
<1>7. editing' \in [Editors -> EditRows] /\ RequestsOK'
  BY <1>1, <1>5, DoneKeeps
<1>8. since' \in Times
  BY <1>1, <1>2, <1>3 DEF SeriesShape, TemplateRows, Times
<1>9. SeriesShape'
  BY <1>1, <1>2, <1>5, <1>7, <1>8 DEF SeriesShape
<1>10. RowsOK'
  BY <1>1 DEF SeriesInv, RowsOK
<1>. QED  BY <1>6, <1>7, <1>9, <1>10 DEF SeriesInv

LEMMA CreateGroupKeeps ==
  ASSUME SeriesInv, CreateActivityGroup
  PROVE  SeriesInv'
<1>1. /\ group' = NewActivityGroup
      /\ UNCHANGED <<now, template, sessions, cron, ended, editing, edits, faults, since, failed, cut, stale>>
  BY DEF CreateActivityGroup
<1>2. SeriesShape
  BY DEF SeriesInv
<1>3. RunsOK' /\ DatesOK' /\ NothingBefore' /\ MarksOK' /\ OneSessionPerDate'
  BY <1>1, <1>2, MovesNothing, SeriesStands
<1>4. group' \in GroupRows /\ ~group'.deleted
  <2>1. PICK no \in BOOLEAN : no = FALSE
    BY Zenon
  <2>2. group' = [status |-> "draft", deleted |-> no]
    BY <1>1, <2>1, Zenon DEF NewActivityGroup
  <2>. QED  BY <2>1, <2>2 DEF GroupRows
<1>5. SeriesShape' /\ RequestsOK'
  BY <1>1, <1>2, <1>4 DEF SeriesShape, SeriesInv, RequestsOK
<1>6. RowsOK'
  BY <1>1, <1>4 DEF SeriesInv, RowsOK, RowOK
<1>. QED  BY <1>3, <1>5, <1>6 DEF SeriesInv

LEMMA CreateTemplateKeeps ==
  ASSUME SeriesInv, CreateSessionTemplate
  PROVE  SeriesInv'
<1>1. PICK rule \in Rules : template' = NewSessionTemplate(rule)
  BY DEF CreateSessionTemplate
<1>2. /\ template.status = "none"
      /\ UNCHANGED <<now, group, sessions, cron, ended, editing, edits, faults, since, failed, cut, stale>>
  BY DEF CreateSessionTemplate
<1>3. SeriesShape
  BY DEF SeriesInv
<1>4. template' \in TemplateRows /\ template'.upTo = Null /\ template'.status = "active"
  <2>1. PICK no \in BOOLEAN : NoTemplate = [status |-> "none", deleted |-> no, rule |-> NoRule, upTo |-> Null]
    BY Zenon DEF NoTemplate
  <2>. QED  BY <1>1, <2>1 DEF NewSessionTemplate, TemplateRows
<1>5. RunsOK' /\ OneSessionPerDate' /\ RowsOK'
  BY <1>2 DEF SeriesInv, RunsOK, OneSessionPerDate, RowsOK
<1>6. DatesOK'
  BY <1>2, <1>4 DEF SeriesInv, DatesOK, NothingBefore
<1>7. Within(sessions', Null)
  BY <1>2 DEF SeriesInv, NothingBefore
<1>8. MarksOK'
  BY <1>2, <1>4, <1>7 DEF SeriesInv, MarksOK, Generating
<1>9. NothingBefore'
  BY <1>4 DEF NothingBefore
<1>10. RequestsOK'
  BY <1>2, <1>4 DEF SeriesInv, RequestsOK
<1>11. SeriesShape'
  BY <1>2, <1>3, <1>4 DEF SeriesShape
<1>. QED  BY <1>5, <1>6, <1>8, <1>9, <1>10, <1>11 DEF SeriesInv

-----------------------------------------------------------------------------
(***************************************************************************)
(* Commands on a session, the sweeps and the clock.                        *)
(***************************************************************************)

LEMMA TickKeeps ==
  ASSUME SeriesInv, Tick
  PROVE  SeriesInv'
<1>1. /\ now' = now + 1 /\ now < MaxTime
      /\ UNCHANGED <<group, template, sessions, cron, ended, editing, edits, faults, since, failed, cut, stale>>
  BY DEF Tick
<1>2. SeriesShape
  BY DEF SeriesInv
<1>3. RunsOK' /\ DatesOK' /\ NothingBefore' /\ MarksOK' /\ OneSessionPerDate'
  BY <1>1, <1>2, MovesNothing, SeriesStands
<1>4. now' \in 0 .. MaxTime
  BY <1>1, <1>2, SeriesAssumption DEF SeriesShape
<1>5. SeriesShape' /\ RequestsOK' /\ RowsOK'
  BY <1>1, <1>2, <1>4 DEF SeriesShape, SeriesInv, RequestsOK, RowsOK
<1>. QED  BY <1>3, <1>5 DEF SeriesInv

\* A change of one row that an operation of the domain makes.
LEMMA RowChangeKeeps ==
  ASSUME SeriesInv, NEW i \in DOMAIN sessions, NEW t, Follows(sessions[i], t),
         sessions' = [sessions EXCEPT ![i] = t],
         UNCHANGED <<now, group, template, cron, editing, faults, since, failed, cut, stale>>,
         edits' \in 0 .. MaxEdits,
         ended' \in [Sweepers -> SUBSET Nat], \A p \in Sweepers : ended'[p] \subseteq ended[p]
  PROVE  SeriesInv'
<1>1. SeriesShape /\ RowsOK
  BY DEF SeriesInv
<1>2. /\ Moves(sessions, sessions') /\ DOMAIN sessions' = DOMAIN sessions
      /\ \A j \in DOMAIN sessions' : RowOK(group, sessions'[j])
  BY <1>1, UpdateMoves
<1>3. RunsOK' /\ DatesOK' /\ NothingBefore' /\ MarksOK' /\ OneSessionPerDate'
  BY <1>2, SeriesStands
<1>4. Len(sessions') = Len(sessions) /\ sessions' \in Seq(SessionRows)
  BY <1>1, <1>2 DEF SeriesShape, Moves
<1>5. SeriesShape'
  BY <1>1, <1>2, <1>4 DEF SeriesShape
<1>6. RequestsOK'
  BY DEF SeriesInv, RequestsOK
<1>7. RowsOK'
  BY <1>2 DEF RowsOK
<1>. QED  BY <1>3, <1>5, <1>6, <1>7 DEF SeriesInv

LEMMA SessionCommandsKeep ==
  ASSUME SeriesInv, StartSession \/ CompleteSession \/ CancelSession
  PROVE  SeriesInv'
<1>1. SeriesShape
  BY DEF SeriesInv
<1>2. PICK i \in DOMAIN sessions :
        \E t \in Start(sessions[i]) \cup Complete(sessions[i]) \cup Cancel(sessions[i]) :
          sessions' = [sessions EXCEPT ![i] = t]
  BY DEF StartSession, CompleteSession, CancelSession, OnSession, GetSessionByID, UpdateSession
<1>3. PICK t \in Start(sessions[i]) \cup Complete(sessions[i]) \cup Cancel(sessions[i]) :
        sessions' = [sessions EXCEPT ![i] = t]
  BY <1>2
<1>4. sessions[i] \in SessionRows
  BY <1>1 DEF SeriesShape
<1>5. Follows(sessions[i], t)
  BY <1>4, OperationsFollow
<1>6. /\ edits' = edits + 1 /\ edits < MaxEdits
      /\ UNCHANGED <<now, group, template, cron, ended, editing, faults, since, failed, cut, stale>>
  BY DEF StartSession, CompleteSession, CancelSession, OnSession, SessionRequested
<1>7. edits' \in 0 .. MaxEdits /\ ended' \in [Sweepers -> SUBSET Nat]
  BY <1>1, <1>6, SeriesAssumption DEF SeriesShape
<1>. QED  BY <1>3, <1>5, <1>6, <1>7, RowChangeKeeps

LEMMA ScheduleKeeps ==
  ASSUME SeriesInv, ScheduleSession
  PROVE  SeriesInv'
<1>1. SeriesShape
  BY DEF SeriesInv
<1>2. PICK d \in 0 .. MaxTime : sessions' = CreateSession(At(d), NoRule)
  BY DEF ScheduleSession, NewSessionSchedule
<1>3. /\ edits' = edits + 1 /\ edits < MaxEdits /\ Len(sessions) < MaxSessions
      /\ UNCHANGED <<now, group, template, cron, ended, editing, faults, since, failed, cut, stale>>
  BY DEF ScheduleSession, SessionRequested
<1>4. At(d) \in Nat
  BY SeriesAssumption DEF At
<1>5. /\ sessions' \in Seq(SessionRows) /\ Len(sessions') = Len(sessions) + 1
      /\ Len(sessions') <= MaxSessions
      /\ DOMAIN sessions \subseteq DOMAIN sessions'
      /\ \A i \in DOMAIN sessions : sessions'[i] = sessions[i]
      /\ \A i \in DOMAIN sessions' \ DOMAIN sessions :
           i = Len(sessions') /\ sessions'[i] = NewSession(At(d), NoRule)
      /\ RowOK(group, NewSession(At(d), NoRule))
  BY <1>1, <1>2, <1>3, <1>4, CreateMoves
<1>6. ~InSeries(NewSession(At(d), NoRule))
  BY DEF InSeries, NewSession
<1>7. Len(sessions) \in Nat
  BY <1>1 DEF SeriesShape
<1>8. Moves(sessions, sessions')
  BY <1>5, <1>6, <1>7 DEF Moves
<1>9. RunsOK' /\ DatesOK' /\ NothingBefore' /\ MarksOK' /\ OneSessionPerDate'
  BY <1>3, <1>8, SeriesStands
<1>10. \A c \in Crons : cron'[c].made <= Len(sessions')
  BY <1>1, <1>3, <1>5, <1>7 DEF SeriesShape, CronRows
<1>11. edits' \in 0 .. MaxEdits
  BY <1>1, <1>3, SeriesAssumption DEF SeriesShape
<1>12. SeriesShape'
  BY <1>1, <1>3, <1>5, <1>10, <1>11 DEF SeriesShape
<1>13. RowsOK'
  BY <1>3, <1>5 DEF SeriesInv, RowsOK
<1>14. RequestsOK'
  BY <1>3 DEF SeriesInv, RequestsOK
<1>. QED  BY <1>9, <1>12, <1>13, <1>14 DEF SeriesInv

LEMMA SweepFindKeeps ==
  ASSUME SeriesInv, NEW p \in Sweepers, SweepFind(p)
  PROVE  SeriesInv'
<1>1. /\ ended' = [ended EXCEPT ![p] = FindSessionsPastEndTime]
      /\ UNCHANGED <<now, group, template, sessions, cron, editing, edits, faults, since, failed, cut, stale>>
  BY DEF SweepFind
<1>2. SeriesShape
  BY DEF SeriesInv
<1>3. RunsOK' /\ DatesOK' /\ NothingBefore' /\ MarksOK' /\ OneSessionPerDate'
  BY <1>1, <1>2, MovesNothing, SeriesStands
<1>4. FindSessionsPastEndTime \subseteq DOMAIN sessions /\ DOMAIN sessions \subseteq Nat
  BY <1>2 DEF FindSessionsPastEndTime, SeriesShape
<1>5. /\ ended' \in [Sweepers -> SUBSET Nat]
      /\ \A q \in Sweepers : ended'[q] \subseteq DOMAIN sessions
  BY <1>1, <1>2, <1>4 DEF SeriesShape
<1>6. SeriesShape' /\ RequestsOK' /\ RowsOK'
  BY <1>1, <1>2, <1>5 DEF SeriesShape, SeriesInv, RequestsOK, RowsOK
<1>. QED  BY <1>3, <1>6 DEF SeriesInv

LEMMA ExpireKeeps ==
  ASSUME SeriesInv, NEW p \in Sweepers, NEW i \in ended[p], Expire(p, i)
  PROVE  SeriesInv'
<1>1. /\ ended' = [ended EXCEPT ![p] = ended[p] \ {i}]
      /\ UNCHANGED <<now, group, template, cron, editing, edits, faults, since, failed, cut, stale>>
  BY DEF Expire
<1>2. SeriesShape
  BY DEF SeriesInv
<1>3. i \in DOMAIN sessions /\ sessions[i] \in SessionRows
  BY <1>2 DEF SeriesShape
<1>4. /\ ended' \in [Sweepers -> SUBSET Nat]
      /\ \A q \in Sweepers : ended'[q] \subseteq ended[q]
  BY <1>1, <1>2 DEF SeriesShape
<1>5. CASE UNCHANGED sessions
  <2>1. RunsOK' /\ DatesOK' /\ NothingBefore' /\ MarksOK' /\ OneSessionPerDate'
    BY <1>1, <1>2, <1>5, MovesNothing, SeriesStands
  <2>2. SeriesShape' /\ RequestsOK' /\ RowsOK'
    BY <1>1, <1>2, <1>4, <1>5 DEF SeriesShape, SeriesInv, RequestsOK, RowsOK
  <2>. QED  BY <2>1, <2>2 DEF SeriesInv
<1>6. CASE \E t \in ExpireSchedule(sessions[i]) : sessions' = [sessions EXCEPT ![i] = t]
  <2>1. PICK t \in ExpireSchedule(sessions[i]) : sessions' = [sessions EXCEPT ![i] = t]
    BY <1>6
  <2>2. Follows(sessions[i], t)
    BY <1>3, OperationsFollow
  <2>3. edits' \in 0 .. MaxEdits
    BY <1>1, <1>2 DEF SeriesShape
  <2>. QED  BY <1>1, <1>3, <1>4, <2>1, <2>2, <2>3, RowChangeKeeps
<1>. QED  BY <1>5, <1>6 DEF Expire, GetSessionByID, UpdateSession

-----------------------------------------------------------------------------
(***************************************************************************)
(* The cron job.                                                           *)
(***************************************************************************)

\* There is at most one next occurrence.
LEMMA OneOccurrence ==
  \A r \in Rules, t \in Nat : \A a, b \in NextOccurrenceAfter(r, t) : a = b
<1> SUFFICES ASSUME NEW r \in Rules, NEW t \in Nat,
                    NEW a \in NextOccurrenceAfter(r, t), NEW b \in NextOccurrenceAfter(r, t)
             PROVE a = b
  OBVIOUS
<1>1. CASE r.frequency = "daily"
  BY <1>1 DEF NextOccurrenceAfter
<1>2. CASE r.frequency = "weekly"
  BY <1>2 DEF NextOccurrenceAfter
<1>3. CASE r.frequency = "monthly"
  <2>1. a \in nextMonthly(r, t) /\ b \in nextMonthly(r, t)
    BY <1>3 DEF NextOccurrenceAfter
  <2>. QED  BY <2>1 DEF nextMonthly, nextValidMonth
<1>. QED  BY <1>1, <1>2, <1>3, RuleShape DEF Frequencies

\* A run's next step settles the dates up to it; when there is none the window is.
LEMMA WindowIsCovered ==
  ASSUME NEW ss, NEW gaveUp, NEW r \in Rules, r.interval = 1, NEW a \in Nat, NEW current \in Nat,
         Covered(ss, gaveUp, r, a, current)
  PROVE  /\ \A next \in NextOccurrenceAfter(r, current) :
              Settled(ss, gaveUp, next) => Covered(ss, gaveUp, r, a, next)
         /\ \A until \in Nat :
              {t \in NextOccurrenceAfter(r, current) : t <= until} = {} =>
                Covered(ss, gaveUp, r, a, until)
<1>1. ASSUME NEW next \in NextOccurrenceAfter(r, current), Settled(ss, gaveUp, next),
             NEW t \in (a + 1) .. next, OnCalendar(r, t)
      PROVE Settled(ss, gaveUp, t)
  <2>1. next \in Nat /\ t \in Nat
    BY <1>1, OccurrencesAreDates
  <2>2. CASE t <= current
    BY <1>1, <2>1, <2>2 DEF Covered
  <2>3. CASE t > current
    <3>1. PICK first \in NextOccurrenceAfter(r, current) : first <= t
      BY <1>1, <2>1, <2>3, NoDateIsPassedOver
    <3>2. first = next
      BY <3>1, OneOccurrence
    <3>3. t = next
      BY <2>1, <3>1, <3>2
    <3>. QED  BY <1>1, <3>3
  <2>. QED  BY <2>1, <2>2, <2>3
<1>2. ASSUME NEW until \in Nat, {t \in NextOccurrenceAfter(r, current) : t <= until} = {},
             NEW t \in (a + 1) .. until, OnCalendar(r, t)
      PROVE Settled(ss, gaveUp, t)
  <2>1. t \in Nat /\ t <= until
    OBVIOUS
  <2>2. CASE t <= current
    BY <1>2, <2>1, <2>2 DEF Covered
  <2>3. CASE t > current
    <3>1. PICK first \in NextOccurrenceAfter(r, current) : first <= t
      BY <1>2, <2>1, <2>3, NoDateIsPassedOver
    <3>2. first \in Nat /\ first <= until
      BY <2>1, <3>1, OccurrencesAreDates
    <3>. QED  BY <1>2, <3>2
  <2>. QED  BY <2>1, <2>2, <2>3
<1>. QED  BY <1>1, <1>2 DEF Covered

\* A step of one run that makes no session and writes no mark.
LEMMA RunStepKeeps ==
  ASSUME SeriesInv, NEW c \in Crons, NEW row \in CronRows,
         cron' = [cron EXCEPT ![c] = row],
         UNCHANGED <<now, group, template, sessions, ended, editing, edits, since, stale>>,
         faults' \in 0 .. MaxFaults, failed \subseteq failed', failed' \subseteq Nat,
         cut' \in BOOLEAN, cut => cut',
         row.made <= cron[c].made,
         RunOK(sessions, failed', row),
         row.step # "idle" => template.status # "none",
         ~cut' /\ row.step # "idle" =>
           /\ cron[c].step # "idle" \/ \A d \in Crons \ {c} : ~Generating(d)
           /\ Within(sessions, Reached(row)),
         ~cut' /\ row.made = 0 => cron[c].made = 0
  PROVE  SeriesInv'
<1>1. SeriesShape
  BY DEF SeriesInv
<1>2. /\ cron' \in [Crons -> CronRows]
      /\ \A d \in Crons : cron'[d] = IF d = c THEN row ELSE cron[d]
  BY <1>1 DEF SeriesShape
<1>3. \A t : Settled(sessions, failed, t) => Settled(sessions', failed', t)
  BY DEF Settled
<1>4. /\ \A r, a, b : Covered(sessions, failed, r, a, b) => Covered(sessions', failed', r, a, b)
      /\ \A run : RunOK(sessions, failed, run) => RunOK(sessions', failed', run)
  BY <1>3, CoveredStays
<1>5. RunsOK'
  BY <1>2, <1>4 DEF SeriesInv, RunsOK
<1>6. DatesOK'
  BY <1>4 DEF SeriesInv, DatesOK
<1>7. NothingBefore'
  BY <1>2 DEF SeriesInv, NothingBefore
<1>8. MarksOK'
  <2> SUFFICES ASSUME ~cut'
               PROVE  /\ \A d, e \in Crons : Generating(d)' /\ Generating(e)' => d = e
                      /\ \A d \in Crons : Generating(d)' => Within(sessions', Reached(cron'[d]))
                      /\ (\A d \in Crons : cron'[d].made = 0) =>
                           template'.deleted \/ Within(sessions', template'.upTo)
    BY DEF MarksOK
  <2>1. /\ \A d, e \in Crons : Generating(d) /\ Generating(e) => d = e
        /\ \A d \in Crons : Generating(d) => Within(sessions, Reached(cron[d]))
        /\ (\A d \in Crons : cron[d].made = 0) => template.deleted \/ Within(sessions, template.upTo)
    BY DEF SeriesInv, MarksOK
  <2>2. \A d \in Crons \ {c} : Generating(d)' <=> Generating(d)
    BY <1>2 DEF Generating
  <2>3. Generating(c)' => Generating(c) \/ \A d \in Crons \ {c} : ~Generating(d)
    BY <1>2 DEF Generating
  <2>4. \A d, e \in Crons : Generating(d)' /\ Generating(e)' => d = e
    BY <2>1, <2>2, <2>3
  <2>5. \A d \in Crons : Generating(d)' => Within(sessions', Reached(cron'[d]))
    BY <1>2, <2>1 DEF Generating
  <2>6. (\A d \in Crons : cron'[d].made = 0) => template'.deleted \/ Within(sessions', template'.upTo)
    BY <1>2, <2>1
  <2>. QED  BY <2>4, <2>5, <2>6
<1>9. \A d \in Crons : cron'[d].made <= Len(sessions')
  <2>1. \A d \in Crons : cron[d].made <= Len(sessions) /\ cron[d].made \in Nat
    BY <1>1 DEF SeriesShape, CronRows
  <2>2. Len(sessions) \in Nat /\ row.made \in Nat
    BY <1>1 DEF SeriesShape, CronRows
  <2>. QED  BY <1>2, <2>1, <2>2
<1>10. SeriesShape'
  BY <1>1, <1>2, <1>9 DEF SeriesShape
<1>11. RowsOK' /\ RequestsOK' /\ OneSessionPerDate'
  BY DEF SeriesInv, RowsOK, RequestsOK, OneSessionPerDate
<1>. QED  BY <1>5, <1>6, <1>7, <1>8, <1>10, <1>11 DEF SeriesInv

\* What the invariant says of one run.
LEMMA RunIs ==
  ASSUME SeriesInv, NEW c \in Crons
  PROVE  /\ cron[c] \in CronRows /\ RunOK(sessions, failed, cron[c])
         /\ template \in TemplateRows /\ group \in GroupRows
         /\ now \in Nat /\ failed \subseteq Nat /\ faults \in 0 .. MaxFaults
         /\ cut \in BOOLEAN
         /\ cron[c].step # "idle" => template.status # "none"
         /\ ~cut /\ cron[c].step # "idle" => Within(sessions, Reached(cron[c]))
BY DEF SeriesInv, SeriesShape, RunsOK, NothingBefore, MarksOK, Generating

\* A run that is over meets every condition on runs.
LEMMA IdleCronIsRow ==
  /\ IdleCron \in CronRows /\ IdleCron.made = 0 /\ IdleCron.step = "idle"
  /\ \A ss, gaveUp : RunOK(ss, gaveUp, IdleCron)
BY DEF IdleCron, CronRows, Times, RunOK

LEMMA ListDueKeeps ==
  ASSUME SeriesInv, NEW c \in Crons, ListDue(c)
  PROVE  SeriesInv'
<1>1. /\ cron[c] \in CronRows /\ RunOK(sessions, failed, cron[c]) /\ template \in TemplateRows
      /\ faults \in 0 .. MaxFaults /\ failed \subseteq Nat /\ cut \in BOOLEAN
  BY RunIs
<1>2. /\ cron[c].step = "idle"
      /\ template.status # "none" /\ ~template.deleted /\ IsRecurring(template)
      /\ cron' = [cron EXCEPT ![c] = [cron[c] EXCEPT !.step = "due", !.rule = template.rule,
                                                     !.from = template.upTo]]
  BY DEF ListDue, FindRecurringTemplatesToGenerate, ListSessionTemplates, SessionTemplateQuery
<1>3. /\ cut' = (cut \/ \E other \in Crons \ {c} : Generating(other))
      /\ UNCHANGED <<now, group, template, sessions, ended, editing, edits, faults, since, failed, stale>>
  BY DEF ListDue
<1> DEFINE row == [cron[c] EXCEPT !.step = "due", !.rule = template.rule, !.from = template.upTo]
<1>4. /\ row \in CronRows /\ row.step = "due" /\ row.rule = template.rule
      /\ row.from = template.upTo /\ row.made = cron[c].made
  BY <1>1 DEF CronRows, TemplateRows, Times
<1>5. cron' = [cron EXCEPT ![c] = row]
  BY <1>2
<1> HIDE DEF row
<1>6. cron[c].made = 0 /\ row.made = 0
  BY <1>1, <1>2, <1>4 DEF RunOK
<1>7. RunOK(sessions, failed', row)
  BY <1>1, <1>2, <1>4, <1>6 DEF RunOK, IsRecurring, TemplateRows
<1>8. cut' \in BOOLEAN /\ (cut => cut')
  <2>1. PICK other \in BOOLEAN : other = (\E d \in Crons \ {c} : Generating(d))
    BY Zenon
  <2>2. cut' = (cut \/ other)
    BY <1>3, <2>1
  <2>. QED  BY <1>1, <2>2
<1>9. ASSUME ~cut'
      PROVE  /\ \A d \in Crons \ {c} : ~Generating(d)
             /\ Within(sessions, Reached(row))
  <2>1. ~cut /\ \A d \in Crons \ {c} : ~Generating(d)
    BY <1>3, <1>9, Zenon
  <2>2. \A d \in Crons : cron[d].made = 0
    <3>1. ASSUME NEW d \in Crons, d # c PROVE cron[d].made = 0
      <4>1. RunOK(sessions, failed, cron[d]) /\ cron[d].step = "idle"
        BY <2>1, <3>1, RunIs DEF Generating
      <4>. QED  BY <4>1 DEF RunOK
    <3>. QED  BY <1>6, <3>1
  <2>3. Within(sessions, template.upTo)
    BY <1>2, <2>1, <2>2 DEF SeriesInv, MarksOK
  <2>. QED  BY <2>1, <2>3, <1>4 DEF Reached
<1>10. row.made <= cron[c].made
  BY <1>6
<1>11. faults' \in 0 .. MaxFaults /\ failed \subseteq failed' /\ failed' \subseteq Nat
  BY <1>1, <1>3
<1>. QED  BY <1>2, <1>3, <1>4, <1>5, <1>6, <1>7, <1>8, <1>9, <1>10, <1>11, RunStepKeeps

LEMMA BeginKeeps ==
  ASSUME SeriesInv, NEW c \in Crons, BeginTemplate(c)
  PROVE  SeriesInv'
<1> DEFINE start == IF cron[c].from = Null THEN now ELSE cron[c].from
<1>1. /\ cron[c] \in CronRows /\ RunOK(sessions, failed, cron[c])
      /\ faults \in 0 .. MaxFaults /\ failed \subseteq Nat /\ now \in Nat /\ cut \in BOOLEAN
  BY RunIs
<1>2. /\ cron[c].step = "due"
      /\ UNCHANGED <<now, group, template, sessions, ended, editing, edits, faults, since, failed, cut, stale>>
  BY DEF BeginTemplate
<1>3. cron[c].made = 0 /\ template.status # "none"
  BY <1>1, <1>2, RunIs DEF RunOK
<1>4. faults' \in 0 .. MaxFaults /\ failed \subseteq failed' /\ failed' \subseteq Nat /\ cut' \in BOOLEAN
  BY <1>1, <1>2
<1>5. CASE cron' = [cron EXCEPT ![c] = IdleCron]
  <2>1. IdleCron.made <= cron[c].made
    BY <1>3, IdleCronIsRow
  <2>. QED  BY <1>2, <1>3, <1>4, <1>5, <2>1, IdleCronIsRow, RunStepKeeps
<1>6. CASE cron' = [cron EXCEPT ![c] = [cron[c] EXCEPT !.step = "loop", !.from = start, !.current = start,
                                                       !.until = now + Lookahead]]
  <2> DEFINE row == [cron[c] EXCEPT !.step = "loop", !.from = start, !.current = start,
                                    !.until = now + Lookahead]
  <2>1. start \in Nat /\ now + Lookahead \in Nat
    BY <1>1, SeriesAssumption DEF CronRows, Times
  <2>2. cron' = [cron EXCEPT ![c] = row]
    BY <1>6
  <2>3. /\ row \in CronRows /\ row.step = "loop" /\ row.rule = cron[c].rule
        /\ row.from = start /\ row.current = start /\ row.until = now + Lookahead
        /\ row.made = cron[c].made
    <3>. HIDE DEF start
    <3>. QED  BY <1>1, <2>1 DEF CronRows, Times
  <2> HIDE DEF row
  <2>4. Covered(sessions, failed', row.rule, row.from, row.current)
    <3>. HIDE DEF start
    <3>. QED  BY <2>1, <2>3 DEF Covered
  <2>5. RunOK(sessions, failed', row)
    <3>. HIDE DEF start
    <3>. QED  BY <1>1, <1>2, <1>3, <2>1, <2>3, <2>4 DEF RunOK
  <2>6. ASSUME ~cut' PROVE Within(sessions, Reached(row))
    <3>1. Within(sessions, cron[c].from)
      BY <1>2, <2>6, RunIs DEF Reached
    <3>2. Reached(row) = start
      BY <2>3 DEF Reached
    <3>. QED  BY <3>1, <3>2 DEF Within
  <2>7. row.made <= cron[c].made /\ (row.made = 0 => cron[c].made = 0)
    BY <1>3, <2>3
  <2>. HIDE DEF start
  <2>. QED  BY <1>2, <1>3, <1>4, <2>2, <2>3, <2>5, <2>6, <2>7, RunStepKeeps
<1>. QED  BY <1>5, <1>6 DEF BeginTemplate

\* The occurrence a run is about to make.
LEMMA NextIs ==
  ASSUME SeriesInv, NEW c \in Crons, cron[c].step = "loop", NEW next \in NextInWindow(c)
  PROVE  /\ next \in NextOccurrenceAfter(cron[c].rule, cron[c].current)
         /\ next \in Nat /\ next > cron[c].current /\ next <= cron[c].until
         /\ OnCalendar(cron[c].rule, next)
         /\ cron[c].rule \in Rules /\ {cron[c].from, cron[c].current, cron[c].until} \subseteq Nat
<1>1. cron[c].rule \in Rules /\ {cron[c].from, cron[c].current, cron[c].until} \subseteq Nat
  BY RunIs DEF RunOK
<1>2. next \in NextOccurrenceAfter(cron[c].rule, cron[c].current) /\ next <= cron[c].until
  BY DEF NextInWindow
<1>. QED  BY <1>1, <1>2, OccurrencesAreDates

LEMMA SkipKeeps ==
  ASSUME SeriesInv, NEW c \in Crons, SkipOccurrence(c)
  PROVE  SeriesInv'
<1>1. /\ cron[c] \in CronRows /\ RunOK(sessions, failed, cron[c])
      /\ faults \in 0 .. MaxFaults /\ failed \subseteq Nat /\ cut \in BOOLEAN
  BY RunIs
<1>2. /\ cron[c].step = "loop" /\ faults' \in {faults, faults + 1}
      /\ faults' # faults => faults < MaxFaults
      /\ UNCHANGED <<now, group, template, sessions, ended, editing, edits, since, cut, stale>>
  BY DEF SkipOccurrence
<1>3. PICK next \in NextInWindow(c) :
        failed' = failed \cup {next} /\ cron' = [cron EXCEPT ![c].current = next]
  BY DEF SkipOccurrence
<1>4. /\ next \in NextOccurrenceAfter(cron[c].rule, cron[c].current)
      /\ next \in Nat /\ next > cron[c].current /\ next <= cron[c].until
      /\ cron[c].rule \in Rules /\ {cron[c].from, cron[c].current, cron[c].until} \subseteq Nat
  BY <1>2, NextIs
<1> DEFINE row == [cron[c] EXCEPT !.current = next]
<1>5. /\ row \in CronRows /\ row.step = "loop" /\ row.rule = cron[c].rule /\ row.from = cron[c].from
      /\ row.current = next /\ row.until = cron[c].until /\ row.made = cron[c].made
  BY <1>1, <1>2, <1>4 DEF CronRows, Times
<1>6. cron' = [cron EXCEPT ![c] = row]
  BY <1>3
<1> HIDE DEF row
<1>7. ASSUME row.rule.interval = 1 PROVE Covered(sessions, failed', row.rule, row.from, row.current)
  <2>1. Covered(sessions, failed, cron[c].rule, cron[c].from, cron[c].current)
    BY <1>1, <1>2, <1>5, <1>7 DEF RunOK
  <2>2. \A t : Settled(sessions, failed, t) => Settled(sessions, failed', t)
    BY <1>3 DEF Settled
  <2>3. Covered(sessions, failed', cron[c].rule, cron[c].from, cron[c].current)
    BY <2>1, <2>2, CoveredStays
  <2>4. Settled(sessions, failed', next)
    BY <1>3 DEF Settled
  <2>5. Covered(sessions, failed', cron[c].rule, cron[c].from, next)
    BY <1>4, <1>5, <1>7, <2>3, <2>4, WindowIsCovered
  <2>. QED  BY <1>5, <2>5
<1>8. RunOK(sessions, failed', row)
  BY <1>4, <1>5, <1>7 DEF RunOK
<1>9. ASSUME ~cut' PROVE Within(sessions, Reached(row))
  <2>1. Within(sessions, cron[c].current)
    BY <1>2, <1>9, RunIs DEF Reached
  <2>2. Reached(row) = next
    BY <1>5 DEF Reached
  <2>3. \A i \in DOMAIN sessions : sessions[i].at \in Nat
    <3>1. sessions \in Seq(SessionRows)
      BY DEF SeriesInv, SeriesShape
    <3>2. \A i \in DOMAIN sessions : sessions[i] \in SessionRows
      BY <3>1
    <3>. QED  BY <3>2, SessionRowIs
  <2>. QED  BY <1>4, <2>1, <2>2, <2>3 DEF Within, Null
<1>10. faults' \in 0 .. MaxFaults /\ failed \subseteq failed' /\ failed' \subseteq Nat /\ cut' \in BOOLEAN
  BY <1>1, <1>2, <1>3, <1>4, SeriesAssumption
<1>11. template.status # "none" /\ row.made <= cron[c].made /\ (row.made = 0 => cron[c].made = 0)
  BY <1>1, <1>2, <1>5, RunIs DEF CronRows
<1>. QED  BY <1>2, <1>5, <1>6, <1>8, <1>9, <1>10, <1>11, RunStepKeeps

LEMMA EndLoopKeeps ==
  ASSUME SeriesInv, NEW c \in Crons, EndLoop(c)
  PROVE  SeriesInv'
<1>1. /\ cron[c] \in CronRows /\ RunOK(sessions, failed, cron[c])
      /\ faults \in 0 .. MaxFaults /\ failed \subseteq Nat /\ cut \in BOOLEAN
  BY RunIs
<1>2. /\ cron[c].step = "loop" /\ NextInWindow(c) = {}
      /\ UNCHANGED <<now, group, template, sessions, ended, editing, edits, faults, since, failed, cut, stale>>
      /\ cron' = [cron EXCEPT ![c] = IF cron[c].made > 0 THEN [cron[c] EXCEPT !.step = "watermark"] ELSE IdleCron]
  BY DEF EndLoop
<1>3. faults' \in 0 .. MaxFaults /\ failed \subseteq failed' /\ failed' \subseteq Nat /\ cut' \in BOOLEAN
  BY <1>1, <1>2
<1>4. template.status # "none" /\ cron[c].made \in Nat
  BY <1>1, <1>2, RunIs DEF CronRows
<1>5. CASE ~(cron[c].made > 0)
  <2>1. cron[c].made = 0 /\ IdleCron.made <= cron[c].made
    BY <1>4, <1>5, IdleCronIsRow
  <2>2. cron' = [cron EXCEPT ![c] = IdleCron]
    BY <1>2, <1>5
  <2>. QED  BY <1>2, <1>3, <2>1, <2>2, IdleCronIsRow, RunStepKeeps
<1>6. CASE cron[c].made > 0
  <2> DEFINE row == [cron[c] EXCEPT !.step = "watermark"]
  <2>1. /\ row \in CronRows /\ row.step = "watermark" /\ row.rule = cron[c].rule /\ row.from = cron[c].from
        /\ row.current = cron[c].current /\ row.until = cron[c].until /\ row.made = cron[c].made
    BY <1>1 DEF CronRows
  <2>2. cron' = [cron EXCEPT ![c] = row]
    BY <1>2, <1>6
  <2> HIDE DEF row
  <2>3. cron[c].rule \in Rules /\ {cron[c].from, cron[c].current, cron[c].until} \subseteq Nat
    BY <1>1, <1>2 DEF RunOK
  <2>4. ASSUME row.rule.interval = 1 PROVE Covered(sessions, failed', row.rule, row.from, row.until)
    <3>1. Covered(sessions, failed, cron[c].rule, cron[c].from, cron[c].current)
      BY <1>1, <1>2, <2>1, <2>4 DEF RunOK
    <3>2. {t \in NextOccurrenceAfter(cron[c].rule, cron[c].current) : t <= cron[c].until} = {}
      BY <1>2 DEF NextInWindow
    <3>3. Covered(sessions, failed, cron[c].rule, cron[c].from, cron[c].until)
      BY <2>1, <2>3, <2>4, <3>1, <3>2, WindowIsCovered
    <3>. QED  BY <1>2, <2>1, <3>3
  <2>5. RunOK(sessions, failed', row)
    BY <1>1, <1>2, <1>6, <2>1, <2>3, <2>4 DEF RunOK
  <2>6. ~cut' => Within(sessions, Reached(row))
    BY <1>2, <2>1, RunIs DEF Reached
  <2>7. row.made <= cron[c].made /\ (row.made = 0 => cron[c].made = 0)
    BY <1>4, <2>1
  <2>. QED  BY <1>2, <1>3, <1>4, <2>1, <2>2, <2>5, <2>6, <2>7, RunStepKeeps
<1>. QED  BY <1>5, <1>6

LEMMA BrokenRunsKeep ==
  ASSUME SeriesInv, NEW c \in Crons, LoseWatermark(c) \/ Crash(c)
  PROVE  SeriesInv'
<1>1. /\ cron[c] \in CronRows /\ faults \in 0 .. MaxFaults /\ failed \subseteq Nat /\ cut \in BOOLEAN
  BY RunIs
<1>2. /\ cron' = [cron EXCEPT ![c] = IdleCron] /\ faults' = faults + 1 /\ faults < MaxFaults
      /\ UNCHANGED <<now, group, template, sessions, ended, editing, edits, since, failed, stale>>
  BY DEF LoseWatermark, Crash
<1>3. cron[c].made \in Nat /\ 0 <= cron[c].made
  BY <1>1 DEF CronRows
<1>4. cut' \in BOOLEAN /\ (cut => cut') /\ (~cut' => cron[c].made = 0)
  <2>1. CASE LoseWatermark(c)
    <3>1. cut' = TRUE
      BY <2>1 DEF LoseWatermark
    <3>. QED  BY <3>1
  <2>2. CASE Crash(c)
    <3>1. cut' = (cut \/ cron[c].made > 0)
      BY <2>2 DEF Crash
    <3>2. CASE cron[c].made > 0
      <4>1. cut' = TRUE
        BY <3>1, <3>2
      <4>. QED  BY <4>1
    <3>3. CASE ~(cron[c].made > 0)
      <4>1. cut' = cut
        BY <1>1, <3>1, <3>3
      <4>2. cron[c].made = 0
        BY <1>3, <3>3
      <4>. QED  BY <1>1, <4>1, <4>2
    <3>. QED  BY <3>2, <3>3
  <2>. QED  BY <2>1, <2>2
<1>5. faults' \in 0 .. MaxFaults /\ failed \subseteq failed' /\ failed' \subseteq Nat
  BY <1>1, <1>2, SeriesAssumption
<1>6. IdleCron.made <= cron[c].made
  BY <1>3, IdleCronIsRow
<1>. QED  BY <1>2, <1>4, <1>5, <1>6, IdleCronIsRow, RunStepKeeps

LEMMA GenerateKeeps ==
  ASSUME SeriesInv, NEW c \in Crons, GenerateOccurrence(c)
  PROVE  SeriesInv'
<1>1. /\ cron[c] \in CronRows /\ RunOK(sessions, failed, cron[c])
  BY RunIs
<1>2. /\ cron[c].step = "loop" /\ Len(sessions) < MaxSessions
      /\ UNCHANGED <<now, group, template, ended, editing, edits, faults, since, failed, cut, stale>>
  BY DEF GenerateOccurrence
<1>3. PICK next \in NextInWindow(c) :
        /\ sessions' = CreateSession(next, cron[c].rule)
        /\ cron' = [cron EXCEPT ![c].current = next, ![c].made = @ + 1]
  BY DEF GenerateOccurrence
<1>4. /\ next \in NextOccurrenceAfter(cron[c].rule, cron[c].current)
      /\ next \in Nat /\ next > cron[c].current /\ next <= cron[c].until
      /\ OnCalendar(cron[c].rule, next)
      /\ cron[c].rule \in Rules /\ {cron[c].from, cron[c].current, cron[c].until} \subseteq Nat
  BY <1>2, NextIs
<1> DEFINE row == [cron[c] EXCEPT !.current = next, !.made = cron[c].made + 1]
           new == NewSession(next, cron[c].rule)
           last == Len(sessions')
<1>5. SeriesShape
  BY DEF SeriesInv
<1>6. /\ row \in CronRows /\ row.step = "loop" /\ row.rule = cron[c].rule /\ row.from = cron[c].from
      /\ row.current = next /\ row.until = cron[c].until /\ row.made = cron[c].made + 1
      /\ cron[c].made \in Nat
  <2>1. cron[c].made \in Nat /\ cron[c].made + 1 \in Nat
    BY <1>1 DEF CronRows
  <2>. QED  BY <1>1, <1>2, <1>4, <2>1 DEF CronRows, Times
<1>7. cron' = [cron EXCEPT ![c] = row]
  BY <1>3
<1>8. /\ sessions' \in Seq(SessionRows) /\ last = Len(sessions) + 1 /\ last <= MaxSessions
      /\ DOMAIN sessions \subseteq DOMAIN sessions'
      /\ \A i \in DOMAIN sessions : sessions'[i] = sessions[i]
      /\ \A i \in DOMAIN sessions' \ DOMAIN sessions : i = last /\ sessions'[i] = new
      /\ last \in DOMAIN sessions'
      /\ RowOK(group, new)
  BY <1>2, <1>3, <1>4, <1>5, CreateMoves
<1>9. last \notin DOMAIN sessions /\ sessions'[last] = new
  <2>1. DOMAIN sessions = 1 .. Len(sessions) /\ Len(sessions) \in Nat
    BY <1>5 DEF SeriesShape
  <2>2. last \notin DOMAIN sessions
    BY <1>8, <2>1
  <2>. QED  BY <1>8, <2>2
<1>10. InSeries(new) /\ new.at = next /\ new.rule = cron[c].rule
  <2>1. cron[c].rule # NoRule
    BY <1>4, RuleShape DEF NoRule, Frequencies
  <2>. QED  BY <2>1 DEF InSeries, NewSession
<1> HIDE DEF row, new, last
<1>11. /\ cron' \in [Crons -> CronRows]
       /\ \A d \in Crons : cron'[d] = IF d = c THEN row ELSE cron[d]
  BY <1>5, <1>6, <1>7 DEF SeriesShape
<1>12. \A t : Settled(sessions, failed, t) => Settled(sessions', failed', t)
  BY <1>2, <1>8 DEF Settled
<1>13. /\ \A r, a, b : Covered(sessions, failed, r, a, b) => Covered(sessions', failed', r, a, b)
       /\ \A run : RunOK(sessions, failed, run) => RunOK(sessions', failed', run)
  BY <1>12, CoveredStays
<1>14. RunOK(sessions', failed', row)
  <2>1. ASSUME row.rule.interval = 1 PROVE Covered(sessions', failed', row.rule, row.from, next)
    <3>1. Covered(sessions', failed', cron[c].rule, cron[c].from, cron[c].current)
      BY <1>1, <1>2, <1>6, <1>13, <2>1 DEF RunOK
    <3>2. Settled(sessions', failed', next)
      BY <1>8, <1>9, <1>10 DEF Settled
    <3>3. Covered(sessions', failed', cron[c].rule, cron[c].from, next)
      BY <1>4, <1>6, <2>1, <3>1, <3>2, WindowIsCovered
    <3>. QED  BY <1>6, <3>3
  <2>. QED  BY <1>4, <1>6, <2>1 DEF RunOK
<1>15. RunsOK'
  BY <1>11, <1>13, <1>14 DEF SeriesInv, RunsOK
<1>16. DatesOK'
  <2>1. \A i \in DOMAIN sessions' : InSeries(sessions'[i]) => OnCalendar(sessions'[i].rule, sessions'[i].at)
    BY <1>4, <1>8, <1>10 DEF SeriesInv, DatesOK
  <2>. QED  BY <1>2, <1>13, <2>1 DEF SeriesInv, DatesOK
<1>17. NothingBefore'
  BY <1>2, RunIs DEF NothingBefore
<1>18. \A i \in DOMAIN sessions : sessions[i].at \in Nat
  <2>1. \A i \in DOMAIN sessions : sessions[i] \in SessionRows
    BY <1>5 DEF SeriesShape
  <2>. QED  BY <2>1, SessionRowIs
<1>19. ASSUME ~cut, NEW i \in DOMAIN sessions, InSeries(sessions[i]) PROVE sessions[i].at < next
  <2>1. Within(sessions, cron[c].current)
    BY <1>2, <1>19, RunIs DEF Reached
  <2>. QED  BY <1>4, <1>18, <1>19, <2>1 DEF Within
<1>20. MarksOK'
  <2> SUFFICES ASSUME ~cut
               PROVE  /\ \A d, e \in Crons : Generating(d)' /\ Generating(e)' => d = e
                      /\ \A d \in Crons : Generating(d)' => Within(sessions', Reached(cron'[d]))
                      /\ (\A d \in Crons : cron'[d].made = 0) =>
                           template'.deleted \/ Within(sessions', template'.upTo)
    BY <1>2 DEF MarksOK
  <2>1. \A d, e \in Crons : Generating(d) /\ Generating(e) => d = e
    BY DEF SeriesInv, MarksOK
  <2>2. \A d \in Crons : Generating(d)' <=> Generating(d)
    BY <1>2, <1>6, <1>11 DEF Generating
  <2>3. Generating(c)
    BY <1>2 DEF Generating
  <2>4. Within(sessions', next)
    <3>1. ASSUME NEW i \in DOMAIN sessions', InSeries(sessions'[i]) PROVE next # Null /\ sessions'[i].at <= next
      <4>1. CASE i \in DOMAIN sessions
        BY <1>4, <1>8, <1>18, <1>19, <3>1, <4>1 DEF Null
      <4>2. CASE i \notin DOMAIN sessions
        BY <1>4, <1>8, <1>10, <4>2 DEF Null
      <4>. QED  BY <4>1, <4>2
    <3>. QED  BY <3>1 DEF Within
  <2>5. \A d \in Crons : Generating(d)' => Within(sessions', Reached(cron'[d]))
    <3>1. Reached(row) = next
      BY <1>6 DEF Reached
    <3>. QED  BY <1>11, <2>1, <2>2, <2>3, <2>4, <3>1
  <2>6. cron'[c].made # 0
    BY <1>6, <1>11
  <2>. QED  BY <2>1, <2>2, <2>5, <2>6
<1>21. OneSessionPerDate'
  <2> SUFFICES ASSUME ~cut, NEW i \in DOMAIN sessions', NEW j \in DOMAIN sessions',
                      InSeries(sessions'[i]), InSeries(sessions'[j]), sessions'[i].at = sessions'[j].at
               PROVE i = j
    BY <1>2 DEF OneSessionPerDate
  <2>1. CASE i \in DOMAIN sessions /\ j \in DOMAIN sessions
    BY <1>8, <2>1 DEF SeriesInv, OneSessionPerDate
  <2>2. CASE i \in DOMAIN sessions /\ j \notin DOMAIN sessions
    BY <1>4, <1>8, <1>10, <1>18, <1>19, <2>2
  <2>3. CASE i \notin DOMAIN sessions /\ j \in DOMAIN sessions
    BY <1>4, <1>8, <1>10, <1>18, <1>19, <2>3
  <2>4. CASE i \notin DOMAIN sessions /\ j \notin DOMAIN sessions
    BY <1>8, <2>4
  <2>. QED  BY <2>1, <2>2, <2>3, <2>4
<1>22. \A d \in Crons : cron'[d].made <= last
  <2>1. \A d \in Crons : cron[d].made <= Len(sessions) /\ cron[d].made \in Nat
    BY <1>5 DEF SeriesShape, CronRows
  <2>2. Len(sessions) \in Nat
    BY <1>5 DEF SeriesShape
  <2>. QED  BY <1>6, <1>8, <1>11, <2>1, <2>2
<1>23. SeriesShape'
  BY <1>2, <1>5, <1>8, <1>11, <1>22 DEF SeriesShape, last
<1>24. RowsOK'
  <2>1. \A i \in DOMAIN sessions' : RowOK(group, sessions'[i])
    BY <1>8 DEF SeriesInv, RowsOK
  <2>. QED  BY <1>2, <2>1 DEF RowsOK
<1>25. RequestsOK'
  BY <1>2 DEF SeriesInv, RequestsOK
<1>. QED  BY <1>15, <1>16, <1>17, <1>20, <1>21, <1>23, <1>24, <1>25 DEF SeriesInv

LEMMA WriteWatermarkKeeps ==
  ASSUME SeriesInv, NEW c \in Crons, WriteWatermark(c)
  PROVE  SeriesInv'
<1>1. /\ cron[c] \in CronRows /\ RunOK(sessions, failed, cron[c]) /\ template \in TemplateRows
  BY RunIs
<1>2. /\ cron[c].step = "watermark" /\ cron' = [cron EXCEPT ![c] = IdleCron]
      /\ template' = UpdateGeneratedUpTo(cron[c].until)
      /\ since' = IF since = Null THEN cron[c].from ELSE since
      /\ stale' = (stale \/ LeavesGap(c))
      /\ UNCHANGED <<now, group, sessions, ended, editing, edits, faults, failed, cut>>
  BY DEF WriteWatermark
<1>3. /\ cron[c].rule \in Rules /\ {cron[c].from, cron[c].current, cron[c].until} \subseteq Nat
      /\ cron[c].made > 0 /\ cron[c].current <= cron[c].until
      /\ cron[c].rule.interval = 1 => Covered(sessions, failed, cron[c].rule, cron[c].from, cron[c].until)
  BY <1>1, <1>2 DEF RunOK
<1>4. SeriesShape
  BY DEF SeriesInv
<1>5. /\ cron' \in [Crons -> CronRows]
      /\ \A d \in Crons : cron'[d] = IF d = c THEN IdleCron ELSE cron[d]
  BY <1>2, <1>4, IdleCronIsRow DEF SeriesShape
<1>6. /\ template' \in TemplateRows /\ template'.rule = template.rule
      /\ template'.status = template.status /\ template'.deleted = template.deleted
      /\ template'.upTo = IF template.deleted THEN template.upTo ELSE cron[c].until
  <2>1. template' = IF template.deleted THEN template ELSE [template EXCEPT !.upTo = cron[c].until]
    BY <1>2 DEF UpdateGeneratedUpTo
  <2>. QED  BY <1>1, <1>3, <2>1 DEF TemplateRows
<1>7. RunsOK'
  BY <1>2, <1>5, IdleCronIsRow DEF SeriesInv, RunsOK
<1>8. DatesOK'
  <2>1. since' # Null /\ since' \in Nat
    BY <1>2, <1>3, <1>4 DEF SeriesShape, Times, Null
  <2>2. ASSUME template'.upTo # Null, ~stale', template'.rule.interval = 1
        PROVE Covered(sessions', failed', template'.rule, since', template'.upTo)
    <3>1. ~stale /\ cron[c].rule = template.rule /\ (template.upTo = Null \/ cron[c].from <= template.upTo)
      <4>1. ~stale /\ ~LeavesGap(c)
        BY <1>2, <2>2, Zenon
      <4>. QED  BY <1>1, <1>3, <4>1 DEF LeavesGap, TemplateRows, Null
    <3>2. CASE template.deleted
      <4>1. template.upTo # Null /\ since # Null
        BY <1>6, <2>2, <3>2 DEF SeriesInv, DatesOK
      <4>. QED  BY <1>2, <1>6, <2>2, <3>1, <3>2, <4>1 DEF SeriesInv, DatesOK
    <3>3. CASE ~template.deleted
      <4>1. Covered(sessions, failed, template.rule, cron[c].from, cron[c].until)
        BY <1>3, <1>6, <2>2, <3>1
      <4>2. template'.upTo = cron[c].until
        BY <1>6, <3>3
      <4>3. CASE since = Null
        BY <1>2, <1>6, <4>1, <4>2, <4>3
      <4>4. CASE since # Null /\ template.upTo # Null
        <5>1. Covered(sessions, failed, template.rule, since, template.upTo)
          BY <1>6, <2>2, <3>1, <4>4 DEF SeriesInv, DatesOK
        <5>2. since \in Nat /\ template.upTo \in Nat
          BY <1>1, <1>4, <4>4 DEF SeriesShape, Times, TemplateRows
        <5>3. \A t \in (since + 1) .. cron[c].until :
                t \in (since + 1) .. template.upTo \/ t \in (cron[c].from + 1) .. cron[c].until
          BY <1>3, <3>1, <4>4, <5>2
        <5>4. Covered(sessions, failed, template.rule, since, cron[c].until)
          BY <4>1, <5>1, <5>3 DEF Covered
        <5>. QED  BY <1>2, <1>6, <4>2, <4>4, <5>4
      <4>5. CASE since # Null /\ template.upTo = Null
        BY <3>3, <4>5 DEF SeriesInv, DatesOK
      <4>. QED  BY <4>3, <4>4, <4>5
    <3>. QED  BY <3>2, <3>3
  <2>3. \A i \in DOMAIN sessions' : InSeries(sessions'[i]) => OnCalendar(sessions'[i].rule, sessions'[i].at)
    BY <1>2 DEF SeriesInv, DatesOK
  <2>4. template'.upTo = Null => template'.deleted
    BY <1>3, <1>6 DEF Null
  <2>. QED  BY <2>1, <2>2, <2>3, <2>4 DEF DatesOK
<1>9. NothingBefore'
  BY <1>2, <1>6, RunIs DEF NothingBefore
<1>10. MarksOK'
  <2> SUFFICES ASSUME ~cut
               PROVE  /\ \A d, e \in Crons : Generating(d)' /\ Generating(e)' => d = e
                      /\ \A d \in Crons : Generating(d)' => Within(sessions', Reached(cron'[d]))
                      /\ template'.deleted \/ Within(sessions', template'.upTo)
    BY <1>2 DEF MarksOK
  <2>1. \A d, e \in Crons : Generating(d) /\ Generating(e) => d = e
    BY DEF SeriesInv, MarksOK
  <2>2. Generating(c)
    BY <1>2 DEF Generating
  <2>3. \A d \in Crons : ~Generating(d)'
    BY <1>5, <2>1, <2>2, IdleCronIsRow DEF Generating
  <2>4. Within(sessions, cron[c].current)
    BY <1>2, RunIs DEF Reached
  <2>5. \A i \in DOMAIN sessions : sessions[i].at \in Nat
    <3>1. \A i \in DOMAIN sessions : sessions[i] \in SessionRows
      BY <1>4 DEF SeriesShape
    <3>. QED  BY <3>1, SessionRowIs
  <2>6. Within(sessions', cron[c].until)
    BY <1>2, <1>3, <2>4, <2>5 DEF Within, Null
  <2>. QED  BY <1>6, <2>3, <2>6
<1>11. since' \in Times /\ stale' \in BOOLEAN
  <2>1. since' \in Times
    BY <1>2, <1>3, <1>4 DEF SeriesShape, Times
  <2>2. stale' \in BOOLEAN
    BY <1>2, Zenon DEF LeavesGap
  <2>. QED  BY <2>1, <2>2
<1>12. \A d \in Crons : cron'[d].made <= Len(sessions')
  <2>1. Len(sessions) \in Nat
    BY <1>4 DEF SeriesShape
  <2>. QED  BY <1>2, <1>4, <1>5, <2>1, IdleCronIsRow DEF SeriesShape
<1>13. SeriesShape'
  BY <1>2, <1>4, <1>5, <1>6, <1>11, <1>12 DEF SeriesShape
<1>14. RowsOK' /\ RequestsOK' /\ OneSessionPerDate'
  BY <1>2, <1>6 DEF SeriesInv, RowsOK, RequestsOK, OneSessionPerDate
<1>. QED  BY <1>7, <1>8, <1>9, <1>10, <1>13, <1>14 DEF SeriesInv

-----------------------------------------------------------------------------
(***************************************************************************)
(* The theorems.                                                           *)
(***************************************************************************)

LEMMA SeriesInvAtStart == SeriesInit => SeriesInv
<1> SUFFICES ASSUME SeriesInit PROVE SeriesInv
  OBVIOUS
<1>1. PICK no \in BOOLEAN : no = FALSE
  BY Zenon
<1>2. /\ template = [status |-> "none", deleted |-> no, rule |-> NoRule, upTo |-> Null]
      /\ group = [status |-> "none", deleted |-> no]
      /\ cut = no /\ stale = no
  BY <1>1, Zenon DEF SeriesInit, NoTemplate, NoGroup
<1>3. template \in TemplateRows /\ group \in GroupRows /\ template.upTo = Null /\ ~group.deleted
  BY <1>1, <1>2 DEF TemplateRows, GroupRows
<1>4. /\ now = 0 /\ sessions = <<>> /\ cron = [c \in Crons |-> IdleCron]
      /\ ended = [p \in Sweepers |-> {}] /\ editing = [e \in Editors |-> IdleReq]
      /\ edits = 0 /\ faults = 0 /\ since = Null /\ failed = {}
  BY DEF SeriesInit
<1>5. /\ cron \in [Crons -> CronRows] /\ editing \in [Editors -> EditRows]
      /\ \A c \in Crons : cron[c] = IdleCron
      /\ \A e \in Editors : editing[e].kind = "idle"
  BY <1>4, IdleCronIsRow, IdleReqIsRow
<1>6. sessions \in Seq(SessionRows) /\ Len(sessions) = 0 /\ DOMAIN sessions = {}
  BY <1>4
<1>7. SeriesShape
  BY <1>2, <1>3, <1>4, <1>5, <1>6, IdleCronIsRow, SeriesAssumption DEF SeriesShape, Times
<1>8. RowsOK /\ RequestsOK /\ OneSessionPerDate
  BY <1>5, <1>6 DEF RowsOK, RequestsOK, OneSessionPerDate
<1>9. \A m : Within(sessions, m)
  BY <1>6 DEF Within
<1>10. NothingBefore
  BY <1>4, <1>5, <1>9, IdleCronIsRow DEF NothingBefore
<1>11. RunsOK
  BY <1>5, IdleCronIsRow DEF RunsOK
<1>12. DatesOK
  BY <1>3, <1>4, <1>6 DEF DatesOK
<1>13. MarksOK
  BY <1>5, <1>9, IdleCronIsRow DEF MarksOK, Generating
<1>. QED  BY <1>7, <1>8, <1>10, <1>11, <1>12, <1>13 DEF SeriesInv

LEMMA SeriesInvKept == SeriesInv /\ [SeriesNext]_seriesVars => SeriesInv'
<1> SUFFICES ASSUME SeriesInv, [SeriesNext]_seriesVars PROVE SeriesInv'
  OBVIOUS
<1>1. ASSUME NEW e \in Editors,
             \/ UpdateActivityGroupRequest(e) \/ ActivateActivityGroupRequest(e) \/ DeleteActivityGroupRequest(e)
             \/ UpdateSessionTemplateRequest(e) \/ ActivateSessionTemplateRequest(e)
             \/ DeactivateSessionTemplateRequest(e) \/ DeleteSessionTemplateRequest(e)
             \/ CommitGroupUpdate(e) \/ CommitGroupDelete(e)
             \/ CommitTemplate(e)
      PROVE SeriesInv'
  BY <1>1, GroupRequestsKeep, TemplateRequestsKeep, GroupUpdateKeeps, GroupDeleteKeeps, TemplateWriteKeeps
<1>2. CASE CreateActivityGroup \/ CreateSessionTemplate \/ ScheduleSession
  BY <1>2, CreateGroupKeeps, CreateTemplateKeeps, ScheduleKeeps
<1>3. CASE StartSession \/ CompleteSession \/ CancelSession
  BY <1>3, SessionCommandsKeep
<1>4. ASSUME NEW c \in Crons,
             \/ ListDue(c) \/ BeginTemplate(c) \/ GenerateOccurrence(c) \/ SkipOccurrence(c)
             \/ EndLoop(c) \/ WriteWatermark(c) \/ LoseWatermark(c) \/ Crash(c)
      PROVE SeriesInv'
  BY <1>4, ListDueKeeps, BeginKeeps, GenerateKeeps, SkipKeeps, EndLoopKeeps, WriteWatermarkKeeps, BrokenRunsKeep
<1>5. ASSUME NEW p \in Sweepers, SweepFind(p) \/ \E i \in ended[p] : Expire(p, i)
      PROVE SeriesInv'
  BY <1>5, SweepFindKeeps, ExpireKeeps
<1>6. CASE Tick
  BY <1>6, TickKeeps
<1>7. CASE UNCHANGED seriesVars
  <2>1. /\ Moves(sessions, sessions') /\ UNCHANGED <<cron, template, since, failed, cut, stale>>
    BY <1>7, MovesNothing DEF SeriesInv, seriesVars
  <2>2. RunsOK' /\ DatesOK' /\ NothingBefore' /\ MarksOK' /\ OneSessionPerDate'
    BY <2>1, SeriesStands
  <2>3. SeriesShape' /\ RowsOK' /\ RequestsOK'
    BY <1>7 DEF SeriesInv, SeriesShape, RowsOK, RequestsOK, seriesVars
  <2>. QED  BY <2>2, <2>3 DEF SeriesInv
<1>. QED  BY <1>1, <1>2, <1>3, <1>4, <1>5, <1>6, <1>7, Zenon DEF SeriesNext

\* The invariant holds: the sessions of a group, whatever runs of the cron job
\* overlap or die (session_generator_service.go:99-270).
THEOREM SeriesInvariantHolds == SeriesSpec => []SeriesInv
BY SeriesInvAtStart, SeriesInvKept, PTL DEF SeriesSpec

\* The series is the rule's calendar: no session on another date, and none missing
\* up to generated_up_to (session_generator_service.go:159-265, recurrence.go:136).
THEOREM SeriesFollowsCalendar == SeriesSpec => []FollowsCalendar
<1>1. SeriesInv => FollowsCalendar
  BY DEF SeriesInv, DatesOK, FollowsCalendar, Covered, Settled
<1>. QED  BY <1>1, SeriesInvariantHolds, PTL

\* A date gets one session as long as no run died or overlapped with another
\* (session_generator_service.go:250-265).
THEOREM DatesAreNotRepeated == SeriesSpec => []OneSessionPerDate
<1>1. SeriesInv => OneSessionPerDate
  BY DEF SeriesInv
<1>. QED  BY <1>1, SeriesInvariantHolds, PTL

\* Rows and runs stay well formed and a session ends once, whoever ends it
\* (session_service.go:893-902).
THEOREM SessionsEndOnce == SeriesSpec => []SessionsOK
<1>1. SeriesInv => EndsOnce
  BY DEF SeriesInv, RowsOK, RowOK, EndsOnce
<1>2. SeriesInv => SeriesTypeOK
  <2> SUFFICES ASSUME SeriesInv PROVE SeriesTypeOK
    OBVIOUS
  <2>1. SeriesShape
    BY DEF SeriesInv
  <2>2. ASSUME NEW c \in Crons
        PROVE  /\ cron[c].step \in {"idle", "due", "loop", "watermark"}
               /\ cron[c].rule \in Rules \cup {NoRule}
               /\ cron[c].made \in 0 .. MaxSessions
               /\ {cron[c].from, cron[c].current, cron[c].until} \subseteq {Null} \cup Nat
    <3>1. cron[c] \in CronRows /\ cron[c].made <= Len(sessions) /\ Len(sessions) <= MaxSessions
      BY <2>1 DEF SeriesShape
    <3>2. Len(sessions) \in Nat /\ MaxSessions \in Nat
      BY <2>1, SeriesAssumption DEF SeriesShape
    <3>. QED  BY <3>1, <3>2 DEF CronRows, Times
  <2>3. \A e \in Editors : editing[e].group \in GroupRows /\ editing[e].template \in TemplateRows
    BY <2>1 DEF SeriesShape, EditRows
  <2>. QED  BY <2>1, <2>2, <2>3 DEF SeriesShape, SeriesTypeOK, Times
<1>. QED  BY <1>1, <1>2, SeriesInvariantHolds, PTL DEF SessionsOK

\* A deleted group takes its sessions with it, each ended first
\* (session_service.go:1048-1169).
THEOREM DeletedGroupsTakeSessions == SeriesSpec => []GroupTakesSessions
<1>1. SeriesInv => GroupTakesSessions
  BY DEF SeriesInv, RowsOK, RowOK, GroupTakesSessions
<1>. QED  BY <1>1, SeriesInvariantHolds, PTL
=============================================================================
