---------------------------- MODULE SessionProofs ----------------------------
(***************************************************************************)
(* Proofs about one session, for any users, capacities, requests, invites  *)
(* and deletions: its attendance (SessionAttendance), and invites on top   *)
(* of it (SessionInvites), whose steps are steps of attendance.            *)
(***************************************************************************)
EXTENDS SessionInvites, FiniteSetTheorems, TLAPS

-----------------------------------------------------------------------------
(***************************************************************************)
(* Lemmas about the helpers.                                               *)
(***************************************************************************)

\* promoteNextPending changes nothing, or gives one waiting user a spot who is
\* ahead of everybody else waiting.
LEMMA PromotionsShape ==
  ASSUME NEW r \in [Users -> Statuses], NEW q \in Promotions(r)
  PROVE  /\ q \in [Users -> Statuses]
         /\ \/ q = r /\ Waiting(r, source) = {}
            \/ \E w \in Waiting(r, source) :
                 /\ q = [r EXCEPT ![w] = "promoted"]
                 /\ \A y \in Waiting(r, source) \ {w} : <<w, y>> \in earlier
<1>1. CASE Waiting(r, source) = {}
  BY <1>1 DEF Promotions
<1>2. CASE Waiting(r, source) # {}
  <2>1. PICK w \in Waiting(r, source) :
          /\ \A y \in Waiting(r, source) \ {w} : <<w, y>> \in earlier
          /\ q = [r EXCEPT ![w] = "promoted"]
    BY <1>2 DEF Promotions
  <2>2. q \in [Users -> Statuses]
    BY <2>1 DEF Statuses
  <2>. QED  BY <2>1, <2>2
<1>. QED  BY <1>1, <1>2

\* The people holding a spot can be counted.
LEMMA ConfirmedFinite ==
  ASSUME NEW r
  PROVE  IsFiniteSet(Confirmed(r)) /\ Cardinality(Confirmed(r)) \in Nat
<1>1. Confirmed(r) \subseteq Users
  BY DEF Confirmed
<1>. QED  BY <1>1, UsersAssumption, FS_Subset, FS_CardinalityType

-----------------------------------------------------------------------------
(***************************************************************************)
(* Type correctness.                                                       *)
(***************************************************************************)

\* The waitlist moving up and team formation restarting keep the types.
LEMMA AfterLeavingType ==
  ASSUME TypeOK, NEW r \in [Users -> Statuses], AfterLeaving(r)
  PROVE  rsvp' \in [Users -> Statuses] /\ formed' \in BOOLEAN
<1>1. rsvp' \in [Users -> Statuses]
  BY PromotionsShape DEF AfterLeaving
<1>2. formed' \in BOOLEAN
  BY DEF AfterLeaving, TypeOK
<1>. QED  BY <1>1, <1>2

\* A row that is given up takes its source and its place in the queue along.
LEMMA GivesUpRowType ==
  ASSUME TypeOK, NEW u \in Users, GivesUpRow(u)
  PROVE  /\ rsvp' \in [Users -> Statuses]
         /\ source' \in [Users -> Sources]
         /\ earlier' \subseteq Users \X Users
         /\ reviewing' \subseteq Users
         /\ formed' \in BOOLEAN
<1>1. [rsvp EXCEPT ![u] = "none"] \in [Users -> Statuses]
  BY DEF TypeOK, Statuses
<1>2. rsvp' \in [Users -> Statuses] /\ formed' \in BOOLEAN
  <2>1. CASE rsvp[u] \in SpotStatuses
    BY <1>1, <2>1, AfterLeavingType DEF GivesUpRow
  <2>2. CASE rsvp[u] \notin SpotStatuses
    BY <1>1, <2>2 DEF GivesUpRow, TypeOK
  <2>. QED  BY <2>1, <2>2
<1>3. /\ source' \in [Users -> Sources]
      /\ earlier' \subseteq Users \X Users
      /\ reviewing' \subseteq Users
  BY DEF GivesUpRow, DeleteAttendee, TypeOK, Sources
<1>. QED  BY <1>2, <1>3

\* An answer is granted as it is or as a place on the waitlist.
LEMMA GrantedType ==
  ASSUME NEW st \in {"going", "not_going", "maybe"}
  PROVE  Granted(st) \in {"going", "not_going", "maybe", "pending"}
BY DEF Granted

\* A new row has a status and a source.
LEMMA CreateAttendeeType ==
  ASSUME TypeOK, NEW u \in Users, NEW st \in Statuses, NEW src \in Sources,
         CreateAttendee(u, st, src)
  PROVE  /\ rsvp' \in [Users -> Statuses]
         /\ source' \in [Users -> Sources]
         /\ earlier' \subseteq Users \X Users
         /\ reviewing' \subseteq Users
<1>1. {<<v, u>> : v \in {x \in Users : rsvp[x] # "none"}} \subseteq Users \X Users
  OBVIOUS
<1>. QED  BY <1>1 DEF CreateAttendee, TypeOK

LEMMA TypeKept == TypeOK /\ [Next]_vars => TypeOK'
<1> SUFFICES ASSUME TypeOK, [Next]_vars
             PROVE  TypeOK'
  OBVIOUS
<1>1. ASSUME NEW u \in Users, NEW st \in {"going", "not_going", "maybe"},
             CreateRSVP(u, st)
      PROVE  TypeOK'
  <2>1. PICK s \in Statuses, src \in Sources : CreateAttendee(u, s, src)
    BY <1>1, GrantedType DEF CreateRSVP, Statuses, Sources
  <2>. QED  BY <1>1, <2>1, CreateAttendeeType DEF CreateRSVP, TypeOK, session
<1>2. ASSUME NEW u \in Users, NEW st \in {"going", "not_going", "maybe"},
             UpdateRSVP(u, st)
      PROVE  TypeOK'
  <2>1. [rsvp EXCEPT ![u] = Granted(st)] \in [Users -> Statuses]
    BY GrantedType DEF TypeOK, Statuses
  <2>2. rsvp' \in [Users -> Statuses] /\ formed' \in BOOLEAN
    BY <1>2, <2>1, AfterLeavingType DEF UpdateRSVP, TypeOK
  <2>. QED  BY <1>2, <2>2 DEF UpdateRSVP, TypeOK, session
<1>3. ASSUME NEW u \in Users, AcceptInvite(u)
      PROVE  TypeOK'
  <2>1. PICK s \in Statuses, src \in Sources : CreateAttendee(u, s, src)
    BY <1>3, GrantedType DEF AcceptInvite, Statuses, Sources
  <2>. QED  BY <1>3, <2>1, CreateAttendeeType DEF AcceptInvite, TypeOK, session
<1>4. ASSUME NEW u \in Users, CancelRSVP(u) \/ RemoveAttendee(u)
      PROVE  TypeOK'
  BY <1>4, GivesUpRowType DEF CancelRSVP, RemoveAttendee, TypeOK, session
<1>5. ASSUME NEW u \in Users,
             ApproveAttendee(u) \/ RejectAttendeeRead(u) \/ RejectAttendeeWrite(u)
      PROVE  TypeOK'
  BY <1>5 DEF ApproveAttendee, RejectAttendeeRead, RejectAttendeeWrite,
              TypeOK, Statuses, session
<1>6. ASSUME NEW cap \in Capacities, NEW pub \in BOOLEAN, UpdateSession(cap, pub)
      PROVE  TypeOK'
  BY <1>6 DEF UpdateSession, TypeOK, rows
<1>7. ASSUME NEW pub \in BOOLEAN, SetSessionVisibility(pub)
      PROVE  TypeOK'
  BY <1>7 DEF SetSessionVisibility, TypeOK, rows
<1>8. CASE StartSession \/ CompleteSession \/ CancelSession
  BY <1>8 DEF StartSession, CompleteSession, CancelSession, EndsFormation,
              TypeOK, SessionStatuses, rows
<1>9. CASE ChangeFormation
  BY <1>9 DEF ChangeFormation, TypeOK, session, rows
<1>10. CASE UNCHANGED vars
  BY <1>10 DEF vars, TypeOK
<1>. QED
  BY <1>1, <1>2, <1>3, <1>4, <1>5, <1>6, <1>7, <1>8, <1>9, <1>10 DEF Next

\* Every variable keeps its type, for any users and any capacities.
THEOREM TypeCorrect == Spec => []TypeOK
<1>1. Init => TypeOK
  BY UsersAssumption DEF Init, TypeOK, SessionStatuses, Statuses, Sources
<1>. QED  BY <1>1, TypeKept, PTL DEF Spec

-----------------------------------------------------------------------------
(***************************************************************************)
(* The inductive invariant.  PromotedFromWaitlist is not inductive on      *)
(* rows of unknown shape: QueueOK keeps them apart.                        *)
(***************************************************************************)

IInv == TypeOK /\ QueueOK /\ PromotedFromWaitlist

\* A promotion keeps every row, and promotes only from the waitlist.
LEMMA PromotionsKeepRows ==
  ASSUME NEW r \in [Users -> Statuses], NEW q \in Promotions(r), NEW v \in Users
  PROVE  /\ q[v] = "none" <=> r[v] = "none"
         /\ q[v] = "promoted" => r[v] = "promoted" \/ v \in Waiting(r, source)
         /\ q[v] # r[v] => q[v] = "promoted"
<1>1. CASE q = r
  BY <1>1
<1>2. ASSUME NEW w \in Waiting(r, source), q = [r EXCEPT ![w] = "promoted"]
      PROVE  /\ q[v] = "none" <=> r[v] = "none"
             /\ q[v] = "promoted" => r[v] = "promoted" \/ v \in Waiting(r, source)
             /\ q[v] # r[v] => q[v] = "promoted"
  BY <1>2 DEF Waiting
<1>. QED  BY <1>1, <1>2, PromotionsShape

\* Statuses change, rows stay.
LEMMA RowsStay ==
  ASSUME TypeOK, QueueOK, rsvp' \in [Users -> Statuses],
         \A v \in Users : rsvp'[v] = "none" <=> rsvp[v] = "none",
         UNCHANGED <<source, earlier>>,
         reviewing' \subseteq {v \in Live : source[v] = "requested"}
  PROVE  QueueOK'
<1>1. Live' = Live
  BY DEF Live
<1>. QED  BY <1>1 DEF QueueOK

\* A row is created at the end of the queue.
LEMMA RowCreated ==
  ASSUME TypeOK, QueueOK, NEW u \in Users, rsvp[u] = "none",
         NEW st \in Statuses \ {"none"}, NEW src \in Sources \ {"none"},
         CreateAttendee(u, st, src)
  PROVE  QueueOK'
<1>1. Live' = Live \cup {u} /\ u \notin Live
  BY DEF Live, CreateAttendee, TypeOK
<1>2. earlier' = earlier \cup (Live \X {u})
  BY DEF Live, CreateAttendee
<1>3. \A v \in Users : rsvp'[v] = "none" <=> source'[v] = "none"
  BY DEF CreateAttendee, TypeOK, QueueOK
<1>4. earlier' \subseteq Live' \X Live'
  BY <1>1, <1>2 DEF QueueOK
<1>5. \A v, w \in Live' : v # w => (<<v, w>> \in earlier' <=> <<w, v>> \notin earlier')
  BY <1>1, <1>2 DEF QueueOK
<1>6. \A v \in Live' : <<v, v>> \notin earlier'
  BY <1>1, <1>2 DEF QueueOK
<1>7. reviewing' \subseteq {v \in Live' : source'[v] = "requested"}
  BY <1>1 DEF CreateAttendee, TypeOK, QueueOK, Live
<1>. QED  BY <1>3, <1>4, <1>5, <1>6, <1>7 DEF QueueOK

\* A row is deleted, from wherever it was in the queue.
LEMMA RowDeleted ==
  ASSUME TypeOK, QueueOK, NEW u \in Users, DeleteAttendee(u),
         rsvp' \in [Users -> Statuses], rsvp'[u] = "none",
         \A v \in Users \ {u} : rsvp'[v] = "none" <=> rsvp[v] = "none"
  PROVE  QueueOK'
<1>1. Live' = Live \ {u}
  BY DEF Live
<1>3. \A v \in Users : rsvp'[v] = "none" <=> source'[v] = "none"
  BY DEF DeleteAttendee, TypeOK, QueueOK
<1>4. earlier' \subseteq Live' \X Live'
  BY <1>1 DEF QueueOK, DeleteAttendee
<1>5. \A v, w \in Live' : v # w => (<<v, w>> \in earlier' <=> <<w, v>> \notin earlier')
  BY <1>1 DEF QueueOK, DeleteAttendee
<1>6. \A v \in Live' : <<v, v>> \notin earlier'
  BY <1>1 DEF QueueOK, DeleteAttendee
<1>7. reviewing' \subseteq {v \in Live' : source'[v] = "requested"}
  BY <1>1 DEF DeleteAttendee, TypeOK, QueueOK, Live
<1>. QED  BY <1>3, <1>4, <1>5, <1>6, <1>7 DEF QueueOK

\* What a leaver's row and the promotion behind it do to the invariant.
LEMMA GivesUpRowKeeps ==
  ASSUME IInv, NEW u \in Users, GivesUpRow(u)
  PROVE  QueueOK' /\ PromotedFromWaitlist'
<1> DEFINE r == [rsvp EXCEPT ![u] = "none"]
<1>. USE DEF IInv
<1>1. r \in [Users -> Statuses]
  BY DEF TypeOK, Statuses
<1>2. rsvp' = r \/ rsvp' \in Promotions(r)
  BY DEF GivesUpRow, AfterLeaving
<1>3. DeleteAttendee(u)
  BY DEF GivesUpRow
<1>4. rsvp' \in [Users -> Statuses]
  BY GivesUpRowType
<1>5. \A v \in Users : /\ rsvp'[v] = "none" <=> r[v] = "none"
                       /\ rsvp'[v] = "promoted" => r[v] = "promoted" \/ v \in Waiting(r, source)
  BY <1>1, <1>2, PromotionsKeepRows
<1>6. \A v \in Users : r[v] = IF v = u THEN "none" ELSE rsvp[v]
  BY DEF TypeOK
<1>7. QueueOK'
  <2>1. /\ rsvp'[u] = "none"
        /\ \A v \in Users \ {u} : rsvp'[v] = "none" <=> rsvp[v] = "none"
    BY <1>5, <1>6
  <2>. QED  BY <2>1, <1>3, <1>4, RowDeleted
<1>8. PromotedFromWaitlist'
  <2> SUFFICES ASSUME NEW v \in Users, rsvp'[v] = "promoted"
               PROVE  source'[v] # "requested"
    BY DEF PromotedFromWaitlist
  <2>1. v # u
    BY <1>5, <1>6 DEF Waiting
  <2>2. source[v] # "requested"
    BY <1>5, <1>6, <2>1 DEF PromotedFromWaitlist, Waiting
  <2>. QED  BY <1>3, <2>1, <2>2 DEF DeleteAttendee, TypeOK
<1>. QED  BY <1>7, <1>8

\* A new row is never born promoted.
LEMMA CreateAttendeeKeeps ==
  ASSUME IInv, NEW u \in Users, rsvp[u] = "none",
         NEW st \in Statuses \ {"none", "promoted"}, NEW src \in Sources \ {"none"},
         CreateAttendee(u, st, src)
  PROVE  QueueOK' /\ PromotedFromWaitlist'
<1>1. QueueOK'
  BY RowCreated DEF IInv
<1>2. PromotedFromWaitlist'
  BY DEF IInv, PromotedFromWaitlist, CreateAttendee, TypeOK
<1>. QED  BY <1>1, <1>2

\* Saying something else keeps the row and its place in the queue.
LEMMA UpdateRSVPKeeps ==
  ASSUME IInv, NEW u \in Users, NEW st \in {"going", "not_going", "maybe"},
         UpdateRSVP(u, st)
  PROVE  QueueOK' /\ PromotedFromWaitlist'
<1> DEFINE r == [rsvp EXCEPT ![u] = Granted(st)]
<1>. USE DEF IInv
<1>1. r \in [Users -> Statuses]
  BY GrantedType DEF TypeOK, Statuses
<1>2. /\ rsvp' \in [Users -> Statuses]
      /\ \A v \in Users : /\ rsvp'[v] = "none" <=> r[v] = "none"
                          /\ rsvp'[v] = "promoted" => r[v] = "promoted" \/ v \in Waiting(r, source)
  <2>1. rsvp' = r \/ rsvp' \in Promotions(r)
    BY DEF UpdateRSVP, AfterLeaving
  <2>. QED  BY <1>1, <2>1, PromotionsKeepRows, PromotionsShape
<1>3. \A v \in Users : r[v] = IF v = u THEN Granted(st) ELSE rsvp[v]
  BY DEF TypeOK
<1>4. UNCHANGED <<source, earlier, reviewing>> /\ rsvp[u] # "none"
  BY DEF UpdateRSVP
<1>5. QueueOK'
  BY <1>2, <1>3, <1>4, GrantedType, RowsStay DEF QueueOK
<1>6. PromotedFromWaitlist'
  BY <1>2, <1>3, <1>4, GrantedType DEF PromotedFromWaitlist, Waiting
<1>. QED  BY <1>5, <1>6

LEMMA InvariantKept == IInv /\ [Next]_vars => IInv'
<1> SUFFICES ASSUME IInv, [Next]_vars, TypeOK'
             PROVE  QueueOK' /\ PromotedFromWaitlist'
  BY TypeKept DEF IInv
<1>. USE DEF IInv
<1>1. ASSUME NEW u \in Users, NEW st \in {"going", "not_going", "maybe"},
             CreateRSVP(u, st)
      PROVE  QueueOK' /\ PromotedFromWaitlist'
  <2>1. PICK s \in Statuses \ {"none", "promoted"}, src \in Sources \ {"none"} :
          CreateAttendee(u, s, src)
    BY <1>1, GrantedType DEF CreateRSVP, Statuses, Sources
  <2>. QED  BY <1>1, <2>1, CreateAttendeeKeeps DEF CreateRSVP
<1>2. ASSUME NEW u \in Users, NEW st \in {"going", "not_going", "maybe"},
             UpdateRSVP(u, st)
      PROVE  QueueOK' /\ PromotedFromWaitlist'
  BY <1>2, UpdateRSVPKeeps
<1>3. ASSUME NEW u \in Users, AcceptInvite(u)
      PROVE  QueueOK' /\ PromotedFromWaitlist'
  <2>1. PICK s \in Statuses \ {"none", "promoted"}, src \in Sources \ {"none"} :
          CreateAttendee(u, s, src)
    BY <1>3, GrantedType DEF AcceptInvite, Statuses, Sources
  <2>. QED  BY <1>3, <2>1, CreateAttendeeKeeps DEF AcceptInvite
<1>4. ASSUME NEW u \in Users, CancelRSVP(u) \/ RemoveAttendee(u)
      PROVE  QueueOK' /\ PromotedFromWaitlist'
  BY <1>4, GivesUpRowKeeps DEF CancelRSVP, RemoveAttendee
<1>5. ASSUME NEW u \in Users,
             ApproveAttendee(u) \/ RejectAttendeeRead(u) \/ RejectAttendeeWrite(u)
      PROVE  QueueOK' /\ PromotedFromWaitlist'
  <2>1. /\ UNCHANGED <<source, earlier>>
        /\ \A v \in Users : rsvp'[v] = "none" <=> rsvp[v] = "none"
        /\ \A v \in Users : rsvp'[v] = "promoted" => rsvp[v] = "promoted"
        /\ reviewing' \subseteq {v \in Live : source[v] = "requested"}
    BY <1>5 DEF ApproveAttendee, RejectAttendeeRead, RejectAttendeeWrite,
                AwaitingApproval, TypeOK, QueueOK, Live
  <2>2. QueueOK'
    BY <2>1, RowsStay DEF TypeOK
  <2>. QED  BY <2>1, <2>2 DEF PromotedFromWaitlist
<1>6. ASSUME UNCHANGED rows
      PROVE  QueueOK' /\ PromotedFromWaitlist'
  <2>1. UNCHANGED <<rsvp, source, earlier, reviewing>>
    BY <1>6 DEF rows
  <2>. QED  BY <2>1 DEF QueueOK, PromotedFromWaitlist, Live
<1>7. ASSUME NEW cap \in Capacities, NEW pub \in BOOLEAN, UpdateSession(cap, pub)
      PROVE  QueueOK' /\ PromotedFromWaitlist'
  BY <1>6, <1>7 DEF UpdateSession
<1>8. ASSUME NEW pub \in BOOLEAN, SetSessionVisibility(pub)
      PROVE  QueueOK' /\ PromotedFromWaitlist'
  BY <1>6, <1>8 DEF SetSessionVisibility
<1>9. CASE StartSession \/ CompleteSession \/ CancelSession
  BY <1>6, <1>9 DEF StartSession, CompleteSession, CancelSession
<1>10. CASE ChangeFormation \/ UNCHANGED vars
  BY <1>6, <1>10 DEF ChangeFormation, vars, rows
<1>. QED
  BY <1>1, <1>2, <1>3, <1>4, <1>5, <1>7, <1>8, <1>9, <1>10 DEF Next

LEMMA InvariantAtStart == Init => IInv
<1> SUFFICES ASSUME Init PROVE IInv
  OBVIOUS
<1>1. TypeOK
  BY UsersAssumption DEF Init, TypeOK, SessionStatuses, Statuses, Sources
<1>2. Live \subseteq {Creator}
  BY DEF Init, Live
<1>3. QueueOK
  BY <1>2, UsersAssumption DEF Init, QueueOK, Live
<1>4. PromotedFromWaitlist
  BY DEF Init, PromotedFromWaitlist
<1>. QED  BY <1>1, <1>3, <1>4 DEF IInv

\* The invariant holds in every reachable state.
THEOREM InvariantHolds == Spec => []IInv
BY InvariantAtStart, InvariantKept, PTL DEF Spec

\* The live rows stay a queue, rejections under way stay on join requests
\* (DeleteAttendee and CreateAttendee are the only ones to move rows), and
\* promoteNextPending never gives a spot to somebody awaiting a decision,
\* because no row ever changes its source.
THEOREM RowsStayOK == Spec => []RowsOK
<1>1. IInv => RowsOK
  BY DEF IInv, RowsOK
<1>. QED  BY <1>1, InvariantHolds, PTL

-----------------------------------------------------------------------------
(***************************************************************************)
(* Counting the spots.                                                     *)
(***************************************************************************)

\* A promotion adds exactly the promoted user to the confirmed ones, and
\* happens whenever somebody waits.
LEMMA PromotionAddsOne ==
  ASSUME NEW r \in [Users -> Statuses], NEW q \in Promotions(r)
  PROVE  /\ Waiting(q, source) \subseteq Waiting(r, source)
         /\ \/ Waiting(r, source) = {} /\ Confirmed(q) = Confirmed(r)
            \/ \E w \in Users \ Confirmed(r) : Confirmed(q) = Confirmed(r) \cup {w}
<1>1. CASE q = r /\ Waiting(r, source) = {}
  BY <1>1
<1>2. ASSUME NEW w \in Waiting(r, source), q = [r EXCEPT ![w] = "promoted"]
      PROVE  /\ Waiting(q, source) \subseteq Waiting(r, source)
             /\ w \in Users \ Confirmed(r)
             /\ Confirmed(q) = Confirmed(r) \cup {w}
  BY <1>2 DEF Waiting, Confirmed, SpotStatuses
<1>. QED  BY <1>1, <1>2, PromotionsShape

\* A spot that changes hands: u leaves it, and the waitlist moves up.
LEMMA SpotChangesHands ==
  ASSUME NEW u \in Confirmed(rsvp), NEW r \in [Users -> Statuses],
         Confirmed(r) = Confirmed(rsvp) \ {u}, NEW q \in Promotions(r)
  PROVE  /\ Cardinality(Confirmed(q)) <= Cardinality(Confirmed(rsvp))
         /\ \/ Cardinality(Confirmed(q)) = Cardinality(Confirmed(rsvp))
            \/ Waiting(r, source) = {}
<1>3. /\ IsFiniteSet(Confirmed(rsvp))
      /\ IsFiniteSet(Confirmed(r))
      /\ Cardinality(Confirmed(rsvp)) \in Nat
  BY ConfirmedFinite
<1>4. Cardinality(Confirmed(r)) = Cardinality(Confirmed(rsvp)) - 1
  BY <1>3, FS_RemoveElement
<1>5. CASE Waiting(r, source) = {} /\ Confirmed(q) = Confirmed(r)
  BY <1>3, <1>4, <1>5
<1>6. ASSUME NEW w \in Users \ Confirmed(r), Confirmed(q) = Confirmed(r) \cup {w}
      PROVE  Cardinality(Confirmed(q)) = Cardinality(Confirmed(rsvp))
  <2>1. Cardinality(Confirmed(r) \cup {w}) = Cardinality(Confirmed(r)) + 1
    BY <1>3, <1>6, FS_AddElement
  <2>. QED  BY <1>3, <1>4, <1>6, <2>1
<1>7. \/ Waiting(r, source) = {} /\ Confirmed(q) = Confirmed(r)
      \/ \E w \in Users \ Confirmed(r) : Confirmed(q) = Confirmed(r) \cup {w}
  BY PromotionAddsOne
<1>. QED  BY <1>3, <1>5, <1>6, <1>7

\* Somebody joins while there is capacity, at most one.
LEMMA JoinFits ==
  ASSUME TypeOK, NEW u \in Users, HasCapacity, UNCHANGED capacity,
         Confirmed(rsvp') \subseteq Confirmed(rsvp) \cup {u}
  PROVE  ~Overbooked'
<1>1. /\ IsFiniteSet(Confirmed(rsvp))
      /\ Cardinality(Confirmed(rsvp)) \in Nat
      /\ Cardinality(Confirmed(rsvp')) \in Nat
  BY ConfirmedFinite
<1>2. /\ IsFiniteSet(Confirmed(rsvp) \cup {u})
      /\ Cardinality(Confirmed(rsvp) \cup {u}) <= Cardinality(Confirmed(rsvp)) + 1
  BY <1>1, FS_AddElement
<1>3. Cardinality(Confirmed(rsvp')) <= Cardinality(Confirmed(rsvp) \cup {u})
  BY <1>2, FS_Subset
<1>4. Cardinality(Confirmed(rsvp) \cup {u}) \in Nat
  BY <1>2, FS_CardinalityType
<1>5. capacity \in Nat
  BY CapacitiesAssumption DEF TypeOK
<1>. QED  BY <1>1, <1>2, <1>3, <1>4, <1>5 DEF HasCapacity, Overbooked

\* Not more people hold a spot than before.
LEMMA NobodyJoins ==
  ASSUME TypeOK, UNCHANGED capacity,
         Cardinality(Confirmed(rsvp')) <= Cardinality(Confirmed(rsvp))
  PROVE  Overbooked' => Overbooked
<1>1. /\ Cardinality(Confirmed(rsvp)) \in Nat
      /\ Cardinality(Confirmed(rsvp')) \in Nat
      /\ capacity \in Nat
  BY ConfirmedFinite, CapacitiesAssumption DEF TypeOK
<1>. QED  BY <1>1 DEF Overbooked

\* One status is written, a spot only while there is capacity.
LEMMA AnswerFits ==
  ASSUME TypeOK, NEW u \in Users, NEW s \in Statuses, UNCHANGED capacity,
         rsvp' = [rsvp EXCEPT ![u] = s],
         s \in SpotStatuses => HasCapacity \/ rsvp[u] \in SpotStatuses
  PROVE  Overbooked' => Overbooked
<1>1. CASE s \in SpotStatuses /\ rsvp[u] \notin SpotStatuses
  <2>1. Confirmed(rsvp') \subseteq Confirmed(rsvp) \cup {u}
    BY DEF Confirmed, TypeOK
  <2>. QED  BY <1>1, <2>1, JoinFits
<1>2. CASE s \notin SpotStatuses \/ rsvp[u] \in SpotStatuses
  <2>1. Confirmed(rsvp') \subseteq Confirmed(rsvp)
    BY <1>2 DEF Confirmed, TypeOK
  <2>2. Cardinality(Confirmed(rsvp')) <= Cardinality(Confirmed(rsvp))
    BY <2>1, ConfirmedFinite, FS_Subset
  <2>. QED  BY <2>2, NobodyJoins
<1>. QED  BY <1>1, <1>2

\* u leaves a spot, and the waitlist moves up behind them.
LEMMA LeavingASpot ==
  ASSUME TypeOK, NEW u \in Users, rsvp[u] \in SpotStatuses,
         NEW s \in Statuses \ SpotStatuses,
         AfterLeaving([rsvp EXCEPT ![u] = s])
  PROVE  /\ Cardinality(Confirmed(rsvp')) <= Cardinality(Confirmed(rsvp))
         /\ \/ Cardinality(Confirmed(rsvp')) = Cardinality(Confirmed(rsvp))
            \/ Waiting([rsvp EXCEPT ![u] = s], source) = {}
<1> DEFINE r == [rsvp EXCEPT ![u] = s]
<1>1. r \in [Users -> Statuses] /\ rsvp' \in Promotions(r)
  BY DEF TypeOK, AfterLeaving
<1>2. u \in Confirmed(rsvp) /\ Confirmed(r) = Confirmed(rsvp) \ {u}
  BY DEF Confirmed, TypeOK
<1>. HIDE DEF r
<1>3. /\ Cardinality(Confirmed(rsvp')) <= Cardinality(Confirmed(rsvp))
      /\ \/ Cardinality(Confirmed(rsvp')) = Cardinality(Confirmed(rsvp))
         \/ Waiting(r, source) = {}
  BY <1>1, <1>2, SpotChangesHands
<1>. QED  BY <1>3 DEF r

\* A spot is granted only while there is capacity.
LEMMA GrantedSpot ==
  ASSUME NEW st \in {"going", "not_going", "maybe"}, Granted(st) \in SpotStatuses
  PROVE  HasCapacity
BY DEF Granted, SpotStatuses

\* No interleaving of RSVPs, invites, approvals, rejections and promotions
\* overbooks a session: promoteNextPending may ignore the capacity because it
\* only ever hands on the spot just given up, under the session's lock.
THEOREM OnlyCapacityCutOverbooks == Spec => OverbookedOnlyByCapacityCut
<1>1. TypeOK /\ [Next]_vars => [Overbooked' => Overbooked \/ capacity' # capacity]_vars
  <2> SUFFICES ASSUME TypeOK, [Next]_vars, UNCHANGED capacity
               PROVE  Overbooked' => Overbooked
    OBVIOUS
  <2>1. ASSUME NEW u \in Users, NEW st \in {"going", "not_going", "maybe"},
               CreateRSVP(u, st)
        PROVE  Overbooked' => Overbooked
    <3>1. PICK s \in Statuses : /\ rsvp' = [rsvp EXCEPT ![u] = s]
                                /\ s \in SpotStatuses => HasCapacity
      BY <2>1, GrantedType, GrantedSpot
         DEF CreateRSVP, CreateAttendee, Statuses, SpotStatuses
    <3>. QED  BY <3>1, AnswerFits
  <2>2. ASSUME NEW u \in Users, NEW st \in {"going", "not_going", "maybe"},
               UpdateRSVP(u, st)
        PROVE  Overbooked' => Overbooked
    <3>1. Granted(st) \in Statuses
      BY GrantedType DEF Statuses
    <3>2. CASE rsvp[u] \in SpotStatuses /\ Granted(st) \notin SpotStatuses
      BY <2>2, <3>1, <3>2, LeavingASpot, NobodyJoins DEF UpdateRSVP
    <3>3. CASE ~(rsvp[u] \in SpotStatuses /\ Granted(st) \notin SpotStatuses)
      BY <2>2, <3>1, <3>3, GrantedSpot, AnswerFits DEF UpdateRSVP
    <3>. QED  BY <3>2, <3>3
  <2>3. ASSUME NEW u \in Users, AcceptInvite(u)
        PROVE  Overbooked' => Overbooked
    <3>1. PICK s \in Statuses : /\ rsvp' = [rsvp EXCEPT ![u] = s]
                                /\ s \in SpotStatuses => HasCapacity
      BY <2>3, GrantedType, GrantedSpot DEF AcceptInvite, CreateAttendee, Statuses
    <3>. QED  BY <3>1, AnswerFits
  <2>4. ASSUME NEW u \in Users, CancelRSVP(u) \/ RemoveAttendee(u)
        PROVE  Overbooked' => Overbooked
    <3>1. "none" \in Statuses \ SpotStatuses
      BY DEF Statuses, SpotStatuses
    <3>2. CASE rsvp[u] \in SpotStatuses
      BY <2>4, <3>1, <3>2, LeavingASpot, NobodyJoins
         DEF CancelRSVP, RemoveAttendee, GivesUpRow
    <3>3. CASE rsvp[u] \notin SpotStatuses
      BY <2>4, <3>1, <3>3, AnswerFits DEF CancelRSVP, RemoveAttendee, GivesUpRow
    <3>. QED  BY <3>2, <3>3
  <2>5. ASSUME NEW u \in Users, ApproveAttendee(u) \/ RejectAttendeeWrite(u)
        PROVE  Overbooked' => Overbooked
    <3>1. PICK s \in Statuses : /\ rsvp' = [rsvp EXCEPT ![u] = s]
                                /\ s \in SpotStatuses => HasCapacity
      BY <2>5 DEF ApproveAttendee, RejectAttendeeWrite, Statuses, SpotStatuses
    <3>. QED  BY <3>1, AnswerFits
  <2>6. ASSUME UNCHANGED rsvp
        PROVE  Overbooked' => Overbooked
    BY <2>6 DEF Overbooked, Confirmed
  <2>7. ASSUME NEW u \in Users, RejectAttendeeRead(u)
        PROVE  Overbooked' => Overbooked
    BY <2>6, <2>7 DEF RejectAttendeeRead
  <2>8. ASSUME NEW cap \in Capacities, NEW pub \in BOOLEAN, UpdateSession(cap, pub)
        PROVE  Overbooked' => Overbooked
    BY <2>6, <2>8 DEF UpdateSession, rows
  <2>9. ASSUME NEW pub \in BOOLEAN, SetSessionVisibility(pub)
        PROVE  Overbooked' => Overbooked
    BY <2>6, <2>9 DEF SetSessionVisibility, rows
  <2>10. CASE StartSession \/ CompleteSession \/ CancelSession \/ ChangeFormation
    BY <2>6, <2>10 DEF StartSession, CompleteSession, CancelSession, ChangeFormation, rows
  <2>11. CASE UNCHANGED vars
    BY <2>6, <2>11 DEF vars
  <2>. QED
    BY <2>1, <2>2, <2>3, <2>4, <2>5, <2>7, <2>8, <2>9, <2>10, <2>11 DEF Next
<1>. QED  BY <1>1, TypeCorrect, PTL DEF Spec, OverbookedOnlyByCapacityCut

-----------------------------------------------------------------------------
(***************************************************************************)
(* Who moves up, and what leaving does to team formation.                  *)
(***************************************************************************)

\* Statuses written one at a time promote nobody.
LEMMA AnswerPromotesNobody ==
  ASSUME TypeOK, NEW u \in Users, NEW s \in Statuses \ {"promoted"},
         rsvp' = [rsvp EXCEPT ![u] = s]
  PROVE  \A w \in Users : ~BecomesPromoted(w)
BY DEF BecomesPromoted, TypeOK

\* Behind a leaver, the promoted user is ahead of everybody still waiting.
LEMMA PromotionBehindLeaver ==
  ASSUME TypeOK, NEW u \in Users, NEW s \in Statuses \ {"promoted"},
         AfterLeaving([rsvp EXCEPT ![u] = s]),
         NEW w \in Users, BecomesPromoted(w)
  PROVE  /\ w \in Waiting([rsvp EXCEPT ![u] = s], source)
         /\ \A v \in Users : rsvp'[v] = "pending" /\ source[v] # "requested"
                               => <<w, v>> \in earlier /\ v # w
<1> DEFINE r == [rsvp EXCEPT ![u] = s]
<1>1. r \in [Users -> Statuses] /\ rsvp' \in Promotions(r)
  BY DEF AfterLeaving, TypeOK
<1>2. \A v \in Users : r[v] = IF v = u THEN s ELSE rsvp[v]
  BY DEF TypeOK
<1>3. r[w] # "promoted" /\ rsvp'[w] = "promoted"
  BY <1>2 DEF BecomesPromoted
<1>. HIDE DEF r
<1>4. PICK x \in Waiting(r, source) :
        /\ rsvp' = [r EXCEPT ![x] = "promoted"]
        /\ \A y \in Waiting(r, source) \ {x} : <<x, y>> \in earlier
  BY <1>1, <1>3, PromotionsShape
<1>5. x = w
  BY <1>1, <1>3, <1>4
<1>6. \A v \in Users : rsvp'[v] = "pending" => v # w /\ r[v] = "pending"
  BY <1>1, <1>3, <1>4, <1>5
<1>7. w \in Waiting(r, source)
  BY <1>4, <1>5
<1>8. \A v \in Users : rsvp'[v] = "pending" /\ source[v] # "requested"
                         => <<w, v>> \in earlier /\ v # w
  BY <1>4, <1>5, <1>6 DEF Waiting
<1>. QED  BY <1>7, <1>8 DEF r

\* GetFirstPendingAttendee's order: whoever is promoted has waited longest.
THEOREM PromotesLongestWaiting == Spec => PromotionIsFIFO
<1> DEFINE FIFO == \A w \in Users : BecomesPromoted(w) =>
                     \A v \in Waiting(rsvp', source') : <<w, v>> \in earlier'
<1>1. TypeOK /\ [Next]_vars => FIFO
  <2> SUFFICES ASSUME TypeOK, [Next]_vars PROVE FIFO
    OBVIOUS
  <2>1. ASSUME \A w \in Users : ~BecomesPromoted(w)
        PROVE  FIFO
    BY <2>1
  <2>2. ASSUME NEW u \in Users, NEW st \in {"going", "not_going", "maybe"},
               CreateRSVP(u, st)
        PROVE  FIFO
    <3>1. PICK s \in Statuses \ {"promoted"} : rsvp' = [rsvp EXCEPT ![u] = s]
      BY <2>2, GrantedType DEF CreateRSVP, CreateAttendee, Statuses
    <3>. QED  BY <2>1, <3>1, AnswerPromotesNobody
  <2>3. ASSUME NEW u \in Users, NEW st \in {"going", "not_going", "maybe"},
               UpdateRSVP(u, st)
        PROVE  FIFO
    <3>1. Granted(st) \in Statuses \ {"promoted"} /\ UNCHANGED <<source, earlier>>
      BY <2>3, GrantedType DEF Statuses, UpdateRSVP
    <3>2. CASE AfterLeaving([rsvp EXCEPT ![u] = Granted(st)])
      BY <3>1, <3>2, PromotionBehindLeaver DEF Waiting
    <3>3. CASE rsvp' = [rsvp EXCEPT ![u] = Granted(st)]
      BY <2>1, <3>1, <3>3, AnswerPromotesNobody
    <3>. QED  BY <2>3, <3>2, <3>3 DEF UpdateRSVP
  <2>4. ASSUME NEW u \in Users, AcceptInvite(u)
        PROVE  FIFO
    <3>1. PICK s \in Statuses \ {"promoted"} : rsvp' = [rsvp EXCEPT ![u] = s]
      BY <2>4, GrantedType DEF AcceptInvite, CreateAttendee, Statuses
    <3>. QED  BY <2>1, <3>1, AnswerPromotesNobody
  <2>5. ASSUME NEW u \in Users, CancelRSVP(u) \/ RemoveAttendee(u)
        PROVE  FIFO
    <3> DEFINE r == [rsvp EXCEPT ![u] = "none"]
    <3>1. "none" \in Statuses \ {"promoted"} /\ GivesUpRow(u)
      BY <2>5 DEF Statuses, CancelRSVP, RemoveAttendee
    <3>2. CASE AfterLeaving(r)
      <4> SUFFICES ASSUME NEW w \in Users, BecomesPromoted(w),
                          NEW v \in Waiting(rsvp', source')
                   PROVE  <<w, v>> \in earlier'
        OBVIOUS
      <4>1. /\ r \in [Users -> Statuses]
            /\ \A x \in Users : r[x] = IF x = u THEN "none" ELSE rsvp[x]
        BY DEF TypeOK, Statuses
      <4>2. w # u /\ w \in Users
        BY <3>1, <3>2, <4>1, PromotionBehindLeaver DEF Waiting
      <4>3. v # u /\ rsvp'[v] = "pending" /\ v \in Users
        <5>1. rsvp' \in Promotions(r)
          BY <3>2 DEF AfterLeaving
        <5>2. rsvp'[u] # "pending"
          BY <4>1, <5>1, PromotionsKeepRows
        <5>. QED  BY <5>2 DEF Waiting
      <4>4. source[v] # "requested"
        BY <3>1, <4>3 DEF GivesUpRow, DeleteAttendee, TypeOK, Waiting
      <4>5. <<w, v>> \in earlier
        BY <3>1, <3>2, <4>3, <4>4, PromotionBehindLeaver
      <4>. QED  BY <3>1, <4>2, <4>3, <4>5 DEF GivesUpRow, DeleteAttendee
    <3>3. CASE rsvp' = r
      BY <2>1, <3>1, <3>3, AnswerPromotesNobody
    <3>. QED  BY <3>1, <3>2, <3>3 DEF GivesUpRow
  <2>6. ASSUME NEW u \in Users, ApproveAttendee(u) \/ RejectAttendeeWrite(u)
        PROVE  FIFO
    <3>1. PICK s \in Statuses \ {"promoted"} : rsvp' = [rsvp EXCEPT ![u] = s]
      BY <2>6 DEF ApproveAttendee, RejectAttendeeWrite, Statuses
    <3>. QED  BY <2>1, <3>1, AnswerPromotesNobody
  <2>7. ASSUME UNCHANGED rsvp
        PROVE  FIFO
    BY <2>7 DEF BecomesPromoted
  <2>8. ASSUME NEW u \in Users, RejectAttendeeRead(u)
        PROVE  FIFO
    BY <2>7, <2>8 DEF RejectAttendeeRead
  <2>9. ASSUME NEW cap \in Capacities, NEW pub \in BOOLEAN, UpdateSession(cap, pub)
        PROVE  FIFO
    BY <2>7, <2>9 DEF UpdateSession, rows
  <2>10. ASSUME NEW pub \in BOOLEAN, SetSessionVisibility(pub)
         PROVE  FIFO
    BY <2>7, <2>10 DEF SetSessionVisibility, rows
  <2>11. CASE StartSession \/ CompleteSession \/ CancelSession \/ ChangeFormation
    BY <2>7, <2>11 DEF StartSession, CompleteSession, CancelSession, ChangeFormation, rows
  <2>12. CASE UNCHANGED vars
    BY <2>7, <2>12 DEF vars
  <2>. QED
    BY <2>2, <2>3, <2>4, <2>5, <2>6, <2>8, <2>9, <2>10, <2>11, <2>12 DEF Next
<1>. QED  BY <1>1, TypeCorrect, PTL DEF Spec, PromotionIsFIFO

\* resetTeamFormationAfterLeaving: but for a rejection that overtook an
\* approval, no confirmed attendee stops going without team formation
\* restarting in the same transaction.
THEOREM LeavingAlwaysRestarts == Spec => LeavingRestartsFormation
<1> DEFINE Restarts == \A u \in Users : StopsGoing(u) /\ ~TeamsLocked /\ ~LateRejection(u)
                                          => ~formed'
<1>1. TypeOK /\ [Next]_vars => Restarts
  <2> SUFFICES ASSUME TypeOK, [Next]_vars PROVE Restarts
    OBVIOUS
  <2>1. ASSUME NEW r, AfterLeaving(r)
        PROVE  Restarts
    BY <2>1 DEF AfterLeaving
  <2>2. ASSUME NEW u \in Users, NEW s \in Statuses,
               rsvp[u] \notin SpotStatuses \/ s \in SpotStatuses,
               rsvp' = [rsvp EXCEPT ![u] = s]
        PROVE  Restarts
    BY <2>2 DEF StopsGoing, TypeOK
  <2>3. ASSUME NEW u \in Users, NEW st \in {"going", "not_going", "maybe"},
               CreateRSVP(u, st)
        PROVE  Restarts
    <3>1. PICK s \in Statuses : rsvp' = [rsvp EXCEPT ![u] = s]
      BY <2>3, GrantedType DEF CreateRSVP, CreateAttendee, Statuses
    <3>. QED  BY <2>2, <2>3, <3>1 DEF CreateRSVP, SpotStatuses
  <2>4. ASSUME NEW u \in Users, NEW st \in {"going", "not_going", "maybe"},
               UpdateRSVP(u, st)
        PROVE  Restarts
    <3>1. Granted(st) \in Statuses
      BY GrantedType DEF Statuses
    <3>. QED  BY <2>1, <2>2, <2>4, <3>1 DEF UpdateRSVP
  <2>5. ASSUME NEW u \in Users, AcceptInvite(u)
        PROVE  Restarts
    <3>1. PICK s \in Statuses : rsvp' = [rsvp EXCEPT ![u] = s]
      BY <2>5, GrantedType DEF AcceptInvite, CreateAttendee, Statuses
    <3>. QED  BY <2>2, <2>5, <3>1 DEF AcceptInvite, SpotStatuses
  <2>6. ASSUME NEW u \in Users, CancelRSVP(u) \/ RemoveAttendee(u)
        PROVE  Restarts
    <3>1. "none" \in Statuses
      BY DEF Statuses
    <3>. QED  BY <2>1, <2>2, <2>6, <3>1 DEF CancelRSVP, RemoveAttendee, GivesUpRow
  <2>7. ASSUME NEW u \in Users, ApproveAttendee(u)
        PROVE  Restarts
    BY <2>2, <2>7 DEF ApproveAttendee, Statuses, SpotStatuses
  <2>8. ASSUME NEW u \in Users, RejectAttendeeWrite(u)
        PROVE  Restarts
    BY <2>8 DEF RejectAttendeeWrite, StopsGoing, LateRejection, TypeOK
  <2>9. ASSUME UNCHANGED rsvp
        PROVE  Restarts
    BY <2>9 DEF StopsGoing
  <2>10. ASSUME NEW u \in Users, RejectAttendeeRead(u)
         PROVE  Restarts
    BY <2>9, <2>10 DEF RejectAttendeeRead
  <2>11. ASSUME NEW cap \in Capacities, NEW pub \in BOOLEAN, UpdateSession(cap, pub)
         PROVE  Restarts
    BY <2>9, <2>11 DEF UpdateSession, rows
  <2>12. ASSUME NEW pub \in BOOLEAN, SetSessionVisibility(pub)
         PROVE  Restarts
    BY <2>9, <2>12 DEF SetSessionVisibility, rows
  <2>13. CASE StartSession \/ CompleteSession \/ CancelSession \/ ChangeFormation
    BY <2>9, <2>13 DEF StartSession, CompleteSession, CancelSession, ChangeFormation, rows
  <2>14. CASE UNCHANGED vars
    BY <2>9, <2>14 DEF vars
  <2>. QED
    BY <2>3, <2>4, <2>5, <2>6, <2>7, <2>8, <2>10, <2>11, <2>12, <2>13, <2>14 DEF Next
<1>. QED  BY <1>1, TypeCorrect, PTL DEF Spec, LeavingRestartsFormation

\* A user of the waitlist looks at an idle spot only when HasCapacity held, or
\* holds, before anybody joined the waitlist.
LEMMA AnswerLeavesNoIdleSpot ==
  ASSUME TypeOK, NEW u \in Users, NEW s \in Statuses, UNCHANGED capacity,
         rsvp' = [rsvp EXCEPT ![u] = s],
         rsvp[u] \in SpotStatuses => s \in SpotStatuses,
         Waiting(rsvp', source') \subseteq
           Waiting(rsvp, source) \cup (IF HasCapacity THEN {} ELSE {u})
  PROVE  IdleSpot' => IdleSpot
<1>1. Confirmed(rsvp) \subseteq Confirmed(rsvp')
  BY DEF Confirmed, TypeOK
<1>2. /\ Cardinality(Confirmed(rsvp)) <= Cardinality(Confirmed(rsvp'))
      /\ Cardinality(Confirmed(rsvp)) \in Nat
      /\ Cardinality(Confirmed(rsvp')) \in Nat
      /\ capacity \in Nat
  BY <1>1, ConfirmedFinite, FS_Subset, CapacitiesAssumption DEF TypeOK
<1>3. HasCapacity' => HasCapacity
  BY <1>2 DEF HasCapacity
<1>. QED  BY <1>3 DEF IdleSpot

\* Behind a leaver the waitlist moves up, so the spot is idle only with nobody
\* waiting: the leaver cannot be the one waiting, unless the session is full.
LEMMA LeavingLeavesNoIdleSpot ==
  ASSUME TypeOK, NEW u \in Users, rsvp[u] \in SpotStatuses, UNCHANGED capacity,
         NEW s \in Statuses \ SpotStatuses, s = "pending" => ~HasCapacity,
         AfterLeaving([rsvp EXCEPT ![u] = s]),
         source'[u] = source[u] \/ s # "pending",
         \A v \in Users \ {u} : source'[v] = source[v]
  PROVE  IdleSpot' => IdleSpot
<1> DEFINE r == [rsvp EXCEPT ![u] = s]
<1>1. /\ r \in [Users -> Statuses]
      /\ \A v \in Users : r[v] = IF v = u THEN s ELSE rsvp[v]
  BY DEF TypeOK
<1>2. \/ Cardinality(Confirmed(rsvp')) = Cardinality(Confirmed(rsvp))
      \/ Waiting(r, source) = {}
  BY LeavingASpot
<1>3. rsvp' \in Promotions(r)
  BY DEF AfterLeaving
<1>4. \A v \in Users : rsvp'[v] = "pending" => r[v] = "pending"
  BY <1>1, <1>3, PromotionsKeepRows
<1>5. Waiting(rsvp', source') \subseteq Waiting(r, source)
  <2> SUFFICES ASSUME NEW v \in Waiting(rsvp', source')
               PROVE  v \in Waiting(r, source)
    OBVIOUS
  <2>1. v \in Users /\ rsvp'[v] = "pending" /\ source'[v] # "requested"
    BY DEF Waiting
  <2>2. r[v] = "pending"
    BY <1>4, <2>1
  <2>3. source[v] # "requested"
    BY <1>1, <2>1, <2>2
  <2>. QED  BY <2>1, <2>2, <2>3 DEF Waiting
<1>6. Waiting(r, source) \subseteq Waiting(rsvp, source) \cup (IF HasCapacity THEN {} ELSE {u})
  BY <1>1 DEF Waiting
<1>7. Cardinality(Confirmed(rsvp')) = Cardinality(Confirmed(rsvp)) => (HasCapacity' => HasCapacity)
  BY DEF HasCapacity
<1>. HIDE DEF r
<1>. QED  BY <1>2, <1>5, <1>6, <1>7 DEF IdleSpot

\* GivesUpRow, CreateAttendee and UpdateRSVP never leave a free spot in front
\* of the waitlist: what remains is a raised capacity and the late rejection.
THEOREM NoSpotLeftIdle == Spec => SpotNotLeftIdle
<1> DEFINE Kept == IdleSpot' =>
                     IdleSpot \/ capacity' # capacity \/ \E u \in Users : LateRejection(u)
<1>1. TypeOK /\ [Next]_vars => [Kept]_vars
  <2> SUFFICES ASSUME TypeOK, [Next]_vars PROVE Kept
    OBVIOUS
  <2>1. ASSUME NEW u \in Users, NEW st \in {"going", "not_going", "maybe"},
               CreateRSVP(u, st)
        PROVE  Kept
    <3>1. PICK s \in Statuses, src \in Sources :
            /\ CreateAttendee(u, s, src)
            /\ s = "pending" => src = "requested" \/ ~HasCapacity
      BY <2>1, GrantedType DEF CreateRSVP, Granted, Statuses, Sources
    <3>2. Waiting(rsvp', source') \subseteq
            Waiting(rsvp, source) \cup (IF HasCapacity THEN {} ELSE {u})
      BY <3>1 DEF Waiting, CreateAttendee, TypeOK
    <3>3. rsvp[u] \notin SpotStatuses /\ UNCHANGED capacity
      BY <2>1 DEF CreateRSVP, SpotStatuses, session
    <3>. QED  BY <3>1, <3>2, <3>3, AnswerLeavesNoIdleSpot DEF CreateAttendee
  <2>2. ASSUME NEW u \in Users, NEW st \in {"going", "not_going", "maybe"},
               UpdateRSVP(u, st)
        PROVE  Kept
    <3>1. /\ Granted(st) \in Statuses
          /\ Granted(st) = "pending" => ~HasCapacity
          /\ UNCHANGED <<capacity, source>>
      BY <2>2, GrantedType DEF Granted, Statuses, UpdateRSVP, session
    <3>2. CASE rsvp[u] \in SpotStatuses /\ Granted(st) \notin SpotStatuses
      BY <2>2, <3>1, <3>2, LeavingLeavesNoIdleSpot DEF UpdateRSVP
    <3>3. CASE ~(rsvp[u] \in SpotStatuses /\ Granted(st) \notin SpotStatuses)
      <4>1. rsvp' = [rsvp EXCEPT ![u] = Granted(st)]
        BY <2>2, <3>3 DEF UpdateRSVP
      <4>2. Waiting(rsvp', source') \subseteq
              Waiting(rsvp, source) \cup (IF HasCapacity THEN {} ELSE {u})
        BY <3>1, <4>1 DEF Waiting, TypeOK
      <4>. QED  BY <3>1, <3>3, <4>1, <4>2, AnswerLeavesNoIdleSpot
    <3>. QED  BY <3>2, <3>3
  <2>3. ASSUME NEW u \in Users, AcceptInvite(u)
        PROVE  Kept
    <3>1. /\ CreateAttendee(u, Granted("going"), "invited")
          /\ Granted("going") \in Statuses
          /\ Granted("going") = "pending" => ~HasCapacity
      BY <2>3 DEF AcceptInvite, Granted, Statuses
    <3>2. Waiting(rsvp', source') \subseteq
            Waiting(rsvp, source) \cup (IF HasCapacity THEN {} ELSE {u})
      BY <3>1 DEF Waiting, CreateAttendee, TypeOK
    <3>3. rsvp[u] \notin SpotStatuses /\ UNCHANGED capacity
      BY <2>3 DEF AcceptInvite, SpotStatuses, session
    <3>. QED  BY <3>1, <3>2, <3>3, AnswerLeavesNoIdleSpot DEF CreateAttendee
  <2>4. ASSUME NEW u \in Users, CancelRSVP(u) \/ RemoveAttendee(u)
        PROVE  Kept
    <3>1. /\ GivesUpRow(u) /\ UNCHANGED capacity
          /\ "none" \in Statuses \ SpotStatuses
          /\ \A v \in Users \ {u} : source'[v] = source[v]
      BY <2>4 DEF CancelRSVP, RemoveAttendee, GivesUpRow, DeleteAttendee, session,
                  Statuses, SpotStatuses, TypeOK
    <3>2. CASE rsvp[u] \in SpotStatuses
      BY <3>1, <3>2, LeavingLeavesNoIdleSpot DEF GivesUpRow
    <3>3. CASE rsvp[u] \notin SpotStatuses
      <4>1. rsvp' = [rsvp EXCEPT ![u] = "none"]
        BY <3>1, <3>3 DEF GivesUpRow
      <4>2. Waiting(rsvp', source') \subseteq Waiting(rsvp, source)
        BY <3>1, <4>1 DEF Waiting, TypeOK
      <4>. QED  BY <3>1, <3>3, <4>1, <4>2, AnswerLeavesNoIdleSpot
    <3>. QED  BY <3>2, <3>3
  <2>5. ASSUME NEW u \in Users, ApproveAttendee(u)
        PROVE  Kept
    <3>1. /\ rsvp' = [rsvp EXCEPT ![u] = "going"] /\ UNCHANGED <<capacity, source>>
          /\ rsvp[u] \notin SpotStatuses /\ "going" \in Statuses
      BY <2>5 DEF ApproveAttendee, AwaitingApproval, SpotStatuses, Statuses, session
    <3>2. Waiting(rsvp', source') \subseteq Waiting(rsvp, source)
      BY <3>1 DEF Waiting, TypeOK
    <3>. QED  BY <3>1, <3>2, AnswerLeavesNoIdleSpot
  <2>6. ASSUME NEW u \in Users, RejectAttendeeWrite(u)
        PROVE  Kept
    <3>1. /\ rsvp' = [rsvp EXCEPT ![u] = "not_going"] /\ UNCHANGED <<capacity, source>>
          /\ "not_going" \in Statuses /\ u \in reviewing \ reviewing'
      BY <2>6 DEF RejectAttendeeWrite, Statuses, session
    <3>2. CASE rsvp[u] \in SpotStatuses
      <4>1. LateRejection(u)
        BY <3>1, <3>2 DEF LateRejection, TypeOK
      <4>. QED  BY <4>1
    <3>3. CASE rsvp[u] \notin SpotStatuses
      <4>1. Waiting(rsvp', source') \subseteq Waiting(rsvp, source)
        BY <3>1 DEF Waiting, TypeOK
      <4>. QED  BY <3>1, <3>3, <4>1, AnswerLeavesNoIdleSpot
    <3>. QED  BY <3>2, <3>3
  <2>7. ASSUME UNCHANGED <<rsvp, source>>
        PROVE  Kept
    BY <2>7 DEF IdleSpot, HasCapacity, Confirmed, Waiting
  <2>8. ASSUME NEW u \in Users, RejectAttendeeRead(u)
        PROVE  Kept
    BY <2>7, <2>8 DEF RejectAttendeeRead
  <2>9. ASSUME NEW cap \in Capacities, NEW pub \in BOOLEAN, UpdateSession(cap, pub)
        PROVE  Kept
    BY <2>7, <2>9 DEF UpdateSession, rows
  <2>10. ASSUME NEW pub \in BOOLEAN, SetSessionVisibility(pub)
         PROVE  Kept
    BY <2>7, <2>10 DEF SetSessionVisibility, rows
  <2>11. CASE StartSession \/ CompleteSession \/ CancelSession \/ ChangeFormation
    BY <2>7, <2>11 DEF StartSession, CompleteSession, CancelSession, ChangeFormation, rows
  <2>12. CASE UNCHANGED vars
    BY <2>7, <2>12 DEF vars
  <2>. QED
    BY <2>1, <2>2, <2>3, <2>4, <2>5, <2>6, <2>8, <2>9, <2>10, <2>11, <2>12 DEF Next
<1>. QED  BY <1>1, TypeCorrect, PTL DEF Spec, SpotNotLeftIdle

-----------------------------------------------------------------------------
(***************************************************************************)
(* The refinement of GoingList: what team formation may rely on, proved    *)
(* from the side of the RSVPs.                                             *)
(***************************************************************************)

\* One status written: u goes, or does not.
LEMMA StatusWritten ==
  ASSUME TypeOK, NEW u \in Users, NEW s \in Statuses, rsvp' = [rsvp EXCEPT ![u] = s]
  PROVE  /\ s \in SpotStatuses => Confirmed(rsvp') = Confirmed(rsvp) \cup {u}
         /\ s \notin SpotStatuses => Confirmed(rsvp') = Confirmed(rsvp) \ {u}
BY DEF Confirmed, TypeOK

\* u gives up a spot, keeping the row or not: the Leave of GoingList.
LEMMA LeavesTheList ==
  ASSUME TypeOK, NEW u \in Users, rsvp[u] \in SpotStatuses,
         NEW s \in Statuses \ SpotStatuses, AfterLeaving([rsvp EXCEPT ![u] = s]),
         reviewing' \in {reviewing, reviewing \ {u}}, UNCHANGED status
  PROVE  List!Leave(u)
<1> DEFINE r == [rsvp EXCEPT ![u] = s]
<1>1. r \in [Users -> Statuses] /\ rsvp' \in Promotions(r)
  BY DEF TypeOK, AfterLeaving
<1>2. u \in Confirmed(rsvp) /\ Confirmed(r) = Confirmed(rsvp) \ {u}
  BY DEF Confirmed, TypeOK
<1>3. formed' = (formed /\ TeamsLocked) /\ UNCHANGED TeamsLocked
  BY DEF AfterLeaving, TeamsLocked
<1>. HIDE DEF r
<1>4. \/ Confirmed(rsvp') = Confirmed(r)
      \/ \E w \in Users \ Confirmed(r) : Confirmed(rsvp') = Confirmed(r) \cup {w}
  BY <1>1, PromotionAddsOne
<1>5. List!LeaveGoing(u)
  BY <1>2, <1>3, <1>4 DEF List!LeaveGoing
<1>. QED  BY <1>3, <1>5 DEF List!Leave

\* One status written without anybody giving up a spot: u joins, or nothing
\* that GoingList tells apart happens.
LEMMA JoinsTheList ==
  ASSUME TypeOK, NEW u \in Users, NEW s \in Statuses, rsvp' = [rsvp EXCEPT ![u] = s],
         rsvp[u] \in SpotStatuses => s \in SpotStatuses,
         UNCHANGED <<reviewing, status, formed>>
  PROVE  \/ List!Join(u)
         \/ UNCHANGED <<Confirmed(rsvp), reviewing, TeamsLocked, formed>>
<1>1. UNCHANGED TeamsLocked
  BY DEF TeamsLocked
<1>2. CASE rsvp[u] \notin SpotStatuses /\ s \in SpotStatuses
  <2>1. u \notin Confirmed(rsvp) /\ Confirmed(rsvp)' = Confirmed(rsvp) \cup {u}
    BY <1>2, StatusWritten DEF Confirmed
  <2>. QED  BY <1>1, <2>1 DEF List!Join, List!JoinGoing
<1>3. CASE rsvp[u] \in SpotStatuses \/ s \notin SpotStatuses
  <2>1. Confirmed(rsvp)' = Confirmed(rsvp)
    BY <1>3 DEF Confirmed, TypeOK
  <2>. QED  BY <1>1, <2>1
<1>. QED  BY <1>2, <1>3

\* Nothing that GoingList tells apart happens when neither the RSVPs nor team
\* formation change, and the session does not end.
LEMMA ListUnchanged ==
  ASSUME UNCHANGED <<rsvp, reviewing, formed, TeamsLocked>>
  PROVE  UNCHANGED <<Confirmed(rsvp), reviewing, TeamsLocked, formed>>
BY DEF Confirmed

\* Every transaction of attendance, and the expiry sweep, is one step of
\* GoingList or invisible to team formation.
LEMMA StepsOfTheList ==
  ASSUME IInv, [Next]_vars
  PROVE  [List!Next]_<<Confirmed(rsvp), reviewing, TeamsLocked, formed>>
<1> DEFINE Step == \/ List!Next
                   \/ UNCHANGED <<Confirmed(rsvp), reviewing, TeamsLocked, formed>>
<1>. SUFFICES Step
  OBVIOUS
<1>. USE DEF IInv
<1>1. ASSUME NEW u \in Users, List!Join(u) \/ List!Leave(u)
      PROVE  Step
  BY <1>1 DEF List!Next
<1>2. ASSUME NEW u \in Users, UNCHANGED formed,
             List!StartReview(u) \/ List!FinishReview(u) \/ List!LateRejection(u)
      PROVE  Step
  BY <1>2 DEF List!Next
<1>3. ASSUME NEW u \in Users,
             \/ \E st \in {"going", "not_going", "maybe"} : CreateRSVP(u, st)
             \/ AcceptInvite(u)
      PROVE  Step
  <2>1. PICK s \in Statuses, src \in Sources : CreateAttendee(u, s, src)
    BY <1>3, GrantedType DEF CreateRSVP, AcceptInvite, Statuses, Sources
  <2>2. /\ rsvp' = [rsvp EXCEPT ![u] = s] /\ rsvp[u] = "none"
        /\ UNCHANGED <<reviewing, status, formed>>
    BY <1>3, <2>1 DEF CreateRSVP, AcceptInvite, CreateAttendee, session
  <2>3. rsvp[u] \notin SpotStatuses
    BY <2>2 DEF SpotStatuses
  <2>. QED  BY <1>1, <2>2, <2>3, JoinsTheList
<1>4. ASSUME NEW u \in Users, NEW st \in {"going", "not_going", "maybe"},
             UpdateRSVP(u, st)
      PROVE  Step
  <2>1. Granted(st) \in Statuses /\ UNCHANGED <<reviewing, status>>
    BY <1>4, GrantedType DEF UpdateRSVP, Statuses, session
  <2>2. CASE rsvp[u] \in SpotStatuses /\ Granted(st) \notin SpotStatuses
    <3>1. AfterLeaving([rsvp EXCEPT ![u] = Granted(st)])
      BY <1>4, <2>2 DEF UpdateRSVP
    <3>. QED  BY <1>1, <2>1, <2>2, <3>1, LeavesTheList
  <2>3. CASE ~(rsvp[u] \in SpotStatuses /\ Granted(st) \notin SpotStatuses)
    <3>1. rsvp' = [rsvp EXCEPT ![u] = Granted(st)] /\ UNCHANGED formed
      BY <1>4, <2>3 DEF UpdateRSVP
    <3>. QED  BY <1>1, <2>1, <2>3, <3>1, JoinsTheList
  <2>. QED  BY <2>2, <2>3
<1>5. ASSUME NEW u \in Users, CancelRSVP(u) \/ RemoveAttendee(u)
      PROVE  Step
  <2>1. /\ GivesUpRow(u) /\ reviewing' = reviewing \ {u} /\ UNCHANGED status
        /\ "none" \in Statuses \ SpotStatuses
    BY <1>5 DEF CancelRSVP, RemoveAttendee, GivesUpRow, DeleteAttendee, session,
                Statuses, SpotStatuses
  <2>2. CASE rsvp[u] \in SpotStatuses
    <3>1. AfterLeaving([rsvp EXCEPT ![u] = "none"])
      BY <2>1, <2>2 DEF GivesUpRow
    <3>. QED  BY <1>1, <2>1, <2>2, <3>1, LeavesTheList
  <2>3. CASE rsvp[u] \notin SpotStatuses
    <3>1. /\ rsvp' = [rsvp EXCEPT ![u] = "none"] /\ UNCHANGED <<formed, TeamsLocked>>
      BY <2>1, <2>3 DEF GivesUpRow, TeamsLocked
    <3>2. Confirmed(rsvp)' = Confirmed(rsvp) /\ u \notin Confirmed(rsvp)
      BY <2>1, <2>3, <3>1 DEF Confirmed, TypeOK
    <3>3. CASE u \in reviewing
      <4>1. List!FinishReview(u)
        BY <2>1, <3>1, <3>2, <3>3 DEF List!FinishReview
      <4>. QED  BY <1>2, <3>1, <4>1
    <3>4. CASE u \notin reviewing
      BY <2>1, <3>1, <3>2, <3>4
    <3>. QED  BY <3>3, <3>4
  <2>. QED  BY <2>2, <2>3
<1>6. ASSUME NEW u \in Users, ApproveAttendee(u)
      PROVE  Step
  <2>1. /\ rsvp' = [rsvp EXCEPT ![u] = "going"] /\ "going" \in Statuses \cap SpotStatuses
        /\ UNCHANGED <<reviewing, status, formed>>
    BY <1>6 DEF ApproveAttendee, Statuses, SpotStatuses, session
  <2>. QED  BY <1>1, <2>1, JoinsTheList
<1>7. ASSUME NEW u \in Users, RejectAttendeeRead(u)
      PROVE  Step
  <2>1. /\ u \notin reviewing \cup Confirmed(rsvp) /\ reviewing' = reviewing \cup {u}
        /\ UNCHANGED <<Confirmed(rsvp), TeamsLocked, formed>>
    BY <1>7 DEF RejectAttendeeRead, AwaitingApproval, Confirmed, SpotStatuses,
                session, TeamsLocked
  <2>2. List!StartReview(u)
    BY <2>1 DEF List!StartReview
  <2>. QED  BY <1>2, <2>1, <2>2
<1>8. ASSUME NEW u \in Users, RejectAttendeeWrite(u)
      PROVE  Step
  <2>1. /\ u \in reviewing /\ reviewing' = reviewing \ {u}
        /\ rsvp' = [rsvp EXCEPT ![u] = "not_going"] /\ "not_going" \in Statuses
        /\ UNCHANGED <<TeamsLocked, formed>>
    BY <1>8 DEF RejectAttendeeWrite, Statuses, session, TeamsLocked
  <2>2. Confirmed(rsvp)' = Confirmed(rsvp) \ {u}
    BY <2>1, StatusWritten DEF SpotStatuses
  <2>3. List!FinishReview(u) \/ List!LateRejection(u)
    BY <2>1, <2>2 DEF List!FinishReview, List!LateRejection
  <2>. QED  BY <1>2, <2>1, <2>3
<1>9. ASSUME UNCHANGED <<rows, formed, TeamsLocked>>
      PROVE  Step
  BY <1>9, ListUnchanged DEF rows
<1>10. ASSUME NEW pub \in BOOLEAN,
              \/ \E cap \in Capacities : UpdateSession(cap, pub)
              \/ SetSessionVisibility(pub)
       PROVE  Step
  BY <1>9, <1>10 DEF UpdateSession, SetSessionVisibility, TeamsLocked
<1>11. CASE StartSession \/ UNCHANGED vars
  BY <1>9, <1>11 DEF StartSession, TeamsLocked, vars, rows
<1>12. CASE CompleteSession \/ CancelSession
  <2>1. /\ ~TeamsLocked /\ TeamsLocked' = TRUE /\ formed' \in {formed, FALSE}
        /\ UNCHANGED <<Confirmed(rsvp), reviewing>>
    BY <1>12 DEF CompleteSession, CancelSession, TeamsLocked, EndsFormation, rows,
                 Confirmed
  <2>2. List!End
    BY <2>1 DEF List!End, List!EndList
  <2>. QED  BY <2>2 DEF List!Next
<1>13. CASE ChangeFormation
  <2>1. /\ ~TeamsLocked /\ formed' \in BOOLEAN
        /\ UNCHANGED <<Confirmed(rsvp), reviewing, TeamsLocked>>
    BY <1>13 DEF ChangeFormation, TeamsLocked, TypeOK, session, rows, Confirmed
  <2>2. List!ChangeFormation
    BY <2>1 DEF List!ChangeFormation, List!list
  <2>. QED  BY <2>2 DEF List!Next
<1>. QED
  BY <1>3, <1>4, <1>5, <1>6, <1>7, <1>8, <1>10, <1>11, <1>12, <1>13 DEF Next

\* Attendance keeps the promise that team formation is built on: nobody stops
\* going without formation restarting, but for a late rejection.
THEOREM AttendanceImplementsGoingList == Spec => ImplementsGoingList
<1>1. Init => List!Init
  BY DEF Init, List!Init, Confirmed, TeamsLocked
<1>2. IInv /\ [Next]_vars
        => [List!Next]_<<Confirmed(rsvp), reviewing, TeamsLocked, formed>>
  BY StepsOfTheList
<1>. QED  BY <1>1, <1>2, InvariantHolds, PTL DEF Spec, ImplementsGoingList, List!Spec

-----------------------------------------------------------------------------
(***************************************************************************)
(* Invites: the inductive invariant.                                       *)
(***************************************************************************)

Stages == {"none", "announced", "cancelling", "listed", "declining", "done"}

Requests ==
  [kind : {"idle", "send", "rsvp", "accept", "decline"}, user : Invitees \cup {Creator},
   invite : Nat, read : {"none", "pending"}, old : BOOLEAN]

InvitesShape ==
  /\ invites \in Seq(Invites)
  /\ req \in [Procs -> Requests]
  /\ found \subseteq 1 .. Len(invites) /\ joined \subseteq 1 .. Len(invites)
  /\ deletion \in [Users -> Stages]

OnePending ==
  \A i, j \in 1 .. Len(invites) :
    invites[i].status = "pending" /\ invites[j].status = "pending" /\ invites[i].user = invites[j].user
      => i = j

\* A request still knows its invite, and what may let a marked user in is older
\* than the mark.
Fits(r) ==
  /\ r.kind = "idle" => r.user = Creator
  /\ r.kind # "idle" => r.user \in Invitees
  /\ r.kind \in {"accept", "decline"} =>
       r.invite \in 1 .. Len(invites) /\ invites[r.invite].user = r.user /\ r.read = "pending"
  /\ r.kind \in {"send", "rsvp", "accept"} /\ r.user \in Deletable /\ IsInactive(r.user) => r.old = TRUE

RequestsFit == \A p \in Procs : Fits(req[p])

\* The consumer declines the only invite that can still be answered.
ConsumerOK ==
  req[Consumer].kind # "idle" =>
    /\ req[Consumer].kind = "decline" /\ req[Consumer].user \in Deletable
    /\ deletion[req[Consumer].user] = "declining"
    /\ \/ req[Consumer].user \in late
       \/ ListPendingSessionInvites(req[Consumer].user) \subseteq {req[Consumer].invite}

\* What a deletion has given up so far stays given up.
GivenUp ==
  \A u \in Deletable \ late :
    /\ deletion[u] \in {"declining", "done"} => ~HasRSVPToCancel(u)
    /\ deletion[u] = "done" => ListPendingSessionInvites(u) = {}

InvitesInv ==
  /\ InvitesShape
  /\ OnePending
  /\ RequestsFit
  /\ InvitesTellWhoJoined
  /\ ConsumerOK
  /\ GivenUp

-----------------------------------------------------------------------------
(***************************************************************************)
(* What the commands on attendance do to who has an RSVP.                  *)
(***************************************************************************)

\* Whoever has an RSVP to a scheduled session afterwards had one before, or
\* made one.
NoNewRSVPBut(U) == \A v \in Users \ U : HasRSVPToCancel(v)' => HasRSVPToCancel(v)

LEMMA RowGivenUp ==
  ASSUME TypeOK, NEW u \in Users, GivesUpRow(u), UNCHANGED status
  PROVE  rsvp'[u] = "none" /\ NoNewRSVPBut({})
<1>1. PICK r \in [Users -> Statuses] : r = [rsvp EXCEPT ![u] = "none"]
  BY DEF TypeOK, Statuses
<1>2. rsvp' = r \/ rsvp' \in Promotions(r)
  BY <1>1 DEF GivesUpRow, AfterLeaving
<1>3. \A v \in Users : rsvp'[v] = "none" <=> r[v] = "none"
  BY <1>2, PromotionsKeepRows
<1>. QED  BY <1>1, <1>3 DEF NoNewRSVPBut, HasRSVPToCancel, TypeOK

LEMMA RSVPUpdated ==
  ASSUME TypeOK, NEW u \in Users, NEW st \in {"going", "not_going", "maybe"}, UpdateRSVP(u, st)
  PROVE  NoNewRSVPBut({})
<1>1. PICK r \in [Users -> Statuses] : r = [rsvp EXCEPT ![u] = Granted(st)]
  BY GrantedType DEF TypeOK, Statuses
<1>2. rsvp[u] # "none" /\ UNCHANGED status /\ (rsvp' = r \/ rsvp' \in Promotions(r))
  BY <1>1 DEF UpdateRSVP, AfterLeaving, session
<1>3. \A v \in Users : rsvp'[v] = "none" <=> r[v] = "none"
  BY <1>2, PromotionsKeepRows
<1>. QED  BY <1>1, <1>2, <1>3 DEF NoNewRSVPBut, HasRSVPToCancel, TypeOK

\* No command but a new RSVP makes one.
LEMMA NobodyRSVPs ==
  ASSUME IInv, AttendanceStep
  PROVE  [Next]_vars /\ NoNewRSVPBut({})
<1>. TypeOK /\ QueueOK /\ Invitees \subseteq Users /\ Creator \in Users
  BY InvitesAssumption, UsersAssumption DEF IInv
<1>1. ASSUME NEW u \in Users, NEW st \in {"going", "not_going", "maybe"}, UpdateRSVP(u, st)
      PROVE  Next /\ NoNewRSVPBut({})
  BY <1>1, RSVPUpdated DEF Next
<1>2. ASSUME NEW u \in Users, CancelRSVP(u) \/ RemoveAttendee(u)
      PROVE  Next /\ NoNewRSVPBut({})
  BY <1>2, RowGivenUp DEF Next, CancelRSVP, RemoveAttendee, session
<1>3. ASSUME NEW u \in Users, ApproveAttendee(u) \/ RejectAttendeeRead(u) \/ RejectAttendeeWrite(u)
      PROVE  Next /\ NoNewRSVPBut({})
  <2>1. /\ \A v \in Users : rsvp'[v] = "none" <=> rsvp[v] = "none"
        /\ UNCHANGED status
    BY <1>3 DEF ApproveAttendee, RejectAttendeeRead, RejectAttendeeWrite, AwaitingApproval, TypeOK,
                QueueOK, Live, session
  <2>. QED  BY <1>3, <2>1 DEF Next, NoNewRSVPBut, HasRSVPToCancel
<1>4. CASE StartSession \/ CancelSession
  BY <1>4 DEF StartSession, CancelSession, Next, NoNewRSVPBut, HasRSVPToCancel, rows
<1>. QED  BY <1>1, <1>2, <1>3, <1>4 DEF AttendanceStep

\* A new RSVP is its owner's only.
LEMMA RSVPCreated ==
  ASSUME TypeOK, NEW u \in Users,
         AcceptInvite(u) \/ \E st \in {"going", "maybe", "not_going"} : CreateRSVP(u, st)
  PROVE  Next /\ NoNewRSVPBut({u})
<1>1. Next
  BY DEF Next
<1>2. UNCHANGED status /\ \E st, src : CreateAttendee(u, st, src)
  BY DEF AcceptInvite, CreateRSVP, session
<1>. QED  BY <1>1, <1>2 DEF NoNewRSVPBut, HasRSVPToCancel, CreateAttendee, TypeOK

-----------------------------------------------------------------------------
(***************************************************************************)
(* Invites that are answered or run out.                                   *)
(***************************************************************************)

\* No invite becomes answerable, or somebody else's.
OnlyAnswered ==
  /\ invites' \in Seq(Invites) /\ Len(invites') = Len(invites)
  /\ \A i \in 1 .. Len(invites) :
       /\ invites'[i].user = invites[i].user
       /\ invites'[i].status = "pending" => invites[i].status = "pending"
       /\ Answerable(i)' => Answerable(i)

LEMMA InvitesStay == InvitesShape /\ UNCHANGED invites => OnlyAnswered
BY DEF InvitesShape, OnlyAnswered, Answerable

\* An invite is written by its id: accepted by who joined, or over an answer
\* that had not been read.
LEMMA AnswerWritten ==
  ASSUME InvitesShape, InvitesTellWhoJoined, NEW i \in 1 .. Len(invites),
         NEW to \in {"accepted", "declined", "expired"}, UpdateInvite(i, to, "pending"),
         joined' = IF to = "accepted" THEN joined \cup {i} ELSE joined
  PROVE  OnlyAnswered /\ InvitesTellWhoJoined' /\ joined' \subseteq 1 .. Len(invites)
         /\ invites'[i].status # "pending"
<1>1. PICK row \in Invites : row = [invites[i] EXCEPT !.status = to]
  <2>1. invites[i] \in Invites
    BY DEF InvitesShape
  <2>2. [invites[i] EXCEPT !.status = to] \in Invites
    BY <2>1 DEF Invites, InviteStatuses
  <2>. QED  BY <2>2
<1>2. invites' = [invites EXCEPT ![i] = row]
  BY <1>1 DEF UpdateInvite
<1>3. /\ invites' \in Seq(Invites) /\ Len(invites') = Len(invites) /\ invites'[i] = row
      /\ \A j \in 1 .. Len(invites) : j # i => invites'[j] = invites[j]
  BY <1>2 DEF InvitesShape
<1>4. row.status = to /\ row.user = invites[i].user
  BY <1>1 DEF InvitesShape, Invites
<1>5. OnlyAnswered
  BY <1>3, <1>4 DEF OnlyAnswered, Answerable
<1>6. overturned \subseteq overturned' /\ (invites[i].status # "pending" => i \in overturned')
  BY DEF UpdateInvite
<1>7. ASSUME NEW j \in 1 .. Len(invites')
      PROVE  /\ invites'[j].status = "accepted" => j \in joined'
             /\ j \in joined' => invites'[j].status = "accepted" \/ j \in overturned'
  <2>1. CASE j = i
    BY <1>3, <1>4, <1>6, <2>1 DEF InvitesTellWhoJoined
  <2>2. CASE j # i
    BY <1>3, <1>6, <1>7, <2>2 DEF InvitesTellWhoJoined
  <2>. QED  BY <2>1, <2>2
<1>. QED  BY <1>3, <1>4, <1>5, <1>7 DEF InvitesShape, InvitesTellWhoJoined

LEMMA InviteTooOld ==
  ASSUME InvitesShape, NEW i \in 1 .. Len(invites), InviteRunsOut(i)
  PROVE  OnlyAnswered /\ \A j \in 1 .. Len(invites) : invites'[j].status = invites[j].status
<1>1. PICK row : row = [invites[i] EXCEPT !.stale = TRUE]
  OBVIOUS
<1>2. row \in Invites /\ row.status = invites[i].status /\ row.user = invites[i].user /\ row.stale = TRUE
  <2>1. PICK old \in Invites : old = invites[i]
    BY DEF InvitesShape
  <2>2. row = [old EXCEPT !.stale = TRUE]
    BY <1>1, <2>1
  <2>3. row \in Invites /\ row.status = old.status /\ row.user = old.user
    BY <2>2 DEF Invites
  <2>4. row.stale = TRUE
    BY <2>2, Zenon DEF Invites
  <2>. QED  BY <2>1, <2>3, <2>4
<1>3. invites' = [invites EXCEPT ![i] = row]
  BY <1>1 DEF InviteRunsOut
<1>4. /\ invites' \in Seq(Invites) /\ Len(invites') = Len(invites) /\ invites'[i] = row
      /\ \A j \in 1 .. Len(invites) : j # i => invites'[j] = invites[j]
  BY <1>2, <1>3 DEF InvitesShape
<1>. QED  BY <1>2, <1>4 DEF OnlyAnswered, Answerable

\* What stays true with them.
LEMMA AnsweredKeeps ==
  ASSUME OnlyAnswered
  PROVE  /\ OnePending => OnePending'
         /\ \A u \in Users : ListPendingSessionInvites(u)' \subseteq ListPendingSessionInvites(u)
         /\ \A r : r.kind \in {"accept", "decline"} /\ r.invite \in 1 .. Len(invites)
                     /\ invites[r.invite].user = r.user
                   => r.invite \in 1 .. Len(invites') /\ invites'[r.invite].user = r.user
<1>1. \A u \in Users : ListPendingSessionInvites(u)' \subseteq ListPendingSessionInvites(u)
  BY DEF OnlyAnswered, ListPendingSessionInvites, InvitesOf
<1>2. OnePending => OnePending'
  BY DEF OnlyAnswered, OnePending
<1>. QED  BY <1>1, <1>2 DEF OnlyAnswered

-----------------------------------------------------------------------------
(***************************************************************************)
(* Requests that go on or end.                                             *)
(***************************************************************************)

LEMMA IdleFits == Idle \in Requests /\ Idle.kind = "idle" /\ Idle.user = Creator /\ Idle.old = FALSE
BY DEF Idle, Requests

\* Whoever is done with a request, the others go on.
Resting == \A p \in Procs : req'[p] \in {req[p], Idle}

LEMMA Rested ==
  ASSUME InvitesShape,
         UNCHANGED req \/ \E p \in Procs : req' = [req EXCEPT ![p] = Idle]
  PROVE  req' \in [Procs -> Requests] /\ Resting
BY IdleFits DEF InvitesShape, Resting

LEMMA StillFits ==
  ASSUME RequestsFit, OnlyAnswered, Resting,
         \A u \in Deletable : IsInactive(u)' => IsInactive(u)
  PROVE  RequestsFit'
<1>. SUFFICES ASSUME NEW p \in Procs
              PROVE  Fits(req[p])'
  BY DEF RequestsFit
<1>1. PICK r : r = req'[p]
  OBVIOUS
<1>2. CASE r = Idle
  <2>1. Idle.kind = "idle" /\ Idle.user = Creator
    BY IdleFits
  <2>. QED  BY <1>1, <1>2, <2>1 DEF Fits
<1>3. CASE r = req[p]
  <2>1. Fits(r)
    BY <1>3 DEF RequestsFit
  <2>2. r.kind \in {"accept", "decline"} =>
          r.invite \in 1 .. Len(invites)' /\ invites'[r.invite].user = r.user /\ r.read = "pending"
    BY <2>1 DEF Fits, OnlyAnswered
  <2>3. r.user \in Deletable /\ IsInactive(r.user)' => IsInactive(r.user)
    OBVIOUS
  <2>. QED  BY <1>1, <2>1, <2>2, <2>3 DEF Fits
<1>. QED  BY <1>1, <1>2, <1>3 DEF Resting

LEMMA Continues ==
  ASSUME InvitesInv, OnlyAnswered, req' \in [Procs -> Requests], Resting, UNCHANGED deletion,
         found' \subseteq 1 .. Len(invites), joined' \subseteq 1 .. Len(invites), InvitesTellWhoJoined',
         late \subseteq late',
         \A u \in Deletable \ late' : IsInactive(u) /\ HasRSVPToCancel(u)' => HasRSVPToCancel(u)
  PROVE  InvitesInv'
<1>. Deletable \subseteq Users /\ Consumer \in Procs
  BY InvitesAssumption DEF Procs
<1>1. InvitesShape'
  BY DEF InvitesInv, InvitesShape, OnlyAnswered
<1>2. /\ OnePending'
      /\ \A u \in Users : ListPendingSessionInvites(u)' \subseteq ListPendingSessionInvites(u)
  BY AnsweredKeeps DEF InvitesInv
<1>3. RequestsFit'
  BY StillFits DEF InvitesInv, IsInactive
<1>4. ConsumerOK'
  <2>1. req'[Consumer] \in {req[Consumer], Idle}
    BY DEF Resting
  <2>2. CASE req'[Consumer] = Idle
    BY <2>2, IdleFits DEF ConsumerOK
  <2>3. CASE req'[Consumer] = req[Consumer]
    BY <1>2, <2>3 DEF InvitesInv, ConsumerOK
  <2>. QED  BY <2>1, <2>2, <2>3
<1>5. GivenUp'
  <2>. SUFFICES ASSUME NEW u \in Deletable \ late'
                PROVE  /\ deletion'[u] \in {"declining", "done"} => ~HasRSVPToCancel(u)'
                       /\ deletion'[u] = "done" => ListPendingSessionInvites(u)' = {}
    BY DEF GivenUp
  <2>1. deletion[u] \in {"declining", "done"} => IsInactive(u)
    BY DEF IsInactive
  <2>. QED  BY <1>2, <2>1 DEF InvitesInv, GivenUp
<1>. QED  BY <1>1, <1>2, <1>3, <1>4, <1>5 DEF InvitesInv

LEMMA AttendanceKeeps ==
  ASSUME InvitesInv, IInv, AttendanceStep, UNCHANGED inviteVars
  PROVE  [Next]_vars /\ InvitesInv'
<1>1. [Next]_vars /\ NoNewRSVPBut({})
  BY NobodyRSVPs
<1>2. UNCHANGED <<invites, req, found, deletion, joined, overturned, late>>
  BY DEF inviteVars
<1>3. OnlyAnswered /\ req' \in [Procs -> Requests] /\ Resting
  BY <1>2, InvitesStay, Rested DEF InvitesInv
<1>4. InvitesTellWhoJoined' /\ found' \subseteq 1 .. Len(invites) /\ joined' \subseteq 1 .. Len(invites)
  BY <1>2 DEF InvitesInv, InvitesTellWhoJoined, InvitesShape
<1>5. \A u \in Deletable \ late' : IsInactive(u) /\ HasRSVPToCancel(u)' => HasRSVPToCancel(u)
  BY <1>1, InvitesAssumption DEF NoNewRSVPBut
<1>6. InvitesInv'
  BY <1>2, <1>3, <1>4, <1>5, Continues
<1>. QED  BY <1>1, <1>6

\* Who gets in by a request older than the deletion counts as late.
LEMMA LateComers ==
  ASSUME RequestsFit, NEW p \in Procs, Ends(p), NEW u, u = req[p].user,
         req[p].kind \in {"send", "rsvp", "accept"}
  PROVE  late \subseteq late' /\ (u \in Deletable \ late' => ~IsInactive(u))
<1>1. late \subseteq late' /\ (req[p].old = TRUE => u \in late')
  BY DEF Ends
<1>2. u \in Deletable /\ IsInactive(u) => req[p].old = TRUE
  BY DEF RequestsFit, Fits
<1>. QED  BY <1>1, <1>2

LEMMA JoinKeeps ==
  ASSUME InvitesInv, IInv, NEW p \in Procs, CommitAccept(p) \/ CommitRSVP(p)
  PROVE  [Next]_vars /\ InvitesInv'
<1>1. PICK u : u = req[p].user
  OBVIOUS
<1>2. req[p].kind \in {"rsvp", "accept"} /\ Ends(p) /\ UNCHANGED <<found, deletion>>
  BY DEF CommitAccept, CommitRSVP
<1>3. u \in Users
  BY <1>1, <1>2, InvitesAssumption DEF InvitesInv, RequestsFit, Fits
<1>4. AcceptInvite(u) \/ \E st \in {"going", "maybe", "not_going"} : CreateRSVP(u, st)
  BY <1>1 DEF CommitAccept, CommitRSVP
<1>5. Next /\ NoNewRSVPBut({u})
  BY <1>3, <1>4, RSVPCreated DEF IInv
<1>6. /\ OnlyAnswered /\ InvitesTellWhoJoined' /\ joined' \subseteq 1 .. Len(invites)
  <2>1. CASE CommitAccept(p)
    <3>1. PICK i : i = req[p].invite
      OBVIOUS
    <3>2. i \in 1 .. Len(invites) /\ req[p].read = "pending"
      BY <2>1, <3>1 DEF CommitAccept, InvitesInv, RequestsFit, Fits
    <3>3. UpdateInvite(i, "accepted", "pending") /\ joined' = joined \cup {i}
      BY <2>1, <3>1, <3>2 DEF CommitAccept
    <3>. QED  BY <3>2, <3>3, AnswerWritten DEF InvitesInv
  <2>2. CASE CommitRSVP(p)
    <3>1. UNCHANGED <<invites, joined, overturned>>
      BY <2>2 DEF CommitRSVP
    <3>. QED  BY <3>1, InvitesStay DEF InvitesInv, InvitesTellWhoJoined, InvitesShape
  <2>. QED  BY <2>1, <2>2
<1>7. late \subseteq late' /\ (u \in Deletable \ late' => ~IsInactive(u))
  BY <1>1, <1>2, LateComers DEF InvitesInv
<1>8. \A v \in Deletable \ late' : IsInactive(v) /\ HasRSVPToCancel(v)' => HasRSVPToCancel(v)
  BY <1>5, <1>7, InvitesAssumption DEF NoNewRSVPBut
<1>9. req' \in [Procs -> Requests] /\ Resting
  BY <1>2, Rested DEF InvitesInv, Ends
<1>10. InvitesInv'
  BY <1>2, <1>6, <1>7, <1>8, <1>9, Continues DEF InvitesInv, InvitesShape
<1>. QED  BY <1>5, <1>10

\* Nothing happens to attendance or to a deletion.
LEMMA NobodyComes ==
  ASSUME UNCHANGED vars
  PROVE  UNCHANGED <<rsvp, status>> /\ \A u \in Users : HasRSVPToCancel(u)' <=> HasRSVPToCancel(u)
BY DEF vars, HasRSVPToCancel

LEMMA SweepKeeps ==
  ASSUME InvitesInv,
         \/ \E i \in 1 .. Len(invites) : InviteRunsOut(i) \/ ExpireStaleInvites(i)
         \/ StartExpirySweep
  PROVE  UNCHANGED vars /\ InvitesInv'
<1>1. UNCHANGED vars /\ UNCHANGED <<req, deletion, joined, late>>
  BY DEF InviteRunsOut, ExpireStaleInvites, StartExpirySweep
<1>2. OnlyAnswered /\ InvitesTellWhoJoined' /\ found' \subseteq 1 .. Len(invites)
  <2>1. CASE \E i \in 1 .. Len(invites) : InviteRunsOut(i)
    <3>1. PICK i \in 1 .. Len(invites) : InviteRunsOut(i)
      BY <2>1
    <3>2. OnlyAnswered /\ \A j \in 1 .. Len(invites) : invites'[j].status = invites[j].status
      BY <3>1, InviteTooOld DEF InvitesInv
    <3>. QED  BY <3>1, <3>2 DEF InvitesInv, InvitesTellWhoJoined, InvitesShape, InviteRunsOut, OnlyAnswered
  <2>2. CASE \E i \in 1 .. Len(invites) : ExpireStaleInvites(i)
    <3>1. PICK i \in 1 .. Len(invites) : ExpireStaleInvites(i)
      BY <2>2
    <3>2. found' \subseteq 1 .. Len(invites) /\ UNCHANGED joined
      BY <3>1 DEF ExpireStaleInvites, InvitesInv, InvitesShape
    <3>3. CASE UpdateInvite(i, "expired", "pending")
      BY <3>2, <3>3, AnswerWritten DEF InvitesInv
    <3>4. CASE UNCHANGED <<invites, overturned>>
      BY <3>2, <3>4, InvitesStay DEF InvitesInv, InvitesTellWhoJoined
    <3>. QED  BY <3>1, <3>2, <3>3, <3>4 DEF ExpireStaleInvites
  <2>3. CASE StartExpirySweep
    <3>1. UNCHANGED <<invites, joined, overturned>> /\ found' \subseteq 1 .. Len(invites)
      BY <2>3 DEF StartExpirySweep, FindExpiredPendingInvites
    <3>. QED  BY <3>1, InvitesStay DEF InvitesInv, InvitesTellWhoJoined
  <2>. QED  BY <2>1, <2>2, <2>3
<1>3. req' \in [Procs -> Requests] /\ Resting
  BY <1>1, Rested DEF InvitesInv
<1>4. \A u \in Deletable \ late' : IsInactive(u) /\ HasRSVPToCancel(u)' => HasRSVPToCancel(u)
  BY <1>1, NobodyComes, InvitesAssumption
<1>5. joined' \subseteq 1 .. Len(invites)
  BY <1>1 DEF InvitesInv, InvitesShape
<1>6. InvitesInv'
  BY <1>1, <1>2, <1>3, <1>4, <1>5, Continues
<1>. QED  BY <1>1, <1>6

LEMMA InviteAdded ==
  ASSUME InvitesShape, NEW u \in Invitees, CreateInvite(u)
  PROVE  /\ invites' \in Seq(Invites) /\ Len(invites') = Len(invites) + 1 /\ Len(invites) \in Nat
         /\ invites'[Len(invites) + 1].user = u /\ invites'[Len(invites) + 1].status = "pending"
         /\ \A i \in 1 .. Len(invites) : invites'[i] = invites[i]
<1>1. PICK row : row = [user |-> u, status |-> "pending", stale |-> FALSE]
  OBVIOUS
<1>2. row \in Invites /\ row.user = u /\ row.status = "pending"
  BY <1>1 DEF Invites, InviteStatuses
<1>3. invites' = Append(invites, row) /\ invites \in Seq(Invites)
  BY <1>1 DEF CreateInvite, InvitesShape
<1>. QED  BY <1>2, <1>3

LEMMA SendKeeps ==
  ASSUME InvitesInv, NEW p \in Procs, CommitSend(p)
  PROVE  UNCHANGED vars /\ InvitesInv'
<1>. Deletable \subseteq Users /\ Consumer \in Procs
  BY InvitesAssumption DEF Procs
<1>1. PICK u : u = req[p].user
  OBVIOUS
<1>2. /\ req[p].kind = "send" /\ CreateInvite(u) /\ Ends(p)
      /\ UNCHANGED vars /\ UNCHANGED <<found, deletion, joined, overturned>>
  BY <1>1 DEF CommitSend
<1>3. u \in Invitees
  BY <1>1, <1>2 DEF InvitesInv, RequestsFit, Fits
<1>4. /\ invites' \in Seq(Invites) /\ Len(invites') = Len(invites) + 1 /\ Len(invites) \in Nat
      /\ invites'[Len(invites) + 1].user = u /\ invites'[Len(invites) + 1].status = "pending"
      /\ \A i \in 1 .. Len(invites) : invites'[i] = invites[i]
  BY <1>2, <1>3, InviteAdded DEF InvitesInv
<1>5. \A i \in 1 .. Len(invites) : invites[i].user = u => invites[i].status # "pending"
  BY <1>2 DEF CreateInvite, GetPendingInviteBySessionAndUser, InvitesOf
<1>6. \A i \in 1 .. Len(invites') : i \in 1 .. Len(invites) \/ i = Len(invites) + 1
  BY <1>4
<1>7. OnePending'
  BY <1>4, <1>5, <1>6 DEF InvitesInv, OnePending
<1>8. late \subseteq late' /\ (u \in Deletable \ late' => ~IsInactive(u))
  BY <1>1, <1>2, LateComers DEF InvitesInv
<1>9. req' \in [Procs -> Requests] /\ Resting
  BY <1>2, Rested DEF InvitesInv, Ends
<1>10. InvitesShape'
  BY <1>2, <1>4, <1>9 DEF InvitesInv, InvitesShape
<1>11. InvitesTellWhoJoined'
  <2>1. Len(invites) + 1 \notin joined
    BY <1>4 DEF InvitesInv, InvitesShape
  <2>. QED  BY <1>2, <1>4, <1>6, <2>1 DEF InvitesInv, InvitesTellWhoJoined
<1>12. \A v \in Users : v # u => ListPendingSessionInvites(v)' = ListPendingSessionInvites(v)
  BY <1>4, <1>6 DEF ListPendingSessionInvites, InvitesOf, Answerable
<1>13. RequestsFit'
  <2>. SUFFICES ASSUME NEW q \in Procs
                PROVE  Fits(req[q])'
    BY DEF RequestsFit
  <2>1. PICK r : r = req'[q]
    OBVIOUS
  <2>2. CASE r = Idle
    <3>1. Idle.kind = "idle" /\ Idle.user = Creator
      BY IdleFits
    <3>. QED  BY <2>1, <2>2, <3>1 DEF Fits
  <2>3. CASE r = req[q]
    <3>1. Fits(r)
      BY <2>3 DEF InvitesInv, RequestsFit
    <3>2. r.kind \in {"accept", "decline"} =>
            r.invite \in 1 .. Len(invites)' /\ invites'[r.invite].user = r.user /\ r.read = "pending"
      BY <1>4, <3>1 DEF Fits
    <3>3. IsInactive(r.user)' <=> IsInactive(r.user)
      BY <1>2 DEF IsInactive
    <3>. QED  BY <2>1, <3>1, <3>2, <3>3 DEF Fits
  <2>. QED  BY <1>9, <2>1, <2>2, <2>3 DEF Resting
<1>14. ConsumerOK'
  <2>1. CASE req'[Consumer] = Idle
    BY <2>1, IdleFits DEF ConsumerOK
  <2>2. CASE req'[Consumer] = req[Consumer]
    <3>. SUFFICES ASSUME req[Consumer].kind # "idle"
                  PROVE  ConsumerOK'
      BY <2>2 DEF ConsumerOK
    <3>1. PICK v : v = req[Consumer].user
      OBVIOUS
    <3>2. /\ req[Consumer].kind = "decline" /\ v \in Deletable /\ deletion[v] = "declining"
          /\ v \in late \/ ListPendingSessionInvites(v) \subseteq {req[Consumer].invite}
      BY <3>1 DEF InvitesInv, ConsumerOK
    <3>3. v = u => v \in late'
      BY <1>8, <3>2 DEF IsInactive
    <3>4. v \in late' \/ ListPendingSessionInvites(v)' \subseteq {req[Consumer].invite}
      BY <1>8, <1>12, <3>2, <3>3
    <3>. QED  BY <1>2, <2>2, <3>1, <3>2, <3>4 DEF ConsumerOK
  <2>. QED  BY <1>9, <2>1, <2>2 DEF Resting
<1>15. GivenUp'
  <2>. SUFFICES ASSUME NEW v \in Deletable \ late'
                PROVE  /\ deletion'[v] \in {"declining", "done"} => ~HasRSVPToCancel(v)'
                       /\ deletion'[v] = "done" => ListPendingSessionInvites(v)' = {}
    BY DEF GivenUp
  <2>1. v = u => deletion[v] \in {"none", "announced"}
    BY <1>8 DEF IsInactive
  <2>2. HasRSVPToCancel(v)' <=> HasRSVPToCancel(v)
    BY <1>2, NobodyComes
  <2>. QED  BY <1>2, <1>8, <1>12, <2>1, <2>2 DEF InvitesInv, GivenUp
<1>. QED  BY <1>2, <1>7, <1>10, <1>11, <1>13, <1>14, <1>15 DEF InvitesInv

-----------------------------------------------------------------------------
(***************************************************************************)
(* Requests that begin.                                                    *)
(***************************************************************************)

\* A new request that fits leaves everything else as it was, but for what the
\* consumer promises of its own.
LEMMA BeginKeeps ==
  ASSUME InvitesInv, NEW p \in Procs, NEW kind \in {"send", "rsvp", "accept", "decline"},
         NEW u \in Invitees, NEW i \in Nat, NEW read \in {"none", "pending"}, Begin(p, kind, u, i, read),
         kind \in {"accept", "decline"} =>
           i \in 1 .. Len(invites) /\ invites[i].user = u /\ read = "pending",
         kind \in {"send", "rsvp", "accept"} => ~IsInactive(u),
         p = Consumer => /\ kind = "decline" /\ u \in Deletable /\ deletion[u] = "declining"
                         /\ i \in ListPendingSessionInvites(u)
  PROVE  UNCHANGED vars /\ InvitesInv'
<1>. Deletable \subseteq Users /\ Consumer \in Procs
  BY InvitesAssumption DEF Procs
<1>1. PICK r : r = [kind |-> kind, user |-> u, invite |-> i, read |-> read, old |-> FALSE]
  OBVIOUS
<1>2. /\ r \in Requests
      /\ r.kind = kind /\ r.user = u /\ r.invite = i /\ r.read = read
  BY <1>1 DEF Requests
<1>3. /\ req' = [req EXCEPT ![p] = r]
      /\ UNCHANGED vars /\ UNCHANGED <<invites, found, deletion, joined, overturned, late>>
  BY <1>1 DEF Begin
<1>4. req' \in [Procs -> Requests] /\ req'[p] = r /\ \A q \in Procs : q # p => req'[q] = req[q]
  BY <1>2, <1>3 DEF InvitesInv, InvitesShape
<1>5. InvitesShape' /\ OnePending' /\ InvitesTellWhoJoined'
  BY <1>3, <1>4 DEF InvitesInv, InvitesShape, OnePending, InvitesTellWhoJoined
<1>6. Fits(r)
  BY <1>2 DEF Fits
<1>7. RequestsFit'
  BY <1>3, <1>4, <1>6 DEF InvitesInv, RequestsFit, Fits, IsInactive
<1>8. \A v \in Users : /\ ListPendingSessionInvites(v)' = ListPendingSessionInvites(v)
                       /\ HasRSVPToCancel(v)' <=> HasRSVPToCancel(v)
  BY <1>3, NobodyComes DEF ListPendingSessionInvites, InvitesOf, Answerable
<1>9. GivenUp'
  BY <1>3, <1>8 DEF InvitesInv, GivenUp
<1>10. ConsumerOK'
  <2>1. CASE p # Consumer
    BY <1>3, <1>4, <1>8, <2>1 DEF InvitesInv, ConsumerOK
  <2>2. CASE p = Consumer
    <3>1. ListPendingSessionInvites(u) \subseteq {i}
      BY <2>2 DEF InvitesInv, OnePending, ListPendingSessionInvites, InvitesOf, Answerable
    <3>2. ListPendingSessionInvites(u)' \subseteq {i}
      BY <1>8, <2>2, <3>1
    <3>. QED  BY <1>2, <1>3, <1>4, <2>2, <3>2 DEF ConsumerOK
  <2>. QED  BY <2>1, <2>2
<1>. QED  BY <1>3, <1>5, <1>7, <1>9, <1>10 DEF InvitesInv

LEMMA InviteRead ==
  ASSUME InvitesShape, NEW i \in 1 .. Len(invites), Answerable(i)
  PROVE  i \in Nat /\ invites[i].user \in Invitees /\ invites[i].status = "pending"
<1>1. invites[i] \in Invites /\ i \in Nat
  BY DEF InvitesShape
<1>. QED  BY <1>1 DEF Invites, Answerable

LEMMA WorkerBegins ==
  ASSUME InvitesInv, NEW w \in Workers,
         \/ \E u \in Invitees : SendSessionInvite(w, u) \/ HandleCreateRSVP(w, u)
         \/ \E i \in 1 .. Len(invites) : AcceptSessionInvite(w, i) \/ DeclineSessionInvite(w, i)
  PROVE  UNCHANGED vars /\ InvitesInv'
<1>. w \in Procs /\ w # Consumer
  BY InvitesAssumption DEF Procs
<1>1. ASSUME NEW u \in Invitees, SendSessionInvite(w, u) \/ HandleCreateRSVP(w, u)
      PROVE  UNCHANGED vars /\ InvitesInv'
  <2>1. ~IsInactive(u) /\ \E kind \in {"send", "rsvp"} : Begin(w, kind, u, 0, "none")
    BY <1>1 DEF SendSessionInvite, HandleCreateRSVP
  <2>2. PICK kind \in {"send", "rsvp"} : Begin(w, kind, u, 0, "none")
    BY <2>1
  <2>3. kind \in {"send", "rsvp", "accept", "decline"} /\ kind \notin {"accept", "decline"}
    BY <2>2
  <2>. QED  BY <2>1, <2>2, <2>3, BeginKeeps
<1>2. ASSUME NEW i \in 1 .. Len(invites), AcceptSessionInvite(w, i) \/ DeclineSessionInvite(w, i)
      PROVE  UNCHANGED vars /\ InvitesInv'
  <2>1. ~IsInactive(invites[i].user) /\ \E kind \in {"accept", "decline"} : ReadsInvite(w, kind, i)
    BY <1>2 DEF AcceptSessionInvite, DeclineSessionInvite
  <2>2. PICK kind \in {"accept", "decline"} : ReadsInvite(w, kind, i)
    BY <2>1
  <2>3. i \in Nat /\ invites[i].user \in Invitees /\ invites[i].status = "pending"
    BY <2>2, InviteRead DEF ReadsInvite, InvitesInv
  <2>4. PICK u \in Invitees : u = invites[i].user
    BY <2>3
  <2>5. Begin(w, kind, u, i, "pending") /\ kind \in {"send", "rsvp", "accept", "decline"}
    BY <2>2, <2>3, <2>4 DEF ReadsInvite
  <2>. QED  BY <2>1, <2>3, <2>4, <2>5, BeginKeeps
<1>. QED  BY <1>1, <1>2

-----------------------------------------------------------------------------
(***************************************************************************)
(* The deletion of an account.                                             *)
(***************************************************************************)

\* The deletion of u's account gets as far as stage, not before what the stage
\* promises is true, and no further than its mark has been set.
LEMMA DeletionMoves ==
  ASSUME InvitesInv, OnlyAnswered, req' \in [Procs -> Requests], Resting,
         NEW u \in Users, NEW stage \in Stages, deletion' = [deletion EXCEPT ![u] = stage],
         found' \subseteq 1 .. Len(invites), joined' \subseteq 1 .. Len(invites), InvitesTellWhoJoined',
         UNCHANGED late, \A v \in Users : HasRSVPToCancel(v)' => HasRSVPToCancel(v),
         u \in Deletable => stage \in {"none", "announced"} \/ IsInactive(u),
         req'[Consumer].kind # "idle" => req'[Consumer].user # u,
         stage \in {"declining", "done"} => u \in late \/ ~HasRSVPToCancel(u)',
         stage = "done" => u \in late \/ ListPendingSessionInvites(u)' = {}
  PROVE  InvitesInv'
<1>. Deletable \subseteq Users /\ Consumer \in Procs
  BY InvitesAssumption DEF Procs
<1>1. deletion' \in [Users -> Stages] /\ deletion'[u] = stage /\ \A v \in Users : v # u => deletion'[v] = deletion[v]
  BY DEF InvitesInv, InvitesShape
<1>2. InvitesShape'
  BY <1>1 DEF InvitesInv, InvitesShape, OnlyAnswered
<1>3. /\ OnePending'
      /\ \A v \in Users : ListPendingSessionInvites(v)' \subseteq ListPendingSessionInvites(v)
  BY AnsweredKeeps DEF InvitesInv
<1>4. \A v \in Deletable : IsInactive(v)' => IsInactive(v)
  BY <1>1 DEF IsInactive
<1>5. RequestsFit'
  BY <1>4, StillFits DEF InvitesInv
<1>6. ConsumerOK'
  <2>1. req'[Consumer] \in {req[Consumer], Idle}
    BY DEF Resting
  <2>2. CASE req'[Consumer] = Idle
    BY <2>2, IdleFits DEF ConsumerOK
  <2>3. CASE req'[Consumer] = req[Consumer]
    BY <1>1, <1>3, <2>3 DEF InvitesInv, ConsumerOK
  <2>. QED  BY <2>1, <2>2, <2>3
<1>7. GivenUp'
  <2>. SUFFICES ASSUME NEW v \in Deletable \ late
                PROVE  /\ deletion'[v] \in {"declining", "done"} => ~HasRSVPToCancel(v)'
                       /\ deletion'[v] = "done" => ListPendingSessionInvites(v)' = {}
    BY DEF GivenUp
  <2>1. CASE v = u
    BY <1>1, <2>1
  <2>2. CASE v # u
    BY <1>1, <1>3, <2>2 DEF InvitesInv, GivenUp
  <2>. QED  BY <2>1, <2>2
<1>. QED  BY <1>2, <1>3, <1>5, <1>6, <1>7 DEF InvitesInv

\* A request of the consumer ends: a decline is the last thing a deletion does,
\* and one that failed starts the deletion over.
LEMMA DeclineKeeps ==
  ASSUME InvitesInv, NEW p \in Procs, CommitDecline(p) \/ Refuse(p)
  PROVE  UNCHANGED vars /\ InvitesInv'
<1>. Deletable \subseteq Users /\ Consumer \in Procs /\ Invitees \cup {Creator} \subseteq Users
  BY InvitesAssumption, UsersAssumption DEF Procs
<1>1. PICK u : u = req[p].user
  OBVIOUS
<1>2. PICK stage : stage = IF req[p].kind = "decline" /\ CommitDecline(p) THEN "done" ELSE "cancelling"
  OBVIOUS
<1>3. /\ UNCHANGED vars /\ UNCHANGED <<found, joined, late>> /\ req' = [req EXCEPT ![p] = Idle]
      /\ CommitDecline(p) => req[p].kind = "decline"
  BY DEF CommitDecline, Refuse
<1>4. /\ OnlyAnswered /\ InvitesTellWhoJoined'
      /\ CommitDecline(p) =>
           req[p].invite \in 1 .. Len(invites) /\ invites'[req[p].invite].status # "pending"
  <2>1. CASE CommitDecline(p)
    <3>1. PICK i : i = req[p].invite
      OBVIOUS
    <3>2. i \in 1 .. Len(invites) /\ req[p].read = "pending"
      BY <1>3, <2>1, <3>1 DEF InvitesInv, RequestsFit, Fits
    <3>3. UpdateInvite(i, "declined", "pending") /\ joined' = joined
      BY <1>3, <2>1, <3>1, <3>2 DEF CommitDecline
    <3>. QED  BY <3>1, <3>2, <3>3, AnswerWritten DEF InvitesInv
  <2>2. CASE ~CommitDecline(p)
    <3>1. UNCHANGED <<invites, joined, overturned>>
      BY <2>2 DEF Refuse
    <3>. QED  BY <2>2, <3>1, InvitesStay DEF InvitesInv, InvitesTellWhoJoined
  <2>. QED  BY <2>1, <2>2
<1>5. req' \in [Procs -> Requests] /\ Resting
  BY <1>3, Rested DEF InvitesInv
<1>6. \A v \in Users : HasRSVPToCancel(v)' <=> HasRSVPToCancel(v)
  BY <1>3, NobodyComes
<1>7. joined' \subseteq 1 .. Len(invites) /\ found' \subseteq 1 .. Len(invites)
  BY <1>3 DEF InvitesInv, InvitesShape
<1>8. CASE p # Consumer
  <2>1. UNCHANGED deletion
    BY <1>8 DEF CommitDecline, Refuse
  <2>2. InvitesInv'
    BY <1>3, <1>4, <1>5, <1>6, <1>7, <2>1, Continues
  <2>. QED  BY <1>3, <2>2
<1>9. CASE p = Consumer
  <2>1. deletion' = [deletion EXCEPT ![u] = stage] /\ stage \in Stages
    BY <1>1, <1>2, <1>3, <1>9 DEF CommitDecline, Refuse, Stages
  <2>2. u \in Users /\ (req[Consumer].kind = "idle" => u = Creator)
    BY <1>1, <1>9 DEF InvitesInv, InvitesShape, Requests, RequestsFit, Fits
  <2>3. req[Consumer].kind # "idle" => /\ u \in Deletable /\ deletion[u] = "declining"
                                       /\ u \in late \/ ListPendingSessionInvites(u) \subseteq {req[p].invite}
    BY <1>1, <1>9 DEF InvitesInv, ConsumerOK
  <2>4. u \in Deletable => IsInactive(u)
    BY <2>2, <2>3, InvitesAssumption DEF IsInactive
  <2>5. req'[Consumer].kind = "idle"
    BY <1>3, <1>9, IdleFits DEF InvitesInv, InvitesShape
  <2>6. CASE stage = "done"
    <3>1. CommitDecline(p) /\ req[Consumer].kind # "idle"
      BY <1>2, <1>9, <2>6
    <3>2. u \in Deletable /\ deletion[u] = "declining"
      BY <2>3, <3>1
    <3>3. u \in late \/ ListPendingSessionInvites(u)' = {}
      <4>1. ListPendingSessionInvites(u)' \subseteq ListPendingSessionInvites(u)
        BY <1>4, <2>2, AnsweredKeeps
      <4>2. req[p].invite \notin ListPendingSessionInvites(u)'
        BY <1>4, <3>1 DEF ListPendingSessionInvites, Answerable
      <4>. QED  BY <2>3, <3>1, <4>1, <4>2
    <3>4. u \in late \/ ~HasRSVPToCancel(u)'
      BY <1>6, <2>2, <3>2 DEF InvitesInv, GivenUp
    <3>5. stage \notin {"none", "announced"} /\ (req'[Consumer].kind # "idle" => req'[Consumer].user # u)
      BY <2>5, <2>6
    <3>6. InvitesInv'
      BY <1>3, <1>4, <1>5, <1>6, <1>7, <2>1, <2>2, <2>4, <3>3, <3>4, <3>5, DeletionMoves
    <3>. QED  BY <1>3, <3>6
  <2>7. CASE stage = "cancelling"
    <3>1. stage \notin {"declining", "done"}
      BY <2>7
    <3>2. InvitesInv'
      BY <1>3, <1>4, <1>5, <1>6, <1>7, <2>1, <2>2, <2>4, <2>5, <3>1, DeletionMoves
    <3>. QED  BY <1>3, <3>2
  <2>. QED  BY <1>2, <2>6, <2>7
<1>. QED  BY <1>8, <1>9

\* Every request under way turns old with the mark.
LEMMA MarkKeeps ==
  ASSUME InvitesInv, NEW u \in Deletable, MarkDeleted(u)
  PROVE  UNCHANGED vars /\ InvitesInv'
<1>. Deletable \subseteq Users /\ Consumer \in Procs /\ Deletable \subseteq Invitees
  BY InvitesAssumption DEF Procs
<1>1. /\ UNCHANGED vars /\ UNCHANGED <<invites, found, joined, overturned, late>>
      /\ req[Consumer] = Idle /\ deletion' = [deletion EXCEPT ![u] = "cancelling"]
      /\ deletion[u] # "none"
  BY DEF MarkDeleted
<1>2. req[Consumer].kind = "idle"
  BY <1>1, IdleFits
<1>3. \A v \in Users : /\ ListPendingSessionInvites(v)' = ListPendingSessionInvites(v)
                       /\ HasRSVPToCancel(v)' <=> HasRSVPToCancel(v)
  BY <1>1, NobodyComes DEF ListPendingSessionInvites, InvitesOf, Answerable
<1>4. CASE deletion[u] # "announced"
  <2>1. UNCHANGED req
    BY <1>4 DEF MarkDeleted
  <2>2. OnlyAnswered /\ req' \in [Procs -> Requests] /\ Resting
    BY <1>1, <2>1, InvitesStay, Rested DEF InvitesInv
  <2>3. InvitesTellWhoJoined' /\ found' \subseteq 1 .. Len(invites) /\ joined' \subseteq 1 .. Len(invites)
    BY <1>1 DEF InvitesInv, InvitesTellWhoJoined, InvitesShape
  <2>4. "cancelling" \in Stages /\ IsInactive(u)
    BY <1>1, <1>4 DEF Stages, IsInactive
  <2>5. req'[Consumer].kind = "idle"
    BY <1>2, <2>1
  <2>6. InvitesInv'
    BY <1>1, <1>3, <2>2, <2>3, <2>4, <2>5, DeletionMoves
  <2>. QED  BY <1>1, <2>6
<1>5. CASE deletion[u] = "announced"
  <2>1. req' = [p \in Procs |-> [req[p] EXCEPT !.old = @ \/ req[p].user = u]]
    BY <1>5 DEF MarkDeleted
  <2>2. ASSUME NEW p \in Procs
        PROVE  /\ req'[p] \in Requests
               /\ req'[p].kind = req[p].kind /\ req'[p].user = req[p].user
               /\ req'[p].invite = req[p].invite /\ req'[p].read = req[p].read
               /\ req[p].old = TRUE \/ req[p].user = u => req'[p].old = TRUE
    <3>1. PICK r \in Requests : r = req[p]
      BY DEF InvitesInv, InvitesShape
    <3>2. PICK old \in BOOLEAN : old = (r.old \/ r.user = u)
      <4>1. (r.old \/ r.user = u) \in BOOLEAN
        BY Zenon
      <4>. QED  BY <4>1
    <3>3. req'[p] = [r EXCEPT !.old = old]
      BY <2>1, <3>1, <3>2
    <3>4. /\ req'[p] \in Requests /\ req'[p].old = old
          /\ req'[p].kind = r.kind /\ req'[p].user = r.user
          /\ req'[p].invite = r.invite /\ req'[p].read = r.read
      BY <3>3 DEF Requests
    <3>5. r.old = TRUE \/ r.user = u => old = TRUE
      BY <3>2
    <3>. QED  BY <3>1, <3>4, <3>5
  <2>3. req' \in [Procs -> Requests]
    BY <2>1, <2>2
  <2>4. deletion' \in [Users -> Stages] /\ deletion'[u] = "cancelling"
        /\ \A v \in Users : v # u => deletion'[v] = deletion[v]
    BY <1>1 DEF InvitesInv, InvitesShape, Stages
  <2>5. InvitesShape' /\ OnePending' /\ InvitesTellWhoJoined'
    BY <1>1, <2>3, <2>4 DEF InvitesInv, InvitesShape, OnePending, InvitesTellWhoJoined
  <2>6. RequestsFit'
    <3>. SUFFICES ASSUME NEW p \in Procs
                  PROVE  Fits(req[p])'
      BY DEF RequestsFit
    <3>1. Fits(req[p])
      BY DEF InvitesInv, RequestsFit
    <3>2. \A v \in Deletable : v # u /\ IsInactive(v)' => IsInactive(v)
      BY <2>4 DEF IsInactive
    <3>. QED  BY <1>1, <2>2, <3>1, <3>2 DEF Fits
  <2>7. ConsumerOK'
    BY <1>2, <2>2 DEF ConsumerOK
  <2>8. GivenUp'
    <3>. SUFFICES ASSUME NEW v \in Deletable \ late
                  PROVE  /\ deletion'[v] \in {"declining", "done"} => ~HasRSVPToCancel(v)'
                         /\ deletion'[v] = "done" => ListPendingSessionInvites(v)' = {}
      BY <1>1 DEF GivenUp
    <3>1. CASE v = u
      BY <2>4, <3>1
    <3>2. CASE v # u
      BY <1>3, <2>4, <3>2 DEF InvitesInv, GivenUp
    <3>. QED  BY <3>1, <3>2
  <2>. QED  BY <1>1, <2>5, <2>6, <2>7, <2>8 DEF InvitesInv
<1>. QED  BY <1>4, <1>5

\* The steps of a deletion before the mark, and after it.
LEMMA DeletionKeeps ==
  ASSUME InvitesInv, IInv, NEW u \in Deletable,
         AccountDeleted(u) \/ CancelRSVPs(u) \/ DeclineInvites(u)
  PROVE  [Next]_vars /\ InvitesInv'
<1>. Deletable \subseteq Users /\ Consumer \in Procs /\ Deletable \subseteq Invitees
  BY InvitesAssumption DEF Procs
<1>1. CASE \E i \in ListPendingSessionInvites(u) :
             deletion[u] = "declining" /\ ReadsInvite(Consumer, "decline", i)
  <2>1. PICK i \in ListPendingSessionInvites(u) :
          deletion[u] = "declining" /\ ReadsInvite(Consumer, "decline", i)
    BY <1>1
  <2>2. i \in 1 .. Len(invites) /\ Answerable(i) /\ invites[i].user = u
    BY DEF ListPendingSessionInvites, InvitesOf
  <2>3. i \in Nat /\ invites[i].status = "pending"
    BY <2>2, InviteRead DEF InvitesInv
  <2>4. Begin(Consumer, "decline", u, i, "pending")
    BY <2>1, <2>2, <2>3 DEF ReadsInvite
  <2>5. u \in Invitees
    OBVIOUS
  <2>6. UNCHANGED vars /\ InvitesInv'
    BY <2>1, <2>2, <2>3, <2>4, <2>5, BeginKeeps
  <2>. QED  BY <2>6
<1>2. CASE ~\E i \in ListPendingSessionInvites(u) :
             deletion[u] = "declining" /\ ReadsInvite(Consumer, "decline", i)
  <2>1. PICK stage : stage = deletion'[u]
    OBVIOUS
  <2>2. /\ UNCHANGED inviteVarsButDeletion
        /\ \/ UNCHANGED vars
           \/ deletion[u] = "listed" /\ CancelRSVP(u) /\ deletion' = [deletion EXCEPT ![u] = "declining"]
        /\ \/ /\ deletion[u] = "none" /\ deletion' = [deletion EXCEPT ![u] = "announced"]
           \/ /\ deletion[u] = "cancelling"
              /\ \/ HasRSVPToCancel(u) /\ deletion' = [deletion EXCEPT ![u] = "listed"]
                 \/ ~HasRSVPToCancel(u) /\ deletion' = [deletion EXCEPT ![u] = "declining"]
           \/ /\ deletion[u] = "listed" /\ CancelRSVP(u)
              /\ deletion' = [deletion EXCEPT ![u] = "declining"]
           \/ /\ deletion[u] = "declining" /\ req[Consumer] = Idle
              /\ ListPendingSessionInvites(u) = {} /\ deletion' = [deletion EXCEPT ![u] = "done"]
    BY <1>2 DEF AccountDeleted, CancelRSVPs, DeclineInvites
  <2>3. UNCHANGED <<invites, req, found, joined, overturned, late>>
    BY <2>2 DEF inviteVarsButDeletion
  <2>4. deletion \in [Users -> Stages]
    BY DEF InvitesInv, InvitesShape
  <2>5. stage \in Stages /\ deletion' = [deletion EXCEPT ![u] = stage]
    BY <2>1, <2>2, <2>4 DEF Stages
  <2>6. CancelRSVP(u) => Next /\ rsvp'[u] = "none" /\ NoNewRSVPBut({})
    BY RowGivenUp DEF CancelRSVP, Next, IInv, session
  <2>7. [Next]_vars /\ \A v \in Users : HasRSVPToCancel(v)' => HasRSVPToCancel(v)
    BY <2>2, <2>6, NobodyComes DEF NoNewRSVPBut
  <2>8. OnlyAnswered /\ req' \in [Procs -> Requests] /\ Resting
    BY <2>3, InvitesStay, Rested DEF InvitesInv
  <2>9. InvitesTellWhoJoined' /\ found' \subseteq 1 .. Len(invites) /\ joined' \subseteq 1 .. Len(invites)
    BY <2>3 DEF InvitesInv, InvitesTellWhoJoined, InvitesShape
  <2>10. stage \in {"none", "announced"} \/ IsInactive(u)
    BY <2>1, <2>2, <2>4 DEF IsInactive
  <2>11. req'[Consumer].kind # "idle" => req'[Consumer].user # u
    <3>1. req[Consumer].kind # "idle" => deletion[req[Consumer].user] = "declining"
      BY DEF InvitesInv, ConsumerOK
    <3>2. req[Consumer].kind # "idle" => deletion[u] # "declining"
      BY <2>2, IdleFits
    <3>. QED  BY <2>3, <3>1, <3>2
  <2>12. stage \in {"declining", "done"} => u \in late \/ ~HasRSVPToCancel(u)'
    <3>1. CASE deletion[u] = "listed"
      BY <2>2, <2>6, <3>1 DEF HasRSVPToCancel
    <3>2. CASE deletion[u] = "declining"
      BY <2>7, <3>2 DEF InvitesInv, GivenUp
    <3>3. CASE deletion[u] \in {"none", "cancelling"}
      BY <2>1, <2>2, <2>4, <2>7, <3>3
    <3>. QED  BY <2>2, <3>1, <3>2, <3>3
  <2>13. stage = "done" => u \in late \/ ListPendingSessionInvites(u)' = {}
    BY <2>1, <2>2, <2>3, <2>4 DEF ListPendingSessionInvites, InvitesOf, Answerable
  <2>14. InvitesInv'
    BY <2>3, <2>5, <2>7, <2>8, <2>9, <2>10, <2>11, <2>12, <2>13, DeletionMoves
  <2>. QED  BY <2>7, <2>14
<1>. QED  BY <1>1, <1>2

-----------------------------------------------------------------------------
(***************************************************************************)
(* The invariant holds, and says what the properties say.                  *)
(***************************************************************************)

LEMMA InvitesStart == InvitesInit => Init /\ IInv /\ InvitesInv
<1>. SUFFICES ASSUME InvitesInit
              PROVE  Init /\ IInv /\ InvitesInv
  OBVIOUS
<1>. Consumer \in Procs /\ Creator \in Users
  BY UsersAssumption DEF Procs
<1>1. Init /\ IInv
  BY InvariantAtStart DEF InvitesInit
<1>2. /\ invites = <<>> /\ req = [p \in Procs |-> Idle] /\ found = {} /\ joined = {}
      /\ deletion = [u \in Users |-> "none"]
  BY DEF InvitesInit
<1>3. InvitesShape /\ OnePending /\ InvitesTellWhoJoined
  BY <1>2, IdleFits DEF InvitesShape, OnePending, InvitesTellWhoJoined, Stages
<1>4. RequestsFit /\ ConsumerOK
  BY <1>2, IdleFits DEF RequestsFit, Fits, ConsumerOK
<1>5. GivenUp
  BY <1>2, InvitesAssumption DEF GivenUp
<1>. QED  BY <1>1, <1>3, <1>4, <1>5 DEF InvitesInv

\* Whatever a request, the sweep or a deletion does is a step of attendance, or
\* none of its business.
LEMMA InvitesKept ==
  IInv /\ InvitesInv /\ [InvitesNext]_allVars => [Next]_vars /\ IInv' /\ InvitesInv'
<1>. SUFFICES ASSUME IInv, InvitesInv, [InvitesNext]_allVars
              PROVE  [Next]_vars /\ InvitesInv'
  BY InvariantKept
<1>1. CASE AttendanceStep /\ UNCHANGED inviteVars
  BY <1>1, AttendanceKeeps
<1>2. CASE \/ \E w \in Workers, u \in Invitees : SendSessionInvite(w, u) \/ HandleCreateRSVP(w, u)
           \/ \E w \in Workers, i \in 1..Len(invites) :
                AcceptSessionInvite(w, i) \/ DeclineSessionInvite(w, i)
  BY <1>2, WorkerBegins
<1>3. CASE \E p \in Procs : CommitSend(p) \/ CommitDecline(p) \/ Refuse(p)
  BY <1>3, SendKeeps, DeclineKeeps
<1>4. CASE \E p \in Procs : CommitAccept(p) \/ CommitRSVP(p)
  BY <1>4, JoinKeeps
<1>5. CASE \/ \E i \in 1 .. Len(invites) : InviteRunsOut(i) \/ ExpireStaleInvites(i)
           \/ StartExpirySweep
  BY <1>5, SweepKeeps
<1>6. CASE \E u \in Deletable : MarkDeleted(u)
  BY <1>6, MarkKeeps
<1>7. CASE \E u \in Deletable : AccountDeleted(u) \/ CancelRSVPs(u) \/ DeclineInvites(u)
  BY <1>7, DeletionKeeps
<1>8. CASE UNCHANGED allVars
  <2>1. UNCHANGED vars /\ UNCHANGED <<invites, req, found, deletion, joined, overturned, late>>
    BY <1>8 DEF allVars, inviteVars
  <2>2. OnlyAnswered /\ req' \in [Procs -> Requests] /\ Resting
    BY <2>1, InvitesStay, Rested DEF InvitesInv
  <2>3. InvitesTellWhoJoined' /\ found' \subseteq 1 .. Len(invites) /\ joined' \subseteq 1 .. Len(invites)
    BY <2>1 DEF InvitesInv, InvitesTellWhoJoined, InvitesShape
  <2>4. \A u \in Deletable \ late' : IsInactive(u) /\ HasRSVPToCancel(u)' => HasRSVPToCancel(u)
    BY <2>1, NobodyComes, InvitesAssumption
  <2>5. InvitesInv'
    BY <2>1, <2>2, <2>3, <2>4, Continues
  <2>. QED  BY <2>1, <2>5
<1>. QED  BY <1>1, <1>2, <1>3, <1>4, <1>5, <1>6, <1>7, <1>8 DEF InvitesNext

\* The invariants of attendance and of its invites hold in every reachable state.
THEOREM InvitesInvariantHolds == InvitesSpec => [](IInv /\ InvitesInv)
<1>1. InvitesInit => IInv /\ InvitesInv
  BY InvitesStart
<1>2. (IInv /\ InvitesInv) /\ [InvitesNext]_allVars => (IInv /\ InvitesInv)'
  BY InvitesKept
<1>. QED  BY <1>1, <1>2, PTL DEF InvitesSpec

\* Invites and deletions do to attendance only what its own commands do, so what
\* is proved of SessionAttendance holds with them (AcceptInvite reads again under
\* the lock what its caller had read before it).
THEOREM InvitesImplementAttendance == InvitesSpec => ImplementsAttendance
<1>1. InvitesInit => Init
  BY InvitesStart
<1>2. IInv /\ InvitesInv /\ [InvitesNext]_allVars => [Next]_vars
  BY InvitesKept
<1>. QED  BY <1>1, <1>2, InvitesInvariantHolds, PTL DEF InvitesSpec, ImplementsAttendance, Spec

\* An accepted invite is one whose user joined by it, and the other way round, but
\* for answers written over without a lock (UpdateInvite).
THEOREM InvitesAreTrue == InvitesSpec => []InvitesTellWhoJoined
<1>1. InvitesInv => InvitesTellWhoJoined
  BY DEF InvitesInv
<1>. QED  BY <1>1, InvitesInvariantHolds, PTL

\* Once DeactivateAccount has returned the user has neither an RSVP to a scheduled
\* session nor an invite to answer, and only a request from before the mark can
\* give them one.
THEOREM DeletedStayAway == InvitesSpec => []DeletedLeavesSession
<1>1. InvitesInv => DeletedLeavesSession
  BY DEF InvitesInv, GivenUp, DeletedLeavesSession
<1>. QED  BY <1>1, InvitesInvariantHolds, PTL
=============================================================================
