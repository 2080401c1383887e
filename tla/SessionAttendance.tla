------------------------- MODULE SessionAttendance -------------------------
(***************************************************************************)
(* The people of one activity session: who RSVPed, who holds a spot, who   *)
(* waits for one, and who asked to be let in.                              *)
(*                                                                         *)
(* Every command of AttendeeService and SessionService is one database     *)
(* transaction.  All of them but RejectAttendee take the session's         *)
(* advisory lock before they read anything (lockSessionCapacity), so each  *)
(* is one atomic action here.  RejectAttendee takes no lock: it reads the  *)
(* session and the RSVP, and writes the RSVP back by its id later, so it   *)
(* is two actions with anything in between.                                *)
(*                                                                         *)
(* Team formation appears only as the flag "formed" (there are teams, a    *)
(* running draft or an open voting round); TeamFormation.tla has the       *)
(* detail, and GoingList.tla is what the two owe each other.               *)
(***************************************************************************)
EXTENDS Integers, FiniteSets

CONSTANTS
  Users,       \* everybody who may ever RSVP
  Creator,     \* created_by_id of the session
  Members,     \* confirmed members of the session's group, when it has one
  Capacities   \* the capacities organizers choose, NoLimit for none (a NULL capacity)

NoLimit == 0

ASSUME UsersAssumption ==
  /\ IsFiniteSet(Users)
  /\ Creator \in Users
  /\ Members \subseteq Users

ASSUME CapacitiesAssumption == Capacities \subseteq Nat

SessionStatuses == {"scheduled", "started", "completed", "canceled"}
SpotStatuses == {"going", "promoted"}
Statuses == {"none", "going", "pending", "not_going", "maybe", "promoted"}
Sources == {"none", "auto_confirmed", "rsvp_manual", "requested", "invited"}

VARIABLES
  standalone,        \* the session has no group, fixed at creation
  status,            \* session.status
  capacity,          \* session.capacity
  public,            \* session.visibility = 'public'
  requiresApproval,  \* session.requires_approval, fixed at creation
  rsvp,              \* rsvp[u]: status of u's live session_attendee row, "none" without one
  source,            \* source[u]: source of that row
  earlier,           \* <<u, v>>: u's live row has an earlier created_at than v's
  reviewing,         \* users whose live row an unfinished RejectAttendee has read
  formed             \* the session has teams, a running draft or an open voting round

session == <<standalone, status, capacity, public, requiresApproval>>
rows == <<rsvp, source, earlier, reviewing>>
vars == <<standalone, status, capacity, public, requiresApproval, rsvp, source,
          earlier, reviewing, formed>>

-----------------------------------------------------------------------------
(***************************************************************************)
(* What the code asks of the session and its rows.                         *)
(***************************************************************************)

Confirmed(r) == {u \in Users : r[u] \in SpotStatuses}

\* Faulty variant: join requests queue with the waitlist.
WaitingWithRequests(r, s) == {u \in Users : r[u] = "pending"}

Waiting(r, s) == {u \in Users : r[u] = "pending" /\ s[u] # "requested"}

AwaitingApproval(u) == rsvp[u] = "pending" /\ source[u] = "requested"

\* Faulty variant: one spot too many.
HasCapacityOffByOne ==
  capacity = NoLimit \/ Cardinality(Confirmed(rsvp)) <= capacity

HasCapacity == capacity = NoLimit \/ Cardinality(Confirmed(rsvp)) < capacity

\* What an answer becomes: a full session waitlists instead of "going".
Granted(st) == IF st = "going" /\ ~HasCapacity THEN "pending" ELSE st

TeamsLocked == status \in {"completed", "canceled"}

\* Faulty variant: the youngest row of the waitlist gets the spot.
PromotionsLIFO(r) ==
  IF Waiting(r, source) = {}
  THEN {r}
  ELSE {[r EXCEPT ![w] = "promoted"] :
          w \in {x \in Waiting(r, source) :
                   \A y \in Waiting(r, source) \ {x} : <<y, x>> \in earlier}}

\* promoteNextPending: the oldest row of the waitlist gets the spot, without
\* looking at the capacity.  r is the RSVPs after the spot was given up.
Promotions(r) ==
  IF Waiting(r, source) = {}
  THEN {r}
  ELSE {[r EXCEPT ![w] = "promoted"] :
          w \in {x \in Waiting(r, source) :
                   \A y \in Waiting(r, source) \ {x} : <<x, y>> \in earlier}}

\* Faulty variants: nobody moves up; teams stay with somebody gone from them.
AfterLeavingNoPromotion(r) ==
  /\ rsvp' = r
  /\ formed' = (formed /\ TeamsLocked)

AfterLeavingKeepsFormation(r) ==
  /\ rsvp' \in Promotions(r)
  /\ UNCHANGED formed

\* What follows when u gave up a spot: the waitlist moves up and team
\* formation restarts, unless the session is over (resetTeamFormationAfterLeaving).
AfterLeaving(r) ==
  /\ rsvp' \in Promotions(r)
  /\ formed' = (formed /\ TeamsLocked)

\* Faulty variant: status and source of the row swapped.
CreateAttendeeSwapped(u, st, src) ==
  /\ rsvp' = [rsvp EXCEPT ![u] = src]
  /\ source' = [source EXCEPT ![u] = st]
  /\ earlier' = earlier \cup {<<v, u>> : v \in {x \in Users : rsvp[x] # "none"}}
  /\ UNCHANGED reviewing

\* A new session_attendee row, younger than every other one.
CreateAttendee(u, st, src) ==
  /\ rsvp' = [rsvp EXCEPT ![u] = st]
  /\ source' = [source EXCEPT ![u] = src]
  /\ earlier' = earlier \cup {<<v, u>> : v \in {x \in Users : rsvp[x] # "none"}}
  /\ UNCHANGED reviewing

\* DeleteAttendee soft-deletes u's row.  A rejection that had read it will
\* write to the deleted row, which nothing reads again, so it is dropped.
DeleteAttendee(u) ==
  /\ source' = [source EXCEPT ![u] = "none"]
  /\ earlier' = {p \in earlier : p[1] # u /\ p[2] # u}
  /\ reviewing' = reviewing \ {u}

GivesUpRow(u) ==
  /\ DeleteAttendee(u)
  /\ LET r == [rsvp EXCEPT ![u] = "none"]
     IN IF rsvp[u] \in SpotStatuses
        THEN AfterLeaving(r)
        ELSE rsvp' = r /\ UNCHANGED formed

-----------------------------------------------------------------------------
Init ==
  /\ standalone \in BOOLEAN
  /\ status = "scheduled"
  /\ capacity \in Capacities
  /\ public \in BOOLEAN
  /\ requiresApproval \in BOOLEAN
  \* CreateSession adds the creator, the template generator adds nobody
  /\ \/ /\ rsvp = [u \in Users |-> IF u = Creator THEN "going" ELSE "none"]
        /\ source = [u \in Users |-> IF u = Creator THEN "auto_confirmed" ELSE "none"]
     \/ /\ rsvp = [u \in Users |-> "none"]
        /\ source = [u \in Users |-> "none"]
  /\ earlier = {}
  /\ reviewing = {}
  /\ formed = FALSE

(***************************************************************************)
(* RSVPs.                                                                  *)
(***************************************************************************)

MayJoin(u) == (~standalone /\ u \in Members) \/ public

\* openAt is never stored, so nobody is told to wait for it.
CanRSVP == status = "scheduled"

\* "Going" on a session that requires approval asks to be let in, and is
\* refused when the session is full; otherwise a full session waitlists.
CreateRSVP(u, st) ==
  /\ MayJoin(u)
  /\ CanRSVP
  /\ rsvp[u] = "none"
  /\ \/ /\ st = "going" /\ requiresApproval
        /\ HasCapacity
        /\ CreateAttendee(u, "pending", "requested")
     \/ /\ st = "going" /\ ~requiresApproval
        /\ CreateAttendee(u, Granted("going"), "rsvp_manual")
     \/ /\ st \in {"not_going", "maybe"}
        /\ CreateAttendee(u, st, "rsvp_manual")
  /\ UNCHANGED <<session, formed>>

\* Only standalone sessions have session invites, and never to the creator.
\* Which users hold a pending one is left open.  Accepting bypasses approval.
AcceptInvite(u) ==
  /\ standalone
  /\ u # Creator
  /\ status = "scheduled"
  /\ rsvp[u] = "none"
  /\ CreateAttendee(u, Granted("going"), "invited")
  /\ UNCHANGED <<session, formed>>

ValidTransition(old, st) == st = "going" => old \notin {"not_going", "pending"}

\* No check of the session's status, of approval, or of the user's membership.
\* A promoted user saying "going" is a change, and their own spot counts
\* against the capacity.
UpdateRSVP(u, st) ==
  /\ rsvp[u] # "none"
  /\ rsvp[u] # st
  /\ ValidTransition(rsvp[u], st)
  /\ LET r == [rsvp EXCEPT ![u] = Granted(st)]
     IN IF rsvp[u] \in SpotStatuses /\ Granted(st) \notin SpotStatuses
        THEN AfterLeaving(r)
        ELSE rsvp' = r /\ UNCHANGED formed
  /\ UNCHANGED <<session, source, earlier, reviewing>>

CancelRSVP(u) ==
  /\ rsvp[u] # "none"
  /\ GivesUpRow(u)
  /\ UNCHANGED session

(***************************************************************************)
(* Managers: join requests and removals.                                   *)
(***************************************************************************)

ApproveAttendee(u) ==
  /\ AwaitingApproval(u)
  /\ HasCapacity
  /\ rsvp' = [rsvp EXCEPT ![u] = "going"]
  /\ UNCHANGED <<session, source, earlier, reviewing, formed>>

\* RejectAttendee holds no lock between reading the request ...
RejectAttendeeRead(u) ==
  /\ AwaitingApproval(u)
  /\ u \notin reviewing
  /\ reviewing' = reviewing \cup {u}
  /\ UNCHANGED <<session, rsvp, source, earlier, formed>>

\* ... and writing the decision, which goes to the row whatever it has become.
RejectAttendeeWrite(u) ==
  /\ u \in reviewing
  /\ reviewing' = reviewing \ {u}
  /\ rsvp' = [rsvp EXCEPT ![u] = "not_going"]
  /\ UNCHANGED <<session, source, earlier, formed>>

RemoveAttendee(u) ==
  /\ u # Creator
  /\ rsvp[u] \in SpotStatuses
  /\ GivesUpRow(u)
  /\ UNCHANGED session

(***************************************************************************)
(* The session itself.                                                     *)
(***************************************************************************)

\* The capacity may be lowered below the number of confirmed attendees, and a
\* raised one does not move the waitlist up.
UpdateSession(cap, pub) ==
  /\ status = "scheduled"
  /\ capacity' = cap
  /\ public' = pub
  /\ UNCHANGED <<standalone, status, requiresApproval, rows, formed>>

SetSessionVisibility(pub) ==
  /\ public' = pub
  /\ UNCHANGED <<standalone, status, capacity, requiresApproval, rows, formed>>

StartSession ==
  /\ status = "scheduled"
  /\ status' = "started"
  /\ UNCHANGED <<standalone, capacity, public, requiresApproval, rows, formed>>

\* Ending a session ends a running draft and an open round; teams stay.
EndsFormation == formed' \in {formed, FALSE}

\* By a manager, or by the expiry sweep straight from "scheduled".
CompleteSession ==
  /\ status \in {"scheduled", "started"}
  /\ status' = "completed"
  /\ EndsFormation
  /\ UNCHANGED <<standalone, capacity, public, requiresApproval, rows>>

\* By a manager, or along with the session's group.
CancelSession ==
  /\ status \in {"scheduled", "started"}
  /\ status' = "canceled"
  /\ EndsFormation
  /\ UNCHANGED <<standalone, capacity, public, requiresApproval, rows>>

(***************************************************************************)
(* Any team formation command, a reset by an organizer included.           *)
(***************************************************************************)
ChangeFormation ==
  /\ ~TeamsLocked
  /\ formed' = ~formed
  /\ UNCHANGED <<session, rows>>

Next ==
  \/ \E u \in Users :
       \/ \E st \in {"going", "not_going", "maybe"} :
            CreateRSVP(u, st) \/ UpdateRSVP(u, st)
       \/ AcceptInvite(u)
       \/ CancelRSVP(u)
       \/ ApproveAttendee(u)
       \/ RejectAttendeeRead(u)
       \/ RejectAttendeeWrite(u)
       \/ RemoveAttendee(u)
  \/ \E cap \in Capacities, pub \in BOOLEAN : UpdateSession(cap, pub)
  \/ \E pub \in BOOLEAN : SetSessionVisibility(pub)
  \/ StartSession \/ CompleteSession \/ CancelSession
  \/ ChangeFormation

Spec == Init /\ [][Next]_vars

-----------------------------------------------------------------------------
(***************************************************************************)
(* Properties.                                                             *)
(***************************************************************************)

\* Every variable has its type.
TypeOK ==
  /\ standalone \in BOOLEAN
  /\ status \in SessionStatuses
  /\ capacity \in Capacities
  /\ public \in BOOLEAN
  /\ requiresApproval \in BOOLEAN
  /\ rsvp \in [Users -> Statuses]
  /\ source \in [Users -> Sources]
  /\ earlier \subseteq Users \X Users
  /\ reviewing \subseteq Users
  /\ formed \in BOOLEAN

Live == {u \in Users : rsvp[u] # "none"}

\* The live rows are a queue: each pair of them is ordered one way by
\* created_at, rows that are gone are in no pair, and a row somebody is about
\* to reject is a live join request's row (DeleteAttendee, RejectAttendee).
QueueOK ==
  /\ \A u \in Users : rsvp[u] = "none" <=> source[u] = "none"
  /\ earlier \subseteq Live \X Live
  /\ \A u, v \in Live : u # v => (<<u, v>> \in earlier <=> <<v, u>> \notin earlier)
  /\ \A u \in Live : <<u, u>> \notin earlier
  /\ reviewing \subseteq {u \in Live : source[u] = "requested"}

\* A spot freed by a leaver goes to the waitlist, never to somebody whose join
\* request a manager has not decided (GetFirstPendingAttendee's source filter).
PromotedFromWaitlist ==
  \A u \in Users : rsvp[u] = "promoted" => source[u] # "requested"

\* The two together: what the waitlist query (GetFirstPendingAttendee) relies
\* on, and what it must never be found to have done.
RowsOK == QueueOK /\ PromotedFromWaitlist

Overbooked == capacity # NoLimit /\ Cardinality(Confirmed(rsvp)) > capacity

\* Whatever RSVPs, approvals, invites, promotions and rejections interleave,
\* only an organizer lowering the capacity makes a session overbooked.
OverbookedOnlyByCapacityCut ==
  [][Overbooked' => Overbooked \/ capacity' # capacity]_vars

BecomesPromoted(w) == rsvp[w] # "promoted" /\ rsvp'[w] = "promoted"

\* Nobody is promoted past a user of the waitlist who has waited longer.
PromotionIsFIFO ==
  [][\A w \in Users : BecomesPromoted(w) =>
       \A v \in Waiting(rsvp', source') : <<w, v>> \in earlier']_vars

StopsGoing(u) == rsvp[u] \in SpotStatuses /\ rsvp'[u] \notin SpotStatuses

\* The write of a rejection that read u's request before u got a spot.
LateRejection(u) ==
  u \in reviewing \ reviewing' /\ rsvp[u] \in SpotStatuses /\ rsvp'[u] = "not_going"

IdleSpot == HasCapacity /\ Waiting(rsvp, source) # {}

\* Nobody leaves a spot idle in front of the waitlist: a spot is free while
\* somebody waits only after an organizer raised the capacity, or after a
\* rejection that overtook the approval of the same request.
SpotNotLeftIdle ==
  [][IdleSpot' =>
       IdleSpot \/ capacity' # capacity \/ \E u \in Users : LateRejection(u)]_vars

\* Whenever a confirmed attendee stops going while the session is on, team
\* formation is back to its initial state after the same transaction - unless
\* a rejection that overtook an approval took the spot.
LeavingRestartsFormation ==
  [][\A u \in Users : StopsGoing(u) /\ ~TeamsLocked /\ ~LateRejection(u)
       => ~formed']_vars

\* Seen from team formation, every command of AttendeeService and
\* SessionService is one step of GoingList: one person in, or one person out
\* with at most one moving up and team formation restarting.
List == INSTANCE GoingList WITH
          Requesters <- Users,
          going <- Confirmed(rsvp),
          doubtful <- reviewing,
          ended <- TeamsLocked

ImplementsGoingList == List!Spec
=============================================================================
