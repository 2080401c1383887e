------------------------------ MODULE GoingList ------------------------------
(***************************************************************************)
(* What attendance promises team formation: who is going changes by one    *)
(* person joining, or by one person leaving - with at most one person of   *)
(* the waitlist moving up in the same transaction - and whenever somebody  *)
(* leaves an unfinished session, team formation restarts with it.          *)
(*                                                                         *)
(* The exception is RejectAttendee: a rejection that read a join request   *)
(* before it was approved drops the approved person without a word to      *)
(* team formation.                                                         *)
(*                                                                         *)
(* SessionAttendance and TeamFormation both implement this specification,  *)
(* one from the side of the RSVPs and one from the side of the teams.      *)
(***************************************************************************)
CONSTANTS
  Users,       \* everybody who may ever be going
  Requesters   \* those whose join request a manager may be deciding on

VARIABLES
  going,      \* the confirmed attendees
  doubtful,   \* those whose request an unfinished RejectAttendee has read
  ended,      \* the session is completed or canceled
  formed      \* the session has teams, a running draft or an open voting round

list == <<going, doubtful, ended>>

Init ==
  /\ going \in SUBSET Users
  /\ doubtful = {}
  /\ ended = FALSE
  /\ formed = FALSE

\* A joiner resets nothing.
JoinGoing(u) ==
  /\ u \notin going
  /\ going' = going \cup {u}
  /\ UNCHANGED <<doubtful, ended>>

Join(u) == JoinGoing(u) /\ UNCHANGED formed

\* The spot goes to at most one other person, or straight back to u, who may
\* be the longest waiting after a change of RSVP that put them on the waitlist.
\* With their row gone, nobody can reject u any more.
LeaveGoing(u) ==
  /\ u \in going
  /\ \/ going' = going \ {u}
     \/ \E w \in Users \ (going \ {u}) : going' = (going \ {u}) \cup {w}
  /\ doubtful' \in {doubtful, doubtful \ {u}}
  /\ UNCHANGED ended

Leave(u) == LeaveGoing(u) /\ formed' = (formed /\ ended)

\* RejectAttendee reads a request, and decides on one that still is one.
StartReview(u) ==
  /\ u \in Requesters \ (going \cup doubtful)
  /\ doubtful' = doubtful \cup {u}
  /\ UNCHANGED <<going, ended>>

FinishReview(u) ==
  /\ u \in doubtful \ going
  /\ doubtful' = doubtful \ {u}
  /\ UNCHANGED <<going, ended>>

\* RejectAttendee decides on a request that has been approved since.
LateRejection(u) ==
  /\ u \in doubtful \cap going
  /\ going' = going \ {u}
  /\ doubtful' = doubtful \ {u}
  /\ UNCHANGED ended

\* Completing or canceling the session: a running draft and an open round end.
EndList ==
  /\ ~ended
  /\ ended' = TRUE
  /\ UNCHANGED <<going, doubtful>>

End == EndList /\ formed' \in {formed, FALSE}

ChangeFormation ==
  /\ ~ended
  /\ formed' \in BOOLEAN
  /\ UNCHANGED list

Next ==
  \/ \E u \in Users :
       \/ Join(u)
       \/ Leave(u)
       \/ (StartReview(u) \/ FinishReview(u) \/ LateRejection(u)) /\ UNCHANGED formed
  \/ End
  \/ ChangeFormation

Spec == Init /\ [][Next]_<<going, doubtful, ended, formed>>
=============================================================================
