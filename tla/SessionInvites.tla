--------------------------- MODULE SessionInvites ---------------------------
(***************************************************************************)
(* Invites to a standalone session (SessionInviteService), on top of       *)
(* SessionAttendance: who holds one, which that module leaves open, and    *)
(* what becomes of them and of the RSVP when an account is deleted         *)
(* (AccountLifecycleService.DeactivateAccount).                            *)
(*                                                                         *)
(* A request reads the invite, and only then waits for the session's lock, *)
(* if it takes it at all; the invite is written back by its id.            *)
(***************************************************************************)
EXTENDS SessionAttendance, Sequences

CONSTANTS
  Workers,    \* requests served at once
  Consumer,   \* the consumer of identity.account.deleted
  Invitees,   \* who may be invited, or RSVP
  Deletable,  \* whose account may be deleted
  MaxInvites  \* bound on the invites sent

ASSUME InvitesAssumption ==
  /\ Invitees \subseteq Users \ {Creator} /\ Deletable \subseteq Invitees
  /\ Consumer \notin Workers
  /\ MaxInvites \in Nat

VARIABLES
  invites,    \* session_invites; stale when expires_at has passed
  req,        \* req[p]: the request p is working on
  found,      \* invites the running expiry sweep has read and not written yet
  deletion,   \* deletion[u]: how far the deletion of u's account has come here
  joined,     \* invites whose acceptance has committed
  overturned, \* invites answered between somebody's read and write
  late        \* users let in, or invited, by a request older than their deletion

inviteVars == <<invites, req, found, deletion, joined, overturned, late>>
inviteVarsButDeletion == <<invites, req, found, joined, overturned, late>>
allVars == <<vars, inviteVars>>

Procs == Workers \cup {Consumer}

InviteStatuses == {"pending", "accepted", "declined", "expired"}
Invites == [user : Invitees, status : InviteStatuses, stale : BOOLEAN]

Idle == [kind |-> "idle", user |-> Creator, invite |-> 0, read |-> "none", old |-> FALSE]

-----------------------------------------------------------------------------
(***************************************************************************)
(* What the code asks of invites and accounts.                             *)
(***************************************************************************)

\* Faulty variant: an answered invite may be answered again.
AnswerableAgain(i) == ~invites[i].stale

\* validateResponse: once, and in time.
Answerable(i) == invites[i].status = "pending" /\ ~invites[i].stale

MayBeInvited(u) == standalone /\ status = "scheduled" /\ u # Creator

InvitesOf(u) == {i \in 1..Len(invites) : invites[i].user = u}

GetPendingInviteBySessionAndUser(u) == {i \in InvitesOf(u) : invites[i].status = "pending"}

ListPendingSessionInvites(u) == {i \in InvitesOf(u) : Answerable(i)}

FindExpiredPendingInvites ==
  {i \in 1..Len(invites) : invites[i].status = "pending" /\ invites[i].stale}

\* uq_session_invites_pending: one pending invite per user.
CreateInvite(u) ==
  /\ Len(invites) < MaxInvites
  /\ GetPendingInviteBySessionAndUser(u) = {}
  /\ invites' = Append(invites, [user |-> u, status |-> "pending", stale |-> FALSE])

\* Writes the status by id, whatever it has become since it was read.
UpdateInvite(i, to, read) ==
  /\ invites' = [invites EXCEPT ![i].status = to]
  /\ overturned' = IF invites[i].status = read THEN overturned ELSE overturned \cup {i}

\* Faulty variant: the account is recorded as deleted last.
MarkedLast(u) == deletion[u] = "done"

\* deleted_account has a row for u.
IsInactive(u) == deletion[u] \notin {"none", "announced"}

\* ListUpcomingSessions.
HasRSVPToCancel(u) == rsvp[u] # "none" /\ status = "scheduled"

-----------------------------------------------------------------------------
(***************************************************************************)
(* Requests: RejectInactiveAccounts lets them in, the transaction reads,   *)
(* then it writes.  An invite that can be answered when it is read could   *)
(* be when the request came in, so these two are one step.                 *)
(***************************************************************************)

Begin(p, kind, u, i, read) ==
  /\ req[p] = Idle
  /\ req' = [req EXCEPT ![p] =
       [kind |-> kind, user |-> u, invite |-> i, read |-> read, old |-> FALSE]]
  /\ UNCHANGED <<vars, invites, found, deletion, joined, overturned, late>>

\* ensureAccountActive, NewSessionInvite, and neither an RSVP nor an invite yet.
SendSessionInvite(w, u) ==
  /\ ~IsInactive(u)
  /\ MayBeInvited(u)
  /\ rsvp[u] = "none"
  /\ GetPendingInviteBySessionAndUser(u) = {}
  /\ Len(invites) < MaxInvites
  /\ Begin(w, "send", u, 0, "none")

HandleCreateRSVP(w, u) == ~IsInactive(u) /\ Begin(w, "rsvp", u, 0, "none")

\* GetInviteByID, then SessionInvite.Accept or Decline.
ReadsInvite(p, kind, i) ==
  /\ Answerable(i)
  /\ Begin(p, kind, invites[i].user, i, invites[i].status)

AcceptSessionInvite(w, i) ==
  ~IsInactive(invites[i].user) /\ ReadsInvite(w, "accept", i)

DeclineSessionInvite(w, i) ==
  ~IsInactive(invites[i].user) /\ ReadsInvite(w, "decline", i)

Ends(p) ==
  /\ req' = [req EXCEPT ![p] = Idle]
  /\ late' = IF req[p].old THEN late \cup {req[p].user} ELSE late

CommitSend(p) ==
  /\ req[p].kind = "send"
  /\ CreateInvite(req[p].user)
  /\ Ends(p)
  /\ UNCHANGED <<vars, found, deletion, joined, overturned>>

\* Faulty variant: the session is not read again under the lock.
CommitAcceptUnread(p) ==
  /\ req[p].kind = "accept"
  /\ rsvp[req[p].user] = "none"
  /\ CreateAttendee(req[p].user, Granted("going"), "invited")
  /\ UpdateInvite(req[p].invite, "accepted", req[p].read)
  /\ joined' = joined \cup {req[p].invite}
  /\ Ends(p)
  /\ UNCHANGED <<session, formed, found, deletion>>

\* Under the session's lock: the session must be scheduled still and the user
\* without an RSVP (SessionAttendance.AcceptInvite).
CommitAccept(p) ==
  /\ req[p].kind = "accept"
  /\ AcceptInvite(req[p].user)
  /\ UpdateInvite(req[p].invite, "accepted", req[p].read)
  /\ joined' = joined \cup {req[p].invite}
  /\ Ends(p)
  /\ UNCHANGED <<found, deletion>>

\* No lock.  A deleted user has at most one invite to this session to decline.
CommitDecline(p) ==
  /\ req[p].kind = "decline"
  /\ UpdateInvite(req[p].invite, "declined", req[p].read)
  /\ req' = [req EXCEPT ![p] = Idle]
  /\ deletion' = IF p = Consumer THEN [deletion EXCEPT ![req[p].user] = "done"] ELSE deletion
  /\ UNCHANGED <<vars, found, joined, late>>

\* AttendeeService.CreateRSVP reads under the lock only.
CommitRSVP(p) ==
  /\ req[p].kind = "rsvp"
  /\ \E st \in {"going", "maybe", "not_going"} : CreateRSVP(req[p].user, st)
  /\ Ends(p)
  /\ UNCHANGED <<invites, found, deletion, joined, overturned>>

\* A check fails, the constraint refuses, or the database is gone; a deletion
\* starts over with the redelivered message.
Refuse(p) ==
  /\ req[p] # Idle
  /\ req' = [req EXCEPT ![p] = Idle]
  /\ deletion' = IF p = Consumer THEN [deletion EXCEPT ![req[p].user] = "cancelling"]
                 ELSE deletion
  /\ UNCHANGED <<vars, invites, found, joined, overturned, late>>

-----------------------------------------------------------------------------
(***************************************************************************)
(* The cron job that expires invites.                                      *)
(***************************************************************************)

InviteRunsOut(i) ==
  /\ Answerable(i)
  /\ invites' = [invites EXCEPT ![i].stale = TRUE]
  /\ UNCHANGED <<vars, req, found, deletion, joined, overturned, late>>

StartExpirySweep ==
  /\ found = {} /\ FindExpiredPendingInvites # {}
  /\ found' = FindExpiredPendingInvites
  /\ UNCHANGED <<vars, invites, req, deletion, joined, overturned, late>>

\* Each in its own transaction, from what the sweep read.
ExpireStaleInvites(i) ==
  /\ i \in found
  /\ found' = found \ {i}
  /\ UpdateInvite(i, "expired", "pending") \/ UNCHANGED <<invites, overturned>>
  /\ UNCHANGED <<vars, req, deletion, joined, late>>

-----------------------------------------------------------------------------
(***************************************************************************)
(* The deletion of an account.                                             *)
(***************************************************************************)

AccountDeleted(u) ==
  /\ deletion[u] = "none"
  /\ deletion' = [deletion EXCEPT ![u] = "announced"]
  /\ UNCHANGED <<vars, inviteVarsButDeletion>>

\* deactivate from the top, whenever the event comes; what is under way by
\* the first time may still commit.
MarkDeleted(u) ==
  /\ req[Consumer] = Idle
  /\ deletion[u] # "none"
  /\ deletion' = [deletion EXCEPT ![u] = "cancelling"]
  /\ req' = IF deletion[u] # "announced" THEN req
            ELSE [p \in Procs |-> [req[p] EXCEPT !.old = @ \/ req[p].user = u]]
  /\ UNCHANGED <<vars, invites, found, joined, overturned, late>>

\* The RSVPs first: they are listed, then each is canceled as by CancelRSVP;
\* one that is gone by then is an error, and the message comes again.
CancelRSVPs(u) ==
  \/ /\ deletion[u] = "cancelling"
     /\ deletion' = [deletion EXCEPT ![u] = IF HasRSVPToCancel(u) THEN "listed" ELSE "declining"]
     /\ UNCHANGED <<vars, inviteVarsButDeletion>>
  \/ /\ deletion[u] = "listed"
     /\ CancelRSVP(u)
     /\ deletion' = [deletion EXCEPT ![u] = "declining"]
     /\ UNCHANGED inviteVarsButDeletion

\* Then the invites, through DeclineInvite.
DeclineInvites(u) ==
  /\ deletion[u] = "declining"
  /\ \/ \E i \in ListPendingSessionInvites(u) : ReadsInvite(Consumer, "decline", i)
     \/ /\ req[Consumer] = Idle
        /\ ListPendingSessionInvites(u) = {}
        /\ deletion' = [deletion EXCEPT ![u] = "done"]
        /\ UNCHANGED <<vars, inviteVarsButDeletion>>

-----------------------------------------------------------------------------
\* CreateSession: only generated sessions start without their creator.
InvitesInit ==
  /\ Init
  /\ standalone
  /\ rsvp[Creator] = "going"
  /\ invites = <<>>
  /\ req = [p \in Procs |-> Idle]
  /\ found = {}
  /\ deletion = [u \in Users |-> "none"]
  /\ joined = {} /\ overturned = {} /\ late = {}

\* What else happens to the invited, their spots and their session, by the
\* commands of SessionAttendance; a deleted account asks for nothing.  The
\* visibility and the capacity stay as created.
AttendanceStep ==
  \/ \E u \in Invitees :
       \/ /\ ~IsInactive(u)
          /\ \/ \E st \in {"going", "not_going", "maybe"} : UpdateRSVP(u, st)
             \/ CancelRSVP(u)
       \/ ApproveAttendee(u) \/ RejectAttendeeRead(u) \/ RejectAttendeeWrite(u)
       \/ RemoveAttendee(u)
  \/ CancelRSVP(Creator)
  \/ StartSession \/ CancelSession

InvitesNext ==
  \/ AttendanceStep /\ UNCHANGED inviteVars
  \/ \E w \in Workers, u \in Invitees : SendSessionInvite(w, u) \/ HandleCreateRSVP(w, u)
  \/ \E w \in Workers, i \in 1..Len(invites) :
       AcceptSessionInvite(w, i) \/ DeclineSessionInvite(w, i)
  \/ \E p \in Procs :
       \/ CommitSend(p) \/ CommitAccept(p) \/ CommitDecline(p) \/ CommitRSVP(p)
       \/ Refuse(p)
  \/ \E i \in 1..Len(invites) : InviteRunsOut(i) \/ ExpireStaleInvites(i)
  \/ StartExpirySweep
  \/ \E u \in Deletable :
       AccountDeleted(u) \/ MarkDeleted(u) \/ CancelRSVPs(u) \/ DeclineInvites(u)

InvitesSpec == InvitesInit /\ [][InvitesNext]_allVars

-----------------------------------------------------------------------------
(***************************************************************************)
(* Properties.                                                             *)
(***************************************************************************)

\* Invites do to the session what SessionAttendance says they do: whoever
\* accepts one joins only while the session is scheduled and without an RSVP,
\* although both were last true before AcceptInvite waited for the lock.
ImplementsAttendance == Spec

\* An accepted invite is one whose user joined by it, and the other way round,
\* except where DeclineInvite or ExpireStaleInvites wrote over an answer that
\* came after they had read the invite: neither takes a lock.
InvitesTellWhoJoined ==
  \A i \in 1..Len(invites) :
    /\ invites[i].status = "accepted" => i \in joined
    /\ i \in joined => invites[i].status = "accepted" \/ i \in overturned

\* Once DeactivateAccount has returned, the user has no RSVP to a scheduled
\* session and no invite to answer, and gets neither again, but for a request
\* that was under way when the account was marked: RSVPs go first and invites
\* last, and the other services look only at the mark.
DeletedLeavesSession ==
  \A u \in Deletable :
    deletion[u] = "done" /\ u \notin late =>
      ~HasRSVPToCancel(u) /\ ListPendingSessionInvites(u) = {}
=============================================================================
