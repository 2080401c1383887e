-------------------------- MODULE NotificationFeed --------------------------
(***************************************************************************)
(* The notifications service: its handlers turn an event into one feed row *)
(* for each of its recipients, or into an email or SMS, and owners read    *)
(* their feed (handlers.go, team_formation_handlers.go,                    *)
(* identity_handlers.go, NotificationService, AccountLifecycleService).    *)
(*                                                                         *)
(* The messages are those of one topic; they reach a handler through       *)
(* EventConsumer, so it sees them late, again, and on two instances at     *)
(* once.  A handler writes row by row, without a transaction: whether the  *)
(* recipient is still there is one query, the row another.                 *)
(***************************************************************************)
EXTENDS EventConsumer

CONSTANTS
  Accounts,   \* the accounts
  Nobody,     \* uuid.Nil
  Leaving,    \* accounts that may be deleted and erased
  Histories   \* what the messages of a topic may say, [Messages -> Events]

Topics == {"member.join_requested", "member.answered", "attendee.promoted",
           "attendee.join_requested", "attendee.answered", "session.cancelled",
           "invite.sent", "invite.answered", "session_invite.sent",
           "session_invite.answered", "draft", "draft.cancelled", "voting",
           "voting.cancelled", "voting.tied", "teams_reset", "identity"}

\* listed are the managers, participants or captains it carries, subject the
\* account it is about, inviter who invited it, actor who caused it; muted
\* says that another event tells it, or that nobody is to be mailed.
Events == [topic : Topics, listed : SUBSET (Accounts \cup {Nobody}),
           subject : Accounts \cup {Nobody}, inviter : Accounts \cup {Nobody},
           actor : Accounts \cup {Nobody}, muted : BOOLEAN, garbled : BOOLEAN]

ASSUME FeedAssumption ==
  /\ Nobody \notin Accounts /\ Leaving \subseteq Accounts
  /\ Histories \subseteq [Messages -> Events]
  /\ \A h \in Histories : \A m, n \in Messages : h[m].topic = h[n].topic

VARIABLES
  event,           \* event[m]: what m says
  feed,            \* feed[m][a]: a's row for m, "none", "unread" or "read"
  deletedAccount,  \* notifications.deleted_account
  erasedAccount,   \* notifications.erased_account
  todo,            \* todo[i]: the recipients i still has to tell
  checked,         \* checked[i]: the recipient i has found active, if any
  told,            \* told[m][a]: rows and mails m has led to for a
  late             \* <<m, a>>: row written by who had found a not yet erased

feedVars == <<event, feed, deletedAccount, erasedAccount, told, late>>
vars == <<consumerVars, feedVars, todo, checked>>

\* A row that is there has been read, or not.
Rows == {"none", "unread", "read"}

None == [to |-> Nobody, erased |-> FALSE]

Init ==
  /\ ConsumerInit
  /\ event \in Histories
  /\ feed = [m \in Messages |-> [a \in Accounts |-> "none"]]
  /\ deletedAccount = {} /\ erasedAccount = {}
  /\ todo = [i \in Instances |-> {}]
  /\ checked = [i \in Instances |-> None]
  /\ told = [m \in Messages |-> [a \in Accounts |-> 0]]
  /\ late = {}

-----------------------------------------------------------------------------
(***************************************************************************)
(* Who is told.                                                            *)
(***************************************************************************)

MemberJoinRequested(e) == e.listed
MemberAnswered(e) == {e.subject}
AttendeePromoted(e) == {e.subject} \ {Nobody}
AttendeeJoinRequested(e) == e.listed
AttendeeAnswered(e) == {e.subject}
SessionCancelled(e) == e.listed
InviteSent(e) == {e.subject}
InviteAnswered(e) == {e.inviter} \ {Nobody}
SessionInviteSent(e) == {e.subject}
SessionInviteAnswered(e) == {e.inviter} \ {Nobody}

\* Faulty variant: whoever caused the event is told about it, too.
NotifyEveryone(e) == e.listed \ {Nobody}

\* notifyEach.
NotifyEach(e) == e.listed \ {Nobody, e.actor}

\* The captains, the one whose turn it is, the organizer, the players.
Draft(e) == NotifyEach(e)

\* cancelNotifiedElsewhere: the session's end and a reset tell it themselves.
DraftCancelled(e) == IF e.muted THEN {} ELSE NotifyEach(e)
Voting(e) == NotifyEach(e)
VotingCancelled(e) == IF e.muted THEN {} ELSE NotifyEach(e)
VotingTied(e) == NotifyEach(e)
TeamsReset(e) == NotifyEach(e)

\* An address nobody has confirmed, a phone that is not welcomed and a channel
\* nobody knows are not mailed.
Mailed(e) == IF e.muted THEN {} ELSE {e.subject}

\* Subscribe: the handler of each topic.
Audience(e) ==
  CASE e.topic = "member.join_requested" -> MemberJoinRequested(e)
    [] e.topic = "member.answered" -> MemberAnswered(e)
    [] e.topic = "attendee.promoted" -> AttendeePromoted(e)
    [] e.topic = "attendee.join_requested" -> AttendeeJoinRequested(e)
    [] e.topic = "attendee.answered" -> AttendeeAnswered(e)
    [] e.topic = "session.cancelled" -> SessionCancelled(e)
    [] e.topic = "invite.sent" -> InviteSent(e)
    [] e.topic = "invite.answered" -> InviteAnswered(e)
    [] e.topic = "session_invite.sent" -> SessionInviteSent(e)
    [] e.topic = "session_invite.answered" -> SessionInviteAnswered(e)
    [] e.topic = "draft" -> Draft(e)
    [] e.topic = "draft.cancelled" -> DraftCancelled(e)
    [] e.topic = "voting" -> Voting(e)
    [] e.topic = "voting.cancelled" -> VotingCancelled(e)
    [] e.topic = "voting.tied" -> VotingTied(e)
    [] e.topic = "teams_reset" -> TeamsReset(e)
    [] e.topic = "identity" -> Mailed(e)

\* The handlers that do not look for uuid.Nil get ids that their producers take
\* from rows.
ASSUME RecipientsAssumption ==
  \A h \in Histories : \A m \in Messages : ~h[m].garbled => Audience(h[m]) \subseteq Accounts

IsMail(m) == event[m].topic = "identity"

-----------------------------------------------------------------------------
(***************************************************************************)
(* Handling a message.                                                     *)
(***************************************************************************)

StartHandling(i) ==
  /\ NextMessage(i)
  /\ LET e == event[Head(buffer[i])[1]]
     IN todo' = [todo EXCEPT ![i] = IF e.garbled THEN {} ELSE Audience(e)]
  /\ UNCHANGED <<feedVars, checked>>

\* Faulty variant: only the accounts deleted count.
IsDeleted(a) == a \in deletedAccount

IsInactive(a) == a \in deletedAccount \cup erasedAccount

\* Nobody is told who was deleted or erased.
CheckRecipient(i, a) ==
  /\ current[i].stage = "handling"
  /\ checked[i] = None /\ a \in todo[i]
  /\ IF IsInactive(a)
     THEN todo' = [todo EXCEPT ![i] = @ \ {a}] /\ UNCHANGED checked
     ELSE /\ checked' = [checked EXCEPT ![i] = [to |-> a, erased |-> a \in erasedAccount]]
          /\ UNCHANGED todo
  /\ UNCHANGED <<consumerVars, feedVars>>

Tell(m, a) == told' = [told EXCEPT ![m][a] = @ + 1]

\* Faulty variant: the row is written whether there is one or not.
CreateAgain(m, a) ==
  /\ feed' = [feed EXCEPT ![m][a] = "unread"]
  /\ Tell(m, a)

\* ON CONFLICT (event_id, recipient_account_id) DO NOTHING.
Create(m, a) ==
  \/ feed[m][a] = "none" /\ feed' = [feed EXCEPT ![m][a] = "unread"] /\ Tell(m, a)
  \/ feed[m][a] # "none" /\ UNCHANGED <<feed, told>>

\* Deliver renders and sends, and nobody remembers that it did.
Mail(m, a) == Tell(m, a) /\ UNCHANGED feed

CreateNotification(i) ==
  LET m == current[i].msg
      a == checked[i].to
  IN
  /\ checked[i] # None
  /\ IF IsMail(m) THEN Mail(m, a) ELSE Create(m, a)
  /\ late' = IF a \in erasedAccount /\ ~checked[i].erased THEN late \cup {<<m, a>>} ELSE late
  /\ todo' = [todo EXCEPT ![i] = @ \ {a}]
  /\ checked' = [checked EXCEPT ![i] = None]
  /\ UNCHANGED <<consumerVars, event, deletedAccount, erasedAccount>>

Handled(i) ==
  /\ HandlerSucceeds(i)
  /\ todo[i] = {} /\ ~event[current[i].msg].garbled
  /\ UNCHANGED <<feedVars, todo, checked>>

\* What the identity handlers cannot decode they try again.
DecodeError(e) == IF e.topic = "identity" THEN "failed" ELSE "permanent"

\* The first error ends the fan-out, with the recipients before it told.
Fails(i) ==
  /\ current[i].stage = "handling"
  /\ LET e == event[current[i].msg]
     IN HandlerFails(i, IF e.garbled THEN DecodeError(e) ELSE "failed")
  /\ todo' = [todo EXCEPT ![i] = {}]
  /\ checked' = [checked EXCEPT ![i] = None]
  /\ UNCHANGED feedVars

GoesDown(i) ==
  /\ Crash(i) \/ StopConsuming(i)
  /\ todo' = [todo EXCEPT ![i] = {}]
  /\ checked' = [checked EXCEPT ![i] = None]
  /\ UNCHANGED feedVars

-----------------------------------------------------------------------------
(***************************************************************************)
(* The owner, the accounts' end, and the retention.                        *)
(***************************************************************************)

\* The rows a may mark: its own.
ListNotifications(a) == {m \in Messages : feed[m][a] # "none"}

\* A row that was read stays as it is.
MarkRead(m, a) ==
  /\ feed[m][a] = "unread"
  /\ feed' = [feed EXCEPT ![m][a] = "read"]

MarkAsRead(m, a) ==
  /\ m \in ListNotifications(a) /\ MarkRead(m, a)
  /\ UNCHANGED <<consumerVars, event, deletedAccount, erasedAccount, todo, checked, told, late>>

\* DeactivateAccount.
MarkDeleted(a) ==
  /\ a \in Leaving \ deletedAccount
  /\ deletedAccount' = deletedAccount \cup {a}
  /\ UNCHANGED <<consumerVars, event, feed, erasedAccount, todo, checked, told, late>>

\* EraseAccount, the first time.
Erase(a) ==
  /\ a \in Leaving \ erasedAccount
  /\ erasedAccount' = erasedAccount \cup {a}
  /\ feed' = [m \in Messages |-> [feed[m] EXCEPT ![a] = "none"]]
  /\ UNCHANGED <<consumerVars, event, deletedAccount, todo, checked, told, late>>

\* Bound: no row gets old before its message is dealt with for good.
Settled(m) ==
  /\ server[m] \in {"acked", "terminated", "exhausted"}
  /\ \A i \in Instances : m \notin Held(i)

\* The rows of m are old enough, or old enough if they were read.
DeleteExpired(m, unread) ==
  /\ Settled(m)
  /\ feed' = [feed EXCEPT ![m] =
                [a \in Accounts |-> IF feed[m][a] = "unread" /\ ~unread THEN "unread" ELSE "none"]]
  /\ UNCHANGED <<consumerVars, event, deletedAccount, erasedAccount, todo, checked, told, late>>

Next ==
  \/ ConsumerStep /\ UNCHANGED <<feedVars, todo, checked>>
  \/ \E i \in Instances :
       \/ StartHandling(i) \/ Handled(i) \/ Fails(i) \/ GoesDown(i)
       \/ CreateNotification(i)
       \/ \E a \in Accounts : CheckRecipient(i, a)
  \/ \E a \in Leaving : MarkDeleted(a) \/ Erase(a)
  \/ \E m \in Messages :
       \/ \E a \in Accounts : MarkAsRead(m, a)
       \/ \E unread \in BOOLEAN : DeleteExpired(m, unread)

Spec == Init /\ [][Next]_vars

-----------------------------------------------------------------------------
(***************************************************************************)
(* Properties.                                                             *)
(***************************************************************************)

\* Every variable has its type, and only who handles a message has recipients
\* to tell.
TypeOK ==
  /\ ConsumerTypeOK
  /\ event \in Histories
  /\ feed \in [Messages -> [Accounts -> Rows]]
  /\ deletedAccount \cup erasedAccount \subseteq Leaving
  /\ told \in [Messages -> [Accounts -> 0 .. MaxDeliver]]
  /\ late \subseteq Messages \X Accounts
  /\ \A i \in Instances :
       /\ todo[i] \subseteq Accounts
       /\ checked[i].to \in todo[i] \cup {Nobody}
       /\ current[i].stage # "handling" => todo[i] = {}

\* However often an event is delivered, and to whomever at once, each recipient
\* finds one notification of it at most (CreateNotification), and who caused
\* it finds none (notifyEach); once the event is acked every recipient has been
\* told, but those who are gone.  Emails and SMS are not remembered: one goes
\* out per delivery at most.
ToldOnce ==
  \A m \in Messages, a \in Accounts :
    /\ ~IsMail(m) /\ <<m, a>> \notin late => told[m][a] <= 1
    /\ IsMail(m) => told[m][a] <= delivered[m]
    /\ event[m].topic \in {"draft", "voting", "teams_reset"} /\ a = event[m].actor => told[m][a] = 0
    /\ /\ server[m] = "acked"
       /\ a \in Audience(event[m]) \ (deletedAccount \cup erasedAccount)
       => told[m][a] > 0

\* The feed of an erased account stays empty, however late an event about it
\* comes - unless the handler had looked for the erasure before it was
\* committed (CreateNotification, AccountStateManager.Erase).
ErasedFeedGone ==
  \A a \in erasedAccount, m \in Messages : feed[m][a] # "none" => <<m, a>> \in late

\* The feeds and the handlers stay what the code can make of them, with nothing
\* for the erased.
FeedOK == TypeOK /\ ErasedFeedGone
=============================================================================
