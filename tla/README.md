# Specifications of the recreational sports backend

The backend in `src/` lets people organise recreational sport: groups, sessions
with limited spots, waitlists, teams. It is a set of Go services, each with a
Postgres schema of its own, that talk to each other only through events: a
service writes an event into the outbox table of its schema in the transaction
that raises it, one worker puts the outboxes onto a NATS JetStream stream, and
durable consumers of the other services handle it.

This directory holds TLA+ modules of the parts whose state is hard to keep right,
TLC configurations that check them on small instances, and TLAPS proofs.
To run one: `tlc -config SessionAttendance.cfg MCSessionAttendance.tla`; to check
proofs: `tlapm SessionProofs.tla`. `PROJECT.json` lists for each
definition the source lines it stands for, and the runs, mutants, hazards and theorems.

## The system

| Component | State | Operations | What makes it correct |
|---|---|---|---|
| Session attendance (`activity/.../attendee_service.go`, `domain/attendee.go`) | one `session_attendee` row per person: status, source, created_at | RSVP, change, cancel, approve, reject, remove, accept an invite | no overbooking; spots go to the waitlist in order; undecided requests get none; a leaver restarts team formation |
| Session invites (`session_invite_service.go`) | invites, their answers | send, accept, decline, expire | an answer and an RSVP go together; nobody joins a session that is over or without a spot |
| Session lifecycle (`session_service.go`, `domain/session.go`) | status, times, capacity, visibility | create, update, start, complete, cancel, sweep of ended sessions | ended is final; each ending happens once; a deleted group takes its sessions along |
| Team formation (`team_formation.go`, `team_draft_service.go`, `team_voting_service.go` and their domain types) | teams, the draft, the voting round, proposals, votes, each attendee's team | create, reset, assign, draft, pick, propose, vote, retract, withdraw, close | one way of forming teams at a time; only people going are on teams; fair drafts; the most voted wins |
| Live updates (`interfaces/live/hub.go`, `visibility.go`, `http/team_formation_stream.go`) | connected viewers, their queues, the version each has | connect, fan out, withhold, drop, shut down | a viewer ends up with the latest state they may see, and not longer than they may see it |
| Groups, members, group invites (`member_service.go`, `invite_service.go`, `activity_group_service.go`) | membership rows, invites, the group's capacity | join, approve, invite, accept, change role, leave, remove | capacity; one open invite a user; a manager always exists; deleted accounts stay out |
| Templates, recurrence, generator (`domain/recurrence.go`, `session_template_service.go`, `session_generator_service.go`) | the rule, the day a series was generated up to | edit, generate sessions ahead | each date of the rule once, none skipped, no other |
| Outbox and publisher (`shared/events/outbox_*.go`, `shared/domainevent`) | outbox rows, row locks, notifications, the stream | insert, notify, read, publish, mark, dead-letter, purge | every event is sent or given up, without needless duplicates |
| Event consumers (`shared/events/nats_broker.go`) | per message: deliveries, acks; per instance: buffer | deliver, handle, ack, nak, dead-letter | acknowledged means handled; nothing disappears |
| Identity (`identity/.../service.go`) | accounts, failed logins, codes, refresh tokens | register, verify, log in, refresh, lock, delete | a token is used once; a deleted account never logs in |
| Deletion and erasure across services (`erasure.go`, `account_lifecycle_service.go`) | per service: what it still holds of a user | delete, react, finish | everything is erased sometime, everywhere, and stays so |
| Account profiles and settings (`account-profile/...`) | profile fields, interests, versioned settings | create from the event, update, erase | no saved setting is set back; nothing is left of the erased |
| Notifications (`notifications/...`) | one feed row per event and recipient | fan out, list, mark read, purge, send mails | each recipient is told once |
| Location, gateway, shared packages | a geocoding cache, a rate limiter | | not modelled, below |

**Interactions.** Attendance, invites to sessions and team formation share the database
and one transaction: a command takes the session's advisory lock, changes an attendee row
and, when somebody stops going, promotes from the waitlist and resets the teams.
Services share nothing but events, at least once and in no promised order. A deleted
account reaches activity, account-profile and notifications as two events, one at the
deletion and one when the grace period is over; each context confirms the second.
The live hub gets every event of a session on every instance, from a broadcast
consumer that keeps nothing.

**Hard behaviours.** Commands that do not take a lock: `RejectAttendee`, the invite sweep,
`DeclineInvite`, everything on members, groups and templates but approvals and join
requests; they write back a row they read before. Long sequences of legal answers; drafts,
proposals and votes that name people who have left. Several replicas of the worker on one
outbox, two runs of the generator at once, two handlers with one message; crashes
between a publish, a handler's row or a generated session and its commit or mark;
lost and dropped notifications and broadcasts; deliveries that are overdue while they wait
in a buffer. A deletion that races the requests of its user.
`PROJECT.json` lists them as hazards, each with its line and the properties about it.

## The modules

| Module | Models |
|---|---|
| `SessionAttendance` | the people of one session. `rsvp[u]`, `source[u]` and the order `earlier` of `created_at` are the live rows; `formed` is all that is left of the teams |
| `SessionInvites` | invites to one session over `SessionAttendance` (which leaves open who has one): a request reads the invite, then waits for the lock; and what `DeactivateAccount` does to invites and RSVPs. It implements `SessionAttendance` |
| `TeamFormation` | the teams, the draft and the voting round of one session; attendance is left as who is `going` |
| `GoingList` | the abstract specification between the two: one person in, or one out with at most one moving up and formation restarting. Both implement it, attendance with `formed` abstract and `going` computed from the rows, team formation the other way round. This is what lets each be checked without the other |
| `Recurrence` | the rules of recurring sessions as operators, on a calendar whose weeks and months are constants, and what a rule means as a definition of its own (`OnCalendar`) |
| `SessionSeries` | a group, its template, the cron job that generates sessions from it, the sessions' starts and ends, and the sweep of ended ones |
| `GroupMembership` | the members and invites of one group; a request is its reads and its commit, and `req[w]` what it has read |
| `EventDelivery` | what the outbox promises: an event once raised is sent or given up, sometime |
| `OutboxPublisher` | the outbox table, its row locks, the notifications and the replicas of the worker. A batch is one transaction (`tx[p]`), its marks become visible at `Commit` |
| `EventConsumer` | the instances that share one durable consumer, over a model of what the JetStream server does; what a handler does is left to the module that extends it |
| `NotificationFeed` | the handlers of the notifications service on `EventConsumer`: the recipients still to be told are `todo[i]`, the one just looked up `checked[i]` |
| `AccountProfile`, `AccountErasure` | profile and settings of an account, with transactions split into read and write; and over it the erasure in all contexts, with the messages of the outboxes as `owed` |
| `LiveHub` | the streams of one session on one instance: `Connect` in its steps, the hub's handling of one event in its steps |
| `IdentityAccount` | one account of the identity service: its row, its verification codes and refresh tokens, and the requests under way with what they have read |
| `SessionProofs` | theorems about `SessionAttendance` and `SessionInvites` |
| `GroupProofs` | theorems about `GroupMembership`, and about `SessionSeries` with `Recurrence` |
| `AccountErasureProofs` | theorems about `AccountProfile` and `AccountErasure` |
| `NotificationFeedProofs` | theorems about `EventConsumer` and `NotificationFeed` |
| `TeamFormationProofs`, `OutboxPublisherProofs`, `LiveHubProofs`, `IdentityAccountProofs` | theorems about the module they are named for |
| `MC*` | instances for TLC |

**Actions and code.** An action of `SessionAttendance` or `TeamFormation` is one
service method with its whole transaction: every one of them holds
`lockSessionCapacity` from before its first read, so they do not interleave. The
exception is `RejectAttendee`, which takes no lock and is two actions, the read and
the write of the row it read. `CompleteSession` also stands for each session the
expiry sweep ends; the sweep itself, its list and the lock it takes for each entry,
is in `SessionSeries`. Times are not modelled there, only orders; a deleted row's place in
the order goes with it.

Where nothing takes a lock first, a command is split where another may commit between
what it reads and what it writes, and a variable holds what it has read: `req[w]` in
`GroupMembership` and `SessionInvites`, `editing[e]` and `ended[p]` in `SessionSeries`, `request[p]` in
`IdentityAccount`, the open transactions in `AccountProfile`.

- `GroupMembership`: `UserRequest`, `HandleAcceptInvite` and `HandleDeclineInvite` are the
  middleware, the handler's checks and the reads outside the transaction; the actions under
  `Transaction` read the row, wait for the group's lock where the command takes it,
  decide, and write the whole row. `Deactivation` is `DeactivateAccount`
  in the steps of its loops, over the same commands with the consumer as the one who asks.
- `SessionInvites`: the request reads the invite (`AcceptSessionInvite` ...), the
  commit holds the session's lock and calls the action of `SessionAttendance` that joins.
- `SessionSeries`: `ListDue`, `BeginTemplate`, one `GenerateOccurrence` or
  `SkipOccurrence` per date, `EndLoop`, `WriteWatermark`. `DeleteActivityGroup` and the
  deletion of the group's sessions are one commit. Ticks are half days: before and after
  the time of day of the rules.
- `IdentityAccount`: `DeleteWrite` and `EraseWrite` are where
  the transaction has the account row and its `RevokeAll` or `DeleteAllForAccount` starts;
  tokens committed after that are not among those it settles. `RefreshRevoke` is where
  a refresh holds the row of the old token, with the new one not committed. What a request
  is refused for is a guard, and `Drop` ends it, as a failure at any point does. Codes and
  tokens do not expire: one that has is just not used, and one that
  expires while it is used is not looked at again.
- `AccountProfile` and `AccountErasure`: a profile is the set of its fields that hold
  something; settings are values with the version they were saved at. A handler of
  `identity.account.verified` is two steps: it looks for the erasure, and it commits the
  profile and the settings.
- `OutboxPublisher`: publishing is an action per event, because the stream is not
  rolled back with the transaction; reading is one, and marking is part of the
  commit, since nobody sees a mark before.
- `EventConsumer`: the handler, the answer to the server and the copy to the DLQ are
  separate actions, as a crash or an overdue acknowledgement may come between any two.
  `NotificationFeed` splits the handler once more: the look-up of a recipient and the
  insertion of the row are two statements without a transaction.
- `LiveHub`: registering, building the first snapshot and offering it are an action each;
  so are, for the hub, finding the streams of an event, dropping the viewer it removed,
  building the snapshot and offering it to a stream. The mutexes of the hub and of a
  client are held within one action.

Variables named `late`, `overturned`, `uncounted`, `overlooked`, `missed`, `silent`, `raced`,
`failed` and `cut`, and `stale` in `SessionSeries`, record nothing the code has: they say which
race has happened, so that a property can name its exceptions exactly. `joined`, `told`,
`lastSet` and `since` say what was promised. They are in no guard.

Definitions marked "Faulty variant" are not part of any specification. Each one is
a plausible mistake in the definition next to it, and the run that checks a
property finds it when the mistake is put in.

## What the runs check

| Run | Instance | Shows |
|---|---|---|
| `attendance` | 3 people, capacity none or 1, every kind of session | rows stay a queue and undecided requests are never promoted (`RowsOK`); only a capacity cut overbooks; promotions are first come, first served; no spot is left idle in front of the waitlist; attendance is a `GoingList`, so a leaver restarts formation |
| `session_invites` | 1 invitee besides the creator, 1 spot, 2 requests at a time, 2 invites | an invite is accepted exactly if its user joined by it, unless an unlocked decline or expiry wrote over the answer; a handled deletion leaves neither RSVP nor open invite, but for requests older than it; invites do to the session only what `SessionAttendance` allows |
| `voting` | 3 people, 3 divisions (one the swap of another, one incomplete), drafts and manual teams too | draft and vote exclude each other, a round fits the teams until it closes, teams hold only people going, no two proposals for one division, votes are on offer (`FormationOK`); nobody wins outvoted; leavers leave nothing behind; team formation is a `GoingList` |
| `draft` | 5 people, both pick orders, two minimums | sides level within one; everybody going is drafted, late joiners too |
| `series` | 2 runs of the cron job, 1 editor, 1 sweeper, a short calendar, 1 fault | sessions are on dates of the rule and none is missing up to the mark; one per date unless a run died, lost its mark or overlapped; each ends once; a deleted group takes its sessions along |
| `groups` | 3 users, 1 free spot, 2 requests at a time | only members nobody counted overfill the group; there is always somebody who can decide about requests |
| `invites` | 1 user, 2 invites, 2 requests at a time, sweep, deletion, redelivery | one open invite per user; a deleted user comes back only by a request older than the deletion |
| `outbox` | 2 replicas, 2 events of a schema and an empty schema, limit 2, 2 retries, a buffer of 1, 1 fault | every event is sent or given up; an extra copy needs a fault; no row is marked or purged unsettled |
| `notifications` | 2 instances, 2 messages, 3 accounts, 2 deliveries, buffer of 1, 1 fault | each recipient is told once, however a message is delivered, and all of them once it is acknowledged; the feed of the erased stays empty; a message nobody could handle is in the DLQ, unless the DLQ refused it or an instance went down with it |
| `live` | 2 streams of 2 users, 2 changes, buffer of 1, 1 fault | a change a stream does not have yet is on its way to it, or was withheld, lost or silent; who can no longer see the session is cut off; after a shutdown no stream is open |
| `erasure` | 1 account, 2 settings, 2 transactions at a time, 2 other contexts | settings are never set back to what they were before a save; an erased account stays erased, but for one race; no erasure counts as incomplete without a message that will finish it |
| `identity` | 3 requests at a time, 2 codes, 3 tokens, locks from 2 and 3 failures on | of all that goes back to one login one token is live; a code verifies once; a deletion logs everybody out but for a refresh under way; a lock keeps everybody out and lasts as set, and nothing but a login, a code or the deletion forgets failures |

**Bounds, and why they are enough.**

- Attendance and teams: three people are a leaver with two behind on
  the waitlist, the least for order to matter; with capacity 1 and a cut from no limit,
  three are also the least that overbook by more than the leaver frees. Two people
  besides the creator are interchangeable, hence the symmetry. The divisions are the
  least in which two differ only in the order of the teams, and one leaves somebody
  out. Five people make three picks, where the snake and the alternate order part.
- Invites to a session: two requests are an answer and its rival, or the same answer
  sent twice; two invites are an old one and the one sent after a cancellation; one spot, which
  the creator holds or gives up, is the capacity at its limit.
- Groups: two requests and one spot fight over it; the third user is the one who
  decides, or is decided about, in the meantime. Invites have a run of their own, as
  one user and two invites show all they do. Two workers are interchangeable.
- Series: weeks of two days and months of one and two give the daily and the monthly rule dates within
  reach, months that lack the day asked for, and a rule every other week whose end is
  reached. Three ticks of time (`MaxTime`) and a lookahead of two make at least two runs of the
  job due, and are the least in which a run starts beyond a mark that another wrote after it had found
  none; `MaxSessions` 2 are two dates or a date made twice; two edits are one between
  the steps of the job and one after. `MCBound` leaves out what follows the last tick together with
  both edits.
- Outbox: two replicas and two events of one schema are the least in which one transaction
  locks what the other wants, and a batch of 2 is full, so a woken worker goes on.
  With 2 retries an event is put back once before it is given up. The empty schema
  makes a pass go on. A buffer of 1 drops the second notification. TLC has also passed it
  with two faults.
- Notifications: two messages and a buffer of 1 make a delivery overdue while it waits
  behind another; two instances handle one message at once. `MaxDeliver` is 3 in the code
  and 2 here: a first and a last delivery. The accounts are one who leaves, one who stays and
  one who caused it; the histories hold a fan-out, a mail, a mail not to be sent and a
  message nobody can decode.
- Live: two streams are one who is dropped and one who is not; a buffer of 1 makes a slow
  consumer, two versions an event out of order. With three versions TLC has explored
  25 million states, not all, and found no error.
- Erasure: two transactions and two handlers race each other; `MaxVersion` 3 lets settings
  be created, saved, and saved again; the two settings are one that a save changes and one that
  it writes back as it was read.
- Identity: two codes, two requests that verify and one that
  deletes are the least in which an old copy of the account returns; three tokens let a
  token be exchanged twice, if it could; two lock tiers let a lock grow, if it could.

`MaxFaults` bounds rollbacks, crashes, lost acknowledgements, lost broadcasts and lost
connections together; publishes that fail cleanly, and handlers that fail, are not bounded.

`CHECK_DEADLOCK FALSE` is in the configurations where nothing may be left to do:
`identity` (the account is erased), `groups` and `invites` (the group is full, everybody
invited), `session_invites` (the session is over, the account gone), `series`
(time and edits are spent), `erasure` (all has confirmed) and `notifications` (all messages
are settled and the fault is spent). The other runs check deadlock.

**Fairness.** Only `OutboxPublisher` has any. Nothing in attendance, groups, teams or profiles
has to happen: people and managers may stop. `OutboxPublisher` has weak fairness of a worker's
batch steps, of
taking notifications that wait, and of the poll: `Start` is a loop that always goes
on. It is weak because a poll is not possible while a pass is running, and `Start`
promises no more. A worker that is down is back as soon as it is gone (it is
restarted by its supervisor); faults are bounded, or no event would ever be settled.
There is none for connecting the listener, which the property must not need, nor for
events or the purge. `EventDelivery` asks for weak fairness of settling each event;
TLC shows that the above is enough for it. Where another module says that something will
happen, it says what is still on its way to make it happen (`ErasureNotForgotten`,
`NoChangeSlipsPast`, `VanishesOnlyWhenCutShort`), which is an invariant.

### Met while modelling

Modelled as the code has it; where a property has an exception for it, the property names it.

*Attendance and invites.* A `RejectAttendee` that read a request before it was approved
overwrites the approval and takes the spot, without promotion or team reset
(`attendee_service.go:391`; `LateRejection` in `GoingList`). Somebody promoted in a full session
who answers "going" again is put on the waitlist, as `UpdateRSVP` counts their own spot
(`domain/attendee.go:285`). With `requiresApproval`, "maybe" and then "going" takes a spot without
a request (`attendee_service.go:689`). Raising the capacity promotes nobody;
a promotion does not look at the capacity, so it only ever replaces a leaver; RSVPs
can still be changed after a session ended, and promote; `not_going` to `going` is
refused by `validateRSVPTransition` though a comment lists it; `open_at` is not
persisted (`session_repo.go:140`), so the wait of `CanRSVP` never happens. `Decline` and
`ExpireStaleInvites` overwrite an acceptance that committed after they had read the invite, which
leaves an attendee with a declined or expired one (`overturned`); two acceptances of one invite
with a cancellation between them let the user in again. `DeactivateAccount` cancels RSVPs before
it declines invites, so an acceptance under way leaves a deleted account attending (`late`).

*Teams.* Drafts are never paused and
captains never replaced, since nothing but tests calls `AttendeeLeft`; a cancelled draft
outlives a leaver when there are no teams (`team_formation.go:320`), though the activity README
says that draft and vote history are cleared; manual assignment is possible while a vote is open;
`notifyTie` runs without the lock after `Close` gave up, so it may announce a tie that is none any more.

*Groups and series.* An expired group invite keeps `responded_at` empty, which
`uq_pending_invites` counts as pending: nobody can invite that user again. A change of role writes
the whole row and brings back a member who left meanwhile. Invites do not look at the
capacity. `CreateSession` does not look at the group's status (`session_service.go:126`). After
`generated_up_to` is set, dates are reckoned from it, so the first date of every later run
is the next one of the rule's frequency, whatever its interval (`session_generator_service.go:116`); hence the part of
`FollowsCalendar` about skipped dates is about rules with interval 1. Editing a rule
keeps the mark; a run that has read an older rule writes its own. Of two runs that both found no mark, the one that starts
more than the lookahead after the other starts beyond the other's mark, and no run makes the
dates between them (`session_generator_service.go:111`). The proof of `FollowsCalendar`
failed on this; the property excepts it (`LeavesGap`), and fails in the run without the exception. A date whose insertion failed is not tried again.

*Messages.* Every notification restarts the poll interval (`time.After` in the
loop of `Start`, `outbox_publisher.go:92`), so while some schema is busy the poll never fires and
a failed event of another schema waits; after a failed publish the batch goes on, and a younger event may
overtake it. The dead-letter limit of the outbox
counts attempts whose acknowledgement was lost, so a row may be dead although its event
is on the stream. A message whose last delivery is lost with its instance is
not delivered again and not dead-lettered either; `consumeMessages` ends for good at the first error
of `Next`, while the process stays up. The first recipient a handler cannot tell ends the
fan-out until the next delivery; emails and SMS are sent again with each delivery.

*Live updates.* A session made by the generator has `formation_version` 0, and `Client.offer` skips
a first snapshot that is not newer, so its viewers start without one. `CancelRSVP` of somebody on no
team raises no event (`attendee_service.go:855`): viewers keep the old list, and the viewer who left a
private session keeps the stream (`silent`). The event of a promotion and that of a late rejection change the list of
who is going but are withheld from all but managers (`visibility.go:14`). A viewer who loses the session
between `EnsureSessionVisible` and `Connect`, by a change of visibility, or by an
invite or a membership that ends, is not looked up again (`overlooked`).

*Accounts.* `VerifyAccount` reads the account without a lock and writes all of it (`service.go:609`),
so with two codes out, a verification that started before the other one finished
brings the account back that its owner has deleted since. The token a refresh is issuing while
the account is deleted stays live, and is exchanged for others, as `RefreshToken` does not look at
the account (`OnlyRotationOutlivesDeletion` has this exception; the identity README says **all** are
revoked). `Logout` revokes outside its transaction, so its event may be missing.
A handler of `identity.account.verified` that looked for the erasure before it committed
creates the profile of an erased account (`raced`), and the versions of its settings start again.
Profile updates write the whole row without a version, so one of two at once is lost; a
picture that is not sent again is removed, interests cannot be emptied, and neither can
a name or date of birth.

## What is proved

Every safety invariant and action property of the runs is the statement of a theorem
for all values of the constants: any finite sets of users, streams, accounts, requests
or events, any capacities, limits, rules and calendars, any number of faults. The bounds
of the counters (`MaxFaults`, `MaxVersion`, `MaxInvites` ...) are parameters as well. The only
assumptions are those the modules name (`UsersAssumption`, `CapacitiesAssumption`,
`InvitesAssumption`, `FormationAssumption`, `GroupAssumption`, `RecurrenceAssumption`,
`MonthsAssumption`, `SeriesAssumption`, `OutboxAssumption`, `ConsumerAssumption`, `FeedAssumption`,
`RecipientsAssumption`, `ProfileAssumption`, `ErasureAssumption`, `LiveAssumption`,
`IdentityAssumption`), which TLC evaluates on the instances.

Each proof module defines an invariant of named parts, `IInv` unless said otherwise, shows
that it holds at the start (`Init => IInv`) and that each action keeps it, mostly by a lemma per action,
and derives the properties from it. Few properties are inductive alone; TLC has checked each
of these invariants on the instances of the runs.

**A session** (`SessionProofs`).

- Attendance: `TypeCorrect`, `RowsStayOK`, from `IInv == TypeOK /\ QueueOK /\ PromotedFromWaitlist`. That
  only waitlist rows are promoted needs that a row that is gone has no source; that the
  order stays total needs that rows gone are in no pair, and the type of `rsvp`.
- `OnlyCapacityCutOverbooks`, `PromotesLongestWaiting`, `NoSpotLeftIdle`, `LeavingAlwaysRestarts`:
  the action properties, by cases over the commands. The counting rests on
  lemmas about what one promotion and one written status do to the confirmed attendees.
- `AttendanceImplementsGoingList`: initial states map to initial states, and every command
  maps to one step of `GoingList` or to a stutter.
- Invites: `InvitesImplementAttendance`, so all of the above holds with invites too; `InvitesAreTrue`
  and `DeletedStayAway` from `InvitesInv`. It adds that a user has one pending invite (`OnePending`),
  what a request has read (`RequestsFit`), and what the consumer of a deletion has given up so far
  (`ConsumerOK`, `GivenUp`), which is what keeps an answer under way from slipping past it.

**Teams** (`TeamFormationProofs`): `FormationStaysOK`, `DraftsAreFair`, `DraftsLeaveNobodyOut`,
`MostVotedWins`, `LeaversTakeFormationAlong` and the refinement of `GoingList`, for any users, setups,
captains and divisions. A fair draft needs to know by whom each turn leads (`Lead`, by
the order and the parity of the turn) and that picks and turns count the same (`Level`); that
teams hold only people going needs that the divisions on offer stay disjoint (`Running`).

**Groups** (`GroupProofs`).

- Members: `GroupStaysManaged`, `CapacityKept`, `NeverTwoOpenInvites`, `DeletedStayOut`. The capacity needs
  that who has decided holds the group's lock alone and that the spot found is still there (`SpotKept`); a
  manager always exists because no request is about to write the creator's row (`CreatorStays`,
  `RowToWrite`); deletion needs what a request that was under way has read (`Fits`).
- The calendar: `OccurrencesAreDates` and `NoDateIsPassedOver` say that `NextOccurrenceAfter` returns dates of
  the rule by the independent definition `OnCalendar`, and with interval 1 passes none over. Months start
  where all months before them end, a recursive function over the naturals; what it computes is
  derived from the set of the numbers it is right for (`NumbersByInduction`, by the least element of the rest).
  `MonthsAssumption` is what the bound of the search for a month (`recurrence.go:230`) needs.
- The series: `SeriesFollowsCalendar`, `DatesAreNotRepeated`, `SessionsEndOnce`, `DeletedGroupsTakeSessions`,
  from `SeriesInv`. It says of each run what it has settled of the window it began with (`RunsOK`), and that
  no session lies beyond what the runs have reached, or the mark, as long as none died or overlapped
  (`MarksOK`).

**Outbox** (`OutboxPublisherProofs`): `TypeCorrect`, `DuplicatesOnlyAfterFaults`, and
`TakesStepsOfEventDelivery`, the safety half of the refinement. A row is in one transaction at a time
(`LockedOnce`, from `SKIP LOCKED`) and attempted once in it; an event is on the stream once for each fault and once
more if it is marked or about to be (`CopiesCounted`).

**Consumers and notifications** (`NotificationFeedProofs`): `ToldOncePerEvent`, `FeedsCorrect`,
`NothingVanishesUnseen`. The consumer has an invariant of its own (`ConsumerIInv`): a delivery is in
one place, and until something has become of a message somebody has its last delivery. The feed adds
what each handler has yet to do, and that a recipient was told no more often than there were
deliveries that have told them or no longer can (`OncePerDelivery`).

**Accounts and erasure** (`AccountErasureProofs`): `SettingsAreKept` and `ProfilesCorrect` from
`ProfileIInv` (who would pass the comparison of versions has read the settings as they are), and
`ErasuresAreFollowed`: an erasure not confirmed yet has a message that will go on with it
(`Followed`).

**Live updates** (`LiveHubProofs`): `NothingSlipsPast`, `RemovedViewersLeave`, `StreamsEndWithTheHub`. From its
first snapshot on, a stream has every change or something will bring it (`CaughtUp`), and
who lost the session while still connecting is known to the hub as well (`RemovalsKnown`, `PlacesOK`).

**Identity** (`IdentityAccountProofs`): all five properties of the run. `IInv` adds what the row locks
are for (`LocksOK`: one transaction has the account row, one a token, which stays live
until it commits), what a request under way knows (`ReadsOK`: while a deletion has the row,
every live login is among what it revokes) and that an unused code has verified nothing (`CodesOK`).

**Only model-checked.** That every event is sent or given up sometime (the liveness in
`ImplementsEventDelivery`): it rests on fairness and on what is enabled, which the prover does not
reason about. That the hazards are caught, which the faulty variants show, is TLC's as well.

## What is not modelled, and why

Left out for good: the gateway (it forwards; its rate limiter is a window of counters nothing else
depends on), location (a cache in front of an HTTP service), logging, metrics, configuration and
HTTP mapping: no state a property could be about.

Within the modelled parts:

- sessions: rescheduling by `UpdateSession`, discovery and statistics; who may manage a
  session; visibility and capacity of an invited-to session stay as created in `SessionInvites`;
- teams: names, colors, versions and the tie notification of a round, `ReplaceCaptain`
  (no reachable state allows it);
- groups: invite links, which no handler reaches, and `CancelActivityGroup`,
  `GenerateSessionsForTemplate` and the `DeleteSession` of the repository, which nothing calls;
- series: titles, places and capacities of a template; two editors at once;
- live: the content of snapshots, more than one instance (each has a hub of its own and its own
  copy of each broadcast), and a session erased under its viewers when its creator is erased;
- messages: unreadable metadata, the age limit of streams, a listener that ends for good;
  the SMTP and SMS senders, which are stubs;
- identity: that addresses and numbers are unique among accounts, expiry as time, access tokens, and
  commands nothing calls (`Suspend`, `Unlock`, `ChangePassword`, `DeleteExpired`);
  connections of the database pool, which `GetTokenBy` takes a second of inside a transaction;
- erasure: the grace period as time, erasure events that are dead-lettered, each table an
  erasure empties, and location events that commit after it;
- profiles: uniqueness of nicknames, and the location lookup.

## The plan

All modules of the first plan are written, and the safety properties of all runs proved. What is left:

1. Liveness: only the outbox has any, and it stays with TLC. The steps it needs from safety
   (whose turn a pending row is, that a worker that is down comes back) could be stated as
   invariants of their own.
2. The lemmas about the helpers of several proofs (cardinality after one change, sequences with one
   element replaced) are repeated from module to module and could move to one.
3. Of what is not modelled, the tie notification of a voting round and rescheduling by `UpdateSession`
   are the nearest.
