------------------------------- MODULE LiveHub -------------------------------
(***************************************************************************)
(* The live updates of one session on one instance of the activity         *)
(* service: every change raises the session's formation_version, its event *)
(* is broadcast, and the hub pushes a snapshot of the session to the       *)
(* streams connected here (hub.go, visibility.go, StreamTeamFormation,     *)
(* TeamFormationQuery.Snapshot, SubscribeBroadcast).                       *)
(*                                                                         *)
(* A stream checks that its viewer may see the session, registers with the *)
(* hub, takes its first snapshot and queues it; the hub handles one event  *)
(* at a time, in as many steps.  Nothing keeps the two apart but the hub's *)
(* mutex and the client's.                                                 *)
(***************************************************************************)
EXTENDS Integers, Sequences, FiniteSets

CONSTANTS
  Users,       \* who may open a stream
  Creator,     \* of the session, its only manager
  Nobody,      \* uuid.Nil
  Streams,     \* the streams open at once on this instance
  SendBuffer,  \* updates that may wait in a client's channel
  MaxVersion,  \* bound on the changes of the session
  MaxFaults    \* bound on broadcasts lost and on queries that fail

ASSUME LiveAssumption ==
  /\ Creator \in Users /\ Nobody \notin Users
  /\ {SendBuffer, MaxVersion} \subseteq Nat \ {0} /\ MaxFaults \in Nat

VARIABLES
  version,    \* session.formation_version
  public,     \* session.visibility
  attendees,  \* who has an RSVP
  others,     \* who has an open invite, or is in the session's group
  silent,     \* changes no event tells of
  pending,    \* events the hub has not handled yet, in no order
  registered, \* h.clients
  shutdown,   \* h.shutdown
  client,     \* client[c]: the stream c and its Client
  hub,        \* HandleEvent, between its steps
  missed,     \* missed[c]: changes above c's last version c was not offered
  overlooked, \* streams whose viewer lost the session in a way no event tells
  faults

sessionVars == <<version, public, attendees, others, silent>>
vars == <<sessionVars, pending, registered, shutdown, client, hub, missed, overlooked, faults>>

(***************************************************************************)
(* A change's event says what happened, to whom, and (in the model) which  *)
(* version it made.  All but "changed" are attendee events.                *)
(***************************************************************************)

Events ==
  [event : {"changed"}, user : {Nobody}, version : 1..MaxVersion]
    \cup [event : {"rsvp", "removed", "join_requested"}, user : Users,
          version : 1..MaxVersion]

ManagerOnly(e) == e.event = "join_requested"

AboutAttendee(e) == e.event # "changed"

Managers == {Creator}

\* hub.step: "idle"; "found", it has its clients; "dropped", without those the
\* event removed; "offering" the snapshot it has taken to hub.clients.
NoEvent == [step |-> "idle", clients |-> {}, snapshot |-> 0]

NoClient == [viewer |-> Nobody, step |-> "none", snapshot |-> 0, last |-> 0,
             updates |-> <<>>, reason |-> "open"]

IsVisibleTo(u) == public \/ u = Creator \/ u \in attendees \/ u \in others

\* A session made by hand has its creator's RSVP, whose insert was the first
\* change; one the generator made has nothing yet.
Init ==
  /\ \/ version = 1 /\ attendees = {Creator}
     \/ version = 0 /\ attendees = {}
  /\ public \in BOOLEAN
  /\ others \in SUBSET (Users \ {Creator})
  /\ silent = {}
  /\ pending = {}
  /\ registered = {}
  /\ shutdown = FALSE
  /\ client = [c \in Streams |-> NoClient]
  /\ hub = NoEvent
  /\ missed = [c \in Streams |-> {}]
  /\ overlooked = {}
  /\ faults = 0

\* SessionService.EnsureSessionVisible answers with ErrSessionNotFound or nothing.
EnsureSessionVisible(u) == IsVisibleTo(u)

StreamsOf(u) == {c \in Streams : client[c].viewer = u}

(***************************************************************************)
(* The client.                                                             *)
(***************************************************************************)

IsOpen(c) == client[c].step # "none" /\ client[c].reason = "open"

\* Client.offer: not when it is closed or has as new a snapshot.
Offered(k, v) ==
  IF k.reason # "open" \/ v <= k.last THEN k
  ELSE IF Len(k.updates) < SendBuffer
       THEN [k EXCEPT !.updates = Append(@, v), !.last = v]
       ELSE [k EXCEPT !.reason = "slow_consumer"]

\* closeLocked: the first reason stays.
Closed(k, reason) == IF k.reason = "open" THEN [k EXCEPT !.reason = reason] ELSE k

CloseAll(cs, reason) ==
  [c \in Streams |-> IF c \in cs THEN Closed(client[c], reason) ELSE client[c]]

Offer(c, v) ==
  /\ client' = [client EXCEPT ![c] = Offered(@, v)]
  /\ missed' = [missed EXCEPT ![c] = {w \in @ : w > client'[c].last}]

Misses(cs, v) ==
  missed' = [c \in Streams |-> IF c \in cs /\ v > client[c].last
                               THEN missed[c] \cup {v} ELSE missed[c]]

(***************************************************************************)
(* A stream, from the request to its end.                                  *)
(***************************************************************************)

streamUnchanged == UNCHANGED <<sessionVars, pending, shutdown, hub>>

\* StreamTeamFormation asks before it registers the stream.
Request(c, u) ==
  /\ client[c].step = "none"
  /\ EnsureSessionVisible(u)
  /\ client' = [client EXCEPT ![c] = [NoClient EXCEPT !.viewer = u, !.step = "checked"]]
  /\ missed' = [missed EXCEPT ![c] = {}]
  /\ overlooked' = overlooked \ {c}
  /\ streamUnchanged /\ UNCHANGED <<registered, faults>>

\* Faulty variant: nobody looks whether the hub is shutting down.
RegisterAlways(c) ==
  /\ client[c].step = "checked"
  /\ registered' = registered \cup {c}
  /\ client' = [client EXCEPT ![c].step = "registered"]
  /\ streamUnchanged /\ UNCHANGED <<missed, overlooked, faults>>

\* Connect, under h.mu.
Register(c) ==
  /\ client[c].step = "checked"
  /\ IF shutdown
     THEN /\ client' = [client EXCEPT ![c] = [Closed(@, "shutdown") EXCEPT !.step = "registered"]]
          /\ UNCHANGED registered
     ELSE /\ registered' = registered \cup {c}
          /\ client' = [client EXCEPT ![c].step = "registered"]
  /\ streamUnchanged /\ UNCHANGED <<missed, overlooked, faults>>

\* Snapshot reads the version and the rest in one REPEATABLE READ transaction.
Snapshot == version

BuildFirstSnapshot(c) ==
  /\ client[c].step = "registered"
  /\ client' = [client EXCEPT ![c].step = "built", ![c].snapshot = Snapshot]
  /\ streamUnchanged /\ UNCHANGED <<registered, missed, overlooked, faults>>

OfferFirstSnapshot(c) ==
  /\ client[c].step = "built"
  /\ client' = [client EXCEPT ![c] = [Offered(@, @.snapshot) EXCEPT !.step = "streaming",
                                                                    !.snapshot = 0]]
  /\ missed' = [missed EXCEPT ![c] = {w \in @ : w > client'[c].last}]
  /\ streamUnchanged /\ UNCHANGED <<registered, overlooked, faults>>

\* StreamTeamFormation writes the next update to the viewer.
WriteUpdate(c) ==
  /\ client[c].step = "streaming"
  /\ client[c].updates # <<>>
  /\ client' = [client EXCEPT ![c].updates = Tail(@)]
  /\ streamUnchanged /\ UNCHANGED <<registered, missed, overlooked, faults>>

\* Hub.Disconnect: the first snapshot failed, the viewer went away, the token
\* ran out, or the hub closed the client and the stream has said why.  The hub
\* may still hold the client, but offers to it are skipped: it is closed.
Disconnect(c) ==
  /\ client[c].step # "none"
  /\ registered' = registered \ {c}
  /\ client' = [client EXCEPT ![c] = NoClient]
  /\ missed' = [missed EXCEPT ![c] = {}]
  /\ overlooked' = overlooked \ {c}
  /\ hub' = [hub EXCEPT !.clients = @ \ {c}]
  /\ UNCHANGED <<sessionVars, pending, shutdown, faults>>

\* Hub.Shutdown empties h.clients and closes who was there, one by one; what
\* the hub offers them in between makes no difference to a stream that ends.
Shutdown ==
  /\ ~shutdown
  /\ shutdown' = TRUE
  /\ registered' = {}
  /\ client' = CloseAll(registered, "shutdown")
  /\ UNCHANGED <<sessionVars, pending, hub, missed, overlooked, faults>>

(***************************************************************************)
(* Changes of the session, committed here or on another instance: each     *)
(* raises the version (bump_session_formation_version) and leaves an event *)
(* for the outbox to publish.                                              *)
(***************************************************************************)

liveUnchanged == UNCHANGED <<registered, shutdown, client, hub, missed, faults>>

Changes(e, u) ==
  /\ version < MaxVersion
  /\ version' = version + 1
  /\ pending' = pending \cup {[event |-> e, user |-> u, version |-> version + 1]}
  /\ UNCHANGED silent

\* Teams, a draft, a vote, the session itself.
ChangeSession ==
  /\ Changes("changed", Nobody)
  /\ UNCHANGED <<public, attendees, others, overlooked>>
  /\ liveUnchanged

\* UpdateSession or SetSessionVisibility: no attendee event.
SetVisibility(pub) ==
  /\ public # pub
  /\ Changes("changed", Nobody)
  /\ public' = pub
  /\ UNCHANGED <<attendees, others>>
  /\ overlooked' = IF pub THEN {}
                   ELSE overlooked \cup UNION {StreamsOf(u) : u \in {w \in Users : ~IsVisibleTo(w)'}}
  /\ liveUnchanged

\* An RSVP or a join request by somebody who can see the session.
RSVP(u, e) ==
  /\ IsVisibleTo(u)
  /\ e = "join_requested" => u \notin attendees
  /\ Changes(e, u)
  /\ attendees' = attendees \cup {u}
  /\ overlooked' = overlooked \ StreamsOf(u)
  /\ UNCHANGED <<public, others>>
  /\ liveUnchanged

\* RemoveAttendee deletes the row.
RemoveAttendee(u) ==
  /\ u \in attendees \ {Creator}
  /\ Changes("removed", u)
  /\ attendees' = attendees \ {u}
  /\ UNCHANGED <<public, others, overlooked>>
  /\ liveUnchanged

\* So does CancelRSVP, whose only event is that of the team, if any, u leaves.
CancelRSVP(u, onTeam) ==
  /\ u \in attendees
  /\ attendees' = attendees \ {u}
  /\ UNCHANGED <<public, others>>
  /\ IF onTeam
     THEN Changes("rsvp", u) /\ UNCHANGED overlooked
     ELSE /\ version < MaxVersion
          /\ version' = version + 1
          /\ silent' = silent \cup {version + 1}
          /\ overlooked' = IF IsVisibleTo(u)' THEN overlooked
                           ELSE overlooked \cup StreamsOf(u)
          /\ UNCHANGED pending
  /\ liveUnchanged

\* An invite or a membership ends, or begins, without an attendee event and
\* without touching the session.
OthersChange(u) ==
  /\ u # Creator
  /\ others' = IF u \in others THEN others \ {u} ELSE others \cup {u}
  /\ UNCHANGED <<version, public, attendees, silent, pending>>
  /\ overlooked' = IF IsVisibleTo(u)' THEN overlooked \ StreamsOf(u)
                   ELSE overlooked \cup StreamsOf(u)
  /\ liveUnchanged

(***************************************************************************)
(* SubscribeBroadcast is at most once, and a younger event may come before *)
(* an older one (OutboxPublisher).                                         *)
(***************************************************************************)

LoseBroadcast(e) ==
  /\ e \in pending
  /\ faults < MaxFaults
  /\ faults' = faults + 1
  /\ pending' = pending \ {e}
  /\ Misses(registered, e.version)
  /\ overlooked' = IF AboutAttendee(e) /\ ~IsVisibleTo(e.user)
                   THEN overlooked \cup StreamsOf(e.user) ELSE overlooked
  /\ UNCHANGED <<sessionVars, registered, shutdown, client, hub>>

(***************************************************************************)
(* Hub.HandleEvent.                                                        *)
(***************************************************************************)

hubUnchanged == UNCHANGED <<sessionVars, registered, shutdown>>

\* clientsOf; without clients there is nothing more to do.  A stream that has
\* checked its viewer and not registered yet escapes the event.
HandleEvent(e) ==
  /\ hub.step = "idle"
  /\ e \in pending
  /\ pending' = pending \ {e}
  /\ hub' = IF registered = {} THEN NoEvent
            ELSE [step |-> IF AboutAttendee(e) THEN "found" ELSE "dropped",
                  event |-> e, clients |-> registered, snapshot |-> 0]
  /\ overlooked' = IF AboutAttendee(e) /\ ~IsVisibleTo(e.user)
                   THEN overlooked \cup {c \in StreamsOf(e.user) : client[c].step = "checked"}
                   ELSE overlooked
  /\ UNCHANGED <<client, missed, faults>> /\ hubUnchanged

\* Faulty variant: only an event that says so removes a viewer.
DropRemovedViewerByName(visible) ==
  LET gone == {c \in hub.clients : client[c].viewer = hub.event.user
                                     /\ hub.event.event = "removed"}
  IN /\ hub.step = "found"
     /\ client' = CloseAll(gone, "removed")
     /\ hub' = [hub EXCEPT !.step = "dropped", !.clients = @ \ gone]
     /\ UNCHANGED <<pending, missed, overlooked, faults>> /\ hubUnchanged

\* dropRemovedViewer, visible being what EnsureSessionVisible answers.
DropRemovedViewer(visible) ==
  LET gone == {c \in hub.clients : client[c].viewer = hub.event.user
                                     /\ (hub.event.event = "removed" \/ ~visible)}
  IN /\ hub.step = "found"
     /\ visible = EnsureSessionVisible(hub.event.user)
     /\ client' = CloseAll(gone, "removed")
     /\ hub' = [hub EXCEPT !.step = "dropped", !.clients = @ \ gone]
     /\ UNCHANGED <<pending, missed, overlooked, faults>> /\ hubUnchanged

\* A failed lookup keeps the viewer.
VisibilityLookupFails ==
  /\ hub.step = "found"
  /\ hub.event.event # "removed"
  /\ faults < MaxFaults
  /\ faults' = faults + 1
  /\ hub' = [hub EXCEPT !.step = "dropped"]
  /\ overlooked' = overlooked \cup StreamsOf(hub.event.user)
  /\ UNCHANGED <<client, pending, missed>> /\ hubUnchanged

\* Faulty variant: a client still waiting for its first snapshot is left out.
BuildSnapshotForStreaming ==
  /\ hub.step = "dropped"
  /\ hub' = [hub EXCEPT !.step = "offering", !.snapshot = Snapshot,
                        !.clients = {c \in @ : client[c].step = "streaming"}]
  /\ UNCHANGED <<client, pending, missed, overlooked, faults>> /\ hubUnchanged

BuildSnapshot ==
  /\ hub.step = "dropped"
  /\ hub' = [hub EXCEPT !.step = "offering", !.snapshot = Snapshot]
  /\ UNCHANGED <<client, pending, missed, overlooked, faults>> /\ hubUnchanged

\* Clients keep what they have until the next event.
SnapshotFails ==
  /\ hub.step = "dropped"
  /\ faults < MaxFaults
  /\ faults' = faults + 1
  /\ hub' = NoEvent
  /\ Misses(hub.clients, hub.event.version)
  /\ UNCHANGED <<client, pending, overlooked>> /\ hubUnchanged

\* deliver goes through the clients one by one, in the order of a map.
MayBeTold(u) == ~ManagerOnly(hub.event) \/ u \in Managers \/ u = hub.event.user

AfterOne(c) ==
  hub' = IF hub.clients = {c} THEN NoEvent ELSE [hub EXCEPT !.clients = @ \ {c}]

Deliver(c) ==
  /\ hub.step = "offering"
  /\ c \in hub.clients
  /\ MayBeTold(client[c].viewer)
  /\ Offer(c, hub.snapshot)
  /\ AfterOne(c)
  /\ UNCHANGED <<pending, overlooked, faults>> /\ hubUnchanged

Withhold(c) ==
  /\ hub.step = "offering"
  /\ c \in hub.clients
  /\ ~MayBeTold(client[c].viewer)
  /\ Misses({c}, hub.event.version)
  /\ AfterOne(c)
  /\ UNCHANGED <<client, pending, overlooked, faults>> /\ hubUnchanged

\* Every client was dropped, or has gone.
NobodyLeft ==
  /\ hub.step = "offering"
  /\ hub.clients = {}
  /\ hub' = NoEvent
  /\ UNCHANGED <<client, pending, missed, overlooked, faults>> /\ hubUnchanged

(***************************************************************************)

Next ==
  \/ \E c \in Streams :
       \/ \E u \in Users : Request(c, u)
       \/ Register(c) \/ BuildFirstSnapshot(c) \/ OfferFirstSnapshot(c)
       \/ WriteUpdate(c) \/ Disconnect(c)
       \/ Deliver(c) \/ Withhold(c)
  \/ Shutdown
  \/ ChangeSession
  \/ \E pub \in BOOLEAN : SetVisibility(pub)
  \/ \E u \in Users :
       \/ \E e \in {"rsvp", "join_requested"} : RSVP(u, e)
       \/ RemoveAttendee(u)
       \/ \E onTeam \in BOOLEAN : CancelRSVP(u, onTeam)
       \/ OthersChange(u)
  \/ \E e \in pending : LoseBroadcast(e) \/ HandleEvent(e)
  \/ \E visible \in BOOLEAN : DropRemovedViewer(visible)
  \/ VisibilityLookupFails \/ BuildSnapshot \/ SnapshotFails \/ NobodyLeft

Spec == Init /\ [][Next]_vars

(***************************************************************************)
(* Properties.                                                             *)
(***************************************************************************)

\* Every state is of the type the code gives it: clients, the handler's local
\* variables, the bounded channel of updates.
TypeOK ==
  /\ version \in 0..MaxVersion
  /\ public \in BOOLEAN /\ shutdown \in BOOLEAN
  /\ attendees \subseteq Users /\ others \subseteq Users
  /\ silent \subseteq 1..MaxVersion
  /\ pending \subseteq Events
  /\ registered \subseteq Streams /\ overlooked \subseteq Streams
  /\ client \in [Streams -> [viewer : Users \cup {Nobody},
                             step : {"none", "checked", "registered", "built", "streaming"},
                             snapshot : 0..MaxVersion, last : 0..MaxVersion,
                             updates : Seq(1..MaxVersion),
                             reason : {"open", "removed", "shutdown", "slow_consumer"}]]
  /\ \A c \in Streams : Len(client[c].updates) <= SendBuffer
  /\ hub.step \in {"idle", "found", "dropped", "offering"}
  /\ hub.step # "idle" => hub.event \in Events
  /\ hub.clients \subseteq Streams
  /\ hub.snapshot \in 0..MaxVersion
  /\ missed \in [Streams -> SUBSET (1..MaxVersion)]
  /\ faults \in 0..MaxFaults

\* Connect: "Registering before building the snapshot means no change can slip
\* in between".  A change an open stream does not have yet is in an event the
\* hub has not handled, or is about to offer it, unless its broadcast was
\* lost, its snapshot failed, or it is withheld from this viewer - or it had
\* no event, as CancelRSVP has none for somebody on no team.
NoChangeSlipsPast ==
  \A c \in Streams : IsOpen(c) /\ client[c].step = "streaming" =>
    \A v \in client[c].last + 1 .. version :
      \/ v \in missed[c] \cup silent
      \/ \E e \in pending : e.version = v
      \/ hub.step # "idle" /\ hub.event.version = v /\ c \in hub.clients

\* HandleEvent disconnects a viewer the event removed: an open stream's viewer
\* can see the session, or the event that says otherwise is still to be
\* handled, or was lost, or could not be looked up - or the viewer lost the
\* session without an event, or between EnsureSessionVisible and Connect.
RemovedViewerLeaves ==
  \A c \in registered : IsOpen(c) /\ ~IsVisibleTo(client[c].viewer) =>
    \/ c \in overlooked
    \/ \E e \in pending : e.user = client[c].viewer
    \/ hub.step = "found" /\ hub.event.user = client[c].viewer /\ c \in hub.clients

\* Shutdown: streams end "so they reconnect to another instance"; one that was
\* on its way in does too, or the server would wait for it.
ShutdownLeavesNobody ==
  shutdown => \A c \in Streams : client[c].step \in {"registered", "built", "streaming"} =>
                                   ~IsOpen(c)

\* Streams and the hub stay what the code can make of them, and none outlives
\* the hub.
StreamsOK == TypeOK /\ ShutdownLeavesNobody
=============================================================================
