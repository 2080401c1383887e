--------------------------- MODULE LiveHubProofs ---------------------------
(***************************************************************************)
(* Proofs about LiveHub, for any users, streams, buffer and versions.      *)
(***************************************************************************)
EXTENDS LiveHub, SequenceTheorems, TLAPS

-----------------------------------------------------------------------------
(***************************************************************************)
(* The inductive invariant.                                                *)
(***************************************************************************)

Versions == 0 .. MaxVersion

Clients ==
  [viewer : Users \cup {Nobody}, step : {"none", "checked", "registered", "built", "streaming"},
   snapshot : Versions, last : Versions, updates : Seq(1 .. MaxVersion),
   reason : {"open", "removed", "shutdown", "slow_consumer"}]

Handling ==
  [step : {"found", "dropped", "offering"}, event : Events, clients : SUBSET Streams,
   snapshot : Versions]

SessionOK ==
  /\ version \in Versions /\ public \in BOOLEAN
  /\ attendees \subseteq Users /\ others \subseteq Users
  /\ silent \subseteq 1 .. MaxVersion
  /\ pending \subseteq Events /\ faults \in 0 .. MaxFaults

ClientsOK ==
  /\ client \in [Streams -> Clients]
  /\ \A c \in Streams : Len(client[c].updates) <= SendBuffer
  /\ missed \in [Streams -> SUBSET (1 .. MaxVersion)]
  /\ overlooked \subseteq Streams

\* An event tells of a change that has been made, and a snapshot taken for it
\* contains that change.
HubOK ==
  /\ hub = NoEvent \/ hub \in Handling
  /\ \A e \in pending : e.version <= version
  /\ hub # NoEvent => hub.event.version <= version
  /\ hub.step = "offering" => hub.event.version <= hub.snapshot

\* The hub knows every open stream that is past Connect, and none before it.
PlacesOK ==
  /\ registered \subseteq Streams
  /\ shutdown \in BOOLEAN
  /\ shutdown => registered = {}
  /\ \A c \in Streams :
       /\ client[c].step # "none" => client[c].viewer \in Users
       /\ client[c].step \in {"none", "checked"} => c \notin registered
       /\ client[c].step \in {"registered", "built", "streaming"} /\ client[c].reason = "open"
            => c \in registered
       /\ client[c].step = "streaming" => client[c].snapshot = 0

\* What will bring change v to stream c, or has kept it from c for good.
Covered(c, v) ==
  \/ v \in missed[c] \cup silent
  \/ \E e \in pending : e.version = v
  \/ hub # NoEvent /\ hub.event.version = v /\ c \in hub.clients

\* From its first snapshot on a stream has, or waits for, every change, although
\* the snapshot may be offered much later than it was taken.
CaughtUp ==
  \A c \in Streams : client[c].step \in {"built", "streaming"} /\ client[c].reason = "open" =>
    \A v \in 1 .. version :
      v > client[c].last /\ v > client[c].snapshot => Covered(c, v)

\* What has taken, or will take, c's viewer off the stream.
Leaving(c) ==
  \/ c \in overlooked
  \/ \E e \in pending : e.user = client[c].viewer
  \/ /\ hub.step = "found" /\ hub.event.user = client[c].viewer
     /\ c \in hub.clients /\ c \in registered

\* Who lost the session is on the way out, also on the way in.
RemovalsKnown ==
  \A c \in Streams :
    client[c].step # "none" /\ client[c].reason = "open" /\ ~IsVisibleTo(client[c].viewer) =>
      Leaving(c)

IInv == SessionOK /\ ClientsOK /\ HubOK /\ PlacesOK /\ CaughtUp /\ RemovalsKnown

-----------------------------------------------------------------------------
(***************************************************************************)
(* Clients.                                                                *)
(***************************************************************************)

\* offer gives an open client the update, unless it has as new a one, or closes
\* it for being slow; a closed one stays as it is.
LEMMA OfferedShape ==
  ASSUME NEW k \in Clients, NEW v \in Versions, Len(k.updates) <= SendBuffer
  PROVE  /\ Offered(k, v) \in Clients
         /\ Len(Offered(k, v).updates) <= SendBuffer
         /\ Offered(k, v).viewer = k.viewer /\ Offered(k, v).step = k.step
         /\ Offered(k, v).snapshot = k.snapshot
         /\ Offered(k, v).last >= k.last
         /\ Offered(k, v).reason = "open" => k.reason = "open" /\ Offered(k, v).last >= v
<1>0. Versions \subseteq Nat /\ SendBuffer \in Nat /\ MaxVersion \in Nat
  BY LiveAssumption DEF Versions
<1>a. k.last \in Nat /\ v \in Nat /\ v \in Versions
  BY <1>0 DEF Clients
<1>1. CASE k.reason # "open" \/ v <= k.last
  <2>1. Offered(k, v) = k
    BY <1>1 DEF Offered
  <2>2. k.reason = "open" => k.last >= v
    BY <1>1, <1>a
  <2>. QED  BY <2>1, <2>2, <1>a
<1>2. CASE k.reason = "open" /\ v > k.last /\ Len(k.updates) < SendBuffer
  <2>1. Offered(k, v) = [k EXCEPT !.updates = Append(@, v), !.last = v]
    BY <1>2, <1>a DEF Offered
  <2>2. v \in 1 .. MaxVersion /\ k.updates \in Seq(1 .. MaxVersion)
    BY <1>2, <1>0 DEF Clients, Versions
  <2>3. Append(k.updates, v) \in Seq(1 .. MaxVersion) /\ Len(Append(k.updates, v)) <= SendBuffer
    BY <2>2, <1>2, <1>0
  <2>4. Offered(k, v).last = v /\ Offered(k, v).reason = k.reason
    BY <2>1 DEF Clients
  <2>5. Offered(k, v) \in Clients
    BY <2>1, <2>3, <1>a DEF Clients
  <2>6. /\ Offered(k, v).updates = Append(k.updates, v)
        /\ Offered(k, v).viewer = k.viewer /\ Offered(k, v).step = k.step
        /\ Offered(k, v).snapshot = k.snapshot
    BY <2>1 DEF Clients
  <2>. QED  BY <2>3, <2>4, <2>5, <2>6, <1>2, <1>a
<1>3. CASE k.reason = "open" /\ v > k.last /\ ~(Len(k.updates) < SendBuffer)
  <2>1. Offered(k, v) = [k EXCEPT !.reason = "slow_consumer"]
    BY <1>3, <1>a DEF Offered
  <2>2. Offered(k, v) \in Clients /\ Offered(k, v).reason = "slow_consumer"
    BY <2>1 DEF Clients
  <2>3. /\ Offered(k, v).updates = k.updates /\ Offered(k, v).last = k.last
        /\ Offered(k, v).viewer = k.viewer /\ Offered(k, v).step = k.step
        /\ Offered(k, v).snapshot = k.snapshot
    BY <2>1 DEF Clients
  <2>. QED  BY <2>2, <2>3, <1>a
<1>. QED  BY <1>1, <1>2, <1>3, <1>a

\* A closed client is closed whatever for, and nothing else about it changes.
LEMMA ClosedShape ==
  ASSUME NEW k \in Clients, NEW r \in {"removed", "shutdown"}
  PROVE  /\ Closed(k, r) \in Clients
         /\ Closed(k, r).reason # "open"
         /\ Closed(k, r).viewer = k.viewer /\ Closed(k, r).step = k.step
         /\ Closed(k, r).snapshot = k.snapshot /\ Closed(k, r).last = k.last
         /\ Closed(k, r).updates = k.updates
BY DEF Closed, Clients

\* closeLocked, for each of them.
LEMMA ClosingKeeps ==
  ASSUME ClientsOK, NEW cs \in SUBSET Streams, NEW r \in {"removed", "shutdown"},
         client' = CloseAll(cs, r)
  PROVE  /\ client' \in [Streams -> Clients]
         /\ \A c \in Streams :
              /\ client'[c].viewer = client[c].viewer /\ client'[c].step = client[c].step
              /\ client'[c].snapshot = client[c].snapshot /\ client'[c].last = client[c].last
              /\ client'[c].updates = client[c].updates
              /\ client'[c].reason = "open" => client[c].reason = "open" /\ c \notin cs
<1>1. \A c \in Streams : client[c] \in Clients
  BY DEF ClientsOK
<1>2. \A c \in Streams : client'[c] = IF c \in cs THEN Closed(client[c], r) ELSE client[c]
  BY DEF CloseAll
<1>3. \A c \in Streams : client'[c] \in Clients
  BY <1>1, <1>2, ClosedShape
<1>4. client' \in [Streams -> Clients]
  BY <1>3 DEF CloseAll
<1>5. ASSUME NEW c \in Streams
      PROVE  /\ client'[c].viewer = client[c].viewer /\ client'[c].step = client[c].step
             /\ client'[c].snapshot = client[c].snapshot /\ client'[c].last = client[c].last
             /\ client'[c].updates = client[c].updates
             /\ client'[c].reason = "open" => client[c].reason = "open" /\ c \notin cs
  <2>1. CASE c \in cs
    <3>1. client'[c] = Closed(client[c], r)
      BY <1>2, <2>1
    <3>. QED  BY <3>1, <1>1, ClosedShape
  <2>2. CASE c \notin cs
    BY <2>2, <1>2
  <2>. QED  BY <2>1, <2>2
<1>. QED  BY <1>4, <1>5

LEMMA NoClientIsOne == NoClient \in Clients /\ NoClient.updates = <<>>
<1>1. <<>> \in Seq(1 .. MaxVersion)
  OBVIOUS
<1>2. 0 \in Versions
  BY LiveAssumption DEF Versions
<1>. QED  BY <1>1, <1>2 DEF NoClient, Clients
-----------------------------------------------------------------------------
(***************************************************************************)
(* Changes of the session.                                                 *)
(***************************************************************************)

LEMMA VersionsAreNumbers ==
  /\ MaxVersion \in Nat /\ Versions \subseteq Nat /\ 0 \in Versions
  /\ \A v \in Versions : v \in 0 .. MaxVersion
  /\ \A e \in Events : e.version \in 1 .. MaxVersion /\ e.version \in Nat /\ e.user \in Users \cup {Nobody}
BY LiveAssumption DEF Versions, Events

\* A change is told by an event or is silent, and whoever can no longer see the
\* session is in an event, or overlooked.
LEMMA SessionChanges ==
  ASSUME IInv, liveUnchanged,
         version' \in Versions, version' >= version, public' \in BOOLEAN,
         attendees' \subseteq Users, others' \subseteq Users,
         silent \subseteq silent', silent' \subseteq 1 .. MaxVersion,
         pending \subseteq pending', pending' \subseteq Events,
         \A e \in pending' : e.version <= version',
         \A v \in 1 .. version' : v > version =>
           v \in silent' \/ \E e \in pending' : e.version = v,
         overlooked' \subseteq Streams,
         \A u \in Users : ~IsVisibleTo(u)' =>
           \/ \E e \in pending' : e.user = u
           \/ StreamsOf(u) \subseteq overlooked'
           \/ ~IsVisibleTo(u) /\ overlooked \cap StreamsOf(u) \subseteq overlooked'
  PROVE  IInv'
<1>. USE VersionsAreNumbers
<1>1. UNCHANGED <<registered, shutdown, client, hub, missed, faults>>
  BY DEF liveUnchanged
<1>2. version \in Nat /\ version' \in Nat
  BY DEF IInv, SessionOK
<1>3. SessionOK' /\ ClientsOK' /\ PlacesOK'
  BY <1>1 DEF IInv, SessionOK, ClientsOK, PlacesOK
<1>4. HubOK'
  <2>1. hub # NoEvent => hub.event.version \in Nat
    BY DEF IInv, HubOK, Handling
  <2>2. hub # NoEvent => hub.event.version <= version'
    BY <1>2, <2>1 DEF IInv, HubOK
  <2>. QED  BY <1>1, <2>2 DEF IInv, HubOK
<1>5. \A c, v : Covered(c, v) => Covered(c, v)'
  BY <1>1 DEF Covered
<1>6. CaughtUp'
  <2>. SUFFICES ASSUME NEW c \in Streams, client[c].step \in {"built", "streaming"},
                       client[c].reason = "open", NEW v \in 1 .. version',
                       v > client[c].last, v > client[c].snapshot
                PROVE  Covered(c, v)'
    BY <1>1 DEF CaughtUp
  <2>1. CASE v > version
    BY <2>1 DEF Covered
  <2>2. CASE ~(v > version)
    <3>1. v \in 1 .. version
      BY <2>2, <1>2
    <3>2. Covered(c, v)
      BY <3>1 DEF IInv, CaughtUp
    <3>. QED  BY <3>2, <1>5
  <2>. QED  BY <2>1, <2>2
<1>7. RemovalsKnown'
  <2>. SUFFICES ASSUME NEW c \in Streams, client[c].step # "none",
                       client[c].reason = "open", ~IsVisibleTo(client[c].viewer)'
                PROVE  \/ c \in overlooked'
                       \/ \E e \in pending' : e.user = client[c].viewer
                       \/ /\ hub.step = "found" /\ hub.event.user = client[c].viewer
                          /\ c \in hub.clients /\ c \in registered
    BY <1>1 DEF RemovalsKnown, Leaving
  <2>1. client[c].viewer \in Users /\ c \in StreamsOf(client[c].viewer)
    BY DEF IInv, PlacesOK, StreamsOf
  <2>2. PICK u \in Users : u = client[c].viewer
    BY <2>1
  <2>3. ~IsVisibleTo(u)'
    BY <2>2, <1>1 DEF IsVisibleTo
  <2>4. CASE ~IsVisibleTo(u) /\ overlooked \cap StreamsOf(u) \subseteq overlooked'
    BY <2>1, <2>2, <2>4 DEF IInv, RemovalsKnown, Leaving
  <2>. QED  BY <2>1, <2>2, <2>3, <2>4
<1>. QED  BY <1>3, <1>4, <1>6, <1>7 DEF IInv

LEMMA ChangeTold ==
  ASSUME IInv, NEW e, NEW u, Changes(e, u),
         <<e, u>> \in ({"changed"} \X {Nobody}) \cup ({"rsvp", "removed", "join_requested"} \X Users)
  PROVE  /\ version' \in Versions /\ version' >= version /\ UNCHANGED silent
         /\ pending \subseteq pending' /\ pending' \subseteq Events
         /\ \A f \in pending' : f.version <= version'
         /\ \A v \in 1 .. version' : v > version => \E f \in pending' : f.version = v
         /\ \E f \in pending' : f.user = u
<1>. USE VersionsAreNumbers
<1>1. version \in Nat /\ version' = version + 1 /\ version + 1 \in 1 .. MaxVersion
  BY DEF IInv, SessionOK, Changes
<1>2. PICK f : f = [event |-> e, user |-> u, version |-> version + 1]
  OBVIOUS
<1>3. f \in Events /\ f.user = u /\ f.version = version + 1
  BY <1>1, <1>2 DEF Events
<1>4. pending' = pending \cup {f} /\ UNCHANGED silent
  BY <1>2 DEF Changes
<1>5. \A g \in pending' : g.version <= version'
  <2>. SUFFICES ASSUME NEW g \in pending' PROVE g.version <= version'
    OBVIOUS
  <2>1. CASE g = f
    BY <2>1, <1>1, <1>3
  <2>2. CASE g \in pending
    <3>1. g.version <= version /\ g \in Events
      BY <2>2 DEF IInv, HubOK, SessionOK
    <3>. QED  BY <3>1, <1>1
  <2>. QED  BY <2>1, <2>2, <1>4
<1>6. pending \subseteq Events /\ version' \in Versions
  BY <1>1 DEF IInv, SessionOK, Versions
<1>7. \A v \in 1 .. version' : v > version => v = f.version
  BY <1>1, <1>3
<1>. QED  BY <1>1, <1>3, <1>4, <1>5, <1>6, <1>7
LEMMA ChangeSessionKeeps == IInv /\ ChangeSession => IInv'
<1> SUFFICES ASSUME IInv, ChangeSession PROVE IInv'
  OBVIOUS
<1>1. Changes("changed", Nobody) /\ UNCHANGED <<public, attendees, others, overlooked>> /\ liveUnchanged
  BY DEF ChangeSession
<1>2. \A u : IsVisibleTo(u)' = IsVisibleTo(u)
  BY <1>1 DEF IsVisibleTo
<1>. QED  BY <1>1, <1>2, ChangeTold, SessionChanges DEF IInv, SessionOK, ClientsOK

LEMMA SetVisibilityKeeps == ASSUME NEW pub \in BOOLEAN PROVE IInv /\ SetVisibility(pub) => IInv'
<1> SUFFICES ASSUME IInv, SetVisibility(pub) PROVE IInv'
  OBVIOUS
<1>1. /\ Changes("changed", Nobody) /\ liveUnchanged /\ UNCHANGED <<attendees, others>> /\ public' = pub
      /\ overlooked' = IF pub THEN {}
                       ELSE overlooked \cup UNION {StreamsOf(u) : u \in {w \in Users : ~IsVisibleTo(w)'}}
  BY DEF SetVisibility
<1>2. overlooked' \subseteq Streams
  BY <1>1 DEF StreamsOf, IInv, ClientsOK
<1>3. \A u \in Users : ~IsVisibleTo(u)' => StreamsOf(u) \subseteq overlooked'
  <2>. SUFFICES ASSUME NEW u \in Users, ~IsVisibleTo(u)' PROVE StreamsOf(u) \subseteq overlooked'
    OBVIOUS
  <2>1. ~pub
    BY <1>1 DEF IsVisibleTo
  <2>. QED  BY <2>1, <1>1
<1>. QED  BY <1>1, <1>2, <1>3, ChangeTold, SessionChanges DEF IInv, SessionOK

LEMMA RSVPKeeps ==
  ASSUME NEW u \in Users, NEW e \in {"rsvp", "join_requested"}
  PROVE  IInv /\ RSVP(u, e) => IInv'
<1> SUFFICES ASSUME IInv, RSVP(u, e) PROVE IInv'
  OBVIOUS
<1>1. /\ Changes(e, u) /\ liveUnchanged /\ attendees' = attendees \cup {u}
      /\ overlooked' = overlooked \ StreamsOf(u) /\ UNCHANGED <<public, others>>
  BY DEF RSVP
<1>2. \A w \in Users : ~IsVisibleTo(w)' =>
        ~IsVisibleTo(w) /\ overlooked \cap StreamsOf(w) \subseteq overlooked'
  BY <1>1 DEF IsVisibleTo, StreamsOf
<1>3. overlooked' \subseteq Streams /\ attendees' \subseteq Users /\ others' \subseteq Users /\ public' \in BOOLEAN
  BY <1>1 DEF IInv, SessionOK, ClientsOK
<1>. QED  BY <1>1, <1>2, <1>3, ChangeTold, SessionChanges DEF IInv, SessionOK

LEMMA RemoveAttendeeKeeps == ASSUME NEW u \in Users PROVE IInv /\ RemoveAttendee(u) => IInv'
<1> SUFFICES ASSUME IInv, RemoveAttendee(u) PROVE IInv'
  OBVIOUS
<1>1. /\ Changes("removed", u) /\ liveUnchanged /\ attendees' = attendees \ {u}
      /\ UNCHANGED <<public, others, overlooked>>
  BY DEF RemoveAttendee
<1>2. \A w \in Users : ~IsVisibleTo(w)' => w = u \/ ~IsVisibleTo(w)
  BY <1>1 DEF IsVisibleTo
<1>3. \E f \in pending' : f.user = u
  BY <1>1, ChangeTold
<1>4. overlooked' \subseteq Streams /\ attendees' \subseteq Users /\ others' \subseteq Users /\ public' \in BOOLEAN
  BY <1>1 DEF IInv, SessionOK, ClientsOK
<1>. QED  BY <1>1, <1>2, <1>3, <1>4, ChangeTold, SessionChanges DEF IInv, SessionOK

LEMMA CancelRSVPKeeps ==
  ASSUME NEW u \in Users, NEW onTeam \in BOOLEAN PROVE IInv /\ CancelRSVP(u, onTeam) => IInv'
<1> SUFFICES ASSUME IInv, CancelRSVP(u, onTeam) PROVE IInv'
  OBVIOUS
<1>. USE VersionsAreNumbers
<1>1. /\ liveUnchanged /\ attendees' = attendees \ {u} /\ UNCHANGED <<public, others>>
      /\ attendees' \subseteq Users /\ others' \subseteq Users /\ public' \in BOOLEAN
      /\ \A w \in Users : ~IsVisibleTo(w)' => w = u \/ ~IsVisibleTo(w)
  BY DEF CancelRSVP, IsVisibleTo, IInv, SessionOK
<1>2. CASE onTeam
  <2>1. Changes("rsvp", u) /\ UNCHANGED overlooked
    BY <1>2 DEF CancelRSVP
  <2>2. \E f \in pending' : f.user = u
    BY <2>1, ChangeTold
  <2>3. overlooked' \subseteq Streams
    BY <2>1 DEF IInv, ClientsOK
  <2>. QED  BY <2>1, <2>2, <2>3, <1>1, ChangeTold, SessionChanges DEF IInv, SessionOK
<1>3. CASE ~onTeam
  <2>1. /\ version < MaxVersion /\ version' = version + 1 /\ silent' = silent \cup {version + 1}
        /\ UNCHANGED pending
        /\ overlooked' = IF IsVisibleTo(u)' THEN overlooked ELSE overlooked \cup StreamsOf(u)
    BY <1>3 DEF CancelRSVP
  <2>2. version \in Nat /\ version' \in Versions /\ version' >= version
    BY <2>1 DEF IInv, SessionOK, Versions
  <2>3. silent' \subseteq 1 .. MaxVersion /\ pending' \subseteq Events
    BY <2>1, <2>2 DEF IInv, SessionOK
  <2>4. \A f \in pending' : f.version <= version'
    <3>. SUFFICES ASSUME NEW f \in pending PROVE f.version <= version'
      BY <2>1
    <3>1. f.version <= version /\ f \in Events
      BY DEF IInv, HubOK, SessionOK
    <3>. QED  BY <3>1, <2>1, <2>2
  <2>5. \A v \in 1 .. version' : v > version => v \in silent'
    BY <2>1, <2>2
  <2>6. overlooked' \subseteq Streams
    BY <2>1 DEF IInv, ClientsOK, StreamsOf
  <2>7. \A w \in Users : ~IsVisibleTo(w)' =>
          \/ StreamsOf(w) \subseteq overlooked'
          \/ ~IsVisibleTo(w) /\ overlooked \cap StreamsOf(w) \subseteq overlooked'
    BY <2>1, <1>1
  <2>8. silent \subseteq silent' /\ pending \subseteq pending'
    BY <2>1
  <2>. QED  BY <2>2, <2>3, <2>4, <2>5, <2>6, <2>7, <2>8, <1>1, SessionChanges
<1>. QED  BY <1>2, <1>3

LEMMA OthersChangeKeeps == ASSUME NEW u \in Users PROVE IInv /\ OthersChange(u) => IInv'
<1> SUFFICES ASSUME IInv, OthersChange(u) PROVE IInv'
  OBVIOUS
<1>. USE VersionsAreNumbers
<1>1. /\ liveUnchanged /\ UNCHANGED <<version, public, attendees, silent, pending>>
      /\ others' = (IF u \in others THEN others \ {u} ELSE others \cup {u})
      /\ overlooked' = IF IsVisibleTo(u)' THEN overlooked \ StreamsOf(u)
                       ELSE overlooked \cup StreamsOf(u)
  BY DEF OthersChange
<1>2. /\ version' \in Versions /\ version' >= version /\ public' \in BOOLEAN
      /\ attendees' \subseteq Users /\ others' \subseteq Users
      /\ silent' \subseteq 1 .. MaxVersion /\ pending' \subseteq Events
      /\ overlooked' \subseteq Streams
  BY <1>1 DEF IInv, SessionOK, ClientsOK, StreamsOf
<1>3. \A e \in pending' : e.version <= version'
  BY <1>1 DEF IInv, HubOK
<1>4. \A v \in 1 .. version' : ~(v > version)
  BY <1>1 DEF IInv, SessionOK
<1>5. \A w \in Users : w # u => StreamsOf(w) \cap StreamsOf(u) = {} /\ (IsVisibleTo(w)' => IsVisibleTo(w))
                                  /\ (IsVisibleTo(w) => IsVisibleTo(w)')
  BY <1>1 DEF StreamsOf, IsVisibleTo
<1>6. \A w \in Users : ~IsVisibleTo(w)' =>
        \/ StreamsOf(w) \subseteq overlooked'
        \/ ~IsVisibleTo(w) /\ overlooked \cap StreamsOf(w) \subseteq overlooked'
  BY <1>1, <1>5
<1>7. silent \subseteq silent' /\ pending \subseteq pending'
  BY <1>1
<1>. QED  BY <1>1, <1>2, <1>3, <1>4, <1>6, <1>7, SessionChanges
-----------------------------------------------------------------------------
(***************************************************************************)
(* Steps that concern one stream, of its own or of the hub's deliver.      *)
(***************************************************************************)

\* The hub goes on with everybody but c, if at all.
OthersStay(c) ==
  \A d \in hub.clients \ {c} :
    hub # NoEvent =>
      /\ hub' # NoEvent /\ hub'.event = hub.event /\ hub'.step = hub.step
      /\ d \in hub'.clients

LEMMA OneStream ==
  ASSUME IInv, NEW c \in Streams, NEW k \in Clients,
         client' = [client EXCEPT ![c] = k], Len(k.updates) <= SendBuffer,
         UNCHANGED <<sessionVars, pending, shutdown, faults>>,
         HubOK', OthersStay(c),
         registered' \subseteq Streams, registered' \ {c} = registered \ {c},
         missed' \in [Streams -> SUBSET (1 .. MaxVersion)],
         \A d \in Streams \ {c} : missed'[d] = missed[d],
         overlooked' \subseteq Streams, overlooked' \ {c} = overlooked \ {c},
         shutdown => registered' = {},
         k.step # "none" => k.viewer \in Users,
         k.step \in {"none", "checked"} => c \notin registered',
         k.step \in {"registered", "built", "streaming"} /\ k.reason = "open" => c \in registered',
         k.step = "streaming" => k.snapshot = 0,
         k.step \in {"built", "streaming"} /\ k.reason = "open" =>
           \A v \in 1 .. version : v > k.last /\ v > k.snapshot => Covered(c, v)',
         k.step # "none" /\ k.reason = "open" /\ ~IsVisibleTo(k.viewer) =>
           \/ c \in overlooked'
           \/ \E e \in pending : e.user = k.viewer
           \/ /\ hub'.step = "found" /\ hub'.event.user = k.viewer
              /\ c \in hub'.clients /\ c \in registered'
  PROVE  IInv'
<1>1. client \in [Streams -> Clients]
  BY DEF IInv, ClientsOK
<1>2. client'[c] = k /\ \A d \in Streams \ {c} : client'[d] = client[d]
  BY <1>1
<1>3. SessionOK'
  BY DEF IInv, SessionOK, sessionVars
<1>4. ClientsOK'
  BY <1>1, <1>2 DEF IInv, ClientsOK
<1>5. PlacesOK'
  <2>. SUFFICES ASSUME NEW d \in Streams
                PROVE  /\ client'[d].step # "none" => client'[d].viewer \in Users
                       /\ client'[d].step \in {"none", "checked"} => d \notin registered'
                       /\ client'[d].step \in {"registered", "built", "streaming"}
                            /\ client'[d].reason = "open" => d \in registered'
                       /\ client'[d].step = "streaming" => client'[d].snapshot = 0
    BY DEF IInv, PlacesOK
  <2>1. CASE d = c
    BY <2>1, <1>2
  <2>2. CASE d # c
    BY <2>2, <1>2 DEF IInv, PlacesOK
  <2>. QED  BY <2>1, <2>2
<1>6. ASSUME NEW d \in Streams \ {c}, NEW v, Covered(d, v) PROVE Covered(d, v)'
  <2>1. hub # NoEvent /\ d \in hub.clients =>
          hub' # NoEvent /\ hub'.event = hub.event /\ d \in hub'.clients
    BY DEF OthersStay
  <2>. QED  BY <1>6, <2>1 DEF Covered, sessionVars
<1>7. CaughtUp'
  <2>. SUFFICES ASSUME NEW d \in Streams, client'[d].step \in {"built", "streaming"},
                       client'[d].reason = "open", NEW v \in 1 .. version,
                       v > client'[d].last, v > client'[d].snapshot
                PROVE  Covered(d, v)'
    BY DEF CaughtUp, sessionVars
  <2>1. CASE d = c
    BY <2>1, <1>2
  <2>2. CASE d # c
    <3>1. Covered(d, v)
      BY <2>2, <1>2 DEF IInv, CaughtUp
    <3>. QED  BY <2>2, <3>1, <1>6
  <2>. QED  BY <2>1, <2>2
<1>8. RemovalsKnown'
  <2>. SUFFICES ASSUME NEW d \in Streams, client'[d].step # "none",
                       client'[d].reason = "open", ~IsVisibleTo(client'[d].viewer)
                PROVE  \/ d \in overlooked'
                       \/ \E e \in pending : e.user = client'[d].viewer
                       \/ /\ hub'.step = "found" /\ hub'.event.user = client'[d].viewer
                          /\ d \in hub'.clients /\ d \in registered'
    BY DEF RemovalsKnown, Leaving, sessionVars, IsVisibleTo
  <2>1. CASE d = c
    BY <2>1, <1>2
  <2>2. CASE d # c
    <3>1. client'[d] = client[d]
      BY <2>2, <1>2
    <3>2. \/ d \in overlooked
          \/ \E e \in pending : e.user = client[d].viewer
          \/ /\ hub.step = "found" /\ hub.event.user = client[d].viewer
             /\ d \in hub.clients /\ d \in registered
      BY <3>1 DEF IInv, RemovalsKnown, Leaving
    <3>3. hub.step = "found" /\ d \in hub.clients =>
            hub'.event = hub.event /\ hub'.step = hub.step /\ d \in hub'.clients
      BY <2>2 DEF OthersStay, NoEvent
    <3>. QED  BY <2>2, <3>1, <3>2, <3>3
  <2>. QED  BY <2>1, <2>2
<1>. QED  BY <1>3, <1>4, <1>5, <1>7, <1>8 DEF IInv

\* The hub has nothing to do with it.
LEMMA HubAway ==
  ASSUME IInv, NEW c, UNCHANGED <<sessionVars, pending, hub>>
  PROVE  HubOK' /\ OthersStay(c)
BY DEF IInv, HubOK, OthersStay, sessionVars
LEMMA RequestKeeps ==
  ASSUME NEW c \in Streams, NEW u \in Users PROVE IInv /\ Request(c, u) => IInv'
<1> SUFFICES ASSUME IInv, Request(c, u) PROVE IInv'
  OBVIOUS
<1>1. PICK k : k = [NoClient EXCEPT !.viewer = u, !.step = "checked"]
  OBVIOUS
<1>2. k \in Clients /\ k.viewer = u /\ k.step = "checked" /\ k.updates = <<>>
  BY <1>1, NoClientIsOne DEF NoClient, Clients
<1>3. /\ client' = [client EXCEPT ![c] = k] /\ missed' = [missed EXCEPT ![c] = {}]
      /\ overlooked' = overlooked \ {c} /\ UNCHANGED <<sessionVars, pending, shutdown, hub, registered, faults>>
      /\ client[c].step = "none" /\ IsVisibleTo(u)
  BY <1>1 DEF Request, streamUnchanged, EnsureSessionVisible
<1>4. Len(k.updates) <= SendBuffer
  BY <1>2, LiveAssumption
<1>5. HubOK' /\ OthersStay(c)
  BY <1>3, HubAway
<1>6. /\ c \notin registered /\ registered \subseteq Streams /\ (shutdown => registered = {})
      /\ overlooked \subseteq Streams
  BY <1>3 DEF IInv, PlacesOK, ClientsOK
<1>7. /\ missed' \in [Streams -> SUBSET (1 .. MaxVersion)]
      /\ \A d \in Streams \ {c} : missed'[d] = missed[d]
  BY <1>3 DEF IInv, ClientsOK
<1>. QED  BY <1>2, <1>3, <1>4, <1>5, <1>6, <1>7, OneStream

LEMMA RegisterKeeps == ASSUME NEW c \in Streams PROVE IInv /\ Register(c) => IInv'
<1> SUFFICES ASSUME IInv, Register(c) PROVE IInv'
  OBVIOUS
<1>1. /\ client[c].step = "checked"
      /\ UNCHANGED <<sessionVars, pending, shutdown, hub, missed, overlooked, faults>>
  BY DEF Register, streamUnchanged
<1>2. /\ client[c] \in Clients /\ Len(client[c].updates) <= SendBuffer
      /\ missed \in [Streams -> SUBSET (1 .. MaxVersion)] /\ overlooked \subseteq Streams
      /\ registered \subseteq Streams /\ client[c].viewer \in Users /\ c \notin registered
      /\ shutdown \in BOOLEAN
  BY <1>1 DEF IInv, ClientsOK, PlacesOK
<1>3. HubOK' /\ OthersStay(c)
  BY <1>1, HubAway
<1>4. CASE shutdown
  <2>1. PICK k : k = [Closed(client[c], "shutdown") EXCEPT !.step = "registered"]
    OBVIOUS
  <2>2. /\ Closed(client[c], "shutdown") \in Clients /\ Closed(client[c], "shutdown").reason # "open"
        /\ Closed(client[c], "shutdown").viewer = client[c].viewer
        /\ Closed(client[c], "shutdown").updates = client[c].updates
    BY <1>2, ClosedShape
  <2>3. /\ k \in Clients /\ k.reason # "open" /\ k.viewer = client[c].viewer
        /\ k.updates = client[c].updates /\ k.step = "registered"
    BY <2>1, <2>2 DEF Clients
  <2>4. client' = [client EXCEPT ![c] = k] /\ UNCHANGED registered
    BY <1>4, <2>1 DEF Register
  <2>5. registered = {}
    BY <1>4 DEF IInv, PlacesOK
  <2>. QED  BY <1>1, <1>2, <1>3, <2>3, <2>4, <2>5, OneStream
<1>5. CASE ~shutdown
  <2>1. PICK k : k = [client[c] EXCEPT !.step = "registered"]
    OBVIOUS
  <2>2. /\ k \in Clients /\ k.viewer = client[c].viewer /\ k.reason = client[c].reason
        /\ k.updates = client[c].updates /\ k.step = "registered"
    BY <2>1, <1>2 DEF Clients
  <2>3. client' = [client EXCEPT ![c] = k] /\ registered' = registered \cup {c}
    BY <1>5, <2>1 DEF Register
  <2>4. k.reason = "open" /\ ~IsVisibleTo(k.viewer) =>
          c \in overlooked \/ \E e \in pending : e.user = k.viewer
    BY <1>1, <1>2, <2>2 DEF IInv, RemovalsKnown, Leaving
  <2>. QED  BY <1>1, <1>2, <1>3, <1>5, <2>2, <2>3, <2>4, OneStream
<1>. QED  BY <1>2, <1>4, <1>5

LEMMA BuildFirstSnapshotKeeps ==
  ASSUME NEW c \in Streams PROVE IInv /\ BuildFirstSnapshot(c) => IInv'
<1> SUFFICES ASSUME IInv, BuildFirstSnapshot(c) PROVE IInv'
  OBVIOUS
<1>1. /\ client[c].step = "registered"
      /\ client' = [client EXCEPT ![c].step = "built", ![c].snapshot = version]
      /\ UNCHANGED <<sessionVars, pending, shutdown, hub, registered, missed, overlooked, faults>>
  BY DEF BuildFirstSnapshot, streamUnchanged, Snapshot
<1>2. /\ client \in [Streams -> Clients] /\ client[c] \in Clients /\ Len(client[c].updates) <= SendBuffer
      /\ missed \in [Streams -> SUBSET (1 .. MaxVersion)] /\ overlooked \subseteq Streams
      /\ registered \subseteq Streams /\ client[c].viewer \in Users
      /\ (client[c].reason = "open" => c \in registered)
      /\ (shutdown => registered = {}) /\ version \in Versions
  BY <1>1 DEF IInv, ClientsOK, PlacesOK, SessionOK
<1>3. PICK k : k = [client[c] EXCEPT !.step = "built", !.snapshot = version]
  OBVIOUS
<1>4. /\ k \in Clients /\ k.viewer = client[c].viewer /\ k.reason = client[c].reason
      /\ k.updates = client[c].updates /\ k.step = "built" /\ k.snapshot = version
  BY <1>2, <1>3 DEF Clients
<1>5. client' = [client EXCEPT ![c] = k]
  BY <1>1, <1>2, <1>3
<1>6. \A v \in 1 .. version : ~(v > k.snapshot)
  BY <1>2, <1>4, VersionsAreNumbers
<1>7. k.reason = "open" /\ ~IsVisibleTo(k.viewer) =>
        \/ c \in overlooked
        \/ \E e \in pending : e.user = k.viewer
        \/ /\ hub.step = "found" /\ hub.event.user = k.viewer
           /\ c \in hub.clients /\ c \in registered
  BY <1>1, <1>4 DEF IInv, RemovalsKnown, Leaving
<1>8. HubOK' /\ OthersStay(c)
  BY <1>1, HubAway
<1>. QED  BY <1>1, <1>2, <1>4, <1>5, <1>6, <1>7, <1>8, OneStream

LEMMA WriteUpdateKeeps == ASSUME NEW c \in Streams PROVE IInv /\ WriteUpdate(c) => IInv'
<1> SUFFICES ASSUME IInv, WriteUpdate(c) PROVE IInv'
  OBVIOUS
<1>1. /\ client[c].step = "streaming" /\ client[c].updates # <<>>
      /\ client' = [client EXCEPT ![c].updates = Tail(@)]
      /\ UNCHANGED <<sessionVars, pending, shutdown, hub, registered, missed, overlooked, faults>>
  BY DEF WriteUpdate, streamUnchanged
<1>2. /\ client \in [Streams -> Clients] /\ client[c] \in Clients /\ Len(client[c].updates) <= SendBuffer
      /\ missed \in [Streams -> SUBSET (1 .. MaxVersion)] /\ overlooked \subseteq Streams
      /\ registered \subseteq Streams /\ client[c].viewer \in Users /\ client[c].snapshot = 0
      /\ (client[c].reason = "open" => c \in registered)
      /\ (shutdown => registered = {})
  BY <1>1 DEF IInv, ClientsOK, PlacesOK
<1>3. client[c].updates \in Seq(1 .. MaxVersion) /\ SendBuffer \in Nat
  BY <1>2, LiveAssumption DEF Clients
<1>4. /\ Tail(client[c].updates) \in Seq(1 .. MaxVersion)
      /\ Len(Tail(client[c].updates)) <= SendBuffer
  <2>1. PICK s \in Seq(1 .. MaxVersion) : s = client[c].updates
    BY <1>3
  <2>2. s # <<>>
    BY <1>1, <2>1
  <2>3. Tail(s) \in Seq(1 .. MaxVersion) /\ Len(Tail(s)) = Len(s) - 1
    BY <2>2, HeadTailProperties, Zenon
  <2>4. Len(s) \in Nat
    OBVIOUS
  <2>. QED  BY <1>2, <1>3, <2>1, <2>3, <2>4
<1>5. PICK k : k = [client[c] EXCEPT !.updates = Tail(client[c].updates)]
  OBVIOUS
<1>6. /\ k \in Clients /\ k.viewer = client[c].viewer /\ k.reason = client[c].reason
      /\ k.updates = Tail(client[c].updates) /\ k.step = "streaming" /\ k.snapshot = client[c].snapshot
      /\ k.last = client[c].last
  BY <1>1, <1>2, <1>4, <1>5 DEF Clients
<1>7. client' = [client EXCEPT ![c] = k]
  BY <1>1, <1>2, <1>5
<1>8. k.reason = "open" =>
        \A v \in 1 .. version : v > k.last /\ v > k.snapshot => Covered(c, v)'
  BY <1>1, <1>6 DEF IInv, CaughtUp, Covered, sessionVars
<1>9. k.reason = "open" /\ ~IsVisibleTo(k.viewer) =>
        \/ c \in overlooked
        \/ \E e \in pending : e.user = k.viewer
        \/ /\ hub.step = "found" /\ hub.event.user = k.viewer
           /\ c \in hub.clients /\ c \in registered
  BY <1>1, <1>6 DEF IInv, RemovalsKnown, Leaving
<1>10. HubOK' /\ OthersStay(c)
  BY <1>1, HubAway
<1>. QED  BY <1>1, <1>2, <1>4, <1>6, <1>7, <1>8, <1>9, <1>10, OneStream
LEMMA OfferFirstSnapshotKeeps ==
  ASSUME NEW c \in Streams PROVE IInv /\ OfferFirstSnapshot(c) => IInv'
<1> SUFFICES ASSUME IInv, OfferFirstSnapshot(c) PROVE IInv'
  OBVIOUS
<1>. USE VersionsAreNumbers
<1>1. PICK o : o = Offered(client[c], client[c].snapshot)
  OBVIOUS
<1>2. PICK k : k = [o EXCEPT !.step = "streaming", !.snapshot = 0]
  OBVIOUS
<1>3. /\ client[c].step = "built"
      /\ client' = [client EXCEPT ![c] = k]
      /\ missed' = [missed EXCEPT ![c] = {w \in @ : w > client'[c].last}]
      /\ UNCHANGED <<sessionVars, pending, shutdown, hub, registered, overlooked, faults>>
  BY <1>1, <1>2 DEF OfferFirstSnapshot, streamUnchanged, IInv, ClientsOK
<1>4. /\ client \in [Streams -> Clients] /\ client[c] \in Clients /\ Len(client[c].updates) <= SendBuffer
      /\ missed \in [Streams -> SUBSET (1 .. MaxVersion)] /\ overlooked \subseteq Streams
      /\ registered \subseteq Streams /\ client[c].viewer \in Users
      /\ (client[c].reason = "open" => c \in registered)
      /\ (shutdown => registered = {})
  BY <1>3 DEF IInv, ClientsOK, PlacesOK
<1>5. client[c].snapshot \in Versions /\ client[c].snapshot \in Nat /\ client[c].last \in Nat
  BY <1>4 DEF Clients
<1>6. /\ o \in Clients /\ Len(o.updates) <= SendBuffer /\ o.viewer = client[c].viewer
      /\ o.last >= client[c].last
      /\ o.reason = "open" => client[c].reason = "open" /\ o.last >= client[c].snapshot
  BY <1>1, <1>4, <1>5, OfferedShape
<1>7. /\ k \in Clients /\ k.viewer = client[c].viewer /\ k.reason = o.reason
      /\ k.updates = o.updates /\ k.step = "streaming" /\ k.snapshot = 0 /\ k.last = o.last
      /\ k.last \in Nat
  BY <1>2, <1>6 DEF Clients
<1>8. client'[c] = k /\ missed'[c] = {w \in missed[c] : w > k.last}
  BY <1>3, <1>4
<1>9. ASSUME k.reason = "open", NEW v \in 1 .. version, v > k.last PROVE Covered(c, v)'
  <2>1. v > client[c].last /\ v > client[c].snapshot
    BY <1>5, <1>6, <1>7, <1>9 DEF IInv, SessionOK
  <2>2. Covered(c, v)
    BY <2>1, <1>3, <1>6, <1>7, <1>9 DEF IInv, CaughtUp
  <2>. QED  BY <2>2, <1>3, <1>8, <1>9 DEF Covered, sessionVars
<1>10. k.reason = "open" /\ ~IsVisibleTo(k.viewer) =>
        \/ c \in overlooked
        \/ \E e \in pending : e.user = k.viewer
        \/ /\ hub.step = "found" /\ hub.event.user = k.viewer
           /\ c \in hub.clients /\ c \in registered
  BY <1>3, <1>6, <1>7 DEF IInv, RemovalsKnown, Leaving
<1>11. HubOK' /\ OthersStay(c)
  BY <1>3, HubAway
<1>12. /\ missed' \in [Streams -> SUBSET (1 .. MaxVersion)]
       /\ \A d \in Streams \ {c} : missed'[d] = missed[d]
  BY <1>3, <1>4
<1>. QED  BY <1>3, <1>4, <1>6, <1>7, <1>9, <1>10, <1>11, <1>12, OneStream

LEMMA DisconnectKeeps == ASSUME NEW c \in Streams PROVE IInv /\ Disconnect(c) => IInv'
<1> SUFFICES ASSUME IInv, Disconnect(c) PROVE IInv'
  OBVIOUS
<1>1. /\ registered' = registered \ {c} /\ client' = [client EXCEPT ![c] = NoClient]
      /\ missed' = [missed EXCEPT ![c] = {}] /\ overlooked' = overlooked \ {c}
      /\ hub' = [hub EXCEPT !.clients = @ \ {c}]
      /\ UNCHANGED <<sessionVars, pending, shutdown, faults>>
  BY DEF Disconnect
<1>2. HubOK' /\ OthersStay(c)
  <2>1. CASE hub = NoEvent
    <3>1. hub' = NoEvent
      BY <1>1, <2>1 DEF NoEvent
    <3>. QED  BY <1>1, <2>1, <3>1, HubAway
  <2>2. CASE hub \in Handling
    <3>1. /\ hub' \in Handling /\ hub'.event = hub.event /\ hub'.step = hub.step
          /\ hub'.snapshot = hub.snapshot /\ hub'.clients = hub.clients \ {c}
      BY <1>1, <2>2 DEF Handling
    <3>2. hub # NoEvent /\ hub' # NoEvent
      BY <2>2, <3>1 DEF Handling, NoEvent
    <3>. QED  BY <1>1, <3>1, <3>2 DEF IInv, HubOK, OthersStay, sessionVars
  <2>. QED  BY <2>1, <2>2 DEF IInv, HubOK
<1>3. NoClient \in Clients /\ Len(NoClient.updates) <= SendBuffer /\ NoClient.step = "none"
  BY NoClientIsOne, LiveAssumption DEF NoClient
<1>4. /\ registered \subseteq Streams /\ (shutdown => registered = {})
      /\ overlooked \subseteq Streams /\ missed \in [Streams -> SUBSET (1 .. MaxVersion)]
  BY DEF IInv, PlacesOK, ClientsOK
<1>5. /\ missed' \in [Streams -> SUBSET (1 .. MaxVersion)]
      /\ \A d \in Streams \ {c} : missed'[d] = missed[d]
  BY <1>1, <1>4
<1>. QED  BY <1>1, <1>2, <1>3, <1>4, <1>5, OneStream

\* deliver is done with c, and perhaps with all.
LEMMA AfterOneHub ==
  ASSUME IInv, NEW c, hub.step = "offering", AfterOne(c), UNCHANGED <<sessionVars, pending>>
  PROVE  /\ HubOK' /\ OthersStay(c)
         /\ hub # NoEvent /\ hub \in Handling /\ hub.event \in Events /\ hub.snapshot \in Versions
         /\ hub.event.version <= hub.snapshot
<1>1. hub # NoEvent /\ hub \in Handling
  BY DEF IInv, HubOK, NoEvent
<1>2. CASE hub.clients = {c}
  <2>1. hub' = NoEvent
    BY <1>2 DEF AfterOne
  <2>2. HubOK'
    BY <2>1 DEF IInv, HubOK, NoEvent, sessionVars
  <2>. QED  BY <1>1, <1>2, <2>2 DEF OthersStay, IInv, HubOK, Handling
<1>3. CASE hub.clients # {c}
  <2>1. hub' = [hub EXCEPT !.clients = @ \ {c}]
    BY <1>3 DEF AfterOne
  <2>2. /\ hub' \in Handling /\ hub'.event = hub.event /\ hub'.step = hub.step
        /\ hub'.snapshot = hub.snapshot /\ hub'.clients = hub.clients \ {c}
    BY <1>1, <2>1 DEF Handling
  <2>3. hub' # NoEvent
    BY <2>2 DEF NoEvent
  <2>. QED  BY <1>1, <2>2, <2>3 DEF IInv, HubOK, OthersStay, Handling, sessionVars
<1>. QED  BY <1>2, <1>3

LEMMA DeliverKeeps == ASSUME NEW c \in Streams PROVE IInv /\ Deliver(c) => IInv'
<1> SUFFICES ASSUME IInv, Deliver(c) PROVE IInv'
  OBVIOUS
<1>. USE VersionsAreNumbers
<1>1. PICK k : k = Offered(client[c], hub.snapshot)
  OBVIOUS
<1>2. /\ hub.step = "offering" /\ c \in hub.clients /\ AfterOne(c)
      /\ client' = [client EXCEPT ![c] = k]
      /\ missed' = [missed EXCEPT ![c] = {w \in @ : w > client'[c].last}]
      /\ UNCHANGED <<sessionVars, pending, registered, shutdown, overlooked, faults>>
  BY <1>1 DEF Deliver, Offer, hubUnchanged, IInv, ClientsOK
<1>3. /\ HubOK' /\ OthersStay(c)
      /\ hub.event \in Events /\ hub.snapshot \in Versions
      /\ hub.event.version <= hub.snapshot
  BY <1>2, AfterOneHub
<1>4. /\ client \in [Streams -> Clients] /\ client[c] \in Clients /\ Len(client[c].updates) <= SendBuffer
      /\ missed \in [Streams -> SUBSET (1 .. MaxVersion)] /\ overlooked \subseteq Streams
      /\ registered \subseteq Streams
  BY DEF IInv, ClientsOK, PlacesOK
<1>5. /\ k \in Clients /\ Len(k.updates) <= SendBuffer
      /\ k.viewer = client[c].viewer /\ k.step = client[c].step /\ k.snapshot = client[c].snapshot
      /\ k.last >= client[c].last
      /\ k.reason = "open" => client[c].reason = "open" /\ k.last >= hub.snapshot
  BY <1>1, <1>3, <1>4, OfferedShape
<1>6. k.last \in Nat /\ client[c].last \in Nat /\ hub.snapshot \in Nat /\ hub.event.version \in Nat
  BY <1>3, <1>4, <1>5 DEF Clients
<1>7. client'[c] = k /\ missed'[c] = {w \in missed[c] : w > k.last}
  BY <1>2, <1>4
<1>8. ASSUME k.step \in {"built", "streaming"}, k.reason = "open", NEW v \in 1 .. version,
             v > k.last, v > k.snapshot
      PROVE  Covered(c, v)'
  <2>1. v > client[c].last /\ v # hub.event.version
    BY <1>3, <1>5, <1>6, <1>8 DEF IInv, SessionOK
  <2>2. Covered(c, v)
    BY <2>1, <1>5, <1>8 DEF IInv, CaughtUp
  <2>. QED  BY <2>1, <2>2, <1>2, <1>7, <1>8 DEF Covered, sessionVars
<1>9. k.step # "none" /\ k.reason = "open" /\ ~IsVisibleTo(k.viewer) =>
        c \in overlooked \/ \E e \in pending : e.user = k.viewer
  BY <1>2, <1>5 DEF IInv, RemovalsKnown, Leaving
<1>10. /\ missed' \in [Streams -> SUBSET (1 .. MaxVersion)]
       /\ \A d \in Streams \ {c} : missed'[d] = missed[d]
  BY <1>2, <1>4
<1>11. /\ (shutdown => registered = {})
       /\ k.step # "none" => k.viewer \in Users
       /\ k.step \in {"none", "checked"} => c \notin registered
       /\ k.step \in {"registered", "built", "streaming"} /\ k.reason = "open" => c \in registered
       /\ k.step = "streaming" => k.snapshot = 0
  BY <1>5 DEF IInv, PlacesOK
<1>. QED  BY <1>2, <1>3, <1>4, <1>5, <1>8, <1>9, <1>10, <1>11, OneStream

LEMMA WithholdKeeps == ASSUME NEW c \in Streams PROVE IInv /\ Withhold(c) => IInv'
<1> SUFFICES ASSUME IInv, Withhold(c) PROVE IInv'
  OBVIOUS
<1>. USE VersionsAreNumbers
<1>1. /\ hub.step = "offering" /\ c \in hub.clients /\ AfterOne(c)
      /\ Misses({c}, hub.event.version)
      /\ UNCHANGED <<sessionVars, pending, registered, shutdown, client, overlooked, faults>>
  BY DEF Withhold, hubUnchanged
<1>2. HubOK' /\ OthersStay(c) /\ hub.event \in Events
  BY <1>1, AfterOneHub
<1>3. /\ client \in [Streams -> Clients] /\ client[c] \in Clients /\ Len(client[c].updates) <= SendBuffer
      /\ missed \in [Streams -> SUBSET (1 .. MaxVersion)] /\ overlooked \subseteq Streams
      /\ registered \subseteq Streams
  BY DEF IInv, ClientsOK, PlacesOK
<1>4. client' = [client EXCEPT ![c] = client[c]]
  BY <1>1, <1>3
<1>5. /\ missed' \in [Streams -> SUBSET (1 .. MaxVersion)]
      /\ \A d \in Streams \ {c} : missed'[d] = missed[d]
      /\ missed[c] \subseteq missed'[c]
      /\ hub.event.version > client[c].last => hub.event.version \in missed'[c]
  BY <1>1, <1>2, <1>3 DEF Misses
<1>6. ASSUME client[c].step \in {"built", "streaming"}, client[c].reason = "open",
             NEW v \in 1 .. version, v > client[c].last, v > client[c].snapshot
      PROVE  Covered(c, v)'
  <2>1. Covered(c, v)
    BY <1>6 DEF IInv, CaughtUp
  <2>. QED  BY <2>1, <1>1, <1>5, <1>6 DEF Covered, sessionVars
<1>7. client[c].step # "none" /\ client[c].reason = "open" /\ ~IsVisibleTo(client[c].viewer) =>
        c \in overlooked \/ \E e \in pending : e.user = client[c].viewer
  BY <1>1 DEF IInv, RemovalsKnown, Leaving
<1>8. /\ (shutdown => registered = {})
      /\ client[c].step # "none" => client[c].viewer \in Users
      /\ client[c].step \in {"none", "checked"} => c \notin registered
      /\ client[c].step \in {"registered", "built", "streaming"} /\ client[c].reason = "open"
           => c \in registered
      /\ client[c].step = "streaming" => client[c].snapshot = 0
  BY DEF IInv, PlacesOK
<1>. QED  BY <1>1, <1>2, <1>3, <1>4, <1>5, <1>6, <1>7, <1>8, OneStream
-----------------------------------------------------------------------------
(***************************************************************************)
(* Steps of the hub.                                                       *)
(***************************************************************************)

\* A step of the hub closes clients at most, and has to keep the promises made to
\* those that are still open.
LEMMA HubSteps ==
  ASSUME IInv, UNCHANGED sessionVars, SessionOK', ClientsOK', HubOK', PlacesOK',
         \A c \in Streams :
           /\ client'[c].viewer = client[c].viewer /\ client'[c].step = client[c].step
           /\ client'[c].snapshot = client[c].snapshot /\ client'[c].last = client[c].last
           /\ client'[c].reason = "open" => client[c].reason = "open",
         \A c \in Streams :
           client'[c].reason = "open" /\ client[c].step \in {"built", "streaming"} =>
             \A v \in 1 .. version : v > client[c].last /\ Covered(c, v) => Covered(c, v)',
         \A c \in Streams :
           /\ client'[c].reason = "open" /\ client[c].step # "none"
           /\ ~IsVisibleTo(client[c].viewer) /\ Leaving(c)
           => Leaving(c)'
  PROVE  IInv'
<1>1. CaughtUp'
  <2>. SUFFICES ASSUME NEW c \in Streams, client'[c].step \in {"built", "streaming"},
                       client'[c].reason = "open", NEW v \in 1 .. version,
                       v > client'[c].last, v > client'[c].snapshot
                PROVE  Covered(c, v)'
    BY DEF CaughtUp, sessionVars
  <2>1. Covered(c, v)
    BY DEF IInv, CaughtUp
  <2>. QED  BY <2>1
<1>2. RemovalsKnown'
  <2>. SUFFICES ASSUME NEW c \in Streams, client'[c].step # "none",
                       client'[c].reason = "open", ~IsVisibleTo(client[c].viewer)
                PROVE  Leaving(c)'
    BY DEF RemovalsKnown, sessionVars, IsVisibleTo
  <2>1. Leaving(c)
    BY DEF IInv, RemovalsKnown
  <2>. QED  BY <2>1
<1>. QED  BY <1>1, <1>2 DEF IInv

\* Whoever must leave is nobody an event about no attendee is for.
LEMMA OnlyAttendeesLeave ==
  ASSUME IInv, NEW c \in Streams, client[c].step # "none",
         NEW e \in Events, e.user = client[c].viewer
  PROVE  AboutAttendee(e)
BY LiveAssumption DEF IInv, PlacesOK, Events, AboutAttendee

LEMMA LoseBroadcastKeeps == ASSUME NEW e \in pending PROVE IInv /\ LoseBroadcast(e) => IInv'
<1> SUFFICES ASSUME IInv, LoseBroadcast(e) PROVE IInv'
  OBVIOUS
<1>1. /\ faults < MaxFaults /\ faults' = faults + 1 /\ pending' = pending \ {e}
      /\ Misses(registered, e.version)
      /\ overlooked' = (IF AboutAttendee(e) /\ ~IsVisibleTo(e.user)
                        THEN overlooked \cup StreamsOf(e.user) ELSE overlooked)
      /\ UNCHANGED <<sessionVars, registered, shutdown, client, hub>>
  BY DEF LoseBroadcast
<1>2. e \in Events /\ e.version \in 1 .. MaxVersion
  BY VersionsAreNumbers DEF IInv, SessionOK
<1>3. missed' \in [Streams -> SUBSET (1 .. MaxVersion)]
  BY <1>1, <1>2 DEF Misses, IInv, ClientsOK
<1>4. \A c \in Streams : missed[c] \subseteq missed'[c]
                         /\ (c \in registered /\ e.version > client[c].last => e.version \in missed'[c])
  BY <1>1 DEF Misses
<1>5. SessionOK'
  BY <1>1, LiveAssumption DEF IInv, SessionOK, sessionVars
<1>6. ClientsOK' /\ HubOK' /\ PlacesOK'
  BY <1>1, <1>3 DEF IInv, ClientsOK, HubOK, PlacesOK, StreamsOf, sessionVars
<1>7. ASSUME NEW c \in Streams, client'[c].reason = "open", client[c].step \in {"built", "streaming"},
             NEW v \in 1 .. version, v > client[c].last, Covered(c, v)
      PROVE  Covered(c, v)'
  <2>1. c \in registered
    BY <1>1, <1>7 DEF IInv, PlacesOK
  <2>2. CASE e.version = v
    BY <2>1, <2>2, <1>4, <1>7 DEF Covered
  <2>3. CASE e.version # v
    BY <2>3, <1>1, <1>4, <1>7 DEF Covered, sessionVars
  <2>. QED  BY <2>2, <2>3
<1>8. ASSUME NEW c \in Streams, client[c].step # "none", ~IsVisibleTo(client[c].viewer), Leaving(c)
      PROVE  Leaving(c)'
  <2>1. CASE e.user = client[c].viewer
    <3>1. AboutAttendee(e) /\ ~IsVisibleTo(e.user) /\ c \in StreamsOf(e.user)
      BY <2>1, <1>2, <1>8, OnlyAttendeesLeave DEF StreamsOf
    <3>. QED  BY <3>1, <1>1 DEF Leaving
  <2>2. CASE e.user # client[c].viewer
    BY <2>2, <1>1, <1>8 DEF Leaving
  <2>. QED  BY <2>1, <2>2
<1>9. UNCHANGED sessionVars /\ UNCHANGED client
  BY <1>1
<1>. QED  BY <1>5, <1>6, <1>7, <1>8, <1>9, HubSteps

LEMMA ShutdownKeeps == IInv /\ Shutdown => IInv'
<1> SUFFICES ASSUME IInv, Shutdown PROVE IInv'
  OBVIOUS
<1>1. /\ shutdown' = TRUE /\ registered' = {} /\ client' = CloseAll(registered, "shutdown")
      /\ UNCHANGED <<sessionVars, pending, hub, missed, overlooked, faults>>
  BY DEF Shutdown
<1>2. registered \in SUBSET Streams /\ ClientsOK
  BY DEF IInv, PlacesOK
<1>3. /\ client' \in [Streams -> Clients]
      /\ \A c \in Streams :
           /\ client'[c].viewer = client[c].viewer /\ client'[c].step = client[c].step
           /\ client'[c].snapshot = client[c].snapshot /\ client'[c].last = client[c].last
           /\ client'[c].updates = client[c].updates
           /\ client'[c].reason = "open" => client[c].reason = "open" /\ c \notin registered
  BY <1>1, <1>2, ClosingKeeps
<1>4. SessionOK' /\ HubOK'
  BY <1>1 DEF IInv, SessionOK, HubOK, sessionVars
<1>5. ClientsOK'
  BY <1>1, <1>3 DEF IInv, ClientsOK
<1>6. PlacesOK'
  BY <1>1, <1>3 DEF IInv, PlacesOK
<1>7. \A c, v : Covered(c, v) => Covered(c, v)'
  BY <1>1 DEF Covered, sessionVars
<1>8. ASSUME NEW c \in Streams, client'[c].reason = "open", Leaving(c) PROVE Leaving(c)'
  BY <1>1, <1>3, <1>8 DEF Leaving
<1>9. UNCHANGED sessionVars
  BY <1>1
<1>. QED  BY <1>3, <1>4, <1>5, <1>6, <1>7, <1>8, <1>9, HubSteps
\* The hub is done with the event.
LEMMA HubStops ==
  ASSUME IInv, hub' = NoEvent, UNCHANGED <<sessionVars, pending>>
  PROVE  HubOK'
BY DEF IInv, HubOK, NoEvent, sessionVars

LEMMA HandleEventKeeps == ASSUME NEW e \in pending PROVE IInv /\ HandleEvent(e) => IInv'
<1> SUFFICES ASSUME IInv, HandleEvent(e) PROVE IInv'
  OBVIOUS
<1>. USE VersionsAreNumbers
<1>1. /\ hub.step = "idle" /\ pending' = pending \ {e}
      /\ hub' = (IF registered = {} THEN NoEvent
                 ELSE [step |-> IF AboutAttendee(e) THEN "found" ELSE "dropped",
                       event |-> e, clients |-> registered, snapshot |-> 0])
      /\ overlooked' = (IF AboutAttendee(e) /\ ~IsVisibleTo(e.user)
                        THEN overlooked \cup {c \in StreamsOf(e.user) : client[c].step = "checked"}
                        ELSE overlooked)
      /\ UNCHANGED <<sessionVars, registered, shutdown, client, missed, faults>>
  BY DEF HandleEvent, hubUnchanged
<1>2. e \in Events /\ e.version <= version /\ registered \subseteq Streams
  BY DEF IInv, SessionOK, HubOK, PlacesOK
<1>3. hub = NoEvent
  BY <1>1 DEF IInv, HubOK, Handling
<1>4. registered # {} =>
        /\ hub' \in Handling /\ hub'.event = e /\ hub'.clients = registered
        /\ hub'.step \in {"found", "dropped"} /\ (AboutAttendee(e) => hub'.step = "found")
        /\ hub' # NoEvent
  BY <1>1, <1>2 DEF Handling, NoEvent
<1>5. HubOK'
  <2>1. CASE registered = {}
    BY <1>1, <2>1 DEF IInv, HubOK, NoEvent, sessionVars
  <2>2. CASE registered # {}
    BY <1>1, <1>2, <1>4, <2>2 DEF IInv, HubOK, sessionVars
  <2>. QED  BY <2>1, <2>2
<1>6. SessionOK' /\ PlacesOK'
  BY <1>1 DEF IInv, SessionOK, PlacesOK, sessionVars
<1>7. ClientsOK'
  BY <1>1 DEF IInv, ClientsOK, StreamsOf
<1>8. ASSUME NEW c \in Streams, client'[c].reason = "open", client[c].step \in {"built", "streaming"},
             NEW v \in 1 .. version, v > client[c].last, Covered(c, v)
      PROVE  Covered(c, v)'
  <2>1. c \in registered
    BY <1>1, <1>8 DEF IInv, PlacesOK
  <2>2. CASE e.version = v
    BY <2>1, <2>2, <1>4 DEF Covered
  <2>3. CASE e.version # v
    BY <2>3, <1>1, <1>3, <1>8 DEF Covered, sessionVars
  <2>. QED  BY <2>2, <2>3
<1>9. ASSUME NEW c \in Streams, client'[c].reason = "open", client[c].step # "none",
             ~IsVisibleTo(client[c].viewer), Leaving(c)
      PROVE  Leaving(c)'
  <2>1. CASE e.user = client[c].viewer
    <3>1. AboutAttendee(e) /\ ~IsVisibleTo(e.user) /\ c \in StreamsOf(e.user)
      BY <2>1, <1>2, <1>9, OnlyAttendeesLeave DEF StreamsOf
    <3>2. CASE client[c].step = "checked"
      BY <3>1, <3>2, <1>1 DEF Leaving
    <3>3. CASE client[c].step # "checked"
      <4>1. client[c].step \in {"registered", "built", "streaming"} /\ client[c].reason = "open"
        BY <3>3, <1>1, <1>9 DEF IInv, ClientsOK, Clients
      <4>2. c \in registered
        BY <4>1 DEF IInv, PlacesOK
      <4>. QED  BY <4>2, <3>1, <2>1, <1>1, <1>4 DEF Leaving
    <3>. QED  BY <3>2, <3>3
  <2>2. CASE e.user # client[c].viewer
    BY <2>2, <1>1, <1>9 DEF Leaving
  <2>. QED  BY <2>1, <2>2
<1>10. UNCHANGED sessionVars /\ UNCHANGED client
  BY <1>1
<1>. QED  BY <1>5, <1>6, <1>7, <1>8, <1>9, <1>10, HubSteps

LEMMA DropRemovedViewerKeeps ==
  ASSUME NEW visible \in BOOLEAN PROVE IInv /\ DropRemovedViewer(visible) => IInv'
<1> SUFFICES ASSUME IInv, DropRemovedViewer(visible) PROVE IInv'
  OBVIOUS
<1>. USE VersionsAreNumbers
<1>1. PICK gone : gone = {c \in hub.clients : client[c].viewer = hub.event.user
                                     /\ (hub.event.event = "removed" \/ ~visible)}
  OBVIOUS
<1>2. /\ hub.step = "found" /\ (visible <=> IsVisibleTo(hub.event.user))
      /\ client' = CloseAll(gone, "removed")
      /\ hub' = [hub EXCEPT !.step = "dropped", !.clients = @ \ gone]
      /\ UNCHANGED <<sessionVars, pending, registered, shutdown, missed, overlooked, faults>>
  BY <1>1 DEF DropRemovedViewer, hubUnchanged, EnsureSessionVisible
<1>3. hub \in Handling /\ hub # NoEvent
  BY <1>2 DEF IInv, HubOK, NoEvent
<1>4. gone \in SUBSET Streams /\ ClientsOK
  BY <1>1, <1>3 DEF IInv, Handling
<1>5. /\ hub' \in Handling /\ hub'.event = hub.event /\ hub'.step = "dropped"
      /\ hub'.snapshot = hub.snapshot /\ hub'.clients = hub.clients \ gone
  BY <1>2, <1>3 DEF Handling
<1>6. hub' # NoEvent
  BY <1>5 DEF NoEvent
<1>7. /\ client' \in [Streams -> Clients]
      /\ \A c \in Streams :
           /\ client'[c].viewer = client[c].viewer /\ client'[c].step = client[c].step
           /\ client'[c].snapshot = client[c].snapshot /\ client'[c].last = client[c].last
           /\ client'[c].updates = client[c].updates
           /\ client'[c].reason = "open" => client[c].reason = "open" /\ c \notin gone
  BY <1>2, <1>4, ClosingKeeps
<1>8. SessionOK' /\ HubOK'
  BY <1>2, <1>3, <1>5, <1>6 DEF IInv, SessionOK, HubOK, sessionVars
<1>9. ClientsOK' /\ PlacesOK'
  BY <1>2, <1>7 DEF IInv, ClientsOK, PlacesOK
<1>10. ASSUME NEW c \in Streams, client'[c].reason = "open", NEW v, Covered(c, v)
       PROVE  Covered(c, v)'
  BY <1>2, <1>5, <1>6, <1>7, <1>10 DEF Covered, sessionVars
<1>11. ASSUME NEW c \in Streams, client'[c].reason = "open",
              ~IsVisibleTo(client[c].viewer), Leaving(c)
       PROVE  Leaving(c)'
  <2>1. c \notin gone
    BY <1>7, <1>11
  <2>2. ~(hub.event.user = client[c].viewer /\ c \in hub.clients)
    BY <2>1, <1>1, <1>2, <1>11
  <2>. QED  BY <2>2, <1>2, <1>7, <1>11 DEF Leaving
<1>12. UNCHANGED sessionVars
  BY <1>2
<1>. QED  BY <1>7, <1>8, <1>9, <1>10, <1>11, <1>12, HubSteps

LEMMA VisibilityLookupFailsKeeps == IInv /\ VisibilityLookupFails => IInv'
<1> SUFFICES ASSUME IInv, VisibilityLookupFails PROVE IInv'
  OBVIOUS
<1>. USE VersionsAreNumbers
<1>1. /\ hub.step = "found" /\ faults < MaxFaults /\ faults' = faults + 1
      /\ hub' = [hub EXCEPT !.step = "dropped"]
      /\ overlooked' = overlooked \cup StreamsOf(hub.event.user)
      /\ UNCHANGED <<sessionVars, pending, registered, shutdown, client, missed>>
  BY DEF VisibilityLookupFails, hubUnchanged
<1>2. hub \in Handling /\ hub # NoEvent
  BY <1>1 DEF IInv, HubOK, NoEvent
<1>3. /\ hub' \in Handling /\ hub'.event = hub.event /\ hub'.step = "dropped"
      /\ hub'.snapshot = hub.snapshot /\ hub'.clients = hub.clients
  BY <1>1, <1>2 DEF Handling
<1>4. hub' # NoEvent
  BY <1>3 DEF NoEvent
<1>5. SessionOK'
  BY <1>1, LiveAssumption DEF IInv, SessionOK, sessionVars
<1>6. HubOK'
  BY <1>1, <1>2, <1>3, <1>4 DEF IInv, HubOK, sessionVars
<1>7. ClientsOK' /\ PlacesOK'
  BY <1>1 DEF IInv, ClientsOK, PlacesOK, StreamsOf
<1>8. ASSUME NEW c, NEW v, Covered(c, v) PROVE Covered(c, v)'
  BY <1>1, <1>3, <1>4, <1>8 DEF Covered, sessionVars
<1>9. ASSUME NEW c \in Streams, Leaving(c) PROVE Leaving(c)'
  BY <1>1, <1>9 DEF Leaving, StreamsOf
<1>10. UNCHANGED sessionVars /\ UNCHANGED client
  BY <1>1
<1>. QED  BY <1>5, <1>6, <1>7, <1>8, <1>9, <1>10, HubSteps

LEMMA BuildSnapshotKeeps == IInv /\ BuildSnapshot => IInv'
<1> SUFFICES ASSUME IInv, BuildSnapshot PROVE IInv'
  OBVIOUS
<1>. USE VersionsAreNumbers
<1>1. /\ hub.step = "dropped" /\ hub' = [hub EXCEPT !.step = "offering", !.snapshot = version]
      /\ UNCHANGED <<sessionVars, pending, registered, shutdown, client, missed, overlooked, faults>>
  BY DEF BuildSnapshot, hubUnchanged, Snapshot
<1>2. hub \in Handling /\ hub # NoEvent /\ hub.event.version <= version /\ version \in Versions
  BY <1>1 DEF IInv, HubOK, NoEvent, SessionOK
<1>3. /\ hub' \in Handling /\ hub'.event = hub.event /\ hub'.step = "offering"
      /\ hub'.snapshot = version /\ hub'.clients = hub.clients
  BY <1>1, <1>2 DEF Handling
<1>4. hub' # NoEvent
  BY <1>3 DEF NoEvent
<1>5. HubOK'
  BY <1>1, <1>2, <1>3, <1>4 DEF IInv, HubOK, sessionVars
<1>6. SessionOK' /\ ClientsOK' /\ PlacesOK'
  BY <1>1 DEF IInv, SessionOK, ClientsOK, PlacesOK, sessionVars
<1>7. ASSUME NEW c, NEW v, Covered(c, v) PROVE Covered(c, v)'
  BY <1>1, <1>3, <1>4, <1>7 DEF Covered, sessionVars
<1>8. ASSUME NEW c \in Streams, Leaving(c) PROVE Leaving(c)'
  BY <1>1, <1>8 DEF Leaving
<1>9. UNCHANGED sessionVars /\ UNCHANGED client
  BY <1>1
<1>. QED  BY <1>5, <1>6, <1>7, <1>8, <1>9, HubSteps

LEMMA SnapshotFailsKeeps == IInv /\ SnapshotFails => IInv'
<1> SUFFICES ASSUME IInv, SnapshotFails PROVE IInv'
  OBVIOUS
<1>. USE VersionsAreNumbers
<1>1. /\ hub.step = "dropped" /\ faults < MaxFaults /\ faults' = faults + 1 /\ hub' = NoEvent
      /\ Misses(hub.clients, hub.event.version)
      /\ UNCHANGED <<sessionVars, pending, registered, shutdown, client, overlooked>>
  BY DEF SnapshotFails, hubUnchanged
<1>2. hub \in Handling /\ hub.event \in Events /\ hub.event.version \in 1 .. MaxVersion
  BY <1>1 DEF IInv, HubOK, NoEvent, Handling
<1>3. missed' \in [Streams -> SUBSET (1 .. MaxVersion)]
  BY <1>1, <1>2 DEF Misses, IInv, ClientsOK
<1>4. \A c \in Streams :
        /\ missed[c] \subseteq missed'[c]
        /\ c \in hub.clients /\ hub.event.version > client[c].last => hub.event.version \in missed'[c]
  BY <1>1 DEF Misses
<1>5. SessionOK'
  BY <1>1, LiveAssumption DEF IInv, SessionOK, sessionVars
<1>6. HubOK'
  BY <1>1, HubStops
<1>7. ClientsOK' /\ PlacesOK'
  BY <1>1, <1>3 DEF IInv, ClientsOK, PlacesOK
<1>8. ASSUME NEW c \in Streams, NEW v \in 1 .. version, v > client[c].last, Covered(c, v)
      PROVE  Covered(c, v)'
  BY <1>1, <1>4, <1>8 DEF Covered, sessionVars
<1>9. ASSUME NEW c \in Streams, Leaving(c) PROVE Leaving(c)'
  BY <1>1, <1>9 DEF Leaving
<1>10. UNCHANGED sessionVars /\ UNCHANGED client
  BY <1>1
<1>. QED  BY <1>5, <1>6, <1>7, <1>8, <1>9, <1>10, HubSteps

LEMMA NobodyLeftKeeps == IInv /\ NobodyLeft => IInv'
<1> SUFFICES ASSUME IInv, NobodyLeft PROVE IInv'
  OBVIOUS
<1>1. /\ hub.step = "offering" /\ hub.clients = {} /\ hub' = NoEvent
      /\ UNCHANGED <<sessionVars, pending, registered, shutdown, client, missed, overlooked, faults>>
  BY DEF NobodyLeft, hubUnchanged
<1>2. HubOK'
  BY <1>1, HubStops
<1>3. SessionOK' /\ ClientsOK' /\ PlacesOK'
  BY <1>1 DEF IInv, SessionOK, ClientsOK, PlacesOK, sessionVars
<1>4. ASSUME NEW c, NEW v, Covered(c, v) PROVE Covered(c, v)'
  BY <1>1, <1>4 DEF Covered, sessionVars
<1>5. ASSUME NEW c \in Streams, Leaving(c) PROVE Leaving(c)'
  BY <1>1, <1>5 DEF Leaving
<1>6. UNCHANGED sessionVars /\ UNCHANGED client
  BY <1>1
<1>. QED  BY <1>2, <1>3, <1>4, <1>5, <1>6, HubSteps
-----------------------------------------------------------------------------
(***************************************************************************)
(* The invariant holds, and says what the properties say.                  *)
(***************************************************************************)

LEMMA InvariantAtStart == Init => IInv
<1> SUFFICES ASSUME Init PROVE IInv
  OBVIOUS
<1>. USE VersionsAreNumbers
<1>1. /\ version \in {0, 1} /\ attendees \subseteq {Creator} /\ public \in BOOLEAN
      /\ others \subseteq Users /\ silent = {} /\ pending = {} /\ registered = {}
      /\ shutdown = FALSE /\ client = [c \in Streams |-> NoClient] /\ hub = NoEvent
      /\ missed = [c \in Streams |-> {}] /\ overlooked = {} /\ faults = 0
  BY DEF Init
<1>2. SessionOK
  BY <1>1, LiveAssumption DEF SessionOK, Versions
<1>3. NoClient \in Clients /\ NoClient.updates = <<>> /\ NoClient.step = "none"
  BY NoClientIsOne DEF NoClient
<1>4. ClientsOK
  BY <1>1, <1>3, LiveAssumption DEF ClientsOK
<1>5. HubOK
  BY <1>1 DEF HubOK, NoEvent
<1>6. PlacesOK /\ CaughtUp /\ RemovalsKnown
  BY <1>1, <1>3 DEF PlacesOK, CaughtUp, RemovalsKnown
<1>. QED  BY <1>2, <1>4, <1>5, <1>6 DEF IInv

LEMMA InvariantKept == IInv /\ [Next]_vars => IInv'
<1> SUFFICES ASSUME IInv, [Next]_vars PROVE IInv'
  OBVIOUS
<1>1. ASSUME NEW c \in Streams,
             \/ \E u \in Users : Request(c, u)
             \/ Register(c) \/ BuildFirstSnapshot(c) \/ OfferFirstSnapshot(c)
             \/ WriteUpdate(c) \/ Disconnect(c) \/ Deliver(c) \/ Withhold(c)
      PROVE  IInv'
  BY <1>1, RequestKeeps, RegisterKeeps, BuildFirstSnapshotKeeps, OfferFirstSnapshotKeeps,
     WriteUpdateKeeps, DisconnectKeeps, DeliverKeeps, WithholdKeeps
<1>2. CASE Shutdown
  BY <1>2, ShutdownKeeps
<1>3. CASE ChangeSession
  BY <1>3, ChangeSessionKeeps
<1>4. CASE \E pub \in BOOLEAN : SetVisibility(pub)
  BY <1>4, SetVisibilityKeeps
<1>5. ASSUME NEW u \in Users,
             \/ \E e \in {"rsvp", "join_requested"} : RSVP(u, e)
             \/ RemoveAttendee(u)
             \/ \E onTeam \in BOOLEAN : CancelRSVP(u, onTeam)
             \/ OthersChange(u)
      PROVE  IInv'
  BY <1>5, RSVPKeeps, RemoveAttendeeKeeps, CancelRSVPKeeps, OthersChangeKeeps
<1>6. ASSUME NEW e \in pending, LoseBroadcast(e) \/ HandleEvent(e) PROVE IInv'
  BY <1>6, LoseBroadcastKeeps, HandleEventKeeps
<1>7. CASE \E visible \in BOOLEAN : DropRemovedViewer(visible)
  BY <1>7, DropRemovedViewerKeeps
<1>8. CASE VisibilityLookupFails \/ BuildSnapshot \/ SnapshotFails \/ NobodyLeft
  BY <1>8, VisibilityLookupFailsKeeps, BuildSnapshotKeeps, SnapshotFailsKeeps, NobodyLeftKeeps
<1>9. CASE UNCHANGED vars
  BY <1>9 DEF vars, sessionVars, IInv, SessionOK, ClientsOK, HubOK, PlacesOK, CaughtUp,
              Covered, RemovalsKnown, Leaving, IsVisibleTo
<1>. QED  BY <1>1, <1>2, <1>3, <1>4, <1>5, <1>6, <1>7, <1>8, <1>9 DEF Next

\* The inductive invariant holds in every reachable state.
THEOREM InvariantHolds == Spec => []IInv
<1>1. Init => IInv
  BY InvariantAtStart
<1>2. IInv /\ [Next]_vars => IInv'
  BY InvariantKept
<1>. QED  BY <1>1, <1>2, PTL DEF Spec

\* Clients, the hub and the session keep their types, and after a shutdown no
\* stream that has connected stays open (Hub.Shutdown, Hub.Connect).
THEOREM StreamsEndWithTheHub == Spec => []StreamsOK
<1>1. IInv => StreamsOK
  <2>. SUFFICES ASSUME IInv PROVE StreamsOK
    OBVIOUS
  <2>1. /\ hub.step \in {"idle", "found", "dropped", "offering"}
        /\ hub.step # "idle" => hub.event \in Events
        /\ hub.clients \subseteq Streams
        /\ hub.snapshot \in 0 .. MaxVersion
    BY VersionsAreNumbers DEF IInv, HubOK, NoEvent, Handling, Versions
  <2>2. TypeOK
    BY <2>1 DEF IInv, SessionOK, ClientsOK, PlacesOK, TypeOK, Clients, Versions
  <2>3. ShutdownLeavesNobody
    BY DEF IInv, PlacesOK, ShutdownLeavesNobody, IsOpen
  <2>. QED  BY <2>2, <2>3 DEF StreamsOK
<1>. QED  BY <1>1, InvariantHolds, PTL

\* "Registering before building the snapshot means no change can slip in between"
\* (Connect): a change an open stream does not have yet is on its way to it, or
\* was withheld, lost, or without an event.
THEOREM NothingSlipsPast == Spec => []NoChangeSlipsPast
<1>1. IInv => NoChangeSlipsPast
  <2>. SUFFICES ASSUME IInv, NEW c \in Streams, IsOpen(c), client[c].step = "streaming",
                       NEW v \in client[c].last + 1 .. version
                PROVE  \/ v \in missed[c] \cup silent
                       \/ \E e \in pending : e.version = v
                       \/ hub.step # "idle" /\ hub.event.version = v /\ c \in hub.clients
    BY DEF NoChangeSlipsPast
  <2>1. client[c].last \in Nat /\ version \in Nat
    BY VersionsAreNumbers DEF IInv, SessionOK, ClientsOK, Clients
  <2>2. client[c].snapshot = 0
    BY DEF IInv, PlacesOK
  <2>3. v \in 1 .. version /\ v > client[c].last /\ v > client[c].snapshot
    BY <2>1, <2>2
  <2>4. Covered(c, v)
    BY <2>3 DEF IInv, CaughtUp, IsOpen
  <2>5. hub # NoEvent => hub.step # "idle"
    BY DEF IInv, HubOK, Handling
  <2>. QED  BY <2>4, <2>5 DEF Covered
<1>. QED  BY <1>1, InvariantHolds, PTL

\* An open stream's viewer can see the session, or the event that says otherwise
\* is on its way, or could not be looked up, or there was none (HandleEvent,
\* dropRemovedViewer).
THEOREM RemovedViewersLeave == Spec => []RemovedViewerLeaves
<1>1. IInv => RemovedViewerLeaves
  BY DEF IInv, PlacesOK, RemovalsKnown, Leaving, RemovedViewerLeaves, IsOpen
<1>. QED  BY <1>1, InvariantHolds, PTL
=============================================================================
