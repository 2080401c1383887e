------------------------- MODULE TeamFormationProofs -------------------------
(***************************************************************************)
(* Proofs about TeamFormation, for any users, team setups, captains and    *)
(* divisions.                                                              *)
(***************************************************************************)
EXTENDS TeamFormation, FiniteSetTheorems, TLAPS

-----------------------------------------------------------------------------
(***************************************************************************)
(* The inductive invariant.                                                *)
(***************************************************************************)

Setups == [count : Nat, min : Nat \ {0}]

Drafts ==
  [status : {"none", "active", "completed", "cancelled"}, captains : CaptainPairs \cup {<<>>},
   order : {"snake", "alternate"}, min : Nat \ {0}, turn : Nat,
   picks : SUBSET [user : Users, side : {1, 2}]]

Ballots == UNION {[voters -> Proposals \cup {KeepCurrentTeams}] : voters \in SUBSET Users}

Rounds ==
  [status : {"none", "open", "closed", "cancelled"}, setup : Setups, keep : BOOLEAN,
   proposals : SUBSET Proposals, votes : Ballots]

AttendanceOK == going \subseteq Users /\ doubtful \subseteq Requesters /\ ended \in BOOLEAN

TeamsOK ==
  /\ setup \in Setups
  /\ origin \in {"none", "manual", "draft", "vote"}
  /\ HasTeams <=> origin # "none"
  /\ teamOf \in [Users -> 0 .. setup.count]
  /\ TeamsHoldGoing

\* By how many players side 1 is ahead after so many turns.
Lead(order, turn) ==
  IF turn % 2 = 0 THEN 0
  ELSE IF order = "snake" /\ (turn \div 2) % 2 = 1 THEN -1 ELSE 1

\* Two captains, and after each turn one more player, on the side of the turn.
Level(d) ==
  /\ d.status = "active" /\ d.captains \in CaptainPairs /\ d.captains[1] # d.captains[2]
  /\ d.order \in PickOrders
  /\ Captains(d) \cap Picked(d) = {}
  /\ Cardinality(Picked(d)) = d.turn
  /\ Cardinality(Roster(d, 1)) = Cardinality(Roster(d, 2)) + Lead(d.order, d.turn)

DraftOver(d) == d.status # "active" /\ d = [NoDraft EXCEPT !.status = d.status]

DraftOK == draft \in Drafts /\ (DraftOver(draft) \/ Level(draft))

\* Teams of at least one player each, and nobody on two of them: what
\* validateDivision leaves true of a division when somebody joins later.
Disjoint(division) ==
  /\ \A i \in DOMAIN division : division[i] # {} /\ division[i] \subseteq Users
  /\ \A i, j \in DOMAIN division : i # j => division[i] \cap division[j] = {}

RoundOver(r) == r.status # "open" /\ r = [NoRound EXCEPT !.status = r.status]

\* A proposal fits the round it is made in, and stays apart from the others.
Running(r) ==
  /\ r.status = "open" /\ r.setup.count \in 2 .. 8
  /\ \A p \in r.proposals : Len(p.teams) = r.setup.count /\ Disjoint(p.teams)
  /\ \A p, q \in r.proposals :
       p # q => \E u, v \in Users : Together(p.teams, u, v) # Together(q.teams, u, v)
  /\ \A v \in DOMAIN r.votes : r.votes[v] \in Options(r)

RoundOK == round \in Rounds /\ (RoundOver(round) \/ Running(round))

EndedIsOver == ended => ~DraftActive /\ ~VotingOpen

IInv ==
  /\ AttendanceOK
  /\ TeamsOK
  /\ DraftOK
  /\ RoundOK
  /\ EndedIsOver
  /\ DraftOrVote
  /\ RoundMatchesTeams

-----------------------------------------------------------------------------
(***************************************************************************)
(* Captain drafts.                                                         *)
(***************************************************************************)

LEMMA NoDraftIsOver ==
  ASSUME NEW s \in {"none", "completed", "cancelled"}
  PROVE  /\ [NoDraft EXCEPT !.status = s] \in Drafts
         /\ DraftOver([NoDraft EXCEPT !.status = s])
         /\ [NoDraft EXCEPT !.status = s].status = s
         /\ NoDraft.status = "none" /\ NoDraft = [NoDraft EXCEPT !.status = "none"]
<1>1. NoDraft \in Drafts /\ NoDraft.status = "none"
  BY DEF NoDraft, Drafts
<1>2. [NoDraft EXCEPT !.status = s] \in Drafts /\ [NoDraft EXCEPT !.status = s].status = s
  BY <1>1 DEF Drafts
<1>3. NoDraft = [NoDraft EXCEPT !.status = "none"]
  BY DEF NoDraft
<1>. QED  BY <1>1, <1>2, <1>3 DEF DraftOver

\* A draft that is over names nobody.
LEMMA NobodyDrafts ==
  ASSUME NEW d \in Drafts, DraftOver(d)
  PROVE  Captains(d) = {} /\ Picked(d) = {}
<1>1. d.captains = <<>> /\ d.picks = {}
  BY DEF DraftOver, NoDraft
<1>. QED  BY <1>1 DEF Captains, Picked

LEMMA PeopleOfADraft ==
  ASSUME NEW d \in Drafts, d.captains \in CaptainPairs
  PROVE  /\ Captains(d) = {d.captains[1], d.captains[2]}
         /\ Captains(d) \subseteq Users /\ Picked(d) \subseteq Users
         /\ IsFiniteSet(Picked(d)) /\ IsFiniteSet(Roster(d, 1)) /\ IsFiniteSet(Roster(d, 2))
         /\ Roster(d, 1) \cup Roster(d, 2) = Captains(d) \cup Picked(d)
<1>1. d.captains \in [{1, 2} -> Users] /\ d.picks \subseteq [user : Users, side : {1, 2}]
  BY FormationAssumption DEF Drafts
<1>2. Captains(d) = {d.captains[1], d.captains[2]} /\ Captains(d) \subseteq Users
  BY <1>1 DEF Captains
<1>3. \A p \in d.picks : p.user \in Users /\ p.side \in {1, 2}
  BY <1>1
<1>4. Picked(d) \subseteq Users
  BY <1>3 DEF Picked
<1>5. Roster(d, 1) \cup Roster(d, 2) = Captains(d) \cup Picked(d)
  BY <1>2, <1>3 DEF Roster, Picked
<1>6. Roster(d, 1) \subseteq Users /\ Roster(d, 2) \subseteq Users
  BY <1>2, <1>4, <1>5
<1>7. IsFiniteSet(Picked(d)) /\ IsFiniteSet(Roster(d, 1)) /\ IsFiniteSet(Roster(d, 2))
  BY <1>4, <1>6, FormationAssumption, FS_Subset
<1>. QED  BY <1>2, <1>4, <1>5, <1>7

LEMMA DraftStarts ==
  ASSUME NEW captains \in CaptainPairs, NEW order \in PickOrders, NEW min \in Nat \ {0},
         captains[1] # captains[2], NEW d, d = NewTeamDraft(captains, order, min)
  PROVE  /\ d \in Drafts /\ Level(d) /\ d.captains = captains /\ d.picks = {}
<1>1. d = [status |-> "active", captains |-> captains, order |-> order, min |-> min,
           turn |-> 0, picks |-> {}]
  BY DEF NewTeamDraft, NoDraft
<1>2. d \in Drafts
  BY <1>1, FormationAssumption DEF Drafts
<1>3. Picked(d) = {} /\ Roster(d, 1) = {captains[1]} /\ Roster(d, 2) = {captains[2]}
  BY <1>1 DEF Picked, Roster
<1>4. /\ Cardinality(Picked(d)) = 0
      /\ Cardinality(Roster(d, 1)) = 1 /\ Cardinality(Roster(d, 2)) = 1
  BY <1>3, FS_EmptySet, FS_Singleton
<1>5. Lead(d.order, d.turn) = 0 /\ d.turn = 0
  BY <1>1 DEF Lead
<1>. QED  BY <1>1, <1>2, <1>3, <1>4, <1>5 DEF Level

\* The side whose turn it is catches up, or gets ahead by one.
LEMMA TurnsAlternate ==
  ASSUME NEW order, NEW turn \in Nat
  PROVE  /\ SideForTurn(order, turn) \in {1, 2}
         /\ SideForTurn(order, turn) = 1 => Lead(order, turn + 1) = Lead(order, turn) + 1
         /\ SideForTurn(order, turn) = 2 => Lead(order, turn + 1) = Lead(order, turn) - 1
         /\ Lead(order, turn) \in {-1, 0, 1}
<1>1. CASE turn % 2 = 0
  <2>1. (turn + 1) % 2 = 1 /\ (turn + 1) \div 2 = turn \div 2
    BY <1>1
  <2>. QED  BY <1>1, <2>1 DEF SideForTurn, Other, Lead
<1>2. CASE turn % 2 = 1
  <2>1. (turn + 1) % 2 = 0
    BY <1>2
  <2>. QED  BY <1>2, <2>1 DEF SideForTurn, Other, Lead
<1>. QED  BY <1>1, <1>2

LEMMA PickKeepsLevel ==
  ASSUME NEW d \in Drafts, Level(d), NEW u \in Users \ (Captains(d) \cup Picked(d)),
         NEW e, e = WithPick(d, u)
  PROVE  /\ e \in Drafts /\ Level(e) /\ e.min = d.min
         /\ Captains(e) = Captains(d) /\ Picked(e) = Picked(d) \cup {u}
<1>1. PICK side : side = SideForTurn(d.order, d.turn)
  OBVIOUS
<1>2. PICK pick : pick = [user |-> u, side |-> side]
  OBVIOUS
<1>3. /\ d.turn \in Nat /\ d.captains \in CaptainPairs /\ d.order \in {"snake", "alternate"}
      /\ d.min \in Nat \ {0} /\ d.picks \subseteq [user : Users, side : {1, 2}]
  BY DEF Level, Drafts
<1>4. /\ side \in {1, 2}
      /\ side = 1 => Lead(d.order, d.turn + 1) = Lead(d.order, d.turn) + 1
      /\ side = 2 => Lead(d.order, d.turn + 1) = Lead(d.order, d.turn) - 1
      /\ Lead(d.order, d.turn) \in {-1, 0, 1}
  BY <1>1, <1>3, TurnsAlternate
<1>5. e = [d EXCEPT !.picks = d.picks \cup {pick}, !.turn = d.turn + 1]
  BY <1>1, <1>2 DEF WithPick
<1>6. /\ e \in Drafts
      /\ e.status = d.status /\ e.captains = d.captains /\ e.order = d.order /\ e.min = d.min
      /\ e.turn = d.turn + 1 /\ e.picks = d.picks \cup {pick}
  <2>1. pick \in [user : Users, side : {1, 2}]
    BY <1>2, <1>4
  <2>2. d.picks \cup {pick} \in SUBSET [user : Users, side : {1, 2}] /\ d.turn + 1 \in Nat
    BY <1>3, <2>1
  <2>3. PICK picks, turn : picks = d.picks \cup {pick} /\ turn = d.turn + 1
    OBVIOUS
  <2>4. e = [d EXCEPT !.picks = picks, !.turn = turn]
    BY <1>5, <2>3
  <2>. QED  BY <2>2, <2>3, <2>4 DEF Drafts
<1>7. Captains(e) = Captains(d) /\ Picked(e) = Picked(d) \cup {u}
  BY <1>2, <1>6 DEF Captains, Picked
<1>8. /\ side = 1 => Roster(e, 1) = Roster(d, 1) \cup {u} /\ Roster(e, 2) = Roster(d, 2)
      /\ side = 2 => Roster(e, 2) = Roster(d, 2) \cup {u} /\ Roster(e, 1) = Roster(d, 1)
  BY <1>2, <1>6 DEF Roster
<1>9. /\ IsFiniteSet(Picked(d)) /\ IsFiniteSet(Roster(d, 1)) /\ IsFiniteSet(Roster(d, 2))
      /\ u \notin Picked(d) /\ u \notin Roster(d, 1) /\ u \notin Roster(d, 2)
  BY <1>3, PeopleOfADraft
<1>10. /\ Cardinality(Picked(d) \cup {u}) = Cardinality(Picked(d)) + 1
       /\ Cardinality(Roster(d, 1) \cup {u}) = Cardinality(Roster(d, 1)) + 1
       /\ Cardinality(Roster(d, 2) \cup {u}) = Cardinality(Roster(d, 2)) + 1
       /\ Cardinality(Roster(d, 1)) \in Nat /\ Cardinality(Roster(d, 2)) \in Nat
  BY <1>9, FS_AddElement, FS_CardinalityType
<1>11. Cardinality(Picked(e)) = e.turn
  BY <1>6, <1>7, <1>10 DEF Level
<1>12. Cardinality(Roster(e, 1)) = Cardinality(Roster(e, 2)) + Lead(e.order, e.turn)
  <2>1. PICK one, two : one = Cardinality(Roster(d, 1)) /\ two = Cardinality(Roster(d, 2))
    OBVIOUS
  <2>2. one \in Nat /\ two \in Nat /\ one = two + Lead(d.order, d.turn)
    BY <1>10, <2>1 DEF Level
  <2>3. CASE side = 1
    <3>1. Roster(e, 1) = Roster(d, 1) \cup {u} /\ Roster(e, 2) = Roster(d, 2)
      BY <1>8, <2>3
    <3>2. /\ Cardinality(Roster(e, 1)) = Cardinality(Roster(d, 1)) + 1
          /\ Cardinality(Roster(e, 2)) = Cardinality(Roster(d, 2))
      BY <1>10, <3>1
    <3>3. Lead(e.order, e.turn) = Lead(d.order, d.turn) + 1
      BY <1>4, <1>6, <2>3
    <3>. QED  BY <1>4, <2>1, <2>2, <3>2, <3>3
  <2>4. CASE side = 2
    <3>1. Roster(e, 2) = Roster(d, 2) \cup {u} /\ Roster(e, 1) = Roster(d, 1)
      BY <1>8, <2>4
    <3>2. /\ Cardinality(Roster(e, 2)) = Cardinality(Roster(d, 2)) + 1
          /\ Cardinality(Roster(e, 1)) = Cardinality(Roster(d, 1))
      BY <1>10, <3>1
    <3>3. Lead(e.order, e.turn) = Lead(d.order, d.turn) - 1
      BY <1>4, <1>6, <2>4
    <3>. QED  BY <1>4, <2>1, <2>2, <3>2, <3>3
  <2>. QED  BY <1>4, <2>3, <2>4
<1>13. Captains(e) \cap Picked(e) = {}
  BY <1>7 DEF Level
<1>. QED  BY <1>6, <1>7, <1>11, <1>12, <1>13 DEF Level

-----------------------------------------------------------------------------
(***************************************************************************)
(* The teams.                                                              *)
(***************************************************************************)

\* Rosters that become the teams, whoever of them is going.
LEMMA TeamsFormed ==
  ASSUME NEW rosters, NEW s \in Setups, s.count >= 2, DOMAIN rosters \subseteq 1 .. s.count,
         NEW from \in {"manual", "draft", "vote"}, FormTeams(rosters, s, from), UNCHANGED going
  PROVE  /\ TeamsOK' /\ HasTeams'
         /\ \A u \in going, i \in DOMAIN rosters : u \in rosters[i] /\ u \in Users => teamOf'[u] \in DOMAIN rosters
<1>1. /\ setup' = s /\ origin' = from
      /\ teamOf' = [u \in Users |-> IF \E i \in DOMAIN rosters : u \in rosters[i] \cap going
                                    THEN CHOOSE i \in DOMAIN rosters : u \in rosters[i]
                                    ELSE 0]
  BY DEF FormTeams
<1>2. \A u \in Users :
        /\ (\E i \in DOMAIN rosters : u \in rosters[i] \cap going) =>
             teamOf'[u] \in DOMAIN rosters /\ u \in rosters[teamOf'[u]]
        /\ ~(\E i \in DOMAIN rosters : u \in rosters[i] \cap going) => teamOf'[u] = 0
  BY <1>1
<1>3. s.count \in Nat /\ 0 \in 0 .. s.count /\ 1 .. s.count \subseteq 0 .. s.count
  BY DEF Setups
<1>4. teamOf' \in [Users -> 0 .. s.count]
  <2>1. \A u \in Users : teamOf'[u] \in 0 .. s.count
    BY <1>2, <1>3
  <2>. QED  BY <1>1, <2>1
<1>5. \A u \in Users : teamOf'[u] # 0 => u \in going
  BY <1>2
<1>6. HasTeams'
  BY <1>1 DEF HasTeams, NoSetup
<1>7. 0 \notin DOMAIN rosters
  BY <1>3
<1>. QED  BY <1>1, <1>2, <1>4, <1>5, <1>6 DEF TeamsOK, TeamsHoldGoing

LEMMA NoTeams ==
  ASSUME setup' = NoSetup, origin' = "none", teamOf' = Nobody
  PROVE  TeamsOK' /\ ~HasTeams'
<1>1. NoSetup \in Setups /\ NoSetup.count = 0
  BY DEF NoSetup, Setups
<1>2. teamOf' \in [Users -> 0 .. 0] /\ \A u \in Users : teamOf'[u] = 0
  BY DEF Nobody
<1>. QED  BY <1>1, <1>2 DEF TeamsOK, HasTeams, TeamsHoldGoing

\* Without teams nobody is on one.
LEMMA OnNoTeam ==
  ASSUME TeamsOK, ~HasTeams, NEW u \in Users
  PROVE  teamOf[u] = 0
BY DEF TeamsOK, HasTeams, NoSetup

\* The teams stay, but for somebody who is taken off theirs, or put on one.
LEMMA TeamsStay ==
  ASSUME TeamsOK, UNCHANGED <<setup, origin>>,
         \/ UNCHANGED teamOf
         \/ \E u \in Users : teamOf' = [teamOf EXCEPT ![u] = 0]
         \/ HasTeams /\ \E u \in going', t \in 1 .. setup.count : teamOf' = [teamOf EXCEPT ![u] = t],
         ended \in BOOLEAN, ended => ended',
         ended' \/ \A u \in going : u \in going' \/ teamOf'[u] = 0
  PROVE  TeamsOK' /\ (HasTeams' <=> HasTeams)
<1>1. HasTeams' <=> HasTeams
  BY DEF HasTeams
<1>2. setup.count \in Nat /\ teamOf \in [Users -> 0 .. setup.count]
  BY DEF TeamsOK, Setups
<1>3. /\ teamOf' \in [Users -> 0 .. setup.count]
      /\ \A v \in Users : teamOf'[v] \in {0, teamOf[v]} \/ v \in going'
  BY <1>2
<1>4. TeamsHoldGoing'
  BY <1>3 DEF TeamsOK, TeamsHoldGoing
<1>. QED  BY <1>1, <1>3, <1>4 DEF TeamsOK

-----------------------------------------------------------------------------
(***************************************************************************)
(* Rounds of proposals and votes.                                          *)
(***************************************************************************)

LEMMA NoRoundIsOver ==
  ASSUME NEW s \in {"none", "closed", "cancelled"}
  PROVE  /\ [NoRound EXCEPT !.status = s] \in Rounds
         /\ RoundOver([NoRound EXCEPT !.status = s])
         /\ [NoRound EXCEPT !.status = s].status = s
         /\ NoRound.status = "none" /\ NoRound = [NoRound EXCEPT !.status = "none"]
<1>1. <<>> \in Ballots
  BY DEF Ballots
<1>2. NoSetup \in Setups
  BY DEF NoSetup, Setups
<1>3. NoRound \in Rounds /\ NoRound.status = "none"
  BY <1>1, <1>2 DEF NoRound, Rounds
<1>4. [NoRound EXCEPT !.status = s] \in Rounds /\ [NoRound EXCEPT !.status = s].status = s
  BY <1>3 DEF Rounds
<1>5. NoRound = [NoRound EXCEPT !.status = "none"]
  BY <1>3 DEF Rounds
<1>. QED  BY <1>3, <1>4, <1>5 DEF RoundOver

\* A round that is over names nobody.
LEMMA NobodyVotes ==
  ASSUME NEW r \in Rounds, RoundOver(r)
  PROVE  r.proposals = {} /\ DOMAIN r.votes = {}
<1>1. r.proposals = {} /\ r.votes = <<>>
  BY NoRoundIsOver DEF RoundOver, NoRound
<1>. QED  BY <1>1

\* Of two divisions that put the same people together, each team is in both.
LEMMA SameTeams ==
  ASSUME NEW d, NEW e, Disjoint(d), Disjoint(e),
         \A u, v \in Users : Together(d, u, v) <=> Together(e, u, v)
  PROVE  \A i \in DOMAIN d : \E j \in DOMAIN e : d[i] = e[j]
<1>. SUFFICES ASSUME NEW i \in DOMAIN d
              PROVE  \E j \in DOMAIN e : d[i] = e[j]
  OBVIOUS
<1>1. PICK u \in Users : u \in d[i]
  BY DEF Disjoint
<1>2. Together(d, u, u)
  BY <1>1 DEF Together
<1>3. PICK j \in DOMAIN e : u \in e[j]
  BY <1>2 DEF Together
<1>4. ASSUME NEW v \in Users
      PROVE  v \in d[i] <=> v \in e[j]
  <2>1. v \in d[i] <=> Together(d, u, v)
    BY <1>1 DEF Together, Disjoint
  <2>2. v \in e[j] <=> Together(e, u, v)
    BY <1>3 DEF Together, Disjoint
  <2>. QED  BY <2>1, <2>2
<1>5. d[i] \subseteq Users /\ e[j] \subseteq Users
  BY DEF Disjoint
<1>. QED  BY <1>4, <1>5

\* Another division than those proposed puts other people together.
LEMMA OthersTogether ==
  ASSUME NEW d, NEW e, Disjoint(d), Disjoint(e), ~SameDivision(d, e)
  PROVE  \E u, v \in Users : Together(d, u, v) # Together(e, u, v)
<1>. SUFFICES ASSUME \A u, v \in Users : Together(d, u, v) <=> Together(e, u, v)
              PROVE  SameDivision(d, e)
  <2>1. ASSUME NEW u \in Users, NEW v \in Users, Together(d, u, v) = Together(e, u, v)
        PROVE  Together(d, u, v) <=> Together(e, u, v)
    BY <2>1
  <2>. QED  BY <2>1
<1>1. \A i \in DOMAIN d : \E j \in DOMAIN e : d[i] = e[j]
  BY SameTeams
<1>2. \A j \in DOMAIN e : \E i \in DOMAIN d : e[j] = d[i]
  BY SameTeams
<1>. QED  BY <1>1, <1>2 DEF SameDivision

\* What validateDivision lets through.
LEMMA ValidIsDisjoint ==
  ASSUME NEW s \in Setups, NEW division \in Divisions, going \subseteq Users, ValidDivision(s, division)
  PROVE  /\ Disjoint(division) /\ Len(division) = s.count /\ DOMAIN division = 1 .. Len(division)
         /\ Players(division) = going
<1>1. division \in Seq(SUBSET Users)
  BY FormationAssumption
<1>2. /\ Len(division) = s.count /\ Players(division) = going
      /\ \A i, j \in DOMAIN division : i # j => division[i] \cap division[j] = {}
      /\ \A i \in DOMAIN division : Cardinality(division[i]) >= s.min
  BY DEF ValidDivision
<1>3. s.min \in Nat \ {0}
  BY DEF Setups
<1>4. \A i \in DOMAIN division : division[i] # {} /\ division[i] \subseteq Users
  <2>. SUFFICES ASSUME NEW i \in DOMAIN division
                PROVE  division[i] # {} /\ division[i] \subseteq Users
    OBVIOUS
  <2>1. Cardinality({}) = 0
    BY FS_EmptySet
  <2>2. Cardinality(division[i]) # 0
    BY <1>2, <1>3
  <2>3. division[i] \subseteq Users
    BY <1>1
  <2>. QED  BY <2>1, <2>2, <2>3, Zenon
<1>. QED  BY <1>1, <1>2, <1>4 DEF Disjoint

LEMMA ProposalAdded ==
  ASSUME NEW r \in Rounds, Running(r), NEW author \in Users, NEW division \in Divisions,
         going \subseteq Users, NewDivision(r, division),
         NEW e, e = WithProposal(r, author, division)
  PROVE  /\ e \in Rounds /\ Running(e)
         /\ e.setup = r.setup /\ e.keep = r.keep /\ e.votes = r.votes
         /\ e.proposals = r.proposals \cup {[author |-> author, teams |-> division]}
         /\ Players(division) = going
<1>1. PICK p : p = [author |-> author, teams |-> division]
  OBVIOUS
<1>2. p \in Proposals /\ p.teams = division
  BY <1>1 DEF Proposals
<1>3. r.setup \in Setups /\ r.proposals \cup {p} \in SUBSET Proposals
  BY <1>2 DEF Rounds
<1>4. e = [r EXCEPT !.proposals = r.proposals \cup {p}]
  BY <1>1 DEF WithProposal
<1>5. /\ e \in Rounds /\ e.proposals = r.proposals \cup {p}
      /\ e.status = r.status /\ e.setup = r.setup /\ e.keep = r.keep /\ e.votes = r.votes
  BY <1>3, <1>4 DEF Rounds
<1>6. ValidDivision(r.setup, division) /\ \A q \in r.proposals : ~SameDivision(q.teams, division)
  BY DEF NewDivision
<1>7. Disjoint(division) /\ Len(division) = r.setup.count /\ Players(division) = going
  BY <1>3, <1>6, ValidIsDisjoint
<1>8. \A q \in r.proposals : \E u, v \in Users : Together(q.teams, u, v) # Together(division, u, v)
  BY <1>6, <1>7, OthersTogether DEF Running
<1>9. \A q1, q2 \in e.proposals :
        q1 # q2 => \E u, v \in Users : Together(q1.teams, u, v) # Together(q2.teams, u, v)
  BY <1>2, <1>5, <1>8 DEF Running
<1>10. Options(r) \subseteq Options(e)
  BY <1>5 DEF Options
<1>11. \A q \in e.proposals : Len(q.teams) = e.setup.count /\ Disjoint(q.teams)
  BY <1>2, <1>5, <1>7 DEF Running
<1>12. \A v \in DOMAIN e.votes : e.votes[v] \in Options(e)
  BY <1>5, <1>10 DEF Running
<1>13. e.status = "open" /\ e.setup.count \in 2 .. 8
  BY <1>5 DEF Running
<1>. QED  BY <1>1, <1>5, <1>7, <1>9, <1>11, <1>12, <1>13 DEF Running

LEMMA BallotShape ==
  ASSUME NEW r \in Rounds
  PROVE  /\ DOMAIN r.votes \subseteq Users
         /\ \A v \in DOMAIN r.votes : r.votes[v] \in Proposals \cup {KeepCurrentTeams}
         /\ Options(r) \subseteq Proposals \cup {KeepCurrentTeams}
<1>1. r.votes \in Ballots /\ r.proposals \subseteq Proposals
  BY DEF Rounds
<1>2. PICK voters \in SUBSET Users : r.votes \in [voters -> Proposals \cup {KeepCurrentTeams}]
  BY <1>1 DEF Ballots
<1>. QED  BY <1>1, <1>2 DEF Options

\* Votes are given and taken back.
LEMMA VotesWritten ==
  ASSUME NEW r \in Rounds, Running(r), NEW voters \in SUBSET Users, NEW votes, NEW e,
         votes = [v \in voters |-> votes[v]], e = [r EXCEPT !.votes = votes],
         \A v \in voters : votes[v] \in Options(r)
  PROVE  /\ e \in Rounds /\ Running(e) /\ Options(e) = Options(r)
         /\ e.setup = r.setup /\ e.keep = r.keep /\ e.proposals = r.proposals /\ DOMAIN e.votes = voters
<1>1. votes \in [voters -> Proposals \cup {KeepCurrentTeams}]
  BY BallotShape
<1>2. votes \in Ballots
  BY <1>1 DEF Ballots
<1>3. /\ e \in Rounds /\ e.votes = votes
      /\ e.status = r.status /\ e.setup = r.setup /\ e.keep = r.keep /\ e.proposals = r.proposals
  BY <1>2 DEF Rounds
<1>4. Options(e) = Options(r)
  BY <1>3 DEF Options
<1>5. DOMAIN e.votes = voters /\ \A v \in DOMAIN e.votes : e.votes[v] \in Options(e)
  BY <1>1, <1>3, <1>4
<1>. QED  BY <1>3, <1>4, <1>5 DEF Running

LEMMA VoteGiven ==
  ASSUME NEW r \in Rounds, Running(r), NEW voter \in Users, NEW option \in Options(r),
         NEW e, e = WithVote(r, voter, option)
  PROVE  /\ e \in Rounds /\ Running(e)
         /\ e.setup = r.setup /\ e.keep = r.keep /\ e.proposals = r.proposals
         /\ DOMAIN e.votes = DOMAIN r.votes \cup {voter}
<1>1. PICK votes : votes = [v \in DOMAIN r.votes \cup {voter} |-> IF v = voter THEN option ELSE r.votes[v]]
  OBVIOUS
<1>2. e = [r EXCEPT !.votes = votes]
  BY <1>1 DEF WithVote
<1>3. DOMAIN r.votes \cup {voter} \in SUBSET Users
  BY BallotShape
<1>4. /\ votes = [v \in DOMAIN r.votes \cup {voter} |-> votes[v]]
      /\ \A v \in DOMAIN r.votes \cup {voter} : votes[v] \in Options(r)
  BY <1>1 DEF Running
<1>. QED  BY <1>2, <1>3, <1>4, VotesWritten

LEMMA VotesTakenBack ==
  ASSUME NEW r \in Rounds, Running(r), NEW voters, NEW e, e = WithoutVotesOf(r, voters)
  PROVE  /\ e \in Rounds /\ Running(e)
         /\ e.setup = r.setup /\ e.keep = r.keep /\ e.proposals = r.proposals
         /\ DOMAIN e.votes = DOMAIN r.votes \ voters
<1>1. PICK votes : votes = [v \in DOMAIN r.votes \ voters |-> r.votes[v]]
  OBVIOUS
<1>2. e = [r EXCEPT !.votes = votes]
  BY <1>1 DEF WithoutVotesOf
<1>3. DOMAIN r.votes \ voters \in SUBSET Users
  BY BallotShape
<1>4. /\ votes = [v \in DOMAIN r.votes \ voters |-> votes[v]]
      /\ \A v \in DOMAIN r.votes \ voters : votes[v] \in Options(r)
  BY <1>1 DEF Running
<1>. QED  BY <1>2, <1>3, <1>4, VotesWritten

\* A proposal goes with its votes, and the round with the last one.
LEMMA ProposalTakenBack ==
  ASSUME NEW r \in Rounds, Running(r), NEW p \in r.proposals, NEW e, e = WithoutProposal(r, p)
  PROVE  /\ e \in Rounds
         /\ e = [NoRound EXCEPT !.status = "cancelled"] \/ Running(e)
         /\ Running(e) => e.setup = r.setup /\ e.keep = r.keep
         /\ e.proposals \subseteq r.proposals /\ DOMAIN e.votes \subseteq DOMAIN r.votes
<1>1. CASE r.proposals = {p}
  <2>1. e = [NoRound EXCEPT !.status = "cancelled"]
    BY <1>1 DEF WithoutProposal
  <2>2. e \in Rounds /\ RoundOver(e)
    BY <2>1, NoRoundIsOver
  <2>. QED  BY <2>1, <2>2, NobodyVotes DEF RoundOver, Running
<1>2. CASE r.proposals # {p}
  <2>1. PICK proposals : proposals = r.proposals \ {p}
    OBVIOUS
  <2>2. PICK voters : voters = DOMAIN r.votes \ {v \in DOMAIN r.votes : r.votes[v] = p}
    OBVIOUS
  <2>3. PICK s : s = [r EXCEPT !.proposals = proposals]
    OBVIOUS
  <2>4. /\ s \in Rounds /\ s.proposals = proposals
        /\ s.status = r.status /\ s.setup = r.setup /\ s.keep = r.keep /\ s.votes = r.votes
    BY <2>1, <2>3 DEF Rounds
  <2>5. PICK votes : votes = [v \in voters |-> r.votes[v]]
    OBVIOUS
  <2>6. e = [s EXCEPT !.votes = votes]
    BY <1>2, <2>1, <2>2, <2>3, <2>4, <2>5 DEF WithoutProposal, WithoutVotesOf
  <2>7. votes \in Ballots /\ DOMAIN votes = voters
    <3>1. voters \in SUBSET Users /\ votes \in [voters -> Proposals \cup {KeepCurrentTeams}]
      BY <2>2, <2>5, BallotShape
    <3>. QED  BY <3>1 DEF Ballots
  <2>8. /\ e \in Rounds /\ e.votes = votes
        /\ e.status = r.status /\ e.setup = r.setup /\ e.keep = r.keep /\ e.proposals = proposals
    BY <2>4, <2>6, <2>7 DEF Rounds
  <2>9. \A v \in voters : votes[v] \in Options(e)
    <3>1. Options(r) \subseteq Options(e) \cup {p}
      BY <2>1, <2>8 DEF Options
    <3>. QED  BY <2>2, <2>5, <3>1 DEF Running
  <2>10. Running(e)
    BY <2>1, <2>7, <2>8, <2>9 DEF Running
  <2>. QED  BY <2>1, <2>2, <2>7, <2>8, <2>10
<1>. QED  BY <1>1, <1>2

-----------------------------------------------------------------------------
(***************************************************************************)
(* Attendance and its end.                                                 *)
(***************************************************************************)

\* What becomes of a draft and a round that end, and of all three when team
\* formation starts over.
LEMMA DraftEnds ==
  ASSUME DraftOK, draft' = EndedDraft
  PROVE  DraftOK' /\ ~DraftActive'
<1>1. CASE DraftActive
  <2>1. draft' = [NoDraft EXCEPT !.status = "cancelled"]
    BY <1>1 DEF EndedDraft
  <2>. QED  BY <2>1, NoDraftIsOver DEF DraftOK, DraftActive
<1>2. CASE ~DraftActive
  BY <1>2 DEF EndedDraft, DraftOK, DraftActive
<1>. QED  BY <1>1, <1>2

LEMMA RoundEnds ==
  ASSUME RoundOK, round' = EndedRound
  PROVE  RoundOK' /\ ~VotingOpen' /\ (~VotingOpen => UNCHANGED round)
<1>1. CASE VotingOpen
  <2>1. round' = [NoRound EXCEPT !.status = "cancelled"]
    BY <1>1 DEF EndedRound
  <2>. QED  BY <1>1, <2>1, NoRoundIsOver DEF RoundOK, VotingOpen
<1>2. CASE ~VotingOpen
  BY <1>2 DEF EndedRound, RoundOK, VotingOpen
<1>. QED  BY <1>1, <1>2

LEMMA StaysOK ==
  /\ DraftOK /\ UNCHANGED draft => DraftOK' /\ (DraftActive' <=> DraftActive)
  /\ RoundOK /\ UNCHANGED round => RoundOK' /\ (VotingOpen' <=> VotingOpen)
BY DEF DraftOK, DraftActive, RoundOK, VotingOpen

LEMMA NobodyInvolved == DraftOK /\ RoundOK /\ ~DraftActive /\ ~VotingOpen => Involved = {}
<1>. SUFFICES ASSUME DraftOK, RoundOK, ~DraftActive, ~VotingOpen
              PROVE  Involved = {}
  OBVIOUS
<1>1. Captains(draft) = {} /\ Picked(draft) = {}
  BY NobodyDrafts DEF DraftOK, DraftActive, Level
<1>2. round.proposals = {} /\ DOMAIN round.votes = {}
  BY NobodyVotes DEF RoundOK, VotingOpen, Running
<1>. QED  BY <1>1, <1>2 DEF Involved

\* Whoever leaves, nothing is formed afterwards.
LEMMA FormationReset ==
  ASSUME IInv, ResetFormation, ended => ended'
  PROVE  /\ TeamsOK' /\ DraftOK' /\ RoundOK'
         /\ ~HasTeams' /\ ~DraftActive' /\ ~VotingOpen'
<1>1. CASE Formed
  <2>1. setup' = NoSetup /\ origin' = "none" /\ teamOf' = Nobody /\ draft' = NoDraft /\ round' = NoRound
    BY <1>1 DEF ResetFormation
  <2>2. TeamsOK' /\ ~HasTeams'
    BY <2>1, NoTeams
  <2>3. DraftOK' /\ ~DraftActive'
    BY <2>1, NoDraftIsOver DEF DraftOK, DraftActive
  <2>4. RoundOK' /\ ~VotingOpen'
    BY <2>1, NoRoundIsOver DEF RoundOK, VotingOpen
  <2>. QED  BY <2>2, <2>3, <2>4
<1>2. CASE ~Formed
  <2>1. UNCHANGED <<setup, origin, teamOf, draft, round>>
    BY <1>2 DEF ResetFormation, teams
  <2>2. ~HasTeams /\ ~DraftActive /\ ~VotingOpen
    BY <1>2 DEF Formed
  <2>3. \A u \in Users : teamOf'[u] = 0
    BY <2>1, <2>2, OnNoTeam DEF IInv
  <2>4. TeamsOK' /\ (HasTeams' <=> HasTeams)
    BY <2>1, <2>3, TeamsStay DEF IInv, AttendanceOK
  <2>. QED  BY <2>1, <2>2, <2>4, StaysOK DEF IInv
<1>. QED  BY <1>1, <1>2

\* People come and go next to teams, draft and round that stay.
LEMMA AttendanceStep ==
  ASSUME IInv, AttendanceOK', TeamsOK', UNCHANGED <<ended, setup, origin, draft, round>>
  PROVE  IInv'
<1>1. DraftOK' /\ RoundOK'
  BY StaysOK DEF IInv
<1>2. EndedIsOver' /\ DraftOrVote' /\ RoundMatchesTeams'
  BY DEF IInv, EndedIsOver, DraftOrVote, RoundMatchesTeams, DraftActive, VotingOpen, HasTeams
<1>. QED  BY <1>1, <1>2 DEF IInv

LEMMA JoinStep ==
  ASSUME IInv, NEW u \in Users, Join(u)
  PROVE  IInv'
<1>1. /\ going' = going \cup {u} /\ UNCHANGED <<doubtful, ended>>
      /\ UNCHANGED <<setup, origin, teamOf, draft, round>>
  BY DEF Join, List!JoinGoing, teams
<1>2. AttendanceOK'
  BY <1>1 DEF IInv, AttendanceOK
<1>3. TeamsOK'
  BY <1>1, TeamsStay DEF IInv, AttendanceOK
<1>. QED  BY <1>1, <1>2, <1>3, AttendanceStep

LEMMA LeaveStep ==
  ASSUME IInv, NEW u \in Users, Leave(u)
  PROVE  IInv'
<1>1. /\ u \in going /\ going' \subseteq Users /\ going \ {u} \subseteq going'
      /\ doubtful' \subseteq doubtful /\ UNCHANGED ended
  BY DEF Leave, List!LeaveGoing, IInv, AttendanceOK
<1>2. AttendanceOK'
  BY <1>1 DEF IInv, AttendanceOK
<1>3. CASE ended
  <2>1. /\ teamOf' \in {teamOf, [teamOf EXCEPT ![u] = 0]}
        /\ UNCHANGED <<setup, origin, draft, round>>
    BY <1>3 DEF Leave
  <2>2. TeamsOK'
    BY <1>1, <1>3, <2>1, TeamsStay DEF IInv, AttendanceOK
  <2>. QED  BY <1>1, <1>2, <2>1, <2>2, AttendanceStep
<1>4. CASE ~ended
  <2>1. ResetFormation
    BY <1>4 DEF Leave
  <2>2. /\ TeamsOK' /\ DraftOK' /\ RoundOK'
        /\ ~HasTeams' /\ ~DraftActive' /\ ~VotingOpen'
    BY <1>1, <2>1, FormationReset
  <2>. QED  BY <1>2, <2>2 DEF IInv, EndedIsOver, DraftOrVote, RoundMatchesTeams
<1>. QED  BY <1>3, <1>4

LEMMA OtherAttendanceStep ==
  ASSUME IInv, NEW u \in Users,
         ReleaseTeam(u) \/ StartReview(u) \/ FinishReview(u) \/ LateRejection(u)
  PROVE  IInv'
<1>1. /\ UNCHANGED <<ended, setup, origin, draft, round>>
      /\ AttendanceOK' /\ going' \in {going, going \ {u}}
      /\ \/ UNCHANGED teamOf /\ UNCHANGED going
         \/ teamOf' = [teamOf EXCEPT ![u] = 0]
  BY DEF ReleaseTeam, StartReview, FinishReview, LateRejection, List!StartReview, List!FinishReview,
         List!LateRejection, teams, attendance, IInv, AttendanceOK
<1>2. teamOf' = [teamOf EXCEPT ![u] = 0] => teamOf'[u] = 0
  BY DEF IInv, TeamsOK
<1>3. TeamsOK'
  BY <1>1, <1>2, TeamsStay DEF IInv, AttendanceOK
<1>. QED  BY <1>1, <1>3, AttendanceStep

LEMMA EndSessionStep ==
  ASSUME IInv, EndSession
  PROVE  IInv'
<1>1. /\ ended' = TRUE /\ UNCHANGED <<going, doubtful, setup, origin, teamOf>>
      /\ draft' = EndedDraft /\ round' = EndedRound
  BY DEF EndSession, List!EndList, teams
<1>2. DraftOK' /\ ~DraftActive' /\ RoundOK' /\ ~VotingOpen'
  BY <1>1, DraftEnds, RoundEnds DEF IInv
<1>3. AttendanceOK' /\ TeamsOK'
  BY <1>1, TeamsStay DEF IInv, AttendanceOK
<1>. QED  BY <1>2, <1>3 DEF IInv, EndedIsOver, DraftOrVote, RoundMatchesTeams

-----------------------------------------------------------------------------
(***************************************************************************)
(* The commands on teams, drafts and rounds.                               *)
(***************************************************************************)

\* A command that leaves attendance alone, and the parts that go together.
LEMMA CommandStep ==
  ASSUME IInv, UNCHANGED attendance, TeamsOK', DraftOK', RoundOK', DraftOrVote', RoundMatchesTeams',
         ended => ~DraftActive' /\ ~VotingOpen'
  PROVE  IInv'
BY DEF IInv, attendance, AttendanceOK, EndedIsOver

LEMMA ManualStep ==
  ASSUME IInv,
         \/ \E s \in TeamSetups : CreateTeams(s)
         \/ ResetTeams
         \/ \E u \in Users : UnassignAttendeeTeam(u) \/ \E t \in 1 .. 8 : AssignAttendeeTeam(u, t)
  PROVE  IInv'
<1>1. CASE \E s \in TeamSetups : CreateTeams(s)
  <2>1. PICK s \in TeamSetups : CreateTeams(s)
    BY <1>1
  <2>2. s \in Setups /\ s.count >= 2 /\ DOMAIN <<>> \subseteq 1 .. s.count
    BY FormationAssumption DEF Setups
  <2>3. /\ FormTeams(<<>>, s, "manual") /\ round' = EndedRound /\ ~DraftActive
        /\ UNCHANGED attendance /\ UNCHANGED draft /\ UNCHANGED going
    BY <2>1 DEF CreateTeams, attendance
  <2>4. TeamsOK'
    BY <2>2, <2>3, TeamsFormed
  <2>5. DraftOK' /\ RoundOK' /\ ~DraftActive' /\ ~VotingOpen'
    BY <2>3, RoundEnds, StaysOK DEF IInv
  <2>. QED  BY <2>3, <2>4, <2>5, CommandStep DEF DraftOrVote, RoundMatchesTeams
<1>2. CASE ResetTeams
  <2>1. ResetFormation /\ UNCHANGED attendance /\ UNCHANGED ended
    BY <1>2 DEF ResetTeams, attendance
  <2>2. /\ TeamsOK' /\ DraftOK' /\ RoundOK'
        /\ ~HasTeams' /\ ~DraftActive' /\ ~VotingOpen'
    BY <2>1, FormationReset
  <2>. QED  BY <2>1, <2>2, CommandStep DEF DraftOrVote, RoundMatchesTeams
<1>3. CASE \E u \in Users : UnassignAttendeeTeam(u) \/ \E t \in 1 .. 8 : AssignAttendeeTeam(u, t)
  <2>1. PICK u \in Users : UnassignAttendeeTeam(u) \/ \E t \in 1 .. 8 : AssignAttendeeTeam(u, t)
    BY <1>3
  <2>2. /\ UNCHANGED <<going, doubtful, ended, setup, origin, draft, round>>
        /\ \/ teamOf' = [teamOf EXCEPT ![u] = 0]
           \/ u \in going /\ \E t \in 1 .. setup.count : teamOf' = [teamOf EXCEPT ![u] = t]
    BY <2>1 DEF UnassignAttendeeTeam, AssignAttendeeTeam, attendance
  <2>3. (\E t \in 1 .. setup.count : TRUE) => HasTeams
    BY DEF HasTeams, NoSetup
  <2>4. TeamsOK' /\ AttendanceOK'
    BY <2>2, <2>3, TeamsStay DEF IInv, AttendanceOK
  <2>. QED  BY <2>2, <2>4, AttendanceStep
<1>. QED  BY <1>1, <1>2, <1>3

\* A draft goes on, or is completed: then everybody going is on a team.
LEMMA DraftSaved ==
  ASSUME IInv, NEW d \in Drafts, Level(d), SaveDraft(d), UNCHANGED <<attendance, round>>,
         ~ended, ~VotingOpen
  PROVE  /\ IInv'
         /\ \/ draft' = d /\ UNCHANGED teams
            \/ /\ draft' = [NoDraft EXCEPT !.status = "completed"]
               /\ HasTeams' /\ \A u \in going' : teamOf'[u] # 0
<1>1. going \subseteq Users /\ UNCHANGED <<going, ended>> /\ RoundOK' /\ ~VotingOpen'
  BY StaysOK DEF IInv, AttendanceOK, attendance
<1>2. CASE Available(d) = {}
  <2>1. PICK s : s = [count |-> 2, min |-> d.min]
    OBVIOUS
  <2>2. PICK rosters : rosters = <<Roster(d, 1), Roster(d, 2)>>
    OBVIOUS
  <2>3. s \in Setups /\ s.count = 2 /\ DOMAIN rosters = 1 .. 2
    BY <2>1, <2>2 DEF Setups, Drafts
  <2>4. draft' = [NoDraft EXCEPT !.status = "completed"] /\ FormTeams(rosters, s, "draft")
    BY <1>2, <2>1, <2>2 DEF SaveDraft
  <2>5. DraftOK' /\ ~DraftActive'
    BY <2>4, NoDraftIsOver DEF DraftOK, DraftActive
  <2>6. /\ TeamsOK' /\ HasTeams'
        /\ \A u \in going, i \in DOMAIN rosters : u \in rosters[i] /\ u \in Users => teamOf'[u] \in DOMAIN rosters
    BY <1>1, <2>3, <2>4, TeamsFormed
  <2>7. ASSUME NEW u \in going'
        PROVE  teamOf'[u] # 0
    <3>1. u \in Roster(d, 1) \/ u \in Roster(d, 2)
      BY <1>1, <1>2, PeopleOfADraft DEF Available, Level
    <3>2. \E i \in DOMAIN rosters : u \in rosters[i]
      BY <2>2, <2>3, <3>1
    <3>. QED  BY <1>1, <2>3, <2>6, <3>2
  <2>8. IInv'
    BY <1>1, <2>5, <2>6, CommandStep DEF DraftOrVote, RoundMatchesTeams
  <2>. QED  BY <2>4, <2>6, <2>7, <2>8
<1>3. CASE Available(d) # {}
  <2>1. draft' = d /\ UNCHANGED teams
    BY <1>3 DEF SaveDraft
  <2>2. DraftOK'
    BY <2>1 DEF DraftOK
  <2>3. TeamsOK'
    BY <1>1, <2>1, TeamsStay DEF teams, IInv, AttendanceOK
  <2>4. IInv'
    BY <1>1, <2>2, <2>3, CommandStep DEF DraftOrVote, RoundMatchesTeams
  <2>. QED  BY <2>1, <2>4
<1>. QED  BY <1>2, <1>3

\* What picking and starting a draft come down to: a draft of people going, and
\* perhaps of others who are in it already.
LEMMA DraftCommand ==
  ASSUME IInv,
         \/ \E c \in CaptainPairs, o \in PickOrders, s \in TeamSetups : StartDraft(c, o, s.min)
         \/ \E u \in Users : Pick(u)
  PROVE  \E d \in Drafts :
           /\ Level(d) /\ SaveDraft(d) /\ UNCHANGED <<attendance, round>> /\ ~ended /\ ~VotingOpen
           /\ Captains(d) \cup Picked(d) \subseteq going \cup Captains(draft) \cup Picked(draft)
<1>1. CASE \E c \in CaptainPairs, o \in PickOrders, s \in TeamSetups : StartDraft(c, o, s.min)
  <2>1. PICK c \in CaptainPairs, o \in PickOrders, s \in TeamSetups : StartDraft(c, o, s.min)
    BY <1>1
  <2>2. /\ TeamsChangeable /\ ~VotingOpen /\ MayDraft(c, s.min)
        /\ SaveDraft(NewTeamDraft(c, o, s.min)) /\ UNCHANGED <<attendance, round>>
    BY <2>1 DEF StartDraft
  <2>3. PICK d : d = NewTeamDraft(c, o, s.min)
    OBVIOUS
  <2>4. s.min \in Nat \ {0}
    BY FormationAssumption
  <2>5. d \in Drafts /\ Level(d) /\ d.captains = c /\ d.picks = {}
    BY <2>2, <2>3, <2>4, DraftStarts DEF MayDraft
  <2>6. Captains(d) \subseteq going /\ Picked(d) = {}
    BY <2>2, <2>5, PeopleOfADraft DEF MayDraft, Picked
  <2>. QED  BY <2>2, <2>3, <2>5, <2>6 DEF TeamsChangeable
<1>2. CASE \E u \in Users : Pick(u)
  <2>1. PICK u \in Users : Pick(u)
    BY <1>2
  <2>2. /\ TeamsChangeable /\ DraftActive /\ u \in Available(draft)
        /\ SaveDraft(WithPick(draft, u)) /\ UNCHANGED <<attendance, round>>
    BY <2>1 DEF Pick
  <2>3. PICK d : d = WithPick(draft, u)
    OBVIOUS
  <2>4. draft \in Drafts /\ Level(draft) /\ ~VotingOpen
    BY <2>2 DEF IInv, DraftOK, DraftOver, DraftActive, DraftOrVote
  <2>5. u \in Users \ (Captains(draft) \cup Picked(draft)) /\ u \in going
    BY <2>2 DEF Available
  <2>6. d \in Drafts /\ Level(d)
    BY <2>3, <2>4, <2>5, PickKeepsLevel
  <2>7. Captains(d) = Captains(draft) /\ Picked(d) = Picked(draft) \cup {u}
    BY <2>3, <2>4, <2>5, PickKeepsLevel
  <2>. QED  BY <2>2, <2>3, <2>4, <2>5, <2>6, <2>7 DEF TeamsChangeable
<1>. QED  BY <1>1, <1>2

LEMMA CancelDraftStep ==
  ASSUME IInv, CancelDraft
  PROVE  IInv'
<1>1. draft' = EndedDraft /\ UNCHANGED <<going, doubtful, ended, setup, origin, teamOf, round>>
  BY DEF CancelDraft, attendance, teams
<1>2. DraftOK' /\ ~DraftActive' /\ RoundOK' /\ (VotingOpen' <=> VotingOpen)
  BY <1>1, DraftEnds, StaysOK DEF IInv
<1>3. TeamsOK'
  BY <1>1, TeamsStay DEF IInv, AttendanceOK
<1>4. DraftOrVote' /\ RoundMatchesTeams' /\ (ended => ~VotingOpen')
  BY <1>1, <1>2 DEF IInv, EndedIsOver, DraftOrVote, RoundMatchesTeams, VotingOpen, HasTeams
<1>. QED  BY <1>1, <1>2, <1>3, <1>4, CommandStep DEF attendance

\* A round as it was or with something more, or less, in it.
LEMMA RoundGoesOn ==
  ASSUME IInv, NEW r \in Rounds, Running(r), round' = r, UNCHANGED <<attendance, teams, draft>>,
         ~ended, ~DraftActive, origin # "draft", r.keep = HasTeams, HasTeams => r.setup = setup
  PROVE  IInv'
<1>1. UNCHANGED <<going, doubtful, ended, setup, origin, teamOf, draft>>
  BY DEF attendance, teams
<1>2. DraftOK' /\ ~DraftActive' /\ RoundOK'
  BY <1>1, StaysOK DEF IInv, RoundOK
<1>3. TeamsOK'
  BY <1>1, TeamsStay DEF IInv, AttendanceOK
<1>4. DraftOrVote' /\ RoundMatchesTeams'
  BY <1>1, <1>2 DEF DraftOrVote, RoundMatchesTeams, HasTeams
<1>. QED  BY <1>1, <1>2, <1>3, <1>4, CommandStep DEF attendance

\* What an open round says of the session, besides itself.
LEMMA OpenRound ==
  ASSUME IInv, VotingOpen
  PROVE  /\ round \in Rounds /\ Running(round) /\ ~ended /\ ~DraftActive /\ origin # "draft"
         /\ round.keep = HasTeams /\ (HasTeams => round.setup = setup)
BY DEF IInv, RoundOK, RoundOver, EndedIsOver, DraftOrVote, RoundMatchesTeams, VotingOpen

\* The division proposed is the only thing new to the round.
LEMMA ProposeStep ==
  ASSUME IInv, NEW u \in Users, NEW division \in Divisions,
         OpenTeamVoting(u, division) \/ Propose(u, division)
  PROVE  /\ IInv' /\ UNCHANGED <<attendance, teams, draft>> /\ ~ended /\ round'.status = "open"
         /\ \A p \in round'.proposals : p \in round.proposals \/ Players(p.teams) = going
         /\ DOMAIN round'.votes \subseteq DOMAIN round.votes
<1>1. going \subseteq Users /\ setup \in Setups
  BY DEF IInv, AttendanceOK, TeamsOK
<1>2. CASE OpenTeamVoting(u, division)
  <2>1. PICK s : s = IF HasTeams THEN setup ELSE [count |-> Len(division), min |-> 1]
    OBVIOUS
  <2>2. PICK keep : keep \in BOOLEAN /\ keep = HasTeams
    <3>1. HasTeams \in BOOLEAN
      BY DEF HasTeams
    <3>. QED  BY <3>1, Zenon
  <2>3. PICK r : r = [NoRound EXCEPT !.status = "open", !.setup = s, !.keep = keep]
    OBVIOUS
  <2>4. PICK e : e = WithProposal(r, u, division)
    OBVIOUS
  <2>5. /\ MayPropose(u) /\ ~VotingOpen /\ s.count \in 2 .. 8 /\ NewDivision(r, division)
        /\ round' = e /\ UNCHANGED <<attendance, teams, draft>>
    BY <1>2, <2>1, <2>2, <2>3, <2>4 DEF OpenTeamVoting
  <2>6. s \in Setups
    BY <1>1, <2>1, <2>5 DEF Setups
  <2>7. /\ r \in Rounds /\ Running(r)
        /\ r.setup = s /\ r.keep = keep /\ r.proposals = {} /\ DOMAIN r.votes = {}
    <3>1. keep \in BOOLEAN
      BY <2>2
    <3>2. s.count \in 2 .. 8
      BY <2>5
    <3>3. NoRound \in Rounds /\ NoRound.proposals = {} /\ DOMAIN NoRound.votes = {}
      BY NoRoundIsOver, NobodyVotes
    <3>4. /\ r \in Rounds /\ r.status = "open" /\ r.setup = s /\ r.keep = keep
          /\ r.proposals = {} /\ DOMAIN r.votes = {}
      BY <2>3, <2>6, <3>1, <3>3 DEF Rounds
    <3>. QED  BY <3>2, <3>4 DEF Running
  <2>8. /\ e \in Rounds /\ Running(e)
        /\ e.setup = r.setup /\ e.keep = r.keep /\ e.votes = r.votes
        /\ e.proposals = r.proposals \cup {[author |-> u, teams |-> division]}
        /\ Players(division) = going
    BY <1>1, <2>4, <2>5, <2>7, ProposalAdded
  <2>9. ~ended /\ ~DraftActive /\ origin # "draft"
    BY <2>5 DEF MayPropose, TeamsChangeable, ProposalsAllowed
  <2>10. e.keep = HasTeams /\ (HasTeams => e.setup = setup)
    BY <2>1, <2>2, <2>7, <2>8
  <2>11. IInv'
    BY <2>5, <2>8, <2>9, <2>10, RoundGoesOn
  <2>. QED  BY <2>5, <2>7, <2>8, <2>9, <2>11 DEF Running
<1>3. CASE Propose(u, division)
  <2>1. PICK e : e = WithProposal(round, u, division)
    OBVIOUS
  <2>2. /\ VotingOpen /\ NewDivision(round, division)
        /\ round' = e /\ UNCHANGED <<attendance, teams, draft>>
    BY <1>3, <2>1 DEF Propose
  <2>3. /\ round \in Rounds /\ Running(round) /\ ~ended /\ ~DraftActive /\ origin # "draft"
        /\ round.keep = HasTeams /\ (HasTeams => round.setup = setup)
    BY <2>2, OpenRound
  <2>4. /\ e \in Rounds /\ Running(e)
        /\ e.setup = round.setup /\ e.keep = round.keep /\ e.votes = round.votes
        /\ e.proposals = round.proposals \cup {[author |-> u, teams |-> division]}
        /\ Players(division) = going
    BY <1>1, <2>1, <2>2, <2>3, ProposalAdded
  <2>5. IInv'
    BY <2>2, <2>3, <2>4, RoundGoesOn
  <2>. QED  BY <2>2, <2>3, <2>4, <2>5 DEF Running
<1>. QED  BY <1>2, <1>3

LEMMA VoteStep ==
  ASSUME IInv, NEW u \in Users, RetractVote(u) \/ \E o \in Options(round) : Vote(u, o)
  PROVE  /\ IInv' /\ UNCHANGED <<attendance, teams, draft>>
         /\ VotingOpen /\ VotingOpen' /\ round'.proposals = round.proposals
         /\ DOMAIN round'.votes \subseteq DOMAIN round.votes \cup going
<1>1. VotingOpen /\ u \in going /\ UNCHANGED <<attendance, teams, draft>>
  BY DEF RetractVote, Vote
<1>2. /\ round \in Rounds /\ Running(round) /\ ~ended /\ ~DraftActive /\ origin # "draft"
      /\ round.keep = HasTeams /\ (HasTeams => round.setup = setup)
  BY <1>1, OpenRound
<1>3. PICK e : e = round'
  OBVIOUS
<1>4. /\ e \in Rounds /\ Running(e)
      /\ e.setup = round.setup /\ e.keep = round.keep /\ e.proposals = round.proposals
      /\ DOMAIN e.votes \subseteq DOMAIN round.votes \cup {u}
  <2>1. CASE RetractVote(u)
    <3>1. e = WithoutVotesOf(round, {u})
      BY <1>3, <2>1 DEF RetractVote
    <3>. QED  BY <1>2, <3>1, VotesTakenBack
  <2>2. CASE \E o \in Options(round) : Vote(u, o)
    <3>1. PICK o \in Options(round) : e = WithVote(round, u, o)
      BY <1>3, <2>2 DEF Vote
    <3>. QED  BY <1>2, <3>1, VoteGiven
  <2>. QED  BY <2>1, <2>2
<1>5. IInv'
  BY <1>1, <1>2, <1>3, <1>4, RoundGoesOn
<1>. QED  BY <1>1, <1>3, <1>4, <1>5 DEF Running, VotingOpen

LEMMA WithdrawStep ==
  ASSUME IInv, NEW p \in round.proposals, WithdrawProposal(p)
  PROVE  /\ IInv' /\ UNCHANGED <<attendance, teams, draft>> /\ ~ended
         /\ round'.proposals \subseteq round.proposals /\ DOMAIN round'.votes \subseteq DOMAIN round.votes
         /\ round'.status # "closed"
<1>1. VotingOpen /\ UNCHANGED <<attendance, teams, draft>>
  BY DEF WithdrawProposal
<1>2. /\ round \in Rounds /\ Running(round) /\ ~ended /\ ~DraftActive /\ origin # "draft"
      /\ round.keep = HasTeams /\ (HasTeams => round.setup = setup)
  BY <1>1, OpenRound
<1>3. PICK e : e = WithoutProposal(round, p)
  OBVIOUS
<1>4. /\ e \in Rounds
      /\ e = [NoRound EXCEPT !.status = "cancelled"] \/ Running(e)
      /\ Running(e) => e.setup = round.setup /\ e.keep = round.keep
      /\ e.proposals \subseteq round.proposals /\ DOMAIN e.votes \subseteq DOMAIN round.votes
  BY <1>2, <1>3, ProposalTakenBack
<1>5. round' = e
  BY <1>3 DEF WithdrawProposal
<1>6. CASE Running(e)
  <2>1. IInv'
    BY <1>1, <1>2, <1>4, <1>5, <1>6, RoundGoesOn
  <2>. QED  BY <1>1, <1>2, <1>4, <1>5, <1>6, <2>1 DEF Running
<1>7. CASE e = [NoRound EXCEPT !.status = "cancelled"]
  <2>1. RoundOK' /\ ~VotingOpen' /\ e.status = "cancelled"
    BY <1>5, <1>7, NoRoundIsOver DEF RoundOK, VotingOpen
  <2>2. UNCHANGED <<going, doubtful, ended, setup, origin, teamOf, draft>>
    BY <1>1 DEF attendance, teams
  <2>3. DraftOK' /\ ~DraftActive' /\ TeamsOK'
    BY <1>2, <2>2, StaysOK, TeamsStay DEF IInv, AttendanceOK
  <2>4. IInv'
    BY <1>1, <1>2, <2>1, <2>3, CommandStep DEF DraftOrVote, RoundMatchesTeams
  <2>. QED  BY <1>1, <1>2, <1>4, <1>5, <2>1, <2>4
<1>. QED  BY <1>4, <1>6, <1>7

\* The teams of the proposal that won, without those of it who are not going.
LEMMA CloseStep ==
  ASSUME IInv, NEW o \in Options(round), Close(o)
  PROVE  IInv' /\ UNCHANGED <<attendance, draft>> /\ ~ended /\ Outcome(o) /\ o \in MostVoted(round)
<1>1. /\ ~ended /\ VotingOpen /\ o \in MostVoted(round)
      /\ IF o = KeepCurrentTeams THEN UNCHANGED teams ELSE FormTeams(o.teams, round.setup, "vote")
      /\ round' = [NoRound EXCEPT !.status = "closed"] /\ UNCHANGED <<attendance, draft>>
  BY DEF Close, TeamsChangeable
<1>2. UNCHANGED <<going, doubtful, ended, draft>>
  BY <1>1 DEF attendance
<1>3. round \in Rounds /\ Running(round) /\ ~DraftActive
  BY <1>1, OpenRound
<1>4. RoundOK' /\ ~VotingOpen' /\ DraftOK' /\ ~DraftActive'
  BY <1>1, <1>2, <1>3, NoRoundIsOver, StaysOK DEF RoundOK, VotingOpen, IInv
<1>5. TeamsOK' /\ Outcome(o)
  <2>1. CASE o = KeepCurrentTeams
    <3>1. UNCHANGED <<setup, origin, teamOf, going>>
      BY <1>1, <1>2, <2>1 DEF teams
    <3>. QED  BY <1>1, <1>2, <2>1, <3>1, TeamsStay DEF IInv, AttendanceOK, Outcome
  <2>2. CASE o # KeepCurrentTeams
    <3>1. o \in round.proposals
      BY <2>2 DEF Options
    <3>2. PICK division : division = o.teams
      OBVIOUS
    <3>3. division \in Divisions /\ Len(division) = round.setup.count /\ Disjoint(division)
      BY <1>3, <3>1, <3>2 DEF Rounds, Proposals, Running
    <3>4. DOMAIN division = 1 .. Len(division)
      BY <3>3, FormationAssumption
    <3>5. round.setup \in Setups /\ round.setup.count \in 2 .. 8
      BY <1>3 DEF Rounds, Running
    <3>6. FormTeams(division, round.setup, "vote")
      BY <1>1, <2>2, <3>2
    <3>7. round.setup.count >= 2 /\ DOMAIN division \subseteq 1 .. round.setup.count
      BY <3>3, <3>4, <3>5
    <3>8. TeamsOK'
      BY <1>2, <3>5, <3>6, <3>7, TeamsFormed
    <3>9. \A u \in Users, i \in DOMAIN division : teamOf'[u] = i <=> u \in division[i] \cap going
      <4>. SUFFICES ASSUME NEW u \in Users, NEW i \in DOMAIN division
                    PROVE  teamOf'[u] = i <=> u \in division[i] \cap going
        OBVIOUS
      <4>1. teamOf'[u] = IF \E j \in DOMAIN division : u \in division[j] \cap going
                         THEN CHOOSE j \in DOMAIN division : u \in division[j]
                         ELSE 0
        BY <3>6 DEF FormTeams
      <4>2. i # 0
        BY <3>4
      <4>3. \A j \in DOMAIN division : u \in division[i] /\ u \in division[j] => j = i
        BY <3>3 DEF Disjoint
      <4>4. CASE u \in division[i] \cap going
        BY <4>1, <4>3, <4>4
      <4>5. CASE u \notin division[i] \cap going
        BY <4>1, <4>2, <4>5
      <4>. QED  BY <4>4, <4>5
    <3>. QED  BY <2>2, <3>2, <3>8, <3>9 DEF Outcome
  <2>. QED  BY <2>1, <2>2
<1>6. IInv'
  BY <1>1, <1>2, <1>4, <1>5, CommandStep DEF DraftOrVote, RoundMatchesTeams
<1>. QED  BY <1>1, <1>5, <1>6

-----------------------------------------------------------------------------
(***************************************************************************)
(* The invariant holds, and says what the properties say.                  *)
(***************************************************************************)

LEMMA InvariantAtStart == Init => IInv
<1>. SUFFICES ASSUME Init
              PROVE  IInv
  OBVIOUS
<1>1. AttendanceOK
  BY DEF Init, AttendanceOK
<1>2. /\ NoSetup \in Setups /\ NoSetup.count = 0 /\ Nobody \in [Users -> 0 .. 0]
      /\ \A u \in Users : Nobody[u] = 0
  BY DEF NoSetup, Setups, Nobody
<1>3. TeamsOK
  BY <1>2 DEF Init, TeamsOK, HasTeams, TeamsHoldGoing
<1>4. DraftOK /\ ~DraftActive
  BY NoDraftIsOver DEF Init, DraftOK, DraftActive
<1>5. RoundOK /\ ~VotingOpen
  BY NoRoundIsOver DEF Init, RoundOK, VotingOpen
<1>. QED  BY <1>1, <1>3, <1>4, <1>5 DEF Init, IInv, EndedIsOver, DraftOrVote, RoundMatchesTeams

LEMMA InvariantKept == IInv /\ [Next]_vars => IInv'
<1>. SUFFICES ASSUME IInv, [Next]_vars
              PROVE  IInv'
  OBVIOUS
<1>1. ASSUME NEW u \in Users, \/ Join(u) \/ Leave(u) \/ ReleaseTeam(u)
                              \/ StartReview(u) \/ FinishReview(u) \/ LateRejection(u)
      PROVE  IInv'
  BY <1>1, JoinStep, LeaveStep, OtherAttendanceStep
<1>2. CASE \/ \E s \in TeamSetups : CreateTeams(s)
           \/ ResetTeams
           \/ \E u \in Users : UnassignAttendeeTeam(u) \/ \E t \in 1 .. 8 : AssignAttendeeTeam(u, t)
  BY <1>2, ManualStep
<1>3. CASE \/ \E c \in CaptainPairs, o \in PickOrders, s \in TeamSetups : StartDraft(c, o, s.min)
           \/ \E u \in Users : Pick(u)
  BY <1>3, DraftCommand, DraftSaved
<1>4. CASE CancelDraft \/ EndSession
  BY <1>4, CancelDraftStep, EndSessionStep
<1>5. CASE \E u \in Users : \/ \E d \in Divisions : OpenTeamVoting(u, d) \/ Propose(u, d)
                            \/ RetractVote(u) \/ \E o \in Options(round) : Vote(u, o)
  BY <1>5, ProposeStep, VoteStep
<1>6. CASE (\E p \in round.proposals : WithdrawProposal(p)) \/ \E o \in Options(round) : Close(o)
  BY <1>6, WithdrawStep, CloseStep
<1>7. CASE UNCHANGED vars
  <2>1. UNCHANGED <<going, doubtful, ended, setup, origin, teamOf, draft, round>>
    BY <1>7 DEF vars
  <2>2. AttendanceOK' /\ TeamsOK'
    BY <2>1, TeamsStay DEF IInv, AttendanceOK
  <2>. QED  BY <2>1, <2>2, AttendanceStep
<1>. QED  BY <1>1, <1>2, <1>3, <1>4, <1>5, <1>6, <1>7 DEF Next

\* The invariant holds in every reachable state.
THEOREM InvariantHolds == Spec => []IInv
BY InvariantAtStart, InvariantKept, PTL DEF Spec

LEMMA InvariantMeans == IInv => FormationOK /\ DraftIsFair
<1>. SUFFICES ASSUME IInv
              PROVE  FormationOK /\ DraftIsFair
  OBVIOUS
<1>1. /\ going \subseteq Users /\ doubtful \subseteq Requesters /\ ended \in BOOLEAN
      /\ setup \in Setups /\ origin \in {"none", "manual", "draft", "vote"}
      /\ (HasTeams <=> origin # "none") /\ teamOf \in [Users -> 0 .. setup.count]
  BY DEF IInv, AttendanceOK, TeamsOK
<1>2. /\ draft.status \in {"none", "active", "completed", "cancelled"}
      /\ DraftActive \/ draft = [NoDraft EXCEPT !.status = draft.status]
      /\ DraftActive => /\ draft.captains \in CaptainPairs
                        /\ draft.order \in PickOrders
                        /\ draft.picks \subseteq [user : Users, side : {1, 2}]
  BY DEF IInv, DraftOK, Drafts, DraftActive, DraftOver, Level
<1>3. /\ round.status \in {"none", "open", "closed", "cancelled"}
      /\ VotingOpen \/ round = [NoRound EXCEPT !.status = round.status]
      /\ round.proposals \subseteq Proposals
      /\ DOMAIN round.votes \subseteq Users
  BY BallotShape DEF IInv, RoundOK, Rounds, VotingOpen, RoundOver, Running
<1>4. TypeOK
  BY <1>1, <1>2, <1>3 DEF TypeOK, Setups
<1>5. NoDuplicateProposals /\ VotesAreOnOffer
  BY NobodyVotes DEF IInv, RoundOK, Running, NoDuplicateProposals, VotesAreOnOffer
<1>6. FormationOK
  BY <1>4, <1>5 DEF IInv, TeamsOK, FormationOK
<1>7. DraftIsFair
  <2>. SUFFICES ASSUME DraftActive
                PROVE  /\ Cardinality(Roster(draft, 1)) - Cardinality(Roster(draft, 2)) \in {-1, 0, 1}
                       /\ Cardinality(Picked(draft)) = draft.turn
                       /\ Captains(draft) \cap Picked(draft) = {}
    BY DEF DraftIsFair
  <2>1. draft \in Drafts /\ Level(draft) /\ draft.captains \in CaptainPairs /\ draft.turn \in Nat
    BY DEF IInv, DraftOK, DraftOver, DraftActive, Drafts, Level
  <2>2. Cardinality(Roster(draft, 1)) \in Nat /\ Cardinality(Roster(draft, 2)) \in Nat
    BY <2>1, PeopleOfADraft, FS_CardinalityType
  <2>3. Lead(draft.order, draft.turn) \in {-1, 0, 1}
    BY <2>1, TurnsAlternate
  <2>. QED  BY <2>1, <2>2, <2>3 DEF Level
<1>. QED  BY <1>6, <1>7

\* Draft, round and teams stay consistent with each other: never a draft and a
\* vote at once, only people going on a team until the session is over, no
\* division proposed twice, and no vote for what cannot win, whichever commands
\* and leavers interleave (team_formation.go).
THEOREM FormationStaysOK == Spec => []FormationOK
BY InvariantHolds, InvariantMeans, PTL

\* Whatever the order of picks and whoever joins meanwhile, no side of a draft is
\* more than one player ahead, and nobody is picked twice (team_draft.go).
THEOREM DraftsAreFair == Spec => []DraftIsFair
BY InvariantHolds, InvariantMeans, PTL

-----------------------------------------------------------------------------
(***************************************************************************)
(* What a step may do to a draft, and to a round.                          *)
(***************************************************************************)

\* Steps that complete no draft and close no round: they leave them alone, end
\* them, or start team formation over.
Unsettling ==
  \/ \E u \in Users : \/ Join(u) \/ Leave(u) \/ ReleaseTeam(u)
                      \/ StartReview(u) \/ FinishReview(u) \/ LateRejection(u)
                      \/ UnassignAttendeeTeam(u) \/ \E t \in 1 .. 8 : AssignAttendeeTeam(u, t)
  \/ \E s \in TeamSetups : CreateTeams(s)
  \/ ResetTeams \/ CancelDraft \/ EndSession \/ UNCHANGED vars

DraftCommands ==
  \/ \E c \in CaptainPairs, o \in PickOrders, s \in TeamSetups : StartDraft(c, o, s.min)
  \/ \E u \in Users : Pick(u)

RoundCommands ==
  \/ \E u \in Users : \/ \E d \in Divisions : OpenTeamVoting(u, d) \/ Propose(u, d)
                      \/ RetractVote(u) \/ \E o \in Options(round) : Vote(u, o)
  \/ \E p \in round.proposals : WithdrawProposal(p)

LEMMA KindsOfSteps ==
  [Next]_vars =>
    Unsettling \/ DraftCommands \/ RoundCommands \/ \E o \in Options(round) : Close(o)
BY DEF Next, Unsettling, DraftCommands, RoundCommands

LEMMA NothingSettled ==
  ASSUME Unsettling
  PROVE  /\ draft' = draft \/ draft'.status \in {"none", "cancelled"}
         /\ round' = round \/ round'.status \in {"none", "cancelled"}
<1>1. draft' = EndedDraft => draft' = draft \/ draft'.status = "cancelled"
  BY NoDraftIsOver DEF EndedDraft
<1>2. round' = EndedRound => round' = round \/ round'.status = "cancelled"
  BY NoRoundIsOver DEF EndedRound
<1>3. ResetFormation => /\ draft' = draft \/ draft'.status = "none"
                        /\ round' = round \/ round'.status = "none"
  BY NoDraftIsOver, NoRoundIsOver DEF ResetFormation
<1>4. CASE \E u \in Users : Leave(u)
  BY <1>3, <1>4 DEF Leave
<1>5. CASE \E u \in Users : \/ Join(u) \/ ReleaseTeam(u)
                            \/ StartReview(u) \/ FinishReview(u) \/ LateRejection(u)
                            \/ UnassignAttendeeTeam(u) \/ \E t \in 1 .. 8 : AssignAttendeeTeam(u, t)
  BY <1>5 DEF Join, ReleaseTeam, StartReview, FinishReview, LateRejection,
              UnassignAttendeeTeam, AssignAttendeeTeam
<1>6. CASE (\E s \in TeamSetups : CreateTeams(s)) \/ CancelDraft \/ EndSession
  BY <1>1, <1>2, <1>6 DEF CreateTeams, CancelDraft, EndSession
<1>7. CASE ResetTeams \/ UNCHANGED vars
  BY <1>3, <1>7 DEF ResetTeams, vars
<1>. QED  BY <1>4, <1>5, <1>6, <1>7 DEF Unsettling

\* What the commands on a draft or a round may do.
LEMMA DraftCommandStep ==
  ASSUME IInv, DraftCommands
  PROVE  /\ IInv' /\ UNCHANGED <<attendance, round>> /\ ~ended /\ ~VotingOpen
         /\ \/ /\ DraftActive' /\ UNCHANGED teams
               /\ Captains(draft)' \cup Picked(draft)' \subseteq going \cup Captains(draft) \cup Picked(draft)
            \/ /\ draft'.status = "completed" /\ ~DraftActive'
               /\ HasTeams' /\ \A u \in going' : teamOf'[u] # 0
<1>1. PICK d \in Drafts :
        /\ Level(d) /\ SaveDraft(d) /\ UNCHANGED <<attendance, round>> /\ ~ended /\ ~VotingOpen
        /\ Captains(d) \cup Picked(d) \subseteq going \cup Captains(draft) \cup Picked(draft)
  BY DraftCommand DEF DraftCommands
<1>2. /\ IInv'
      /\ \/ draft' = d /\ UNCHANGED teams
         \/ /\ draft' = [NoDraft EXCEPT !.status = "completed"]
            /\ HasTeams' /\ \A u \in going' : teamOf'[u] # 0
  BY <1>1, DraftSaved
<1>3. draft' = d => /\ DraftActive'
                    /\ Captains(draft)' = Captains(d) /\ Picked(draft)' = Picked(d)
  BY <1>1 DEF Level, DraftActive, Captains, Picked
<1>4. draft' = [NoDraft EXCEPT !.status = "completed"] => draft'.status = "completed" /\ ~DraftActive'
  BY NoDraftIsOver DEF DraftActive
<1>. QED  BY <1>1, <1>2, <1>3, <1>4

LEMMA RoundCommandStep ==
  ASSUME IInv, RoundCommands
  PROVE  /\ IInv' /\ UNCHANGED <<attendance, teams, draft>> /\ ~ended
         /\ round'.status # "closed"
         /\ \A p \in round'.proposals : p \in round.proposals \/ Players(p.teams) = going
         /\ DOMAIN round'.votes \subseteq DOMAIN round.votes \cup going
<1>1. ASSUME NEW u \in Users, NEW d \in Divisions, OpenTeamVoting(u, d) \/ Propose(u, d)
      PROVE  /\ IInv' /\ UNCHANGED <<attendance, teams, draft>> /\ ~ended
             /\ round'.status # "closed"
             /\ \A p \in round'.proposals : p \in round.proposals \/ Players(p.teams) = going
             /\ DOMAIN round'.votes \subseteq DOMAIN round.votes \cup going
  BY <1>1, ProposeStep
<1>2. ASSUME NEW u \in Users, RetractVote(u) \/ \E o \in Options(round) : Vote(u, o)
      PROVE  /\ IInv' /\ UNCHANGED <<attendance, teams, draft>> /\ ~ended
             /\ round'.status # "closed"
             /\ \A p \in round'.proposals : p \in round.proposals \/ Players(p.teams) = going
             /\ DOMAIN round'.votes \subseteq DOMAIN round.votes \cup going
  BY <1>2, VoteStep DEF VotingOpen, IInv, EndedIsOver
<1>3. ASSUME NEW p \in round.proposals, WithdrawProposal(p)
      PROVE  /\ IInv' /\ UNCHANGED <<attendance, teams, draft>> /\ ~ended
             /\ round'.status # "closed"
             /\ \A q \in round'.proposals : q \in round.proposals \/ Players(q.teams) = going
             /\ DOMAIN round'.votes \subseteq DOMAIN round.votes \cup going
  BY <1>3, WithdrawStep
<1>. QED  BY <1>1, <1>2, <1>3 DEF RoundCommands

\* However a draft is completed, by the last pick or at its start, everybody
\* going is on a team by then, who joined during the draft included (settle).
THEOREM DraftsLeaveNobodyOut == Spec => EverybodyDrafted
<1> DEFINE Drafted == draft'.status = "completed" /\ draft' # draft => \A u \in going' : teamOf'[u] # 0
<1>1. IInv /\ [Next]_vars => Drafted
  <2>. SUFFICES ASSUME IInv, [Next]_vars
                PROVE  Drafted
    OBVIOUS
  <2>1. CASE Unsettling
    BY <2>1, NothingSettled
  <2>2. CASE DraftCommands
    BY <2>2, DraftCommandStep DEF DraftActive
  <2>3. CASE RoundCommands
    BY <2>3, RoundCommandStep
  <2>4. CASE \E o \in Options(round) : Close(o)
    BY <2>4 DEF Close
  <2>. QED  BY <2>1, <2>2, <2>3, <2>4, KindsOfSteps
<1>. QED  BY <1>1, InvariantHolds, PTL DEF Spec, EverybodyDrafted

\* The round is closed with an option nobody outvoted, and the teams are what it
\* says, without those who are not going (Close, MostVoted).
THEOREM MostVotedWins == Spec => NobodyOutvoted
<1> DEFINE Won == VotingOpen /\ round'.status = "closed" =>
                    \E o \in Options(round) :
                      Outcome(o) /\ \A p \in Options(round) : VoteCount(round, p) <= VoteCount(round, o)
<1>1. IInv /\ [Next]_vars => Won
  <2>. SUFFICES ASSUME IInv, [Next]_vars, VotingOpen, round'.status = "closed"
                PROVE  \E o \in Options(round) :
                         Outcome(o) /\ \A p \in Options(round) : VoteCount(round, p) <= VoteCount(round, o)
    OBVIOUS
  <2>1. CASE Unsettling
    BY <2>1, NothingSettled DEF VotingOpen
  <2>2. CASE DraftCommands
    BY <2>2, DraftCommandStep
  <2>3. CASE RoundCommands
    BY <2>3, RoundCommandStep
  <2>4. CASE \E o \in Options(round) : Close(o)
    <3>1. PICK o \in Options(round) : Close(o)
      BY <2>4
    <3>2. Outcome(o) /\ o \in MostVoted(round)
      BY <3>1, CloseStep
    <3>3. \A p \in Options(round) : VoteCount(round, o) >= VoteCount(round, p)
      BY <3>2 DEF MostVoted
    <3>4. \A p \in Options(round) : VoteCount(round, p) <= VoteCount(round, o)
      BY <3>3
    <3>. QED  BY <3>2, <3>4
  <2>. QED  BY <2>1, <2>2, <2>3, <2>4, KindsOfSteps
<1>. QED  BY <1>1, InvariantHolds, PTL DEF Spec, NobodyOutvoted

-----------------------------------------------------------------------------
(***************************************************************************)
(* Who is left behind.                                                     *)
(***************************************************************************)

NobodyLeftBehind == \A u \in Users : Stranded(u)' => Stranded(u) \/ u \in doubtful \ doubtful'

\* The two ways of leaving nobody behind: nobody is involved any more, or only
\* people going become involved and nobody but a doubtful one stops going.
LEMMA LeftBehind ==
  /\ Involved' = {} => NobodyLeftBehind
  /\ Involved' \subseteq Involved \cup going /\ going \subseteq going' \cup (doubtful \ doubtful')
       => NobodyLeftBehind
BY DEF NobodyLeftBehind, Stranded

\* Nobody new in a draft, a proposal or a vote.
LEMMA NobodyNewInvolved ==
  ASSUME NEW P,
         Captains(draft)' \cup Picked(draft)' \subseteq P \cup Captains(draft) \cup Picked(draft),
         DOMAIN round'.votes \subseteq DOMAIN round.votes \cup P,
         \A p \in round'.proposals : p \in round.proposals \/ Players(p.teams) = P
  PROVE  Involved' \subseteq Involved \cup P
<1>1. UNION {Players(p.teams) : p \in round'.proposals}
        \subseteq P \cup UNION {Players(p.teams) : p \in round.proposals}
  OBVIOUS
<1>2. Involved' = Captains(draft)' \cup Picked(draft)' \cup DOMAIN round'.votes
                    \cup UNION {Players(p.teams) : p \in round'.proposals}
  BY DEF Involved, Players
<1>. QED  BY <1>1, <1>2 DEF Involved

LEMMA NobodyInvolvedAfter == IInv' /\ ~DraftActive' /\ ~VotingOpen' => Involved' = {}
<1>1. IInv /\ ~DraftActive /\ ~VotingOpen => Involved = {}
  BY NobodyInvolved DEF IInv
<1>2. (IInv /\ ~DraftActive /\ ~VotingOpen => Involved = {})'
  BY <1>1, PTL
<1>. QED  BY <1>2

\* Draft and round stay, or the draft is over.
LEMMA DraftAndRoundStay ==
  ASSUME DraftOK, UNCHANGED round, UNCHANGED draft \/ draft' = EndedDraft
  PROVE  Involved' \subseteq Involved
<1>1. CASE UNCHANGED draft
  BY <1>1 DEF Involved, Captains, Picked, Players
<1>2. CASE draft' = EndedDraft
  <2>1. DraftOK' /\ ~DraftActive'
    BY <1>2, DraftEnds
  <2>2. PICK d : d = draft'
    OBVIOUS
  <2>3. DraftOver(d) /\ d \in Drafts
    BY <2>1, <2>2 DEF DraftOK, Level, DraftActive, DraftOver
  <2>4. Captains(d) = {} /\ Picked(d) = {}
    BY <2>3, NobodyDrafts
  <2>5. Captains(draft)' = {} /\ Picked(draft)' = {}
    BY <2>2, <2>4 DEF Captains, Picked
  <2>. QED  BY <2>5 DEF Involved, Players
<1>. QED  BY <1>1, <1>2

LEMMA LeaverBehind ==
  ASSUME IInv, IInv', NEW u \in Users, Leave(u)
  PROVE  NobodyLeftBehind
<1>1. CASE ended
  <2>1. ~DraftActive /\ ~VotingOpen /\ UNCHANGED <<draft, round>>
    BY <1>1 DEF Leave, IInv, EndedIsOver
  <2>2. ~DraftActive' /\ ~VotingOpen'
    BY <2>1 DEF DraftActive, VotingOpen
  <2>. QED  BY <2>2, NobodyInvolvedAfter, LeftBehind
<1>2. CASE ~ended
  <2>1. ResetFormation /\ (ended => ended')
    BY <1>2 DEF Leave
  <2>2. /\ TeamsOK' /\ DraftOK' /\ RoundOK'
        /\ ~HasTeams' /\ ~DraftActive' /\ ~VotingOpen'
    BY <2>1, FormationReset
  <2>. QED  BY <2>2, NobodyInvolvedAfter, LeftBehind
<1>. QED  BY <1>1, <1>2

LEMMA UnsettlingBehind ==
  ASSUME IInv, IInv', Unsettling
  PROVE  NobodyLeftBehind
<1>1. CASE \E u \in Users : Leave(u)
  BY <1>1, LeaverBehind
<1>2. CASE \/ \E u \in Users : \/ Join(u) \/ ReleaseTeam(u)
                               \/ StartReview(u) \/ FinishReview(u) \/ LateRejection(u)
                               \/ UnassignAttendeeTeam(u) \/ \E t \in 1 .. 8 : AssignAttendeeTeam(u, t)
           \/ CancelDraft \/ UNCHANGED vars
  <2>1. /\ UNCHANGED round /\ (UNCHANGED draft \/ draft' = EndedDraft)
        /\ going \subseteq going' \cup (doubtful \ doubtful')
    BY <1>2 DEF Join, ReleaseTeam, StartReview, FinishReview, LateRejection, UnassignAttendeeTeam,
                AssignAttendeeTeam, CancelDraft, vars, attendance, List!JoinGoing, List!StartReview,
                List!FinishReview, List!LateRejection
  <2>2. Involved' \subseteq Involved
    BY <2>1, DraftAndRoundStay DEF IInv
  <2>. QED  BY <2>1, <2>2, LeftBehind
<1>3. CASE (\E s \in TeamSetups : CreateTeams(s)) \/ EndSession
  <2>1. round' = EndedRound /\ ((UNCHANGED draft /\ ~DraftActive) \/ draft' = EndedDraft)
    BY <1>3 DEF CreateTeams, EndSession
  <2>2. ~VotingOpen' /\ ~DraftActive'
    BY <2>1, RoundEnds, DraftEnds, StaysOK DEF IInv
  <2>. QED  BY <2>2, NobodyInvolvedAfter, LeftBehind
<1>4. CASE ResetTeams
  <2>1. ResetFormation /\ (ended => ended')
    BY <1>4 DEF ResetTeams, attendance
  <2>2. /\ TeamsOK' /\ DraftOK' /\ RoundOK'
        /\ ~HasTeams' /\ ~DraftActive' /\ ~VotingOpen'
    BY <2>1, FormationReset
  <2>. QED  BY <2>2, NobodyInvolvedAfter, LeftBehind
<1>. QED  BY <1>1, <1>2, <1>3, <1>4 DEF Unsettling

\* Whoever stops going takes their draft or their proposals and votes along,
\* unless a rejection overtook the approval of their request, and nobody else
\* is drawn in who is not going (resetTeamFormation, settle, validateDivision).
THEOREM LeaversTakeFormationAlong == Spec => OnlyLateRejectionStrands
<1>1. IInv /\ [Next]_vars => NobodyLeftBehind
  <2>. SUFFICES ASSUME IInv, [Next]_vars
                PROVE  NobodyLeftBehind
    OBVIOUS
  <2>1. IInv'
    BY InvariantKept
  <2>2. CASE Unsettling
    BY <2>1, <2>2, UnsettlingBehind
  <2>3. CASE DraftCommands
    <3>1. UNCHANGED <<going, doubtful, round>> /\ ~VotingOpen
      BY <2>3, DraftCommandStep DEF attendance
    <3>2. CASE ~DraftActive'
      <4>1. ~VotingOpen'
        BY <3>1 DEF VotingOpen
      <4>. QED  BY <2>1, <3>2, <4>1, NobodyInvolvedAfter, LeftBehind
    <3>3. CASE DraftActive'
      <4>1. Captains(draft)' \cup Picked(draft)' \subseteq going \cup Captains(draft) \cup Picked(draft)
        BY <2>3, <3>3, DraftCommandStep
      <4>2. Involved' \subseteq Involved \cup going
        BY <3>1, <4>1, NobodyNewInvolved
      <4>. QED  BY <3>1, <4>2, LeftBehind
    <3>. QED  BY <3>2, <3>3
  <2>4. CASE RoundCommands
    <3>1. /\ UNCHANGED <<going, doubtful, draft>>
          /\ \A p \in round'.proposals : p \in round.proposals \/ Players(p.teams) = going
          /\ DOMAIN round'.votes \subseteq DOMAIN round.votes \cup going
      BY <2>4, RoundCommandStep DEF attendance
    <3>2. Captains(draft)' = Captains(draft) /\ Picked(draft)' = Picked(draft)
      BY <3>1 DEF Captains, Picked
    <3>3. Involved' \subseteq Involved \cup going
      BY <3>1, <3>2, NobodyNewInvolved
    <3>. QED  BY <3>1, <3>3, LeftBehind
  <2>5. CASE \E o \in Options(round) : Close(o)
    <3>1. VotingOpen /\ UNCHANGED draft /\ round' = [NoRound EXCEPT !.status = "closed"]
      BY <2>5 DEF Close
    <3>2. ~DraftActive
      BY <3>1, OpenRound
    <3>3. ~DraftActive' /\ ~VotingOpen'
      BY <3>1, <3>2, NoRoundIsOver DEF DraftActive, VotingOpen
    <3>. QED  BY <2>1, <3>3, NobodyInvolvedAfter, LeftBehind
  <2>. QED  BY <2>2, <2>3, <2>4, <2>5, KindsOfSteps
<1>2. NobodyLeftBehind => \A u \in Users : Stranded(u)' => Stranded(u) \/ u \in doubtful \ doubtful'
  BY DEF NobodyLeftBehind
<1>. QED  BY <1>1, <1>2, InvariantHolds, PTL DEF Spec, OnlyLateRejectionStrands

-----------------------------------------------------------------------------
(***************************************************************************)
(* The refinement of GoingList.                                            *)
(***************************************************************************)

ListStep == [List!Next]_<<going, doubtful, ended, Formed>>

LEMMA FormedIsBoolean == Formed \in BOOLEAN /\ Formed' \in BOOLEAN
BY DEF Formed, HasTeams, DraftActive, VotingOpen

\* Which teams there are, and whether a draft or a round is running, is all
\* that Formed looks at.
LEMMA FormedStays == UNCHANGED <<setup, draft, round>> => UNCHANGED Formed
BY DEF Formed, HasTeams, DraftActive, VotingOpen

\* A command changes the formation of a session that is not over, if anything.
LEMMA CommandOfList ==
  ASSUME UNCHANGED attendance, ~ended \/ UNCHANGED Formed
  PROVE  ListStep
<1>1. UNCHANGED <<going, doubtful, ended>>
  BY DEF attendance
<1>2. CASE ~ended
  <2>1. Formed' \in BOOLEAN
    BY FormedIsBoolean
  <2>2. List!ChangeFormation
    BY <1>1, <1>2, <2>1 DEF List!ChangeFormation, List!list
  <2>3. List!Next
    BY <2>2 DEF List!Next
  <2>. QED  BY <2>3 DEF ListStep
<1>3. CASE UNCHANGED Formed
  BY <1>1, <1>3 DEF ListStep
<1>. QED  BY <1>2, <1>3

LEMMA LeaverOfList ==
  ASSUME IInv, NEW u \in Users, Leave(u)
  PROVE  List!Leave(u)
<1>1. List!LeaveGoing(u) /\ UNCHANGED ended
  BY DEF Leave, List!LeaveGoing
<1>2. Formed' = (Formed /\ ended)
  <2>1. CASE ended
    <3>1. UNCHANGED <<setup, draft, round>>
      BY <2>1 DEF Leave
    <3>2. UNCHANGED Formed
      BY <3>1, FormedStays
    <3>. QED  BY <2>1, <3>2, FormedIsBoolean, Zenon
  <2>2. CASE ~ended
    <3>1. ResetFormation /\ (ended => ended')
      BY <2>2 DEF Leave
    <3>2. /\ TeamsOK' /\ DraftOK' /\ RoundOK'
          /\ ~HasTeams' /\ ~DraftActive' /\ ~VotingOpen'
      BY <3>1, FormationReset
    <3>3. ~Formed'
      BY <3>2 DEF Formed
    <3>. QED  BY <2>2, <3>3, FormedIsBoolean, Zenon
  <2>. QED  BY <2>1, <2>2
<1>. QED  BY <1>1, <1>2 DEF List!Leave

LEMMA AttendanceOfList ==
  ASSUME IInv, NEW u \in Users,
         Join(u) \/ Leave(u) \/ StartReview(u) \/ FinishReview(u) \/ LateRejection(u)
  PROVE  ListStep
<1>1. CASE Leave(u)
  <2>1. List!Next
    BY <1>1, LeaverOfList DEF List!Next
  <2>. QED  BY <2>1 DEF ListStep
<1>2. CASE Join(u) \/ StartReview(u) \/ FinishReview(u) \/ LateRejection(u)
  <2>1. UNCHANGED <<setup, draft, round>>
    BY <1>2 DEF Join, StartReview, FinishReview, LateRejection, teams
  <2>2. UNCHANGED Formed
    BY <2>1, FormedStays
  <2>3. \/ List!JoinGoing(u) \/ List!StartReview(u) \/ List!FinishReview(u) \/ List!LateRejection(u)
    BY <1>2 DEF Join, StartReview, FinishReview, LateRejection
  <2>4. List!Next
    BY <2>2, <2>3 DEF List!Next, List!Join
  <2>. QED  BY <2>4 DEF ListStep
<1>. QED  BY <1>1, <1>2

LEMMA EndOfList ==
  ASSUME IInv, EndSession
  PROVE  ListStep
<1>1. List!EndList /\ draft' = EndedDraft /\ round' = EndedRound /\ UNCHANGED setup
  BY DEF EndSession, teams
<1>2. ~DraftActive' /\ ~VotingOpen' /\ (HasTeams' <=> HasTeams)
  BY <1>1, DraftEnds, RoundEnds DEF IInv, HasTeams
<1>3. Formed' => Formed
  BY <1>2 DEF Formed
<1>4. Formed' \in {Formed, FALSE}
  BY <1>3, FormedIsBoolean, Zenon
<1>5. List!Next
  BY <1>1, <1>4 DEF List!Next, List!End
<1>. QED  BY <1>5 DEF ListStep

LEMMA StepsOfTheList == IInv /\ [Next]_vars => ListStep
<1>. SUFFICES ASSUME IInv, [Next]_vars
              PROVE  ListStep
  OBVIOUS
<1>1. CASE \E u \in Users : \/ Join(u) \/ Leave(u)
                            \/ StartReview(u) \/ FinishReview(u) \/ LateRejection(u)
  BY <1>1, AttendanceOfList
<1>2. CASE EndSession
  BY <1>2, EndOfList
<1>3. CASE \/ \E u \in Users : ReleaseTeam(u)
           \/ UNCHANGED vars
  <2>1. UNCHANGED <<setup, draft, round>> /\ UNCHANGED attendance
    BY <1>3 DEF ReleaseTeam, vars, attendance
  <2>. QED  BY <2>1, FormedStays, CommandOfList
<1>4. CASE \/ \E s \in TeamSetups : CreateTeams(s)
           \/ ResetTeams
           \/ \E u \in Users : UnassignAttendeeTeam(u) \/ \E t \in 1 .. 8 : AssignAttendeeTeam(u, t)
  <2>1. ~ended /\ UNCHANGED attendance
    BY <1>4 DEF CreateTeams, ResetTeams, UnassignAttendeeTeam, AssignAttendeeTeam, TeamsChangeable
  <2>. QED  BY <2>1, CommandOfList
<1>5. CASE CancelDraft
  <2>1. ~ended /\ UNCHANGED attendance
    BY <1>5 DEF CancelDraft, IInv, EndedIsOver
  <2>. QED  BY <2>1, CommandOfList
<1>6. CASE DraftCommands
  BY <1>6, DraftCommandStep, CommandOfList
<1>7. CASE RoundCommands
  BY <1>7, RoundCommandStep, CommandOfList
<1>8. CASE \E o \in Options(round) : Close(o)
  BY <1>8, CloseStep, CommandOfList
<1>9. Unsettling => \/ \E u \in Users : \/ Join(u) \/ Leave(u) \/ ReleaseTeam(u)
                                        \/ StartReview(u) \/ FinishReview(u) \/ LateRejection(u)
                                        \/ UnassignAttendeeTeam(u)
                                        \/ \E t \in 1 .. 8 : AssignAttendeeTeam(u, t)
                    \/ \E s \in TeamSetups : CreateTeams(s)
                    \/ ResetTeams \/ CancelDraft \/ EndSession \/ UNCHANGED vars
  BY DEF Unsettling
<1>. QED  BY <1>1, <1>2, <1>3, <1>4, <1>5, <1>6, <1>7, <1>8, <1>9, KindsOfSteps

\* Team formation keeps its side of the promise: it restarts with each leaver of
\* an unfinished session and changes no more once the session is over, so the
\* attendance it is modelled on is the one SessionAttendance implements.
THEOREM FormationImplementsGoingList == Spec => ImplementsGoingList
<1>1. Init => List!Init
  <2>. SUFFICES ASSUME Init
                PROVE  List!Init
    OBVIOUS
  <2>1. ~HasTeams /\ ~DraftActive /\ ~VotingOpen
    BY NoDraftIsOver, NoRoundIsOver DEF Init, HasTeams, DraftActive, VotingOpen
  <2>2. Formed = FALSE
    BY <2>1, FormedIsBoolean, Zenon DEF Formed
  <2>. QED  BY <2>2 DEF Init, List!Init
<1>2. IInv /\ [Next]_vars => [List!Next]_<<going, doubtful, ended, Formed>>
  BY StepsOfTheList DEF ListStep
<1>. QED  BY <1>1, <1>2, InvariantHolds, PTL DEF Spec, ImplementsGoingList, List!Spec
=============================================================================
