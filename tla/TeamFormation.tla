---------------------------- MODULE TeamFormation ----------------------------
(***************************************************************************)
(* How the people going to a session are split into teams: by hand, by a   *)
(* captain draft, or by proposals and a vote.                              *)
(*                                                                         *)
(* Every command is one transaction under the session's advisory lock      *)
(* (lockSessionCapacity), so one atomic action.  The commands of the       *)
(* manager are open to anybody who may manage the session; who that is, is *)
(* not modelled.  Attendance appears as GoingList.tla describes it; what   *)
(* a leaver does to the teams is here (resetTeamFormation).                *)
(*                                                                         *)
(* Nothing calls TeamDraft.AttendeeLeft or TeamVotingRound.AttendeeLeft    *)
(* outside their tests, so a draft is never paused, ReplaceCaptain is      *)
(* always refused, and a pick is never taken back.                         *)
(***************************************************************************)
EXTENDS Integers, FiniteSets, Sequences

CONSTANTS
  Users,        \* everybody who may ever be going
  Requesters,   \* those whose join request a manager may be deciding on
  TeamSetups,   \* [count, min]: how many teams, and how many players each needs
  PickOrders,   \* among "snake" and "alternate"
  CaptainPairs, \* the pairs of captains a manager may name
  Divisions     \* the divisions people may propose: sequences of sets of users

ASSUME FormationAssumption ==
  /\ IsFiniteSet(Users)
  /\ Requesters \subseteq Users
  /\ TeamSetups \subseteq [count : 2 .. 8, min : Nat \ {0}]
  /\ PickOrders \subseteq {"snake", "alternate"}
  /\ CaptainPairs \subseteq [{1, 2} -> Users]
  /\ \A d \in Divisions : d \in Seq(SUBSET Users)

VARIABLES
  going, doubtful, ended,   \* attendance, see GoingList
  setup,    \* session.team_count and min_players_per_team, NoSetup without teams
  origin,   \* session.teams_source
  teamOf,   \* teamOf[u]: the position of the team u's row is on, 0 for none
  draft,    \* the session's latest captain draft
  round     \* the session's latest voting round

attendance == <<going, doubtful, ended>>
teams == <<setup, origin, teamOf>>
vars == <<going, doubtful, ended, setup, origin, teamOf, draft, round>>

NoSetup == [count |-> 0, min |-> 1]
Nobody == [u \in Users |-> 0]

\* A draft that ended keeps only how it ended; so does a round, whose
\* proposals and votes are deleted.
NoDraft == [status |-> "none", captains |-> <<>>, order |-> "snake", min |-> 1,
            turn |-> 0, picks |-> {}]
NoRound == [status |-> "none", setup |-> NoSetup, keep |-> FALSE,
            proposals |-> {}, votes |-> <<>>]

KeepCurrentTeams == [author |-> "nobody", teams |-> <<>>]

HasTeams == setup # NoSetup
DraftActive == draft.status = "active"
VotingOpen == round.status = "open"
Formed == HasTeams \/ DraftActive \/ VotingOpen

List == INSTANCE GoingList WITH formed <- Formed

-----------------------------------------------------------------------------
(***************************************************************************)
(* Captain drafts.                                                         *)
(***************************************************************************)

Other(side) == 3 - side

\* Faulty variant: a snake that turns a pick too early.
SideForTurnEarly(order, turn) ==
  LET side == (turn % 2) + 1
  IN IF order = "snake" /\ ((turn + 1) \div 2) % 2 = 1 THEN Other(side) ELSE side

\* Snake is A, B, B, A, A, B, ..., alternate is A, B, A, B, ...; side 1 is A.
SideForTurn(order, turn) ==
  LET side == (turn % 2) + 1
  IN IF order = "snake" /\ (turn \div 2) % 2 = 1 THEN Other(side) ELSE side

Captains(d) == {d.captains[i] : i \in DOMAIN d.captains}
Picked(d) == {p.user : p \in d.picks}
Roster(d, side) == {d.captains[side]} \cup {p.user : p \in {q \in d.picks : q.side = side}}

Available(d) == going \ (Captains(d) \cup Picked(d))

MayDraft(captains, min) ==
  /\ captains[1] # captains[2]
  /\ {captains[1], captains[2]} \subseteq going
  /\ Cardinality(going) >= 2 * min

NewTeamDraft(captains, order, min) ==
  [NoDraft EXCEPT !.status = "active", !.captains = captains, !.order = order, !.min = min]

\* The captain whose turn it is picks u.
WithPick(d, u) ==
  [d EXCEPT !.picks = @ \cup {[user |-> u, side |-> SideForTurn(d.order, d.turn)]},
            !.turn = @ + 1]

-----------------------------------------------------------------------------
(***************************************************************************)
(* Rounds of proposals and votes.                                          *)
(***************************************************************************)

Players(division) == UNION {division[i] : i \in DOMAIN division}

\* validateDivision: the round's team count, everyone going on exactly one
\* team, nobody else, and every team at its minimum.
ValidDivision(s, division) ==
  /\ Len(division) = s.count
  /\ Players(division) = going
  /\ \A i, j \in DOMAIN division : i # j => division[i] \cap division[j] = {}
  /\ \A i \in DOMAIN division : Cardinality(division[i]) >= s.min

\* divisionKey: the order of the teams does not matter.
SameDivision(d, e) ==
  {d[i] : i \in DOMAIN d} = {e[i] : i \in DOMAIN e}

Options(r) == r.proposals \cup (IF r.keep THEN {KeepCurrentTeams} ELSE {})

VoteCount(r, option) == Cardinality({v \in DOMAIN r.votes : r.votes[v] = option})

\* Faulty variant: the manager's choice always wins.
MostVotedAny(r) == Options(r)

\* With no votes at all every option is tied.
MostVoted(r) ==
  {o \in Options(r) : \A p \in Options(r) : VoteCount(r, o) >= VoteCount(r, p)}

\* A proposal nobody has made yet: somebody who proposes a division again gets
\* their own proposal back, anybody else is refused.
NewDivision(r, division) ==
  /\ ValidDivision(r.setup, division)
  /\ ~\E p \in r.proposals : SameDivision(p.teams, division)

WithProposal(r, author, division) ==
  [r EXCEPT !.proposals = @ \cup {[author |-> author, teams |-> division]}]

WithVote(r, voter, option) ==
  [r EXCEPT !.votes = [v \in DOMAIN @ \cup {voter} |-> IF v = voter THEN option ELSE @[v]]]

WithoutVotesOf(r, voters) ==
  [r EXCEPT !.votes = [v \in DOMAIN @ \ voters |-> @[v]]]

\* The votes for the proposal go with it, and the round with the last proposal.
WithoutProposal(r, p) ==
  IF r.proposals = {p}
  THEN [NoRound EXCEPT !.status = "cancelled"]
  ELSE WithoutVotesOf([r EXCEPT !.proposals = @ \ {p}],
                      {v \in DOMAIN r.votes : r.votes[v] = p})

Involved ==
  Captains(draft) \cup Picked(draft) \cup DOMAIN round.votes
    \cup UNION {Players(p.teams) : p \in round.proposals}

-----------------------------------------------------------------------------
(***************************************************************************)
(* What becomes of the teams.                                              *)
(***************************************************************************)

\* replaceTeams: everybody is taken off the old teams, and the going ones of
\* each roster are put on its team.
FormTeams(rosters, s, from) ==
  /\ setup' = s
  /\ origin' = from
  /\ teamOf' = [u \in Users |-> IF \E i \in DOMAIN rosters : u \in rosters[i] \cap going
                                THEN CHOOSE i \in DOMAIN rosters : u \in rosters[i]
                                ELSE 0]

\* Faulty variant: the last player left is forgotten.
SaveDraftEarly(d) ==
  IF Cardinality(Available(d)) <= 1
  THEN /\ draft' = [NoDraft EXCEPT !.status = "completed"]
       /\ FormTeams(<<Roster(d, 1), Roster(d, 2)>>, [count |-> 2, min |-> d.min], "draft")
  ELSE draft' = d /\ UNCHANGED teams

\* settle and finishCommand: a draft with nobody left to pick is completed, and
\* its rosters become the teams.
SaveDraft(d) ==
  IF Available(d) = {}
  THEN /\ draft' = [NoDraft EXCEPT !.status = "completed"]
       /\ FormTeams(<<Roster(d, 1), Roster(d, 2)>>, [count |-> 2, min |-> d.min], "draft")
  ELSE draft' = d /\ UNCHANGED teams

EndedDraft == IF DraftActive THEN [NoDraft EXCEPT !.status = "cancelled"] ELSE draft

EndedRound == IF VotingOpen THEN [NoRound EXCEPT !.status = "cancelled"] ELSE round

\* Faulty variant: the running draft survives.
ResetFormationKeepsDraft ==
  IF Formed
  THEN /\ setup' = NoSetup
       /\ origin' = "none"
       /\ teamOf' = Nobody
       /\ round' = NoRound
       /\ UNCHANGED draft
  ELSE UNCHANGED <<teams, draft, round>>

\* resetTeamFormation: back to the initial state, past drafts and rounds
\* deleted; nothing at all when there is nothing to reset.
ResetFormation ==
  IF Formed
  THEN /\ setup' = NoSetup
       /\ origin' = "none"
       /\ teamOf' = Nobody
       /\ draft' = NoDraft
       /\ round' = NoRound
  ELSE UNCHANGED <<teams, draft, round>>

-----------------------------------------------------------------------------
Init ==
  /\ going = {}
  /\ doubtful = {}
  /\ ended = FALSE
  /\ setup = NoSetup
  /\ origin = "none"
  /\ teamOf = Nobody
  /\ draft = NoDraft
  /\ round = NoRound

(***************************************************************************)
(* Attendance.                                                             *)
(***************************************************************************)

\* A new row, or one whose user was not going, is on no team.
Join(u) ==
  /\ teamOf[u] = 0
  /\ List!JoinGoing(u)
  /\ UNCHANGED <<teams, draft, round>>

\* After the session ended the teams stay.  The leaver is taken off theirs,
\* but for a promoted user put on the waitlist by saying "going" again ...
Leave(u) ==
  /\ List!LeaveGoing(u)
  /\ IF ended
     THEN /\ teamOf' \in {teamOf, [teamOf EXCEPT ![u] = 0]}
          /\ UNCHANGED <<setup, origin, draft, round>>
     ELSE ResetFormation

\* ... who gets off the team with their next answer.
ReleaseTeam(u) ==
  /\ ended
  /\ u \notin going
  /\ teamOf[u] # 0
  /\ teamOf' = [teamOf EXCEPT ![u] = 0]
  /\ UNCHANGED <<attendance, setup, origin, draft, round>>

StartReview(u) ==
  /\ List!StartReview(u)
  /\ UNCHANGED <<teams, draft, round>>

FinishReview(u) ==
  /\ List!FinishReview(u)
  /\ UNCHANGED <<teams, draft, round>>

\* UpdateAttendee writes the row as it was read, before u was on a team.
LateRejection(u) ==
  /\ List!LateRejection(u)
  /\ teamOf' = [teamOf EXCEPT ![u] = 0]
  /\ UNCHANGED <<setup, origin, draft, round>>

EndSession ==
  /\ List!EndList
  /\ draft' = EndedDraft
  /\ round' = EndedRound
  /\ UNCHANGED teams

(***************************************************************************)
(* By hand.                                                                *)
(***************************************************************************)

TeamsChangeable == ~ended

\* Faulty variant: teams can change after the session ended.
CreateTeamsAfterEnd(s) ==
  /\ ~DraftActive
  /\ FormTeams(<<>>, s, "manual")
  /\ round' = EndedRound
  /\ UNCHANGED <<attendance, draft>>

CreateTeams(s) ==
  /\ TeamsChangeable
  /\ ~DraftActive
  /\ FormTeams(<<>>, s, "manual")
  /\ round' = EndedRound
  /\ UNCHANGED <<attendance, draft>>

ResetTeams ==
  /\ TeamsChangeable
  /\ ResetFormation
  /\ UNCHANGED attendance

AssignAttendeeTeam(u, t) ==
  /\ TeamsChangeable
  /\ ~DraftActive
  /\ t \in 1 .. setup.count
  /\ u \in going
  /\ teamOf' = [teamOf EXCEPT ![u] = t]
  /\ UNCHANGED <<attendance, setup, origin, draft, round>>

UnassignAttendeeTeam(u) ==
  /\ TeamsChangeable
  /\ ~DraftActive
  /\ HasTeams
  /\ teamOf' = [teamOf EXCEPT ![u] = 0]
  /\ UNCHANGED <<attendance, setup, origin, draft, round>>

(***************************************************************************)
(* Captain drafts.                                                         *)
(***************************************************************************)

\* Faulty variant: a draft may start while people vote.
StartDraftDuringVote(captains, order, min) ==
  /\ TeamsChangeable
  /\ ~DraftActive
  /\ MayDraft(captains, min)
  /\ SaveDraft(NewTeamDraft(captains, order, min))
  /\ UNCHANGED <<attendance, round>>

StartDraft(captains, order, min) ==
  /\ TeamsChangeable
  /\ ~DraftActive
  /\ ~VotingOpen
  /\ MayDraft(captains, min)
  /\ SaveDraft(NewTeamDraft(captains, order, min))
  /\ UNCHANGED <<attendance, round>>

\* By the captain of the side whose turn it is, going or not.
Pick(u) ==
  /\ TeamsChangeable
  /\ DraftActive
  /\ u \in Available(draft)
  /\ SaveDraft(WithPick(draft, u))
  /\ UNCHANGED <<attendance, round>>

CancelDraft ==
  /\ DraftActive
  /\ draft' = EndedDraft
  /\ UNCHANGED <<attendance, teams, round>>

(***************************************************************************)
(* Proposals and votes.                                                    *)
(***************************************************************************)

ProposalsAllowed == origin # "draft"

MayPropose(author) ==
  TeamsChangeable /\ ~DraftActive /\ ProposalsAllowed /\ author \in going

\* The first proposal opens the round.
OpenTeamVoting(author, division) ==
  LET s == IF HasTeams THEN setup ELSE [count |-> Len(division), min |-> 1]
      r == [NoRound EXCEPT !.status = "open", !.setup = s, !.keep = HasTeams]
  IN /\ MayPropose(author)
     /\ ~VotingOpen
     /\ s.count \in 2 .. 8
     /\ Cardinality(going) >= s.count * s.min
     /\ NewDivision(r, division)
     /\ round' = WithProposal(r, author, division)
     /\ UNCHANGED <<attendance, teams, draft>>

Propose(author, division) ==
  /\ MayPropose(author)
  /\ VotingOpen
  /\ NewDivision(round, division)
  /\ round' = WithProposal(round, author, division)
  /\ UNCHANGED <<attendance, teams, draft>>

Vote(voter, option) ==
  /\ VotingOpen
  /\ voter \in going
  /\ option \in Options(round)
  /\ round' = WithVote(round, voter, option)
  /\ UNCHANGED <<attendance, teams, draft>>

RetractVote(voter) ==
  /\ VotingOpen
  /\ voter \in going \cap DOMAIN round.votes
  /\ round' = WithoutVotesOf(round, {voter})
  /\ UNCHANGED <<attendance, teams, draft>>

\* By its author, going or not.
WithdrawProposal(p) ==
  /\ VotingOpen
  /\ p \in round.proposals
  /\ round' = WithoutProposal(round, p)
  /\ UNCHANGED <<attendance, teams, draft>>

\* A manager closes the round, and decides among the tied options.
Close(option) ==
  /\ TeamsChangeable
  /\ VotingOpen
  /\ option \in MostVoted(round)
  /\ IF option = KeepCurrentTeams
     THEN UNCHANGED teams
     ELSE FormTeams(option.teams, round.setup, "vote")
  /\ round' = [NoRound EXCEPT !.status = "closed"]
  /\ UNCHANGED <<attendance, draft>>

Next ==
  \/ \E u \in Users :
       \/ Join(u) \/ Leave(u) \/ ReleaseTeam(u)
       \/ StartReview(u) \/ FinishReview(u) \/ LateRejection(u)
       \/ \E t \in 1 .. 8 : AssignAttendeeTeam(u, t)
       \/ UnassignAttendeeTeam(u)
       \/ Pick(u)
       \/ \E d \in Divisions : OpenTeamVoting(u, d) \/ Propose(u, d)
       \/ \E o \in Options(round) : Vote(u, o)
       \/ RetractVote(u)
  \/ \E s \in TeamSetups : CreateTeams(s)
  \/ ResetTeams
  \/ \E c \in CaptainPairs, o \in PickOrders, s \in TeamSetups : StartDraft(c, o, s.min)
  \/ CancelDraft
  \/ \E p \in round.proposals : WithdrawProposal(p)
  \/ \E o \in Options(round) : Close(o)
  \/ EndSession

Spec == Init /\ [][Next]_vars

-----------------------------------------------------------------------------
(***************************************************************************)
(* Properties.                                                             *)
(***************************************************************************)

Proposals == [author : Users, teams : Divisions]

\* Every variable has its type, and what has ended keeps nothing.
TypeOK ==
  /\ going \subseteq Users
  /\ doubtful \subseteq Requesters
  /\ ended \in BOOLEAN
  /\ setup \in [count : Nat, min : Nat \ {0}]
  /\ origin \in {"none", "manual", "draft", "vote"}
  /\ HasTeams <=> origin # "none"
  /\ teamOf \in [Users -> 0 .. setup.count]
  /\ draft.status \in {"none", "active", "completed", "cancelled"}
  /\ DraftActive \/ draft = [NoDraft EXCEPT !.status = draft.status]
  /\ DraftActive => /\ draft.captains \in CaptainPairs
                    /\ draft.order \in PickOrders
                    /\ draft.picks \subseteq [user : Users, side : {1, 2}]
  /\ round.status \in {"none", "open", "closed", "cancelled"}
  /\ VotingOpen \/ round = [NoRound EXCEPT !.status = round.status]
  /\ round.proposals \subseteq Proposals
  /\ DOMAIN round.votes \subseteq Users

\* Picking and voting exclude each other, and drafted teams are not put to a
\* vote (requireNoActiveDraft, requireNoOpenVoting, requireProposalsAllowed).
DraftOrVote ==
  /\ ~(DraftActive /\ VotingOpen)
  /\ VotingOpen => origin # "draft"

\* What a round was opened with stays true of the session until it closes:
\* whether there are teams to keep, how many, and how many players they need.
RoundMatchesTeams ==
  VotingOpen => /\ round.keep = HasTeams
                /\ HasTeams => round.setup = setup

\* Until the session is over only somebody going is on a team.
TeamsHoldGoing ==
  ~ended => \A u \in Users : teamOf[u] # 0 => u \in going

\* The captains stay level whatever the order of picks and whoever joins
\* during the draft: no side is ever more than one player ahead, nobody is
\* picked twice, and captains are not picked.
DraftIsFair ==
  DraftActive =>
    /\ Cardinality(Roster(draft, 1)) - Cardinality(Roster(draft, 2)) \in {-1, 0, 1}
    /\ Cardinality(Picked(draft)) = draft.turn
    /\ Captains(draft) \cap Picked(draft) = {}

\* When a draft completes everybody going is on a team, those included who
\* joined after it had started.
EverybodyDrafted ==
  [][draft'.status = "completed" /\ draft' # draft
       => \A u \in going' : teamOf'[u] # 0]_vars

Together(division, u, v) ==
  \E i \in DOMAIN division : {u, v} \subseteq division[i]

\* No two proposals of a round put the same players together, so votes cannot
\* split between two names for one division.
NoDuplicateProposals ==
  \A p, q \in round.proposals :
    p # q => \E u, v \in Users : Together(p.teams, u, v) # Together(q.teams, u, v)

\* Every vote is for something that can still win: withdrawing a proposal takes
\* its votes back, replacing the teams takes "keep the current teams" back.
VotesAreOnOffer ==
  \A v \in DOMAIN round.votes : round.votes[v] \in Options(round)

\* The three ways of forming teams leave one consistent state between them,
\* whichever commands and leavers interleave (team_formation.go).
FormationOK ==
  /\ TypeOK
  /\ DraftOrVote
  /\ RoundMatchesTeams
  /\ TeamsHoldGoing
  /\ NoDuplicateProposals
  /\ VotesAreOnOffer

\* The teams after a round are those of an option nobody outvoted: the ones
\* there were, or the winning proposal for everybody in it who is going.
Outcome(option) ==
  IF option = KeepCurrentTeams
  THEN UNCHANGED teams
  ELSE \A u \in Users, i \in DOMAIN option.teams :
         teamOf'[u] = i <=> u \in option.teams[i] \cap going

NobodyOutvoted ==
  [][VotingOpen /\ round'.status = "closed" =>
       \E o \in Options(round) :
         Outcome(o) /\ \A p \in Options(round) : VoteCount(round, p) <= VoteCount(round, o)]_vars

Stranded(u) == u \in Involved \ going

\* Nobody stops going and stays behind as a captain, a pick, a player of a
\* proposal or a voter - unless a rejection overtook the approval of their
\* request.  Joining, promotions and the order of commands do not matter.
OnlyLateRejectionStrands ==
  [][\A u \in Users : Stranded(u)' => Stranded(u) \/ u \in doubtful \ doubtful']_vars

\* Seen from attendance, every command is one step of GoingList: formation
\* restarts with each leaver, and changes no more once the session is over.
ImplementsGoingList == List!Spec
=============================================================================
