--------------------------- MODULE MCAvalonService ---------------------------
(* Small instances of AvalonService: games started from the deal, and games *)
(* resumed just before the moments at which handlers race.                  *)
EXTENDS AvalonService, TLC

CONSTANTS h1, h2, p1, p2

FiveRoles == <<"Merlin", "Assassin", "LoyalServant", "Percival", "Morgana">>
MCRole    == [p \in Players |-> FiveRoles[p + 1]]

\* Both handlers in one process.
Together == [h \in Handlers |-> p1]
OneHome == {Together}
Symmetric == Permutations(Handlers)
\* Processes may be exchanged as well, whichever the handlers run in.
SymmetricHomes == Permutations(Handlers) \cup Permutations(Processes)
AllHomes == [Handlers -> Processes]

\* The third quest, the one that decides, has the last seat as its leader.
Dealt == CreateInitialState(2, 0)

RECURSIVE VoteAll(_, _, _)
VoteAll(g, ps, v) ==
  IF ps = {} THEN g
  ELSE LET p == CHOOSE p \in ps : TRUE
       IN VoteAll(SubmitTeamVote(g, p, v), ps \ {p}, v)

\* Three votes are in and two are missing, on the first attempt.
Voting == VoteAll(ProposeTeam(BeginGame(Dealt), <<0, 1>>), 0 .. 2, "approve")

RECURSIVE RejectTimes(_, _)
RejectTimes(g, n) ==
  IF n = 0 THEN g
  ELSE RejectTimes(ResolveTeamVote(VoteAll(ProposeTeam(g, <<0, 1>>), Players,
                                           "reject")), n - 1)

\* Four teams have been rejected and the fifth is about to be.
FifthVoting == VoteAll(ProposeTeam(RejectTimes(BeginGame(Dealt), 4), <<0, 1>>),
                       0 .. 2, "reject")

Questing == ResolveTeamVote(VoteAll(Voting, 3 .. 4, "approve"))

Quest(g, team) ==
  LET h == ResolveTeamVote(VoteAll(ProposeTeam(g, team), Players, "approve"))
      acts == [p \in Players |-> IF \E i \in DOMAIN team : team[i] = p
                                 THEN "success" ELSE "none"]
  IN [h EXCEPT !.questActions = acts]

\* Good has won two quests and waits for the last ticket of the third.
Won2 == ResolveQuest(Quest(ResolveQuest(Quest(BeginGame(Dealt), <<0, 1>>)),
                           <<0, 1, 2>>))
ThirdQuest == [Quest(Won2, <<0, 1>>) EXCEPT !.questActions[1] = "none"]

RaceStarts == {FifthVoting, Questing, ThirdQuest}
LastStarts == {Voting, ThirdQuest}
DealtStarts == {Dealt}

LastVotes == [p \in Players |-> IF p = 3 THEN {"approve"}
                                ELSE IF p = 4 THEN {"reject"} ELSE {}]
LastTickets == [p \in Players |-> IF p < 2 THEN {"success"} ELSE {}]
AllApprove == [p \in Players |-> {"approve"}]
RaceVotes == [p \in Players |-> IF p = 3 THEN {"reject"}
                                ELSE IF p = 4 THEN {"approve", "reject"}
                                ELSE {}]
TeamTickets == [p \in Players |-> IF p = 0 THEN {"success"}
                                  ELSE IF p = 1 THEN {"success", "fail"}
                                  ELSE {}]
NoInput == [p \in Players |-> {}]
HitAndMiss == {<<1, 0>>, <<1, 2>>}
OneProposal == {<<0, 1>>}
=============================================================================
