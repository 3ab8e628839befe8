----------------------------- MODULE GameEngine -----------------------------
(***************************************************************************)
(* The rules of an Avalon game, src/src/avalon/game-engine.ts: pure        *)
(* functions from a game state and a request to the next game state.       *)
(*                                                                         *)
(* Every engine function f becomes two operators.  CanF is the conjunction *)
(* of the checks at its top (the code throws when one fails) and F is the  *)
(* state it returns.  The operators have no state of their own:            *)
(* AvalonGame composes them into the game's state machine, AvalonService   *)
(* runs them inside the locked read-modify-write of the server.            *)
(*                                                                         *)
(* A player is named by its index in state.players; Stranger stands for    *)
(* any user id that is not in the game.                                    *)
(*                                                                         *)
(* A definition named Wrong... is a slip the code could have made; nothing *)
(* uses it, it stands beside the definition it would replace.              *)
(***************************************************************************)
EXTENDS Integers, Sequences, FiniteSets, Functions

CONSTANTS
  N,                  \* state.players.length
  Role,               \* the role of every player, players[i].role
  TwoFailsOnFourth    \* config.twoFailsRequiredOnFourthQuestForSevenPlus

Players  == 0 .. (N - 1)
Stranger == N

GoodRoles == {"Merlin", "Percival", "LoyalServant"}
EvilRoles == {"Assassin", "Morgana", "Mordred", "Oberon", "Minion"}

\* generateRoles accepts 5 to 10 players, gives every one of them a role of
\* one of the two factions, and at least three of them a good one.
ASSUME PlayerCountAssumption == N \in 5 .. 10
ASSUME RoleAssumption == Role \in [Players -> GoodRoles \cup EvilRoles]
ASSUME SomeGoodAssumption == \E p \in Players : Role[p] \in GoodRoles
ASSUME FlagAssumption == TwoFailsOnFourth \in BOOLEAN

Good == {p \in Players : Role[p] \in GoodRoles}
Evil == Players \ Good
HasAssassin == \E p \in Players : Role[p] = "Assassin"
-----------------------------------------------------------------------------
(* Quest tables. *)

LastRound    == 5
RoundsToWin  == 3
MaxRejected  == 5

QUEST_CONFIGS ==
  [n \in 5 .. 10 |-> CASE n = 5 -> <<2, 3, 2, 3, 3>>
                       [] n = 6 -> <<2, 3, 4, 3, 4>>
                       [] n = 7 -> <<2, 3, 3, 4, 4>>
                       [] OTHER -> <<3, 4, 4, 5, 5>>]

QuestTeamSize(round) == QUEST_CONFIGS[N][round]

WrongRequiredFailCount(round) ==
  IF N > 7 /\ round = 4 /\ TwoFailsOnFourth THEN 2 ELSE 1
RequiredFailCount(round) ==
  IF N >= 7 /\ round = 4 /\ TwoFailsOnFourth THEN 2 ELSE 1

WrongRotateLeader(leader) == leader + 1
RotateLeader(leader) == (leader + 1) % N
-----------------------------------------------------------------------------
(* The game state.  A missing entry of teamVotes or questActions, and the  *)
(* absence of winner or resultReason, is "none".                           *)

Phases  == {"role_reveal", "team_building", "team_voting", "quest_action",
            "assassination", "finished"}
Reasons == {"three_success_quests", "three_failed_quests",
            "merlin_assassinated", "assassination_failed",
            "five_rejected_teams"}

NoVotes == [p \in Players |-> "none"]
Cast(ballots) == {p \in Players : ballots[p] # "none"}
Count(ballots, kind) == Cardinality({p \in Players : ballots[p] = kind})

QuestResult ==
  [round : 1 .. LastRound, successCount : 0 .. N, failCount : 0 .. N,
   succeeded : BOOLEAN]

GameState ==
  [phase : Phases, leaderIndex : Players, round : 1 .. LastRound,
   rejectedTeamVoteCount : 0 .. MaxRejected,
   proposedTeam : Seq(Players),
   teamVotes : [Players -> {"approve", "reject", "none"}],
   questActions : [Players -> {"success", "fail", "none"}],
   questHistory : Seq(QuestResult),
   goodScore : 0 .. RoundsToWin, evilScore : 0 .. RoundsToWin,
   winner : {"good", "evil", "none"}, resultReason : Reasons \cup {"none"},
   assassinatedPlayerId : Players \cup {Stranger},
   host : Players, isConnected : [Players -> BOOLEAN]]

\* createInitialState picks the first leader at random; initializeGame marks
\* everybody connected and copies the room's host.
CreateInitialState(leader, host) ==
  [phase |-> "role_reveal", leaderIndex |-> leader, round |-> 1,
   rejectedTeamVoteCount |-> 0, proposedTeam |-> <<>>,
   teamVotes |-> NoVotes, questActions |-> NoVotes, questHistory |-> <<>>,
   goodScore |-> 0, evilScore |-> 0,
   winner |-> "none", resultReason |-> "none",
   assassinatedPlayerId |-> Stranger,
   host |-> host, isConnected |-> [p \in Players |-> TRUE]]

CanBeginGame(g, caller) == g.phase = "role_reveal" /\ caller = g.host
BeginGame(g) == [g EXCEPT !.phase = "team_building"]

WrongNoDuplicates(team) == TRUE
NoDuplicates(team) == IsInjective(team)

CanProposeTeam(g, caller, team) ==
  /\ g.phase = "team_building"
  /\ caller = g.leaderIndex
  /\ Len(team) = QuestTeamSize(g.round)
  /\ Range(team) \subseteq Players
  /\ NoDuplicates(team)
ProposeTeam(g, team) ==
  [g EXCEPT !.phase = "team_voting", !.proposedTeam = team,
            !.teamVotes = NoVotes]

WrongCanSubmitTeamVote(g, player) ==
  player \in Players /\ g.teamVotes[player] = "none"
CanSubmitTeamVote(g, player) ==
  /\ g.phase = "team_voting"
  /\ player \in Players
  /\ g.teamVotes[player] = "none"
SubmitTeamVote(g, player, vote) == [g EXCEPT !.teamVotes[player] = vote]

AllVoted(g) == Cast(g.teamVotes) = Players
WrongApproved(g) ==
  Count(g.teamVotes, "approve") >= Count(g.teamVotes, "reject")
Approved(g) == Count(g.teamVotes, "approve") > Count(g.teamVotes, "reject")

CanResolveTeamVote(g) == g.phase = "team_voting" /\ AllVoted(g)

WrongFinishRejected(g) ==
  [g EXCEPT !.phase = "finished", !.winner = "evil",
            !.resultReason = "five_rejected_teams"]
FinishRejected(g) ==
  [g EXCEPT !.phase = "finished",
            !.rejectedTeamVoteCount = g.rejectedTeamVoteCount + 1,
            !.winner = "evil", !.resultReason = "five_rejected_teams"]
StartQuest(g) ==
  [g EXCEPT !.phase = "quest_action", !.rejectedTeamVoteCount = 0,
            !.questActions = NoVotes]
WrongNextLeader(g) ==
  [g EXCEPT !.phase = "team_building",
            !.proposedTeam = <<>>, !.teamVotes = NoVotes,
            !.leaderIndex = RotateLeader(g.leaderIndex)]
NextLeader(g) ==
  [g EXCEPT !.phase = "team_building",
            !.rejectedTeamVoteCount = g.rejectedTeamVoteCount + 1,
            !.proposedTeam = <<>>, !.teamVotes = NoVotes,
            !.leaderIndex = RotateLeader(g.leaderIndex)]

WrongResolveTeamVote(g) ==
  IF Approved(g) THEN StartQuest(g)
  ELSE IF g.rejectedTeamVoteCount >= MaxRejected THEN FinishRejected(g)
  ELSE NextLeader(g)
ResolveTeamVote(g) ==
  IF Approved(g) THEN StartQuest(g)
  ELSE IF g.rejectedTeamVoteCount + 1 >= MaxRejected THEN FinishRejected(g)
  ELSE NextLeader(g)

\* A good player's fail ticket is refused.
CanSubmitQuestAction(g, player, action) ==
  /\ g.phase = "quest_action"
  /\ player \in Range(g.proposedTeam)
  /\ g.questActions[player] = "none"
  /\ player \in Players
  /\ ~ (player \in Good /\ action = "fail")
SubmitQuestAction(g, player, action) ==
  [g EXCEPT !.questActions[player] = action]

AllActed(g) == Cardinality(Cast(g.questActions)) >= Len(g.proposedTeam)

CanResolveQuest(g) == g.phase = "quest_action" /\ AllActed(g)

QuestSucceeds(g) ==
  Count(g.questActions, "fail") < RequiredFailCount(g.round)

ScoreQuest(g) ==
  LET succeeded == QuestSucceeds(g) IN
  [g EXCEPT !.goodScore = g.goodScore + (IF succeeded THEN 1 ELSE 0),
            !.evilScore = g.evilScore + (IF succeeded THEN 0 ELSE 1),
            !.questHistory = Append(g.questHistory,
               [round |-> g.round,
                successCount |-> Count(g.questActions, "success"),
                failCount |-> Count(g.questActions, "fail"),
                succeeded |-> succeeded])]

ClearTable(g) ==
  [g EXCEPT !.proposedTeam = <<>>, !.teamVotes = NoVotes,
            !.questActions = NoVotes,
            !.leaderIndex = RotateLeader(g.leaderIndex)]

Finish(g, winner, reason) ==
  [g EXCEPT !.phase = "finished", !.winner = winner, !.resultReason = reason]

\* A deciding quest does not advance the round: round 6 has no quest table.
WrongAfterQuest(s) ==
  IF s.goodScore >= RoundsToWin
    THEN [ClearTable(s) EXCEPT !.phase = "assassination"]
  ELSE IF s.evilScore >= RoundsToWin
    THEN Finish(s, "evil", "three_failed_quests")
  ELSE [ClearTable(s) EXCEPT !.phase = "team_building", !.round = s.round + 1]
WrongRound(s) ==
  IF s.goodScore >= RoundsToWin
    THEN [ClearTable(s) EXCEPT !.phase = "assassination"]
  ELSE IF s.evilScore >= RoundsToWin
    THEN Finish(s, "evil", "three_failed_quests")
  ELSE [ClearTable(s) EXCEPT !.phase = "team_building"]
AfterQuest(s) ==
  IF s.goodScore >= RoundsToWin
    THEN IF HasAssassin THEN [ClearTable(s) EXCEPT !.phase = "assassination"]
                        ELSE Finish(s, "good", "three_success_quests")
  ELSE IF s.evilScore >= RoundsToWin
    THEN Finish(s, "evil", "three_failed_quests")
  ELSE [ClearTable(s) EXCEPT !.phase = "team_building", !.round = s.round + 1]

WrongResolveQuest(g) == AfterQuest(ScoreQuest(ScoreQuest(g)))
ResolveQuest(g) == AfterQuest(ScoreQuest(g))

CanAssassinate(g, caller, target) ==
  /\ g.phase = "assassination"
  /\ caller \in Players /\ Role[caller] = "Assassin"
  /\ target \in Players
  /\ caller # target
  /\ target \notin Evil
Assassinate(g, target) ==
  LET hit == Role[target] = "Merlin" IN
  [Finish(g, IF hit THEN "evil" ELSE "good",
             IF hit THEN "merlin_assassinated" ELSE "assassination_failed")
     EXCEPT !.assassinatedPlayerId = target]

(* The three operations of AvalonService that edit the players of a game   *)
(* without the engine.                                                     *)
CanUpdateHost(g, player) == player \in Players
UpdateHost(g, player) == [g EXCEPT !.host = player]
MarkPlayer(g, player, online) ==
  IF player \in Players THEN [g EXCEPT !.isConnected[player] = online] ELSE g
=============================================================================
