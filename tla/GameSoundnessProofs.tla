------------------------ MODULE GameSoundnessProofs ------------------------
(***************************************************************************)
(* Lemmas about the engine, for every number of players and every deal: a  *)
(* function of the engine, applied to a sound state it accepts, returns a  *)
(* sound state.  They speak of states, not of steps, so that the proofs    *)
(* about the abstract game and about the server's stored copy of it can    *)
(* both cite them.                                                         *)
(*                                                                         *)
(* The type alone is not kept: round, scores and rejections are bounded    *)
(* only because a deciding quest or a fifth rejection ends the game, which *)
(* Stands says.  The ledger needs that a team keeps the size and the       *)
(* distinctness it was proposed with until its quest is closed, and that   *)
(* the tickets on the table are its members'.                              *)
(***************************************************************************)
EXTENDS GameSoundness, FiniteSetTheorems, TLAPS

-----------------------------------------------------------------------------
(* Facts about the helpers. *)

\* There are N players; a faction, or the players of one vote, are finitely
\* many and no more than N (the counters of resolveTeamVote and resolveQuest).
LEMMA PlayersFinite ==
  /\ IsFiniteSet(Players) /\ Cardinality(Players) = N
  /\ \A S \in SUBSET Players : IsFiniteSet(S) /\ Cardinality(S) \in 0 .. N
<1> N \in Nat /\ N >= 5 /\ 0 <= N - 1
  BY PlayerCountAssumption
<1>1. IsFiniteSet(Players) /\ Cardinality(Players) = N
  BY FS_Interval, PlayerCountAssumption DEF Players
<1>2. ASSUME NEW S \in SUBSET Players
      PROVE  IsFiniteSet(S) /\ Cardinality(S) \in 0 .. N
  <2>1. IsFiniteSet(S) /\ Cardinality(S) <= N
    BY <1>1, FS_Subset
  <2>2. QED BY <2>1, FS_CardinalityType
<1>3. QED BY <1>1, <1>2

\* No count of votes or tickets exceeds the number of players.
LEMMA CountBound ==
  ASSUME NEW ballots, NEW kind
  PROVE  Count(ballots, kind) \in 0 .. N
<1>1. {p \in Players : ballots[p] = kind} \in SUBSET Players
  OBVIOUS
<1>2. QED BY <1>1, PlayersFinite DEF Count

\* Every round that is played has a quest table.
LEMMA TeamSizeBound ==
  ASSUME NEW round \in 1 .. LastRound
  PROVE  QuestTeamSize(round) \in 2 .. 5
BY PlayerCountAssumption, SMTT(60) DEF QuestTeamSize, QUEST_CONFIGS, LastRound

\* rotateLeaderIndex stays within the players.
LEMMA RotateType ==
  ASSUME NEW leader \in Players
  PROVE  RotateLeader(leader) \in Players
BY PlayerCountAssumption DEF Players, RotateLeader

\* An empty ballot is a legal table of votes and of tickets.
LEMMA NoVotesType ==
  /\ NoVotes \in [Players -> {"approve", "reject", "none"}]
  /\ NoVotes \in [Players -> {"success", "fail", "none"}]
BY DEF NoVotes
USE DEF LastRound, RoundsToWin, MaxRejected

-----------------------------------------------------------------------------
(* The states the engine returns are game states. *)

\* proposeTeam returns a game state.
LEMMA ProposeType ==
  ASSUME NEW g \in GameState, NEW team \in Seq(Players)
  PROVE  ProposeTeam(g, team) \in GameState
BY NoVotesType DEF GameState, ProposeTeam, Phases

\* The values the engine writes into those fields.
LEMMA FieldValues ==
  /\ Phases = {"role_reveal", "team_building", "team_voting", "quest_action",
               "assassination", "finished"}
  /\ "five_rejected_teams" \in Reasons \cup {"none"}
  /\ <<>> \in Seq(Players)
  /\ 0 \in 0 .. MaxRejected
  /\ \A g \in GameState :
       /\ g.leaderIndex \in Players
       /\ g.rejectedTeamVoteCount < MaxRejected =>
            g.rejectedTeamVoteCount + 1 \in 0 .. MaxRejected
BY DEF Phases, Reasons, GameState

\* So does an approved vote, which clears the rejections and the tickets,
LEMMA StartQuestType ==
  ASSUME NEW g \in GameState PROVE StartQuest(g) \in GameState
<1> DEFINE acts == NoVotes
           rejected == 0
<1>1. acts \in [Players -> {"success", "fail", "none"}]
      /\ rejected \in 0 .. MaxRejected /\ "quest_action" \in Phases
  BY NoVotesType, FieldValues
<1>2. StartQuest(g) = [g EXCEPT !.phase = "quest_action",
                                !.rejectedTeamVoteCount = rejected,
                                !.questActions = acts]
  BY DEF StartQuest
<1> HIDE DEF acts, rejected
<1>3. QED BY <1>1, <1>2 DEF GameState

\* the writes of those fields two or three at a time,
LEMMA PhaseRejectedType ==
  ASSUME NEW g \in GameState, NEW phase \in Phases,
         NEW rejected \in 0 .. MaxRejected
  PROVE  [g EXCEPT !.phase = phase, !.rejectedTeamVoteCount = rejected]
           \in GameState
BY DEF GameState

LEMMA WinnerReasonType ==
  ASSUME NEW g \in GameState, NEW winner \in {"good", "evil", "none"},
         NEW reason \in Reasons \cup {"none"}
  PROVE  [g EXCEPT !.winner = winner, !.resultReason = reason] \in GameState
BY DEF GameState

LEMMA TableType ==
  ASSUME NEW g \in GameState, NEW team \in Seq(Players),
         NEW leader \in Players,
         NEW votes \in [Players -> {"approve", "reject", "none"}]
  PROVE  [g EXCEPT !.proposedTeam = team, !.teamVotes = votes,
                   !.leaderIndex = leader] \in GameState
BY DEF GameState

\* the last rejection, as long as one was still to come,
LEMMA FinishRejectedType ==
  ASSUME NEW g \in GameState, g.rejectedTeamVoteCount < MaxRejected
  PROVE  FinishRejected(g) \in GameState
<1> DEFINE rejected == g.rejectedTeamVoteCount + 1
           last == [g EXCEPT !.phase = "finished",
                             !.rejectedTeamVoteCount = rejected]
<1>1. rejected \in 0 .. MaxRejected /\ "finished" \in Phases
      /\ "five_rejected_teams" \in Reasons
  BY FieldValues DEF Reasons
<1>2. last \in GameState
  BY <1>1, PhaseRejectedType
<1>3. FinishRejected(g) = [last EXCEPT !.winner = "evil",
                                       !.resultReason = "five_rejected_teams"]
  BY DEF FinishRejected, GameState
<1> HIDE DEF last
<1>4. [last EXCEPT !.winner = "evil", !.resultReason = "five_rejected_teams"]
        \in GameState
  BY <1>1, <1>2, WinnerReasonType
<1>5. QED BY <1>3, <1>4

\* a rejection that passes the lead on,
LEMMA NextLeaderType ==
  ASSUME NEW g \in GameState, g.rejectedTeamVoteCount < MaxRejected
  PROVE  NextLeader(g) \in GameState
<1> DEFINE rejected == g.rejectedTeamVoteCount + 1
           leader == RotateLeader(g.leaderIndex)
           next == [g EXCEPT !.phase = "team_building",
                             !.rejectedTeamVoteCount = rejected]
<1>1. rejected \in 0 .. MaxRejected /\ "team_building" \in Phases
      /\ leader \in Players /\ <<>> \in Seq(Players)
      /\ NoVotes \in [Players -> {"approve", "reject", "none"}]
  BY FieldValues, NoVotesType, RotateType
<1>2. next \in GameState
  BY <1>1, PhaseRejectedType
<1>3. NextLeader(g) = [next EXCEPT !.proposedTeam = <<>>,
                                   !.teamVotes = NoVotes,
                                   !.leaderIndex = leader]
  BY DEF NextLeader, GameState
<1> HIDE DEF next, leader
<1>4. [next EXCEPT !.proposedTeam = <<>>, !.teamVotes = NoVotes,
                   !.leaderIndex = leader] \in GameState
  BY <1>1, <1>2, TableType
<1>5. QED BY <1>3, <1>4

\* the clearing of the table after a quest,
LEMMA ClearTableType ==
  ASSUME NEW g \in GameState PROVE ClearTable(g) \in GameState
<1> DEFINE leader == RotateLeader(g.leaderIndex)
           votes == NoVotes
           team == <<>>
<1>1. leader \in Players /\ team \in Seq(Players)
      /\ votes \in [Players -> {"approve", "reject", "none"}]
      /\ votes \in [Players -> {"success", "fail", "none"}]
  BY FieldValues, NoVotesType, RotateType
<1>2. ClearTable(g) = [g EXCEPT !.proposedTeam = team, !.teamVotes = votes,
                                !.questActions = votes, !.leaderIndex = leader]
  BY DEF ClearTable
<1> HIDE DEF leader, votes, team
<1>3. QED BY <1>1, <1>2 DEF GameState

\* the end of a game,
LEMMA FinishType ==
  ASSUME NEW g \in GameState, NEW winner \in {"good", "evil"},
         NEW reason \in Reasons
  PROVE  Finish(g, winner, reason) \in GameState
BY DEF GameState, Finish, Phases

\* one more vote, one more ticket,
LEMMA BallotType ==
  ASSUME NEW g \in GameState, NEW p \in Players,
         NEW v \in {"approve", "reject"}, NEW a \in {"success", "fail"}
  PROVE  /\ SubmitTeamVote(g, p, v) \in GameState
         /\ SubmitQuestAction(g, p, a) \in GameState
<1> DEFINE votes == [g.teamVotes EXCEPT ![p] = v]
           acts == [g.questActions EXCEPT ![p] = a]
<1>1. /\ votes \in [Players -> {"approve", "reject", "none"}]
      /\ acts \in [Players -> {"success", "fail", "none"}]
  BY DEF GameState
<1>2. /\ SubmitTeamVote(g, p, v) = [g EXCEPT !.teamVotes = votes]
      /\ SubmitQuestAction(g, p, a) = [g EXCEPT !.questActions = acts]
  BY DEF SubmitTeamVote, SubmitQuestAction
<1> HIDE DEF votes, acts
<1>3. /\ [g EXCEPT !.teamVotes = votes] \in GameState
      /\ [g EXCEPT !.questActions = acts] \in GameState
  BY <1>1 DEF GameState
<1> QED BY <1>2, <1>3

\* a change of phase,
LEMMA PhaseType ==
  ASSUME NEW g \in GameState, NEW phase \in Phases
  PROVE  [g EXCEPT !.phase = phase] \in GameState
BY DEF GameState

\* and the step to another round.
LEMMA PhaseRoundType ==
  ASSUME NEW g \in GameState, NEW phase \in Phases,
         NEW round \in 1 .. LastRound
  PROVE  [g EXCEPT !.phase = phase, !.round = round] \in GameState
BY DEF GameState

-----------------------------------------------------------------------------
(* Type, standing and verdict.  The functions that only edit one field     *)
(* come first, the two resolutions after them.                             *)

\* The deal: round one, no points, no verdict (createInitialState).
LEMMA DealCore ==
  ASSUME NEW leader \in Players, NEW host \in Players, NEW n,
         n = CreateInitialState(leader, host)
  PROVE  Core(n)
<1>1. n \in GameState
  BY NoVotesType, PlayerCountAssumption
  DEF GameState, CreateInitialState, Phases, Stranger, Players
<1>2. Stands(n)
  BY DEF Stands, CreateInitialState
<1>3. Justified(n)
  BY DEF Justified, CreateInitialState
<1> QED BY <1>1, <1>2, <1>3 DEF Core

\* beginGame changes nothing but the phase.
LEMMA BeginCore ==
  ASSUME NEW g, Core(g), g.phase = "role_reveal", NEW n, n = BeginGame(g)
  PROVE  Core(n)
<1> USE DEF Core
<1>1. n = [g EXCEPT !.phase = "team_building"]
  BY DEF BeginGame
<1>2. n \in GameState
  BY <1>1 DEF GameState, Phases
<1>3. Stands(n)
  BY <1>1 DEF Stands, GameState
<1>4. Justified(n)
  BY <1>1 DEF Justified, GameState
<1> QED BY <1>2, <1>3, <1>4

\* A proposed team leaves scores, round and verdict alone.
LEMMA ProposeCore ==
  ASSUME NEW g, Core(g), g.phase = "team_building", NEW team \in Seq(Players),
         NEW n, n = ProposeTeam(g, team)
  PROVE  Core(n)
<1> USE DEF Core
<1>1. n = [g EXCEPT !.phase = "team_voting", !.proposedTeam = team,
                    !.teamVotes = NoVotes]
  BY DEF ProposeTeam
<1>2. n \in GameState
  BY ProposeType
<1>3. Stands(n)
  BY <1>1 DEF Stands, GameState
<1>4. Justified(n)
  BY <1>1 DEF Justified, GameState
<1> QED BY <1>2, <1>3, <1>4

\* So does a vote,
LEMMA VoteCore ==
  ASSUME NEW g, Core(g), g.phase = "team_voting", NEW p \in Players,
         NEW v \in {"approve", "reject"}, NEW n, n = SubmitTeamVote(g, p, v)
  PROVE  Core(n)
<1> USE DEF Core
<1>1. n = [g EXCEPT !.teamVotes[p] = v]
  BY DEF SubmitTeamVote
<1>2. n \in GameState
  BY BallotType
<1>3. Stands(n)
  BY <1>1 DEF Stands, GameState
<1>4. Justified(n)
  BY <1>1 DEF Justified, GameState
<1> QED BY <1>2, <1>3, <1>4

\* and so does a quest ticket.
LEMMA ActCore ==
  ASSUME NEW g, Core(g), g.phase = "quest_action", NEW p \in Players,
         NEW a \in {"success", "fail"}, NEW n, n = SubmitQuestAction(g, p, a)
  PROVE  Core(n)
<1> USE DEF Core
<1>1. n = [g EXCEPT !.questActions[p] = a]
  BY DEF SubmitQuestAction
<1>2. n \in GameState
  BY BallotType
<1>3. Stands(n)
  BY <1>1 DEF Stands, GameState
<1>4. Justified(n)
  BY <1>1 DEF Justified, GameState
<1> QED BY <1>2, <1>3, <1>4

\* assassinate writes the verdict that the target's role justifies.
LEMMA KillCore ==
  ASSUME NEW g, Core(g), g.phase = "assassination", NEW target \in Good,
         NEW n, n = Assassinate(g, target)
  PROVE  Core(n)
<1> USE DEF Core
<1>1. target \in Players
  BY DEF Good
<1>2. n \in GameState
  BY <1>1 DEF GameState, Assassinate, Finish, Phases, Reasons
<1>3. Stands(n)
  BY DEF Stands, GameState, Assassinate, Finish
<1>4. Justified(n)
  BY <1>1 DEF Justified, Stands, GameState, Assassinate, Finish
<1> QED BY <1>2, <1>3, <1>4

\* A handover or a lost socket edits the player list and nothing else.
LEMMA PlayersCore ==
  ASSUME NEW g, Core(g), NEW host \in Players,
         NEW online \in [Players -> BOOLEAN],
         NEW n, n = [g EXCEPT !.host = host, !.isConnected = online]
  PROVE  Core(n)
<1> USE DEF Core
<1>1. n \in GameState
  BY DEF GameState
<1>2. Stands(n)
  BY DEF Stands, GameState
<1>3. Justified(n)
  BY DEF Justified, GameState, AllVoted, Approved
<1> QED BY <1>1, <1>2, <1>3

\* resolveTeamVote: approved, rejected, or rejected for the fifth time.
LEMMA CloseVoteCore ==
  ASSUME NEW g, Core(g), CanResolveTeamVote(g), NEW n, n = ResolveTeamVote(g)
  PROVE  Core(n)
<1> USE DEF Core
<1>1. g.phase = "team_voting" /\ AllVoted(g)
  BY DEF CanResolveTeamVote
<1>2. CASE Approved(g)
  <2>1. n = StartQuest(g)
    BY <1>2 DEF ResolveTeamVote
  <2>2. n \in GameState
    BY <2>1, StartQuestType
  <2>3. Stands(n)
    BY <1>1, <2>1 DEF Stands, GameState, StartQuest
  <2>4. Justified(n)
    BY <1>1, <2>1 DEF Justified, GameState, StartQuest
  <2>5. QED BY <2>2, <2>3, <2>4
<1>3. CASE ~ Approved(g) /\ g.rejectedTeamVoteCount + 1 >= MaxRejected
  <2>1. n = FinishRejected(g)
    BY <1>3 DEF ResolveTeamVote
  <2>2. g.rejectedTeamVoteCount + 1 = MaxRejected
    BY <1>1, <1>3 DEF Stands, GameState
  <2>3. n \in GameState
    BY <2>1, <2>2, FinishRejectedType DEF GameState
  <2>4. Stands(n)
    BY <1>1, <2>1 DEF Stands, GameState, FinishRejected
  <2>5. Justified(n)
    BY <1>1, <1>3, <2>1, <2>2
    DEF Justified, Stands, GameState, FinishRejected,
        AllVoted, Approved
  <2>6. QED BY <2>3, <2>4, <2>5
<1>4. CASE /\ ~ Approved(g)
           /\ ~ (g.rejectedTeamVoteCount + 1 >= MaxRejected)
  <2>1. n = NextLeader(g)
    BY <1>4 DEF ResolveTeamVote
  <2>2. n \in GameState
    BY <1>4, <2>1, NextLeaderType DEF GameState
  <2>3. Stands(n)
    BY <1>1, <1>4, <2>1 DEF Stands, GameState, NextLeader
  <2>4. Justified(n)
    BY <1>1, <2>1 DEF Justified, GameState, NextLeader
  <2>5. QED BY <2>2, <2>3, <2>4
<1>5. QED BY <1>2, <1>3, <1>4

\* The scored state of a quest, before the deciding branches look at it.
LEMMA ScoreFacts ==
  ASSUME NEW g, Core(g), g.phase = "quest_action", NEW s, s = ScoreQuest(g)
  PROVE  /\ s \in GameState
         /\ s.phase = "quest_action"
         /\ s.winner = "none" /\ s.resultReason = "none"
         /\ s.rejectedTeamVoteCount = 0
         /\ s.round = g.round
         /\ s.goodScore + s.evilScore = s.round
         /\ s.goodScore < RoundsToWin \/ s.evilScore < RoundsToWin
<1> USE DEF Core
<1>1. /\ g \in GameState /\ g.winner = "none"
      /\ g.resultReason = "none" /\ g.rejectedTeamVoteCount = 0
      /\ g.goodScore < RoundsToWin /\ g.evilScore < RoundsToWin
      /\ g.round = g.goodScore + g.evilScore + 1
  BY DEF Stands, Justified
<1> DEFINE item == [round |-> g.round,
                    successCount |-> Count(g.questActions, "success"),
                    failCount |-> Count(g.questActions, "fail"),
                    succeeded |-> QuestSucceeds(g)]
<1>2. item \in QuestResult
  BY <1>1, CountBound DEF GameState, QuestResult, QuestSucceeds
<1> DEFINE history == Append(g.questHistory, item)
           good == g.goodScore + (IF QuestSucceeds(g) THEN 1 ELSE 0)
           evil == g.evilScore + (IF QuestSucceeds(g) THEN 0 ELSE 1)
<1>3. history \in Seq(QuestResult)
  BY <1>1, <1>2 DEF GameState
<1>4. s = [g EXCEPT !.goodScore = good, !.evilScore = evil,
                    !.questHistory = history]
  BY DEF ScoreQuest
<1> HIDE DEF item, history
<1>5. good \in 0 .. RoundsToWin /\ evil \in 0 .. RoundsToWin
      /\ good + evil = g.round
      /\ (good < RoundsToWin \/ evil < RoundsToWin)
  BY <1>1 DEF GameState
<1> HIDE DEF good, evil
<1>6. s \in GameState
  <2>1. [g EXCEPT !.goodScore = good, !.evilScore = evil,
                     !.questHistory = history] \in GameState
    BY <1>1, <1>3, <1>5 DEF GameState
  <2>2. QED BY <1>4, <2>1
<1>7. s.goodScore = good /\ s.evilScore = evil
  BY <1>1, <1>4 DEF GameState
<1>8. s.phase = g.phase /\ s.winner = g.winner
      /\ s.resultReason = g.resultReason /\ s.round = g.round
      /\ s.rejectedTeamVoteCount = g.rejectedTeamVoteCount
  BY <1>1, <1>4 DEF GameState
<1>9. s.phase = "quest_action" /\ s.winner = "none"
      /\ s.resultReason = "none" /\ s.rejectedTeamVoteCount = 0
  BY <1>1, <1>8
<1>10. QED BY <1>5, <1>6, <1>7, <1>8, <1>9

\* resolveQuest: the deciding quest ends the rounds, another one leads to the
\* next, which has a table because neither side has three points.
LEMMA CloseQuestCore ==
  ASSUME NEW g, Core(g), CanResolveQuest(g), NEW n, n = ResolveQuest(g)
  PROVE  Core(n)
<1> DEFINE s == ScoreQuest(g)
<1>1. g.phase = "quest_action" /\ n = AfterQuest(s)
  BY DEF CanResolveQuest, ResolveQuest
<1>2. /\ s \in GameState
      /\ s.phase = "quest_action"
      /\ s.winner = "none" /\ s.resultReason = "none"
      /\ s.rejectedTeamVoteCount = 0
      /\ s.goodScore + s.evilScore = s.round
      /\ s.goodScore < RoundsToWin \/ s.evilScore < RoundsToWin
  BY <1>1, ScoreFacts
<1> HIDE DEF s
<1> USE DEF Core
<1>3. CASE s.goodScore >= RoundsToWin /\ HasAssassin
  <2>1. n = [ClearTable(s) EXCEPT !.phase = "assassination"]
    BY <1>1, <1>3 DEF AfterQuest
  <2>2. n \in GameState
    BY <1>2, <2>1, ClearTableType, PhaseType DEF Phases
  <2>3. Stands(n)
    BY <1>2, <1>3, <2>1 DEF Stands, GameState, ClearTable
  <2>4. Justified(n)
    BY <1>2, <2>1 DEF Justified, GameState, ClearTable
  <2>5. QED BY <2>2, <2>3, <2>4
<1>4. CASE s.goodScore >= RoundsToWin /\ ~ HasAssassin
  <2>1. n = Finish(s, "good", "three_success_quests")
    BY <1>1, <1>4 DEF AfterQuest
  <2>2. n \in GameState
    BY <1>2, <2>1, FinishType DEF Reasons
  <2>3. Stands(n)
    BY <1>2, <2>1 DEF Stands, GameState, Finish
  <2>4. Justified(n)
    BY <1>2, <1>4, <2>1 DEF Justified, GameState, Finish
  <2>5. QED BY <2>2, <2>3, <2>4
<1>5. CASE ~ (s.goodScore >= RoundsToWin) /\ s.evilScore >= RoundsToWin
  <2>1. n = Finish(s, "evil", "three_failed_quests")
    BY <1>1, <1>5 DEF AfterQuest
  <2>2. n \in GameState
    BY <1>2, <2>1, FinishType DEF Reasons
  <2>3. Stands(n)
    BY <1>2, <2>1 DEF Stands, GameState, Finish
  <2>4. Justified(n)
    BY <1>2, <1>5, <2>1 DEF Justified, GameState, Finish
  <2>5. QED BY <2>2, <2>3, <2>4
<1>6. CASE ~ (s.goodScore >= RoundsToWin) /\ ~ (s.evilScore >= RoundsToWin)
  <2>1. n = [ClearTable(s) EXCEPT !.phase = "team_building",
                                      !.round = s.round + 1]
    BY <1>1, <1>6 DEF AfterQuest
  <2>2. s.round + 1 \in 1 .. LastRound
    BY <1>2, <1>6 DEF GameState
  <2>3. n \in GameState
    <3> DEFINE cleared == ClearTable(s)
               round == s.round + 1
    <3>1. cleared \in GameState /\ round \in 1 .. LastRound
          /\ "team_building" \in Phases
      BY <1>2, <2>2, ClearTableType DEF Phases
    <3>2. n = [cleared EXCEPT !.phase = "team_building", !.round = round]
      BY <2>1
    <3> HIDE DEF cleared, round
    <3>3. [cleared EXCEPT !.phase = "team_building", !.round = round]
            \in GameState
      BY <3>1, PhaseRoundType
    <3> QED BY <3>2, <3>3
  <2>4. Stands(n)
    BY <1>2, <1>6, <2>1 DEF Stands, GameState, ClearTable
  <2>5. Justified(n)
    BY <1>2, <2>1 DEF Justified, GameState, ClearTable
  <2>6. QED BY <2>3, <2>4, <2>5
<1>7. QED BY <1>3, <1>4, <1>5, <1>6
-----------------------------------------------------------------------------
(* Counting. *)

\* A team without repetitions has as many members as places.
LEMMA TeamCount ==
  ASSUME NEW team \in Seq(Players), IsInjective(team)
  PROVE  /\ Range(team) \subseteq Players
         /\ Cardinality(Range(team)) = Len(team)
<1>1. /\ Len(team) \in Nat /\ DOMAIN team = 1 .. Len(team)
      /\ team \in [1 .. Len(team) -> Players]
  OBVIOUS
<1>2. Range(team) \subseteq Players
  BY <1>1 DEF Range
<1>3. team \in Injection(1 .. Len(team), Range(team))
  BY <1>1 DEF Injection, Range
<1>4. team \in Surjection(1 .. Len(team), Range(team))
  BY <1>1 DEF Surjection, Range
<1>5. Cardinality(1 .. Len(team)) = Cardinality(Range(team))
  <2>1. IsFiniteSet(Range(team))
    BY <1>2, PlayersFinite
  <2> QED
    BY <1>3, <1>4, <2>1, FS_Injection
<1>6. Cardinality(1 .. Len(team)) = Len(team)
  BY <1>1, FS_Interval
<1> QED
  BY <1>2, <1>5, <1>6

\* Two kinds of ballots account for all that were cast.
LEMMA CountTwo ==
  ASSUME NEW a, NEW b, a # b, a # "none", b # "none",
         NEW ballots \in [Players -> {a, b, "none"}]
  PROVE  Count(ballots, a) + Count(ballots, b) = Cardinality(Cast(ballots))
<1> DEFINE A == {p \in Players : ballots[p] = a}
           B == {p \in Players : ballots[p] = b}
<1>1. Cast(ballots) = A \cup B /\ A \cap B = {}
  BY DEF Cast
<1>2. /\ IsFiniteSet(A) /\ Cardinality(A) \in Nat
      /\ IsFiniteSet(B) /\ Cardinality(B) \in Nat
  BY PlayersFinite
<1>3. Cardinality(A \cup B) =
        Cardinality(A) + Cardinality(B) - Cardinality(A \cap B)
  BY <1>2, FS_Union
<1>4. Cardinality(A \cap B) = 0
  BY <1>1, FS_EmptySet
<1> QED
  BY <1>1, <1>2, <1>3, <1>4 DEF Count

\* The tickets of a closed quest: one of every member, and no more fails than
\* there are evil players.
LEMMA Tally ==
  ASSUME NEW g \in GameState, TeamKept(g), TicketsKept(g),
         g.phase = "quest_action", AllActed(g)
  PROVE  /\ Count(g.questActions, "success")
              + Count(g.questActions, "fail") = QuestTeamSize(g.round)
         /\ Count(g.questActions, "fail") <= Cardinality(Evil)
<1> DEFINE team == g.proposedTeam
           acts == g.questActions
<1>1. /\ team \in Seq(Players)
      /\ acts \in [Players -> {"success", "fail", "none"}]
      /\ IsInjective(team) /\ Len(team) = QuestTeamSize(g.round)
  BY DEF GameState, TeamKept
<1>2. Cast(acts) \subseteq Range(team)
  BY DEF TicketsKept, Cast
<1>3. /\ Range(team) \subseteq Players /\ Cardinality(Range(team)) = Len(team)
      /\ IsFiniteSet(Range(team)) /\ Cardinality(Range(team)) \in Nat
  BY <1>1, TeamCount, PlayersFinite
<1>4. Cardinality(Cast(acts)) = Len(team)
  <2>1. Cardinality(Cast(acts)) <= Cardinality(Range(team))
    BY <1>2, <1>3, FS_Subset
  <2>2. Cardinality(Cast(acts)) \in Nat
    BY <1>2, <1>3, PlayersFinite
  <2> QED
    BY <1>3, <2>1, <2>2 DEF AllActed
<1>5. Count(acts, "success") + Count(acts, "fail") = QuestTeamSize(g.round)
  BY <1>1, <1>4, CountTwo
<1>6. {p \in Players : acts[p] = "fail"} \subseteq Evil
  BY DEF TicketsKept
<1>7. IsFiniteSet(Evil)
  BY PlayersFinite DEF Evil
<1>8. Count(acts, "fail") <= Cardinality(Evil)
  BY <1>6, <1>7, FS_Subset DEF Count
<1> QED
  BY <1>5, <1>8

\* The two totals of a history add up to its length,
LEMMA HistoryTotals ==
  ASSUME NEW h \in Seq(QuestResult)
  PROVE  /\ Cardinality(Succeeded(h)) \in Nat
         /\ Cardinality(Failed(h)) \in Nat
         /\ Cardinality(Succeeded(h)) + Cardinality(Failed(h)) = Len(h)
         /\ IsFiniteSet(Succeeded(h)) /\ IsFiniteSet(Failed(h))
<1>1. DOMAIN h = 1 .. Len(h) /\ Len(h) \in Nat
  OBVIOUS
<1>2. IsFiniteSet(DOMAIN h) /\ Cardinality(DOMAIN h) = Len(h)
  BY <1>1, FS_Interval
<1>3. /\ Succeeded(h) \cup Failed(h) = DOMAIN h
      /\ Succeeded(h) \cap Failed(h) = {}
      /\ Succeeded(h) \subseteq DOMAIN h /\ Failed(h) \subseteq DOMAIN h
  BY DEF Succeeded, Failed
<1>4. /\ IsFiniteSet(Succeeded(h)) /\ IsFiniteSet(Failed(h))
      /\ Cardinality(Succeeded(h)) \in Nat /\ Cardinality(Failed(h)) \in Nat
  BY <1>2, <1>3, FS_Subset, FS_CardinalityType
<1>5. Cardinality(Succeeded(h) \cup Failed(h)) =
        Cardinality(Succeeded(h)) + Cardinality(Failed(h))
          - Cardinality(Succeeded(h) \cap Failed(h))
  BY <1>4, FS_Union
<1>6. Cardinality(Succeeded(h) \cap Failed(h)) = 0
  BY <1>3, FS_EmptySet
<1>7. Cardinality(Succeeded(h)) + Cardinality(Failed(h)) = Len(h)
  BY <1>2, <1>3, <1>4, <1>5, <1>6
<1> QED
  BY <1>4, <1>7

\* and an entry more counts on one side.
LEMMA HistoryAppend ==
  ASSUME NEW h \in Seq(QuestResult), NEW e \in QuestResult
  PROVE  /\ Cardinality(Succeeded(Append(h, e))) =
              Cardinality(Succeeded(h)) + (IF e.succeeded THEN 1 ELSE 0)
         /\ Cardinality(Failed(Append(h, e))) =
              Cardinality(Failed(h)) + (IF e.succeeded THEN 0 ELSE 1)
<1> DEFINE n == Len(h) + 1
           k == Append(h, e)
<1>1. /\ Len(h) \in Nat /\ DOMAIN h = 1 .. Len(h)
      /\ DOMAIN k = 1 .. n /\ k[n] = e
      /\ \A i \in 1 .. Len(h) : k[i] = h[i]
  OBVIOUS
<1>2. 1 .. n = (1 .. Len(h)) \cup {n} /\ n \notin 1 .. Len(h)
  BY <1>1
<1> HIDE DEF k, n
<1>3. /\ Succeeded(k) = Succeeded(h) \cup (IF e.succeeded THEN {n} ELSE {})
      /\ Failed(k) = Failed(h) \cup (IF e.succeeded THEN {} ELSE {n})
      /\ n \notin Succeeded(h) /\ n \notin Failed(h)
  BY <1>1, <1>2 DEF Succeeded, Failed
<1>4. IsFiniteSet(Succeeded(h)) /\ IsFiniteSet(Failed(h))
      /\ Cardinality(Succeeded(h)) \in Nat /\ Cardinality(Failed(h)) \in Nat
  BY HistoryTotals
<1>5. /\ Cardinality(Succeeded(k)) =
           Cardinality(Succeeded(h)) + (IF e.succeeded THEN 1 ELSE 0)
      /\ Cardinality(Failed(k)) =
           Cardinality(Failed(h)) + (IF e.succeeded THEN 0 ELSE 1)
  <2>1. CASE e.succeeded
    <3>1. Succeeded(k) = Succeeded(h) \cup {n} /\ Failed(k) = Failed(h)
      BY <1>3, <2>1
    <3>2. Cardinality(Succeeded(h) \cup {n}) = Cardinality(Succeeded(h)) + 1
      BY <1>3, <1>4, FS_AddElement
    <3> QED
      BY <1>4, <2>1, <3>1, <3>2
  <2>2. CASE ~ e.succeeded
    <3>1. Succeeded(k) = Succeeded(h) /\ Failed(k) = Failed(h) \cup {n}
      BY <1>3, <2>2
    <3>2. Cardinality(Failed(h) \cup {n}) = Cardinality(Failed(h)) + 1
      BY <1>3, <1>4, FS_AddElement
    <3> QED
      BY <1>4, <2>2, <3>1, <3>2
  <2> QED
    BY <2>1, <2>2
<1> QED
  BY <1>5 DEF k
-----------------------------------------------------------------------------
(* The team, the tickets and the ledger. *)

\* The deal has an empty table and an empty ledger.
LEMMA DealSound ==
  ASSUME NEW leader \in Players, NEW host \in Players, NEW n,
         n = CreateInitialState(leader, host)
  PROVE  Sound(n)
<1>1. /\ n.phase = "role_reveal" /\ n.questHistory = <<>>
      /\ n.goodScore = 0 /\ n.evilScore = 0
  BY DEF CreateInitialState
<1>2. Succeeded(<<>>) = {} /\ Failed(<<>>) = {}
  BY DEF Succeeded, Failed
<1>3. DOMAIN n.questHistory = {}
  BY <1>1
<1>4. /\ n.goodScore = Cardinality(Succeeded(n.questHistory))
      /\ n.evilScore = Cardinality(Failed(n.questHistory))
  BY <1>1, <1>2, FS_EmptySet
<1>5. Ledger(n)
  BY <1>3, <1>4 DEF Ledger
<1> QED
  BY <1>1, <1>5, DealCore DEF Sound, TeamKept, TicketsKept

\* Only the closing of a quest touches the history or the scores.
LEMMA LedgerSame ==
  ASSUME NEW g, Ledger(g), NEW n, n.questHistory = g.questHistory,
         n.goodScore = g.goodScore, n.evilScore = g.evilScore
  PROVE  Ledger(n)
BY DEF Ledger

LEMMA BeginSound ==
  ASSUME NEW g, Sound(g), NEW caller, CanBeginGame(g, caller),
         NEW n, n = BeginGame(g)
  PROVE  Sound(n)
<1>1. g \in GameState /\ g.phase = "role_reveal"
  BY DEF Sound, Core, CanBeginGame
<1>2. /\ n.phase = "team_building" /\ n.questHistory = g.questHistory
      /\ n.goodScore = g.goodScore /\ n.evilScore = g.evilScore
  BY <1>1 DEF BeginGame, GameState
<1> QED
  BY <1>1, <1>2, BeginCore, LedgerSame DEF Sound, TeamKept, TicketsKept

\* A proposal is checked for its size and its distinctness (proposeTeam).
LEMMA ProposeSound ==
  ASSUME NEW g, Sound(g), NEW caller, NEW team \in Seq(0 .. Stranger),
         CanProposeTeam(g, caller, team), NEW n, n = ProposeTeam(g, team)
  PROVE  Sound(n)
<1>1. /\ g \in GameState /\ g.phase = "team_building"
      /\ Range(team) \subseteq Players
      /\ Len(team) = QuestTeamSize(g.round) /\ IsInjective(team)
  BY DEF Sound, Core, CanProposeTeam, NoDuplicates
<1>2. team \in Seq(Players)
  BY <1>1 DEF Range
<1>3. /\ n.phase = "team_voting" /\ n.round = g.round
      /\ n.proposedTeam = team
      /\ n.questHistory = g.questHistory
      /\ n.goodScore = g.goodScore /\ n.evilScore = g.evilScore
  BY <1>1 DEF ProposeTeam, GameState
<1>4. Core(n)
  BY <1>1, <1>2, ProposeCore DEF Sound
<1>5. TeamKept(n) /\ TicketsKept(n)
  BY <1>1, <1>3 DEF TeamKept, TicketsKept
<1> QED
  BY <1>3, <1>4, <1>5, LedgerSame DEF Sound

\* A vote leaves the team alone,
LEMMA VoteSound ==
  ASSUME NEW g, Sound(g), NEW p, CanSubmitTeamVote(g, p),
         NEW v \in {"approve", "reject"}, NEW n, n = SubmitTeamVote(g, p, v)
  PROVE  Sound(n)
<1>1. g \in GameState /\ g.phase = "team_voting" /\ p \in Players
  BY DEF Sound, Core, CanSubmitTeamVote
<1>2. /\ n.phase = "team_voting" /\ n.round = g.round
      /\ n.proposedTeam = g.proposedTeam
      /\ n.questHistory = g.questHistory
      /\ n.goodScore = g.goodScore /\ n.evilScore = g.evilScore
  BY <1>1 DEF SubmitTeamVote, GameState
<1>3. Core(n)
  BY <1>1, VoteCore DEF Sound
<1>4. TeamKept(n) /\ TicketsKept(n)
  BY <1>1, <1>2 DEF Sound, TeamKept, TicketsKept
<1> QED
  BY <1>2, <1>3, <1>4, LedgerSame DEF Sound

\* its resolution opens the quest only with every vote in and a majority,
LEMMA CloseVoteSound ==
  ASSUME NEW g, Sound(g), CanResolveTeamVote(g), NEW n, n = ResolveTeamVote(g)
  PROVE  Sound(n)
<1>1. g \in GameState /\ g.phase = "team_voting" /\ AllVoted(g)
  BY DEF Sound, Core, CanResolveTeamVote
<1>2. Core(n)
  BY CloseVoteCore DEF Sound
<1>3. Ledger(n)
  <2>1. /\ n.questHistory = g.questHistory
        /\ n.goodScore = g.goodScore /\ n.evilScore = g.evilScore
    BY <1>1 DEF ResolveTeamVote, StartQuest, FinishRejected, NextLeader,
                GameState
  <2> QED
    BY <2>1, LedgerSame DEF Sound
<1>4. CASE Approved(g)
  <2>1. n = StartQuest(g)
    BY <1>4 DEF ResolveTeamVote
  <2>2. /\ n.phase = "quest_action" /\ n.round = g.round
        /\ n.proposedTeam = g.proposedTeam /\ n.teamVotes = g.teamVotes
        /\ n.questActions = NoVotes
    BY <1>1, <2>1 DEF StartQuest, GameState
  <2>3. \A p \in Players : n.questActions[p] = "none"
    BY <2>2 DEF NoVotes
  <2>4. TeamKept(n) /\ TicketsKept(n)
    BY <1>1, <1>4, <2>2, <2>3
       DEF Sound, TeamKept, TicketsKept, AllVoted, Approved
  <2> QED
    BY <1>2, <1>3, <2>4 DEF Sound
<1>5. CASE ~ Approved(g)
  <2>1. n.phase \in {"finished", "team_building"}
    BY <1>1, <1>5 DEF ResolveTeamVote, FinishRejected, NextLeader, GameState
  <2> QED
    BY <1>2, <1>3, <2>1 DEF Sound, TeamKept, TicketsKept
<1> QED
  BY <1>4, <1>5

\* and a ticket is only taken from a member, a fail only from an evil one.
LEMMA ActSound ==
  ASSUME NEW g, Sound(g), NEW p, NEW a \in {"success", "fail"},
         CanSubmitQuestAction(g, p, a), NEW n, n = SubmitQuestAction(g, p, a)
  PROVE  Sound(n)
<1>1. /\ g \in GameState /\ g.phase = "quest_action" /\ p \in Players
      /\ p \in Range(g.proposedTeam) /\ (a = "fail" => p \in Evil)
  BY DEF Sound, Core, CanSubmitQuestAction, Evil
<1>2. /\ n.phase = "quest_action" /\ n.round = g.round
      /\ n.proposedTeam = g.proposedTeam /\ n.teamVotes = g.teamVotes
      /\ n.questActions = [g.questActions EXCEPT ![p] = a]
      /\ g.questActions \in [Players -> {"success", "fail", "none"}]
      /\ n.questHistory = g.questHistory
      /\ n.goodScore = g.goodScore /\ n.evilScore = g.evilScore
  BY <1>1 DEF SubmitQuestAction, GameState
<1>3. Core(n)
  BY <1>1, ActCore DEF Sound
<1>4. \A q \in Players :
        /\ n.questActions[q] # "none" => q \in Range(n.proposedTeam)
        /\ n.questActions[q] = "fail" => q \in Evil
  BY <1>1, <1>2 DEF Sound, TicketsKept
<1>5. TeamKept(n) /\ TicketsKept(n)
  BY <1>1, <1>2, <1>4 DEF Sound, TeamKept, TicketsKept, AllVoted, Approved
<1> QED
  BY <1>2, <1>3, <1>5, LedgerSame DEF Sound

\* An assassination ends the game,
LEMMA KillSound ==
  ASSUME NEW g, Sound(g), NEW caller, NEW target,
         CanAssassinate(g, caller, target), NEW n, n = Assassinate(g, target)
  PROVE  Sound(n)
<1>1. g \in GameState /\ g.phase = "assassination" /\ target \in Good
  BY DEF Sound, Core, CanAssassinate, Evil
<1>2. /\ n.phase = "finished" /\ n.questHistory = g.questHistory
      /\ n.goodScore = g.goodScore /\ n.evilScore = g.evilScore
  BY <1>1 DEF Assassinate, Finish, GameState
<1>3. Core(n)
  BY <1>1, KillCore DEF Sound
<1> QED
  BY <1>2, <1>3, LedgerSame DEF Sound, TeamKept, TicketsKept

\* a change of the player list leaves the table as it is.
LEMMA PlayersSound ==
  ASSUME NEW g, Sound(g), NEW host \in Players,
         NEW online \in [Players -> BOOLEAN],
         NEW n, n = [g EXCEPT !.host = host, !.isConnected = online]
  PROVE  Sound(n)
<1>1. g \in GameState
  BY DEF Sound, Core
<1>2. /\ n.phase = g.phase /\ n.round = g.round
      /\ n.proposedTeam = g.proposedTeam /\ n.teamVotes = g.teamVotes
      /\ n.questActions = g.questActions /\ n.questHistory = g.questHistory
      /\ n.goodScore = g.goodScore /\ n.evilScore = g.evilScore
  BY <1>1 DEF GameState
<1>3. Core(n)
  BY PlayersCore DEF Sound
<1>4. TeamKept(n) /\ TicketsKept(n)
  BY <1>2 DEF Sound, TeamKept, TicketsKept, AllVoted, Approved
<1> QED
  BY <1>2, <1>3, <1>4, LedgerSame DEF Sound

LEMMA HandoverSound ==
  ASSUME NEW g, Sound(g), NEW p, CanUpdateHost(g, p),
         NEW n, n = UpdateHost(g, p)
  PROVE  Sound(n)
<1>1. g \in GameState /\ p \in Players
  BY DEF Sound, Core, CanUpdateHost
<1>2. /\ g.isConnected \in [Players -> BOOLEAN]
      /\ n = [g EXCEPT !.host = p, !.isConnected = g.isConnected]
  BY <1>1 DEF UpdateHost, GameState
<1> QED
  BY <1>1, <1>2, PlayersSound

LEMMA RoamSound ==
  ASSUME NEW g, Sound(g), NEW p \in Players, NEW on \in BOOLEAN,
         NEW n, n = MarkPlayer(g, p, on)
  PROVE  Sound(n)
<1> DEFINE online == [g.isConnected EXCEPT ![p] = on]
<1>1. g \in GameState
  BY DEF Sound, Core
<1>2. /\ online \in [Players -> BOOLEAN] /\ g.host \in Players
      /\ n = [g EXCEPT !.host = g.host, !.isConnected = online]
  BY <1>1 DEF MarkPlayer, GameState
<1> HIDE DEF online
<1> QED
  BY <1>2, PlayersSound

\* resolveQuest enters one line for the round it closes.
LEMMA LedgerClose ==
  ASSUME NEW g, Sound(g), CanResolveQuest(g), NEW n, n = ResolveQuest(g)
  PROVE  Ledger(n)
<1> DEFINE h == g.questHistory
           fails == Count(g.questActions, "fail")
           e == [round |-> g.round,
                 successCount |-> Count(g.questActions, "success"),
                 failCount |-> fails,
                 succeeded |-> QuestSucceeds(g)]
<1>1. g.phase = "quest_action" /\ AllActed(g)
  BY DEF CanResolveQuest
<1>2. /\ g \in GameState /\ h \in Seq(QuestResult)
      /\ g.goodScore \in Nat /\ g.evilScore \in Nat
      /\ g.round \in 1 .. LastRound
      /\ g.round = g.goodScore + g.evilScore + 1
  BY <1>1 DEF Sound, Core, Stands, GameState
<1>3. /\ g.goodScore = Cardinality(Succeeded(h))
      /\ g.evilScore = Cardinality(Failed(h))
  BY DEF Sound, Ledger
<1>4. Len(h) \in Nat /\ g.round = Len(h) + 1
  BY <1>2, <1>3, HistoryTotals
<1>5. fails \in 0 .. N /\ e \in QuestResult
  BY <1>2, CountBound DEF QuestResult, QuestSucceeds
<1>6. /\ n.questHistory = Append(h, e)
      /\ n.goodScore =
           g.goodScore + (IF e.succeeded THEN 1 ELSE 0)
      /\ n.evilScore =
           g.evilScore + (IF e.succeeded THEN 0 ELSE 1)
  <2>1. n = AfterQuest(ScoreQuest(g))
    BY DEF ResolveQuest
  <2>2. /\ ScoreQuest(g) \in GameState
        /\ ScoreQuest(g).questHistory = Append(h, e)
        /\ ScoreQuest(g).goodScore =
             g.goodScore + (IF e.succeeded THEN 1 ELSE 0)
        /\ ScoreQuest(g).evilScore =
             g.evilScore + (IF e.succeeded THEN 0 ELSE 1)
    <3>1. ScoreQuest(g) \in GameState
      BY <1>1, ScoreFacts DEF Sound
    <3> QED
      BY <1>2, <3>1 DEF ScoreQuest, GameState
  <2>3. ASSUME NEW s \in GameState
        PROVE  /\ AfterQuest(s).questHistory = s.questHistory
               /\ AfterQuest(s).goodScore = s.goodScore
               /\ AfterQuest(s).evilScore = s.evilScore
    BY DEF AfterQuest, ClearTable, Finish, GameState
  <2> QED
    BY <2>1, <2>2, <2>3
<1>7. /\ e.round = Len(h) + 1
      /\ e.successCount + e.failCount = QuestTeamSize(Len(h) + 1)
      /\ e.failCount <= Cardinality(Evil)
  BY <1>1, <1>4, Tally DEF Sound, Core
<1>8. e.succeeded <=>
        \/ e.failCount = 0
        \/ e.failCount = 1 /\ Len(h) + 1 = 4 /\ N >= 7 /\ TwoFailsOnFourth
  <2>1. e.failCount \in Nat /\ e.failCount = fails
    BY <1>5, PlayerCountAssumption
  <2>2. e.succeeded <=> fails < RequiredFailCount(Len(h) + 1)
    BY <1>4 DEF QuestSucceeds
  <2>3. RequiredFailCount(Len(h) + 1) =
          IF N >= 7 /\ Len(h) + 1 = 4 /\ TwoFailsOnFourth THEN 2 ELSE 1
    BY DEF RequiredFailCount
  <2> HIDE DEF e, h, fails
  <2> QED
    BY <2>1, <2>2, <2>3
<1> HIDE DEF e, h, fails
<1>9. /\ DOMAIN Append(h, e) = 1 .. (Len(h) + 1)
      /\ Append(h, e)[Len(h) + 1] = e
      /\ \A i \in 1 .. Len(h) : Append(h, e)[i] = h[i]
      /\ DOMAIN h = 1 .. Len(h)
  BY <1>2, <1>5
<1>10. \A i \in DOMAIN n.questHistory :
         LET k == n.questHistory IN
         /\ k[i].round = i
         /\ k[i].successCount + k[i].failCount = QuestTeamSize(i)
         /\ k[i].failCount <= Cardinality(Evil)
         /\ k[i].succeeded <=>
              \/ k[i].failCount = 0
              \/ k[i].failCount = 1 /\ i = 4 /\ N >= 7 /\ TwoFailsOnFourth
  <2> SUFFICES ASSUME NEW i \in 1 .. (Len(h) + 1)
               PROVE  LET k == Append(h, e) IN
                 /\ k[i].round = i
                 /\ k[i].successCount + k[i].failCount = QuestTeamSize(i)
                 /\ k[i].failCount <= Cardinality(Evil)
                 /\ k[i].succeeded <=>
                      \/ k[i].failCount = 0
                      \/ /\ k[i].failCount = 1 /\ i = 4
                         /\ N >= 7 /\ TwoFailsOnFourth
    BY <1>6, <1>9
  <2>1. CASE i = Len(h) + 1
    BY <1>7, <1>8, <1>9, <2>1
  <2>2. CASE i \in 1 .. Len(h)
    BY <1>9, <2>2 DEF Sound, Ledger, h
  <2> QED
    BY <1>4, <2>1, <2>2
<1>11. /\ n.goodScore = Cardinality(Succeeded(n.questHistory))
       /\ n.evilScore = Cardinality(Failed(n.questHistory))
  BY <1>2, <1>3, <1>5, <1>6, HistoryAppend
<1> QED
  BY <1>10, <1>11 DEF Ledger

\* and clears the table, or ends the quests.
LEMMA CloseQuestSound ==
  ASSUME NEW g, Sound(g), CanResolveQuest(g), NEW n, n = ResolveQuest(g)
  PROVE  Sound(n)
<1>1. n.phase \in {"team_building", "assassination", "finished"}
  <2>1. PICK s : n = AfterQuest(s) /\ s = ScoreQuest(g)
    BY DEF ResolveQuest
  <2>2. s \in GameState
    BY <2>1, ScoreFacts DEF Sound, CanResolveQuest
  <2> QED
    BY <2>1, <2>2 DEF AfterQuest, ClearTable, Finish, GameState
<1>2. Core(n)
  BY CloseQuestCore DEF Sound
<1> QED
  BY <1>1, <1>2, LedgerClose DEF Sound, TeamKept, TicketsKept
-----------------------------------------------------------------------------
(* What a sound state promises. *)

\* A quest under way has the mandate of the table.
LEMMA MandateHolds == ASSUME NEW g, Sound(g) PROVE Mandate(g)
<1> SUFFICES ASSUME g.phase = "quest_action"
             PROVE  /\ Cardinality(Range(g.proposedTeam)) =
                         QuestTeamSize(g.round)
                    /\ 2 * Count(g.teamVotes, "approve") > N
                    /\ \A p \in Players :
                         /\ g.questActions[p] # "none" =>
                              p \in Range(g.proposedTeam)
                         /\ g.questActions[p] = "fail" => p \in Evil
  BY DEF Mandate
<1>1. /\ g.proposedTeam \in Seq(Players)
      /\ g.teamVotes \in [Players -> {"approve", "reject", "none"}]
  BY DEF Sound, Core, GameState
<1>2. Cardinality(Range(g.proposedTeam)) = QuestTeamSize(g.round)
  BY <1>1, TeamCount DEF Sound, TeamKept
<1>3. 2 * Count(g.teamVotes, "approve") > N
  <2>1. Count(g.teamVotes, "approve") + Count(g.teamVotes, "reject") = N
    BY <1>1, CountTwo, PlayersFinite DEF Sound, TicketsKept, AllVoted
  <2>2. Count(g.teamVotes, "approve") > Count(g.teamVotes, "reject")
    BY DEF Sound, TicketsKept, Approved
  <2>3. /\ Count(g.teamVotes, "approve") \in 0 .. N
        /\ Count(g.teamVotes, "reject") \in 0 .. N
    BY CountBound
  <2> QED
    BY <2>1, <2>2, <2>3, PlayerCountAssumption
<1> QED
  BY <1>2, <1>3 DEF Sound, TicketsKept

\* Somebody can always move.
LEMMA NobodyStuck == ASSUME NEW g, Sound(g) PROVE Movable(g)
<1> USE DEF Sound, Core
<1>1. g \in GameState /\ g.round \in 1 .. LastRound
  BY DEF GameState
<1>2. CASE g.phase \in {"role_reveal", "team_building", "finished"}
  <2>1. QuestTeamSize(g.round) \in 1 .. Cardinality(Players)
    BY <1>1, TeamSizeBound, PlayersFinite, PlayerCountAssumption
  <2> QED
    BY <1>1, <1>2, <2>1 DEF Movable, GameState
<1>3. CASE g.phase = "team_voting"
  <2>1. CASE AllVoted(g)
    BY <1>3, <2>1 DEF Movable, CanResolveTeamVote
  <2>2. CASE ~ AllVoted(g)
    <3>1. PICK p \in Players : g.teamVotes[p] = "none"
      BY <2>2 DEF AllVoted, Cast
    <3> QED
      BY <1>3, <3>1 DEF Movable, CanSubmitTeamVote
  <2> QED
    BY <2>1, <2>2
<1>4. CASE g.phase = "quest_action"
  <2>1. CASE AllActed(g)
    BY <1>4, <2>1 DEF Movable, CanResolveQuest
  <2>2. CASE ~ AllActed(g)
    <3>1. /\ g.proposedTeam \in Seq(Players)
          /\ IsInjective(g.proposedTeam)
      BY <1>1, <1>4 DEF GameState, TeamKept
    <3>2. /\ Range(g.proposedTeam) \subseteq Players
          /\ Cardinality(Range(g.proposedTeam)) = Len(g.proposedTeam)
      BY <3>1, TeamCount
    <3>3. PICK p \in Range(g.proposedTeam) :
             p \notin Cast(g.questActions)
      <4> SUFFICES ASSUME Range(g.proposedTeam)
                            \subseteq Cast(g.questActions)
                   PROVE  FALSE
        OBVIOUS
      <4>1. /\ IsFiniteSet(Cast(g.questActions))
            /\ Cardinality(Cast(g.questActions)) \in 0 .. N
        <5>1. Cast(g.questActions) \in SUBSET Players
          BY DEF Cast
        <5> QED
          BY <5>1, PlayersFinite
      <4>2. Len(g.proposedTeam) <= Cardinality(Cast(g.questActions))
        BY <3>2, <4>1, FS_Subset
      <4> QED
        BY <2>2, <4>2 DEF AllActed
    <3>4. p \in Players /\ g.questActions[p] = "none"
      BY <3>2, <3>3 DEF Cast
    <3>5. CanSubmitQuestAction(g, p, "success")
      BY <1>4, <3>3, <3>4 DEF CanSubmitQuestAction
    <3> QED
      BY <1>4, <3>4, <3>5 DEF Movable
  <2> QED
    BY <2>1, <2>2
<1>5. CASE g.phase = "assassination"
  <2>1. PICK caller \in Players : Role[caller] = "Assassin"
    BY <1>5 DEF Stands, HasAssassin
  <2>2. PICK target \in Players : Role[target] \in GoodRoles
    BY SomeGoodAssumption
  <2>3. caller # target /\ target \notin Evil
    BY <2>1, <2>2 DEF Evil, Good, GoodRoles
  <2>4. CanAssassinate(g, caller, target)
    BY <1>5, <2>1, <2>3 DEF CanAssassinate
  <2> QED
    BY <1>5, <2>4 DEF Movable
<1> QED
  BY <1>1, <1>2, <1>3, <1>4, <1>5 DEF GameState, Phases
-----------------------------------------------------------------------------
(* Every function of the engine takes a sound state Forward: it keeps the  *)
(* record, and MovesLeft is a number that it makes smaller.                *)

\* The cast ballots or tickets are a number of players,
LEMMA CastCount ==
  ASSUME NEW ballots
  PROVE  IsFiniteSet(Cast(ballots)) /\ Cardinality(Cast(ballots)) \in 0 .. N
<1>1. Cast(ballots) \in SUBSET Players
  BY DEF Cast
<1> QED
  BY <1>1, PlayersFinite

\* none on an empty table,
LEMMA CastNone == Cardinality(Cast(NoVotes)) = 0
<1>1. Cast(NoVotes) = {}
  BY DEF Cast, NoVotes
<1> QED
  BY <1>1, FS_EmptySet

\* and one more with every player who had not cast one.
LEMMA CastMore ==
  ASSUME NEW before, NEW after, NEW p,
         Cast(after) = Cast(before) \cup {p}, p \notin Cast(before)
  PROVE  Cardinality(Cast(after)) = Cardinality(Cast(before)) + 1
BY CastCount, FS_AddElement

\* The worth of a state by its phase.
LEMMA Worth ==
  ASSUME NEW g \in GameState
  PROVE  /\ g.phase = "role_reveal" => MovesLeft(g) = 1000
         /\ g.phase = "team_building" =>
              MovesLeft(g) = (5 - g.round) * 100
                             + (5 - g.rejectedTeamVoteCount) * 12 + 20
         /\ g.phase = "team_voting" =>
              MovesLeft(g) = (5 - g.round) * 100
                             + (5 - g.rejectedTeamVoteCount) * 12
                             + 19 - Cardinality(Cast(g.teamVotes))
         /\ g.phase = "quest_action" =>
              MovesLeft(g) = (5 - g.round) * 100
                             + 15 - Cardinality(Cast(g.questActions))
         /\ g.phase = "assassination" => MovesLeft(g) = 1
         /\ g.phase = "finished" => MovesLeft(g) = 0
         /\ g.round \in 1 .. 5 /\ g.rejectedTeamVoteCount \in 0 .. 5
BY DEF MovesLeft, RoundWorth, AttemptWorth, GameState

\* The tickets on the table are the team's, and at most five.
LEMMA FewTickets ==
  ASSUME NEW g, Sound(g), g.phase = "quest_action"
  PROVE  /\ Cast(g.questActions) \subseteq Range(g.proposedTeam)
         /\ Cardinality(Range(g.proposedTeam)) = Len(g.proposedTeam)
         /\ IsFiniteSet(Range(g.proposedTeam))
         /\ Cardinality(Cast(g.questActions)) \in 0 .. 5
<1>1. /\ g.proposedTeam \in Seq(Players) /\ IsInjective(g.proposedTeam)
      /\ Len(g.proposedTeam) = QuestTeamSize(g.round)
      /\ g.round \in 1 .. LastRound
      /\ Cast(g.questActions) \subseteq Range(g.proposedTeam)
  BY DEF Sound, Core, GameState, TeamKept, TicketsKept, Cast
<1>2. /\ Range(g.proposedTeam) \subseteq Players
      /\ Cardinality(Range(g.proposedTeam)) = Len(g.proposedTeam)
      /\ IsFiniteSet(Range(g.proposedTeam))
  BY <1>1, TeamCount, PlayersFinite
<1>3. Cardinality(Cast(g.questActions)) <= QuestTeamSize(g.round)
  BY <1>1, <1>2, FS_Subset
<1> QED
  BY <1>1, <1>2, <1>3, CastCount, TeamSizeBound, PlayerCountAssumption

\* A quest only closes when the ticket of every member is in: as many
\* tickets as members, and all of them the members'.
LEMMA EverybodyActed ==
  ASSUME NEW g, Sound(g), CanResolveQuest(g)
  PROVE  \A p \in Range(g.proposedTeam) : g.questActions[p] # "none"
<1> DEFINE team == g.proposedTeam
           cast == Cast(g.questActions)
<1>1. /\ cast \subseteq Range(team) /\ IsFiniteSet(Range(team))
      /\ Cardinality(Range(team)) = Len(team)
      /\ Cardinality(cast) >= Len(team)
  BY FewTickets DEF CanResolveQuest, AllActed
<1>2. /\ Cardinality(cast) <= Cardinality(Range(team))
      /\ Cardinality(cast) \in Nat /\ Cardinality(Range(team)) \in Nat
  BY <1>1, FS_Subset, FS_CardinalityType
<1>3. Cardinality(cast) = Cardinality(Range(team))
  BY <1>1, <1>2
<1>4. cast = Range(team)
  BY <1>1, <1>3, FS_Subset
<1> QED
  BY <1>4 DEF Cast

\* A move that leaves the history alone is Forward when it uses up a move.
LEMMA PlainForward ==
  ASSUME NEW g, NEW n, g.phase # "finished", Shrinks(g, n),
         n.questHistory = g.questHistory
  PROVE  Forward(g, n)
BY DEF Forward, RecordKept

LEMMA BeginForward ==
  ASSUME NEW g, Sound(g), NEW caller, CanBeginGame(g, caller),
         NEW n, n = BeginGame(g)
  PROVE  Forward(g, n)
<1>1. g \in GameState /\ n \in GameState
  BY BeginSound DEF Sound, Core
<1>2. /\ g.phase = "role_reveal" /\ n.phase = "team_building"
      /\ n.questHistory = g.questHistory
  BY <1>1 DEF CanBeginGame, BeginGame, GameState
<1>3. Shrinks(g, n)
  BY <1>1, <1>2, Worth DEF Shrinks
<1> QED
  BY <1>2, <1>3, PlainForward

\* Whoever puts a team to the vote uses up the last move of its building.
LEMMA TeamUp ==
  ASSUME NEW g \in GameState, NEW n \in GameState,
         g.phase = "team_building", n.phase = "team_voting",
         n.round = g.round, n.teamVotes = NoVotes,
         n.rejectedTeamVoteCount = g.rejectedTeamVoteCount
  PROVE  Shrinks(g, n)
<1>1. Cardinality(Cast(n.teamVotes)) = 0
  BY CastNone
<1>2. /\ MovesLeft(g) = (5 - g.round) * 100
                        + (5 - g.rejectedTeamVoteCount) * 12 + 20
      /\ MovesLeft(n) = (5 - n.round) * 100
                        + (5 - n.rejectedTeamVoteCount) * 12
                        + 19 - Cardinality(Cast(n.teamVotes))
      /\ g.round \in 1 .. 5 /\ g.rejectedTeamVoteCount \in 0 .. 5
  BY Worth
<1> QED
  BY <1>1, <1>2 DEF Shrinks

LEMMA ProposeForward ==
  ASSUME NEW g, Sound(g), NEW caller, NEW team \in Seq(0 .. Stranger),
         CanProposeTeam(g, caller, team), NEW n, n = ProposeTeam(g, team)
  PROVE  Forward(g, n)
<1>1. g \in GameState /\ n \in GameState
  BY ProposeSound DEF Sound, Core
<1>2. /\ g.phase = "team_building" /\ n.phase = "team_voting"
      /\ n.round = g.round /\ n.teamVotes = NoVotes
      /\ n.rejectedTeamVoteCount = g.rejectedTeamVoteCount
      /\ n.questHistory = g.questHistory
  BY <1>1 DEF CanProposeTeam, ProposeTeam, GameState
<1>3. Shrinks(g, n)
  BY <1>1, <1>2, TeamUp
<1> QED
  BY <1>2, <1>3, PlainForward

LEMMA VoteForward ==
  ASSUME NEW g, Sound(g), NEW p, CanSubmitTeamVote(g, p),
         NEW v \in {"approve", "reject"}, NEW n, n = SubmitTeamVote(g, p, v)
  PROVE  Forward(g, n)
<1>1. g \in GameState /\ n \in GameState
  BY VoteSound DEF Sound, Core
<1>2. /\ g.phase = "team_voting" /\ n.phase = "team_voting" /\ p \in Players
      /\ n.round = g.round
      /\ n.rejectedTeamVoteCount = g.rejectedTeamVoteCount
      /\ n.questHistory = g.questHistory
      /\ n.teamVotes = [g.teamVotes EXCEPT ![p] = v]
      /\ g.teamVotes \in [Players -> {"approve", "reject", "none"}]
      /\ g.teamVotes[p] = "none"
  BY <1>1 DEF CanSubmitTeamVote, SubmitTeamVote, GameState
<1>3. Cardinality(Cast(n.teamVotes)) = Cardinality(Cast(g.teamVotes)) + 1
  <2>1. /\ Cast(n.teamVotes) = Cast(g.teamVotes) \cup {p}
        /\ p \notin Cast(g.teamVotes)
    BY <1>2 DEF Cast
  <2> QED
    BY <2>1, CastMore
<1>4. /\ Cardinality(Cast(g.teamVotes)) \in 0 .. 10
      /\ Cardinality(Cast(n.teamVotes)) \in 0 .. 10
  BY CastCount, PlayerCountAssumption
<1>5. /\ MovesLeft(g) = (5 - g.round) * 100
                        + (5 - g.rejectedTeamVoteCount) * 12
                        + 19 - Cardinality(Cast(g.teamVotes))
      /\ g.round \in 1 .. 5 /\ g.rejectedTeamVoteCount \in 0 .. 5
  BY <1>1, <1>2, Worth
<1>6. MovesLeft(n) = (5 - n.round) * 100
                     + (5 - n.rejectedTeamVoteCount) * 12
                     + 19 - Cardinality(Cast(n.teamVotes))
  BY <1>1, <1>2, Worth
<1>7. MovesLeft(n) = MovesLeft(g) - 1 /\ MovesLeft(n) >= 0
  BY <1>2, <1>3, <1>4, <1>5, <1>6
<1>8. Shrinks(g, n)
  BY <1>4, <1>5, <1>7 DEF Shrinks
<1> QED
  BY <1>2, <1>8, PlainForward

LEMMA CloseVoteForward ==
  ASSUME NEW g, Sound(g), CanResolveTeamVote(g), NEW n, n = ResolveTeamVote(g)
  PROVE  Forward(g, n)
<1>1. g \in GameState /\ n \in GameState
  BY CloseVoteSound DEF Sound, Core
<1>2. g.phase = "team_voting" /\ g.rejectedTeamVoteCount < 5
  BY DEF CanResolveTeamVote, Sound, Core, Stands
<1>3. Cardinality(Cast(g.teamVotes)) \in 0 .. 10
  BY CastCount, PlayerCountAssumption
<1>4. n.questHistory = g.questHistory
  BY <1>1 DEF ResolveTeamVote, StartQuest, FinishRejected, NextLeader, GameState
<1>5. CASE Approved(g)
  <2>1. /\ n.phase = "quest_action" /\ n.round = g.round
        /\ n.questActions = NoVotes
    BY <1>1, <1>5 DEF ResolveTeamVote, StartQuest, GameState
  <2>2. Cardinality(Cast(n.questActions)) = 0
    BY <2>1, CastNone
  <2>3. Shrinks(g, n)
    BY <1>1, <1>2, <1>3, <2>1, <2>2, Worth DEF Shrinks
  <2> QED
    BY <1>2, <1>4, <2>3, PlainForward
<1>6. CASE ~ Approved(g) /\ g.rejectedTeamVoteCount + 1 >= MaxRejected
  <2>1. n.phase = "finished"
    BY <1>1, <1>6 DEF ResolveTeamVote, FinishRejected, GameState
  <2>2. Shrinks(g, n)
    BY <1>1, <1>2, <1>3, <2>1, Worth DEF Shrinks
  <2> QED
    BY <1>2, <1>4, <2>2, PlainForward
<1>7. CASE ~ Approved(g) /\ ~ (g.rejectedTeamVoteCount + 1 >= MaxRejected)
  <2>1. /\ n.phase = "team_building" /\ n.round = g.round
        /\ n.rejectedTeamVoteCount = g.rejectedTeamVoteCount + 1
    BY <1>1, <1>7 DEF ResolveTeamVote, NextLeader, GameState
  <2>2. Shrinks(g, n)
    BY <1>1, <1>2, <1>3, <2>1, Worth DEF Shrinks
  <2> QED
    BY <1>2, <1>4, <2>2, PlainForward
<1> QED
  BY <1>5, <1>6, <1>7

LEMMA ActForward ==
  ASSUME NEW g, Sound(g), NEW p, NEW a \in {"success", "fail"},
         CanSubmitQuestAction(g, p, a), NEW n, n = SubmitQuestAction(g, p, a)
  PROVE  Forward(g, n)
<1>1. g \in GameState /\ n \in GameState
  BY ActSound DEF Sound, Core
<1>2. /\ g.phase = "quest_action" /\ n.phase = "quest_action" /\ p \in Players
      /\ n.round = g.round /\ n.questHistory = g.questHistory
      /\ n.questActions = [g.questActions EXCEPT ![p] = a]
      /\ g.questActions \in [Players -> {"success", "fail", "none"}]
      /\ g.questActions[p] = "none"
  BY <1>1 DEF CanSubmitQuestAction, SubmitQuestAction, GameState
<1>3. Cardinality(Cast(n.questActions)) = Cardinality(Cast(g.questActions)) + 1
  <2>1. /\ Cast(n.questActions) = Cast(g.questActions) \cup {p}
        /\ p \notin Cast(g.questActions)
    BY <1>2 DEF Cast
  <2> QED
    BY <2>1, CastMore
<1>4. /\ Cardinality(Cast(g.questActions)) \in 0 .. 10
      /\ Cardinality(Cast(n.questActions)) \in 0 .. 10
  BY CastCount, PlayerCountAssumption
<1>5. Shrinks(g, n)
  BY <1>1, <1>2, <1>3, <1>4, Worth DEF Shrinks
<1> QED
  BY <1>2, <1>5, PlainForward

\* The one move that writes the record.
LEMMA CloseQuestForward ==
  ASSUME NEW g, Sound(g), CanResolveQuest(g), NEW n, n = ResolveQuest(g)
  PROVE  Forward(g, n)
<1> DEFINE s == ScoreQuest(g)
           h == g.questHistory
           e == [round |-> g.round,
                 successCount |-> Count(g.questActions, "success"),
                 failCount |-> Count(g.questActions, "fail"),
                 succeeded |-> QuestSucceeds(g)]
<1>1. g \in GameState /\ n \in GameState
  BY CloseQuestSound DEF Sound, Core
<1>2. g.phase = "quest_action" /\ n = AfterQuest(s)
  BY DEF CanResolveQuest, ResolveQuest
<1>3. s \in GameState /\ s.round = g.round
  BY <1>2, ScoreFacts DEF Sound
<1>4. s.questHistory = Append(h, e)
  BY <1>1 DEF ScoreQuest, GameState
<1>5. e \in QuestResult /\ h \in Seq(QuestResult)
  BY <1>1, CountBound DEF QuestResult, QuestSucceeds, GameState
<1> HIDE DEF s, e
<1>6. n.questHistory = s.questHistory
  BY <1>2, <1>3 DEF AfterQuest, ClearTable, Finish, GameState
<1>7. n.questHistory = Append(h, n.questHistory[Len(h) + 1])
  BY <1>4, <1>5, <1>6
<1>8. RecordKept(g, n)
  BY <1>2, <1>7, EverybodyActed DEF RecordKept
<1>9. \/ n.phase \in {"assassination", "finished"}
      \/ n.phase = "team_building" /\ n.round = g.round + 1
  BY <1>2, <1>3 DEF AfterQuest, ClearTable, Finish, GameState
<1>10. Shrinks(g, n)
  <2>1. Cardinality(Cast(g.questActions)) \in 0 .. 5
    BY <1>2, FewTickets
  <2>2. /\ MovesLeft(g) = (5 - g.round) * 100
                          + 15 - Cardinality(Cast(g.questActions))
        /\ g.round \in 1 .. 5
    BY <1>1, <1>2, Worth
  <2>3. CASE n.phase \in {"assassination", "finished"}
    <3>1. MovesLeft(n) \in {0, 1}
      BY <1>1, <2>3, Worth
    <3> QED
      BY <2>1, <2>2, <3>1 DEF Shrinks
  <2>4. CASE n.phase = "team_building" /\ n.round = g.round + 1
    <3>1. /\ MovesLeft(n) = (5 - n.round) * 100
                            + (5 - n.rejectedTeamVoteCount) * 12 + 20
          /\ n.round \in 1 .. 5 /\ n.rejectedTeamVoteCount \in 0 .. 5
      BY <1>1, <2>4, Worth
    <3> QED
      BY <2>1, <2>2, <2>4, <3>1 DEF Shrinks
  <2> QED
    BY <1>9, <2>3, <2>4
<1> QED
  BY <1>8, <1>10 DEF Forward

LEMMA KillForward ==
  ASSUME NEW g, Sound(g), NEW caller, NEW target,
         CanAssassinate(g, caller, target), NEW n, n = Assassinate(g, target)
  PROVE  Forward(g, n)
<1>1. g \in GameState /\ n \in GameState
  BY KillSound DEF Sound, Core
<1>2. /\ g.phase = "assassination" /\ n.phase = "finished"
      /\ n.questHistory = g.questHistory
  BY <1>1 DEF CanAssassinate, Assassinate, Finish, GameState
<1>3. Shrinks(g, n)
  BY <1>1, <1>2, Worth DEF Shrinks
<1> QED
  BY <1>2, <1>3, PlainForward

\* A handover or a socket that comes or goes edits the player list.
LEMMA HandoverForward ==
  ASSUME NEW g, Sound(g), NEW p, CanUpdateHost(g, p),
         NEW n, n = UpdateHost(g, p)
  PROVE  Forward(g, n)
<1>1. g \in GameState /\ n = [g EXCEPT !.host = p]
  BY DEF Sound, Core, UpdateHost
<1>2. ListEdited(g, n) /\ n.questHistory = g.questHistory
  BY <1>1 DEF ListEdited, GameState
<1> QED
  BY <1>2 DEF Forward, RecordKept

LEMMA RoamForward ==
  ASSUME NEW g, Sound(g), NEW p \in Players, NEW on \in BOOLEAN,
         NEW n, n = MarkPlayer(g, p, on)
  PROVE  Forward(g, n)
<1>1. g \in GameState /\ n = [g EXCEPT !.isConnected[p] = on]
  BY DEF Sound, Core, MarkPlayer
<1>2. ListEdited(g, n) /\ n.questHistory = g.questHistory
  BY <1>1 DEF ListEdited, GameState
<1> QED
  BY <1>2 DEF Forward, RecordKept
=============================================================================
