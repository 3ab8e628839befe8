---------------------------- MODULE GameSoundness ----------------------------
(***************************************************************************)
(* What a state of an Avalon game must satisfy for the game to make sense, *)
(* as predicates on a state: of the abstract game (AvalonGame) as of the   *)
(* copy the server keeps in Redis (AvalonService).                         *)
(***************************************************************************)
EXTENDS GameEngine

\* The scores and the round agree with each other and with the phase: in
\* particular the round never runs past the quest tables (getQuestTeamSize
\* and getPlayerView throw on round 6), and no phase but the deciding ones is
\* entered with a faction at three points or a team vote at five rejections.
Stands(g) ==
  /\ g.phase \in {"role_reveal", "team_building", "team_voting",
                  "quest_action"} =>
       /\ g.goodScore < RoundsToWin /\ g.evilScore < RoundsToWin
       /\ g.round = g.goodScore + g.evilScore + 1
  /\ g.phase \in {"assassination", "finished"} =>
       g.round \in {g.goodScore + g.evilScore, g.goodScore + g.evilScore + 1}
  /\ g.phase = "assassination" =>
       g.goodScore = RoundsToWin /\ g.evilScore < RoundsToWin /\ HasAssassin
  /\ g.phase # "finished" => g.rejectedTeamVoteCount < MaxRejected
  /\ g.phase \in {"quest_action", "assassination"} =>
       g.rejectedTeamVoteCount = 0

\* The winner and the reason a finished game reports are the ones its
\* record justifies, and a running game reports none (resolveTeamVote,
\* resolveQuest and assassinate each write their own winner and reason).
Justified(g) ==
  LET verdict == <<g.winner, g.resultReason>>
  IN /\ g.phase # "finished" => verdict = <<"none", "none">>
     /\ g.phase = "finished" =>
          \/ /\ verdict = <<"evil", "five_rejected_teams">>
             /\ g.rejectedTeamVoteCount = MaxRejected
             /\ g.goodScore < RoundsToWin /\ g.evilScore < RoundsToWin
             /\ AllVoted(g) /\ ~ Approved(g)
          \/ /\ verdict = <<"evil", "three_failed_quests">>
             /\ g.evilScore = RoundsToWin /\ g.goodScore < RoundsToWin
          \/ /\ verdict = <<"good", "three_success_quests">>
             /\ g.goodScore = RoundsToWin /\ ~ HasAssassin
          \/ /\ verdict = <<"evil", "merlin_assassinated">>
             /\ g.goodScore = RoundsToWin
             /\ g.assassinatedPlayerId \in Players
             /\ Role[g.assassinatedPlayerId] = "Merlin"
          \/ /\ verdict = <<"good", "assassination_failed">>
             /\ g.goodScore = RoundsToWin
             /\ g.assassinatedPlayerId \in Good
             /\ Role[g.assassinatedPlayerId] # "Merlin"

Succeeded(h) == {i \in DOMAIN h : h[i].succeeded}
Failed(h)    == DOMAIN h \ Succeeded(h)

\* The quest history is the ledger of the game: one entry per round in
\* order, each accounting for a ticket of every seat of a team of the size
\* that round calls for, no more fail tickets than there are evil players; a
\* quest fails on its first fail ticket, except for the fourth quest of a
\* large game, which takes two; and the scores are the ledger's totals
\* (resolveQuest scores a quest exactly once, and not before the whole team
\* has acted).
Ledger(g) ==
  LET h == g.questHistory
  IN /\ \A i \in DOMAIN h :
          /\ h[i].round = i
          /\ h[i].successCount + h[i].failCount = QuestTeamSize(i)
          /\ h[i].failCount <= Cardinality(Evil)
          /\ h[i].succeeded <=>
               \/ h[i].failCount = 0
               \/ h[i].failCount = 1 /\ i = 4 /\ N >= 7 /\ TwoFailsOnFourth
     /\ g.goodScore = Cardinality(Succeeded(h))
     /\ g.evilScore = Cardinality(Failed(h))

\* A quest is only ever under way with a team of the size its round calls
\* for, of distinct players, that more than half of all players approved (the
\* votes are kept while the quest runs; a tie rejects), and every fail ticket
\* on the table is an evil team member's.
Mandate(g) ==
  g.phase = "quest_action" =>
    /\ Cardinality(Range(g.proposedTeam)) = QuestTeamSize(g.round)
    /\ 2 * Count(g.teamVotes, "approve") > N
    /\ \A p \in Players :
         /\ g.questActions[p] # "none" => p \in Range(g.proposedTeam)
         /\ g.questActions[p] = "fail" => p \in Evil

\* Some legal move of some player, or the resolution of a vote or a quest,
\* is possible until the game is finished.  A team with a repeated member
\* (proposeTeam refuses it) or an assassination without an assassin
\* (resolveQuest ends the game instead) would leave nobody able to move.
Movable(g) ==
  \/ g.phase = "role_reveal" /\ g.host \in Players
  \/ /\ g.phase = "team_building"
     /\ g.leaderIndex \in Players
     /\ QuestTeamSize(g.round) \in 1 .. Cardinality(Players)
  \/ /\ g.phase = "team_voting"
     /\ CanResolveTeamVote(g) \/ \E p \in Players : CanSubmitTeamVote(g, p)
  \/ /\ g.phase = "quest_action"
     /\ \/ CanResolveQuest(g)
        \/ \E p \in Players : CanSubmitQuestAction(g, p, "success")
  \/ /\ g.phase = "assassination"
     /\ \E caller, target \in Players : CanAssassinate(g, caller, target)
  \/ g.phase = "finished"
-----------------------------------------------------------------------------
(* What the engine keeps from function to function, and from which all of  *)
(* the above follows.                                                      *)

\* A proposed team has the size of its round and no member twice.
TeamKept(g) ==
  g.phase \in {"team_voting", "quest_action"} =>
    /\ Len(g.proposedTeam) = QuestTeamSize(g.round)
    /\ IsInjective(g.proposedTeam)

\* A quest under way was approved, and its tickets are the team's.
TicketsKept(g) ==
  g.phase = "quest_action" =>
    /\ AllVoted(g) /\ Approved(g)
    /\ \A p \in Players :
         /\ g.questActions[p] # "none" => p \in Range(g.proposedTeam)
         /\ g.questActions[p] = "fail" => p \in Evil

Core(g)  == g \in GameState /\ Stands(g) /\ Justified(g)
Sound(g) == Core(g) /\ TeamKept(g) /\ TicketsKept(g) /\ Ledger(g)
-----------------------------------------------------------------------------
(* What a move may never do, of the state g it is made in and the state n  *)
(* it leads to.                                                            *)

\* n differs from g in the player list only.
ListEdited(g, n) ==
  n = [g EXCEPT !.host = n.host, !.isConnected = n.isConnected]

\* A finished game changes no more but for its player list, and the history
\* stays or grows by one quest whose whole team has acted.
RecordKept(g, n) ==
  LET h == g.questHistory IN
  /\ g.phase = "finished" => ListEdited(g, n)
  /\ \/ n.questHistory = h
     \/ /\ n.questHistory = Append(h, n.questHistory[Len(h) + 1])
        /\ \A p \in Range(g.proposedTeam) : g.questActions[p] # "none"

\* The number of moves left, counted from above: it decides that no game runs
\* for ever.  A quest is worth more than the five team votes that can precede
\* it, a team vote more than its ballots.
RoundWorth   == 100
AttemptWorth == 12
MovesLeft(g) ==
  LET attempts == (MaxRejected - g.rejectedTeamVoteCount) * AttemptWorth
      rounds   == (LastRound - g.round) * RoundWorth
  IN CASE g.phase = "role_reveal"   -> 2 * LastRound * RoundWorth
       [] g.phase = "team_building" -> rounds + attempts + 20
       [] g.phase = "team_voting"   ->
            rounds + attempts + 19 - Cardinality(Cast(g.teamVotes))
       [] g.phase = "quest_action"  ->
            rounds + 15 - Cardinality(Cast(g.questActions))
       [] g.phase = "assassination" -> 1
       [] OTHER -> 0
Shrinks(g, n) == MovesLeft(n) \in 0 .. (MovesLeft(g) - 1)

\* Both at once: the record is kept, and a move uses up a move.
Forward(g, n) == RecordKept(g, n) /\ (Shrinks(g, n) \/ ListEdited(g, n))
=============================================================================
