----------------------------- MODULE AvalonGame -----------------------------
(***************************************************************************)
(* One game of Avalon as a state machine: the atomic behaviour the server  *)
(* promises to its players.  Every step is one engine function applied to  *)
(* the whole state, in whatever order the requests arrive.                 *)
(*                                                                         *)
(* This is the abstract specification; AvalonService shows that the        *)
(* locked read-modify-write of avalon.service.ts implements it.            *)
(***************************************************************************)
EXTENDS GameSoundness

CONSTANTS
  Proposals,      \* teams a leader may ask for, illegal ones included
  Votes,          \* Votes[p]: the votes player p may cast
  Tickets,        \* Tickets[p]: the quest tickets player p may hand in
  Roamers,        \* players whose socket may come and go
  Hosts           \* players the room may be handed to

ASSUME InputAssumption ==
  /\ Proposals \subseteq Seq(0 .. Stranger)
  /\ Votes \in [Players -> SUBSET {"approve", "reject"}]
  /\ Tickets \in [Players -> SUBSET {"success", "fail"}]
  /\ Roamers \subseteq Players
  /\ Hosts \subseteq Players

VARIABLE game

Init == \E leader \in Players, host \in Hosts :
          game = CreateInitialState(leader, host)

Begin ==
  \E caller \in Hosts : CanBeginGame(game, caller) /\ game' = BeginGame(game)

Propose ==
  \E caller \in Players, team \in Proposals :
    CanProposeTeam(game, caller, team) /\ game' = ProposeTeam(game, team)

Vote ==
  \E p \in Players : \E v \in Votes[p] :
    CanSubmitTeamVote(game, p) /\ game' = SubmitTeamVote(game, p, v)

CloseVote == CanResolveTeamVote(game) /\ game' = ResolveTeamVote(game)

Act ==
  \E p \in Players : \E a \in Tickets[p] :
    CanSubmitQuestAction(game, p, a) /\ game' = SubmitQuestAction(game, p, a)

CloseQuest == CanResolveQuest(game) /\ game' = ResolveQuest(game)

Kill ==
  \E caller, target \in Players :
    CanAssassinate(game, caller, target) /\ game' = Assassinate(game, target)

Handover ==
  \E p \in Hosts : CanUpdateHost(game, p) /\ game' = UpdateHost(game, p)

Roam ==
  \E p \in Roamers, online \in BOOLEAN : game' = MarkPlayer(game, p, online)

\* The steps that move the game; the others only edit its player list.
Progress ==
  Begin \/ Propose \/ Vote \/ CloseVote \/ Act \/ CloseQuest \/ Kill

Next == Progress \/ Handover \/ Roam

Spec == Init /\ [][Next]_game

\* Players who keep playing.
FairSpec == Spec /\ WF_game(Progress)
-----------------------------------------------------------------------------
TypeOK == game \in GameState

\* Scores, round and phase agree: the round never runs past the quest tables,
\* and a decided game never goes on playing (GameSoundness).
Standing == Stands(game)

\* The verdict is the one the record justifies, and none before the end.
VerdictJustified == Justified(game)

\* The quest history accounts for every ticket, and for the scores.
QuestLedger == Ledger(game)

\* A quest under way has the approval of more than half of the table, a team
\* of the right size, and fail tickets of evil members only.
QuestMandate == Mandate(game)

\* Until the game is finished somebody has a move the engine accepts.
NoDeadEnd == Movable(game)
-----------------------------------------------------------------------------
\* A verdict is final, and a quest once scored stays scored: the history only
\* grows, by one entry, when a quest closes with everyone's ticket in.
RecordFinal == [][RecordKept(game, game')]_game

\* Every move brings the end of the game nearer, whatever the players choose:
\* there is no cycle of rejected teams, re-votes or replayed quests.
GameShrinks == [][Shrinks(game, game') \/ ListEdited(game, game')]_game

\* A game whose players keep moving ends with a verdict.
GameEnds == <>(game.phase = "finished")
=============================================================================
