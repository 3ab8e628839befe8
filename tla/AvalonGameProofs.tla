-------------------------- MODULE AvalonGameProofs --------------------------
(***************************************************************************)
(* Theorems about one game of Avalon, for every number of players, every   *)
(* deal and every input: scores, round and verdict agree; a quest has the  *)
(* mandate of the table, the history of the quests is the ledger of the    *)
(* scores, nobody ever waits for a move that no player can make; and no    *)
(* step reopens a finished game, rewrites the history of its quests or     *)
(* lets the game go on for ever.                                           *)
(*                                                                         *)
(* The inductive invariant is that the state is Sound; that the engine     *)
(* keeps it so, function by function, is what GameSoundnessProofs shows.   *)
(***************************************************************************)
EXTENDS AvalonGame, GameSoundnessProofs

GameInv == Sound(game)
-----------------------------------------------------------------------------
LEMMA InitInv == Init => GameInv
BY InputAssumption, DealSound DEF Init, GameInv

\* Each move is a function of the engine that accepts it.
LEMMA NextInv == ASSUME GameInv, [Next]_game PROVE GameInv'
<1> USE DEF GameInv
<1>1. CASE Begin
  BY <1>1, BeginSound DEF Begin
<1>2. CASE Propose
  BY <1>2, ProposeSound, InputAssumption DEF Propose
<1>3. CASE Vote
  BY <1>3, VoteSound, InputAssumption DEF Vote
<1>4. CASE CloseVote
  BY <1>4, CloseVoteSound DEF CloseVote
<1>5. CASE Act
  BY <1>5, ActSound, InputAssumption DEF Act
<1>6. CASE CloseQuest
  BY <1>6, CloseQuestSound DEF CloseQuest
<1>7. CASE Kill
  BY <1>7, KillSound DEF Kill
<1>8. CASE Handover
  BY <1>8, HandoverSound DEF Handover
<1>9. CASE Roam
  BY <1>9, RoamSound, InputAssumption DEF Roam
<1>10. CASE UNCHANGED game
  BY <1>10
<1> QED
  BY <1>1, <1>2, <1>3, <1>4, <1>5, <1>6, <1>7, <1>8, <1>9, <1>10
     DEF Next, Progress

\* No reachable state of any game violates the type, the standing or the
\* justification of the verdict.
THEOREM GameSafety == Spec => [](TypeOK /\ Standing /\ VerdictJustified)
<1>1. GameInv => TypeOK /\ Standing /\ VerdictJustified
  BY DEF GameInv, Sound, Core, TypeOK, Standing, VerdictJustified
<1> QED
  BY <1>1, InitInv, NextInv, PTL DEF Spec

\* In every reachable state of every game the quest under way has the mandate
\* of the table, the history accounts for the scores, and somebody can move.
THEOREM QuestSafety == Spec => [](QuestMandate /\ QuestLedger /\ NoDeadEnd)
<1>1. GameInv => QuestMandate /\ QuestLedger /\ NoDeadEnd
  BY MandateHolds, NobodyStuck
     DEF GameInv, Sound, QuestMandate, QuestLedger, NoDeadEnd
<1> QED
  BY <1>1, InitInv, NextInv, PTL DEF Spec
-----------------------------------------------------------------------------
(* What the steps of a game may never do. *)

LEMMA NextForward ==
  ASSUME GameInv, Next PROVE Forward(game, game')
<1> USE DEF GameInv
<1>1. CASE Begin
  BY <1>1, BeginForward DEF Begin
<1>2. CASE Propose
  BY <1>2, ProposeForward, InputAssumption DEF Propose
<1>3. CASE Vote
  BY <1>3, VoteForward, InputAssumption DEF Vote
<1>4. CASE CloseVote
  BY <1>4, CloseVoteForward DEF CloseVote
<1>5. CASE Act
  BY <1>5, ActForward, InputAssumption DEF Act
<1>6. CASE CloseQuest
  BY <1>6, CloseQuestForward DEF CloseQuest
<1>7. CASE Kill
  BY <1>7, KillForward DEF Kill
<1>8. CASE Handover
  BY <1>8, HandoverForward DEF Handover
<1>9. CASE Roam
  BY <1>9, RoamForward, InputAssumption DEF Roam
<1> QED
  BY <1>1, <1>2, <1>3, <1>4, <1>5, <1>6, <1>7, <1>8, <1>9 DEF Next, Progress

\* A verdict is final, and the history only grows, a line at a time, when a
\* quest closes with the tickets of all of its team.
THEOREM RecordIsFinal == Spec => RecordFinal
<1>1. GameInv /\ [Next]_game => [RecordKept(game, game')]_game
  BY NextForward DEF Forward
<1> QED
  BY <1>1, InitInv, NextInv, PTL DEF Spec, RecordFinal

\* Every move makes MovesLeft smaller and leaves it a number: no choice of
\* the players makes a game go on for ever.
THEOREM GameTerminates == Spec => GameShrinks
<1>1. GameInv /\ [Next]_game =>
        [Shrinks(game, game') \/ ListEdited(game, game')]_game
  BY NextForward DEF Forward
<1> QED
  BY <1>1, InitInv, NextInv, PTL DEF Spec, GameShrinks
=============================================================================
