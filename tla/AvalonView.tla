----------------------------- MODULE AvalonView -----------------------------
(***************************************************************************)
(* What a player of a game is shown, src/src/avalon/visibility.ts: the     *)
(* public state, the seats their role lets them recognise, and the buttons *)
(* they are offered.  A deal is a parameter, so that one game can be shown *)
(* under two deals and the views compared.                                 *)
(***************************************************************************)
EXTENDS AvalonGame, RoleDeal

CONSTANT MerlinCanSeeOberon   \* config.merlinCanSeeOberon

ASSUME OberonAssumption == MerlinCanSeeOberon \in BOOLEAN

\* getVisibleInfo and the get...Visibility functions it chooses from: the kind
\* of the list, and the other players on it.
Holding(deal, roles) == {p \in Players : deal[p] \in roles}
Recognised(role) ==
  CASE role = "Merlin"   -> EvilRoles \ ({"Mordred"} \cup
                              IF MerlinCanSeeOberon THEN {} ELSE {"Oberon"})
    [] role = "Percival" -> {"Merlin", "Morgana"}
    [] role \in EvilRoles \ {"Oberon"} -> EvilRoles \ {"Oberon"}
    [] OTHER -> {}
ListKind(role) ==
  CASE role = "Merlin"   -> "merlinSees"
    [] role = "Percival" -> "percivalSees"
    [] role \in EvilRoles \ {"Oberon"} -> "evilCompanions"
    [] OTHER -> "none"
VisibleInfo(deal, viewer) ==
  [kind |-> ListKind(deal[viewer]),
   seats |-> Holding(deal, Recognised(deal[viewer])) \ {viewer}]

\* How often each role was dealt.
Cards(deal) ==
  [r \in Specials \cup {"LoyalServant", "Minion"} |->
     Cardinality(Holding(deal, {r}))]

\* The other players' roles are stripped from the public list.
WrongBasePlayers(g, deal) ==
  [p \in Players |-> [isHost |-> p = g.host, isLeader |-> p = g.leaderIndex,
                      isConnected |-> g.isConnected[p], role |-> deal[p]]]
BasePlayers(g, deal) ==
  [p \in Players |-> [isHost |-> p = g.host, isLeader |-> p = g.leaderIndex,
                      isConnected |-> g.isConnected[p]]]

ShowPropose(g, viewer) == g.phase = "team_building" /\ viewer = g.leaderIndex
WrongShowVote(g, viewer) == g.phase = "team_voting"
ShowVote(g, viewer) ==
  g.phase = "team_voting" /\ g.teamVotes[viewer] = "none"
ShowQuest(g, viewer) ==
  /\ g.phase = "quest_action"
  /\ viewer \in Range(g.proposedTeam)
  /\ g.questActions[viewer] = "none"
ShowAssassinate(g, deal, viewer) ==
  g.phase = "assassination" /\ deal[viewer] = "Assassin"

\* getPlayerView: of the ballots and tickets on the table the view holds
\* nothing; of a closed quest, the counts.
PlayerView(g, deal, viewer) ==
  [myRole |-> deal[viewer],
   phase |-> g.phase, round |-> g.round, leader |-> g.leaderIndex,
   goodScore |-> g.goodScore, evilScore |-> g.evilScore,
   rejectedTeamVoteCount |-> g.rejectedTeamVoteCount,
   proposedTeam |-> g.proposedTeam, questHistory |-> g.questHistory,
   players |-> BasePlayers(g, deal),
   currentQuestConfig |-> <<QuestTeamSize(g.round),
                            RequiredFailCount(g.round)>>,
   visibleInfo |-> VisibleInfo(deal, viewer),
   gameResult |-> IF g.winner # "none" /\ g.resultReason # "none"
                  THEN <<g.winner, g.resultReason, g.assassinatedPlayerId>>
                  ELSE <<>>,
   canProposeTeam |-> ShowPropose(g, viewer),
   canVote |-> ShowVote(g, viewer),
   canPerformQuest |-> ShowQuest(g, viewer),
   canAssassinate |-> ShowAssassinate(g, deal, viewer)]
-----------------------------------------------------------------------------
\* The buttons tell the truth: a player is offered a move in exactly the
\* states in which the engine would take that move from them (visibility.ts
\* and game-engine.ts decide it separately, and canVote only looks at the
\* ballots of the running attempt if proposeTeam cleared those of the last).
ButtonsHonest ==
  \A p \in Players :
    LET view  == PlayerView(game, Role, p)
        team  == [i \in 1 .. QuestTeamSize(game.round) |-> i - 1]
    IN /\ view.canProposeTeam <=> CanProposeTeam(game, p, team)
       /\ view.canVote <=> CanSubmitTeamVote(game, p)
       /\ view.canPerformQuest <=>
            \E a \in {"success", "fail"} : CanSubmitQuestAction(game, p, a)
       /\ view.canAssassinate <=>
            \E target \in Players : CanAssassinate(game, p, target)

\* The deal with the roles of p and q exchanged.
Exchanged(p, q) == [Role EXCEPT ![p] = Role[q], ![q] = Role[p]]

\* The pairs of roles a player of the role given is not to tell apart.
Alike(mine) ==
  {{r, s} : r, s \in GoodRoles \ IF mine = "Percival" THEN {"Merlin"} ELSE {}}
  \cup (IF mine = "Percival" THEN {{"Merlin", "Morgana"}} ELSE {})
  \cup (IF mine = "Merlin" THEN {{"Mordred", "LoyalServant"}} ELSE {})
  \cup (IF mine = "Merlin" /\ MerlinCanSeeOberon THEN {}
        ELSE {{"Oberon", "LoyalServant"}})

\* The deals a player must not be able to tell from the one on the table.
Alternatives ==
  [v \in Players |->
     {Exchanged(pair[1], pair[2]) : pair \in
        {two \in (Players \ {v}) \X (Players \ {v}) :
           {Role[two[1]], Role[two[2]]} \in Alike(Role[v])}}]

\* What must stay hidden stays hidden, in every state of the game and through
\* every field of the view: a table on which two players had their roles
\* exchanged looks the same to everybody who is not to tell those roles apart.
\* Evil players and servants cannot pick Merlin out of the good; Percival
\* cannot tell Merlin from Morgana; Merlin cannot tell Mordred from a servant,
\* nor (unless the game is so configured) Oberon; and nobody else knows Oberon
\* from one.
RolesHidden ==
  \A v \in Players :
    LET view == PlayerView(game, Role, v)
    IN \A deal \in Alternatives[v] : PlayerView(game, deal, v) = view

\* The game that starts is the one the settings show: startGame validates the
\* host's configuration, then lets the engine make up its own pool of roles
\* from the switches alone.  Whatever configuration a start accepts that puts
\* the roles of this game on the table, it announced exactly these roles, and
\* Merlin and an assassin are among them.
SettingsKept ==
  game.phase = "role_reveal" =>
    \A c \in RoleConfigs :
      Startable(c, N) /\ GenerateRoles(N, c.on) = Cards(Role) =>
        /\ Shown(c) = Cards(Role)
        /\ HasAssassin /\ \E p \in Players : Role[p] = "Merlin"
=============================================================================
