-------------------------- MODULE AvalonViewProofs --------------------------
(***************************************************************************)
(* What the players of a game are shown, for every number of players,      *)
(* every deal and every input: the buttons are the moves the engine takes, *)
(* the view gives no role away that it must hide, and the roles on the     *)
(* table are the ones the settings show.                                   *)
(***************************************************************************)
EXTENDS AvalonView, AvalonGameProofs

\* The first k seats are a legal team of size k: whoever may propose at all
\* may propose them.
LEMMA FirstSeats ==
  ASSUME NEW k \in 0 .. N
  PROVE  LET team == [i \in 1 .. k |-> i - 1]
         IN Len(team) = k /\ Range(team) \subseteq Players /\ IsInjective(team)
<1> DEFINE team == [i \in 1 .. k |-> i - 1]
<1>1. N \in Nat /\ k \in Nat /\ k <= N
  BY PlayerCountAssumption
<1>2. \A i \in 1 .. k : team[i] \in Players
  BY <1>1 DEF Players
<1>3. team \in Seq(Players) /\ Len(team) = k /\ DOMAIN team = 1 .. k
  BY <1>1, <1>2
<1>4. Range(team) \subseteq Players
  BY <1>2, <1>3 DEF Range
<1>5. IsInjective(team)
  BY <1>1, <1>3 DEF IsInjective
<1> QED
  BY <1>3, <1>4, <1>5

\* An assassin may kill somebody: there is a good player, and it is not them.
LEMMA SomeTarget ==
  ASSUME NEW p \in Players, game.phase = "assassination", Role[p] = "Assassin"
  PROVE  \E target \in Players : CanAssassinate(game, p, target)
<1>1. PICK target \in Players : Role[target] \in GoodRoles
  BY SomeGoodAssumption
<1>2. target # p /\ target \notin Evil
  BY <1>1 DEF Evil, Good, GoodRoles
<1> QED
  BY <1>1, <1>2 DEF CanAssassinate

\* The buttons in a state of the game: each condition of getPlayerView is the
\* engine's, given the type and the membership of the team.
LEMMA ButtonsInState == GameInv => ButtonsHonest
<1> SUFFICES ASSUME GameInv, NEW p \in Players
             PROVE  LET view == PlayerView(game, Role, p)
                        team == [i \in 1 .. QuestTeamSize(game.round) |-> i - 1]
                    IN /\ view.canProposeTeam <=> CanProposeTeam(game, p, team)
                       /\ view.canVote <=> CanSubmitTeamVote(game, p)
                       /\ view.canPerformQuest <=>
                            \E a \in {"success", "fail"} :
                              CanSubmitQuestAction(game, p, a)
                       /\ view.canAssassinate <=>
                            \E target \in Players :
                              CanAssassinate(game, p, target)
  BY DEF ButtonsHonest
<1> DEFINE view == PlayerView(game, Role, p)
           team == [i \in 1 .. QuestTeamSize(game.round) |-> i - 1]
<1>1. /\ view.canProposeTeam = ShowPropose(game, p)
      /\ view.canVote = ShowVote(game, p)
      /\ view.canPerformQuest = ShowQuest(game, p)
      /\ view.canAssassinate = ShowAssassinate(game, Role, p)
  BY DEF PlayerView
<1>2. ShowPropose(game, p) <=> CanProposeTeam(game, p, team)
  <2>1. QuestTeamSize(game.round) \in 0 .. N
    BY TeamSizeBound, PlayerCountAssumption DEF GameInv, Sound, Core, GameState
  <2>2. /\ Len(team) = QuestTeamSize(game.round)
        /\ Range(team) \subseteq Players /\ IsInjective(team)
    BY <2>1, FirstSeats
  <2> QED
    BY <2>2 DEF ShowPropose, CanProposeTeam, NoDuplicates
<1>3. ShowVote(game, p) <=> CanSubmitTeamVote(game, p)
  BY DEF ShowVote, CanSubmitTeamVote
<1>4. ShowQuest(game, p) <=>
        \E a \in {"success", "fail"} : CanSubmitQuestAction(game, p, a)
  BY DEF ShowQuest, CanSubmitQuestAction
<1>5. ShowAssassinate(game, Role, p) <=>
        \E target \in Players : CanAssassinate(game, p, target)
  BY SomeTarget DEF ShowAssassinate, CanAssassinate
<1> QED
  BY <1>1, <1>2, <1>3, <1>4, <1>5

\* In every reachable state of every game a player is offered a move exactly
\* when the engine would take it from them.
THEOREM ButtonsAreHonest == Spec => []ButtonsHonest
<1>1. Spec => []GameInv
  BY InitInv, NextInv, PTL DEF Spec
<1> QED
  BY <1>1, ButtonsInState, PTL
-----------------------------------------------------------------------------
\* Two roles a player is not to tell apart are both on the list of those they
\* recognise or both off it.
LEMMA AlikeRecognised ==
  ASSUME NEW mine \in GoodRoles \cup EvilRoles, NEW r, NEW s,
         {r, s} \in Alike(mine)
  PROVE  r \in Recognised(mine) <=> s \in Recognised(mine)
<1> USE DEF Alike, Recognised, GoodRoles, EvilRoles
<1>1. CASE mine = "Merlin"
  BY <1>1
<1>2. CASE mine = "Percival"
  BY <1>2
<1>3. CASE mine \notin {"Merlin", "Percival"}
  BY <1>3
<1> QED
  BY <1>1, <1>2, <1>3

\* Exchanging them changes nobody's membership of that list.
LEMMA ExchangeUnseen ==
  ASSUME NEW v \in Players, NEW p \in Players \ {v}, NEW q \in Players \ {v},
         {Role[p], Role[q]} \in Alike(Role[v])
  PROVE  /\ Exchanged(p, q)[v] = Role[v]
         /\ Holding(Exchanged(p, q), Recognised(Role[v])) =
              Holding(Role, Recognised(Role[v]))
<1> DEFINE deal == Exchanged(p, q)
           seen == Recognised(Role[v])
<1>1. /\ deal[q] = Role[p] /\ deal[p] = Role[q]
      /\ \A x \in Players \ {p, q} : deal[x] = Role[x]
  BY RoleAssumption DEF Exchanged
<1>2. Role[p] \in seen <=> Role[q] \in seen
  BY AlikeRecognised, RoleAssumption
<1>3. \A x \in Players : deal[x] \in seen <=> Role[x] \in seen
  BY <1>1, <1>2
<1> QED
  BY <1>1, <1>3 DEF Holding

\* So the view is the same, whatever the state of the game.
LEMMA ViewUnchanged ==
  ASSUME NEW g, NEW v \in Players, NEW deal,
         deal[v] = Role[v],
         Holding(deal, Recognised(Role[v])) = Holding(Role, Recognised(Role[v]))
  PROVE  PlayerView(g, deal, v) = PlayerView(g, Role, v)
<1>1. VisibleInfo(deal, v) = VisibleInfo(Role, v)
  BY DEF VisibleInfo
<1>2. ShowAssassinate(g, deal, v) = ShowAssassinate(g, Role, v)
  BY DEF ShowAssassinate
<1>3. BasePlayers(g, deal) = BasePlayers(g, Role)
  BY DEF BasePlayers
<1> QED
  BY <1>1, <1>2, <1>3 DEF PlayerView

\* In every state of every game, two deals that a player is not to tell apart
\* give that player the same view.
THEOREM RolesStayHidden == Spec => []RolesHidden
<1>1. RolesHidden
  <2> SUFFICES ASSUME NEW v \in Players, NEW deal \in Alternatives[v]
               PROVE  PlayerView(game, deal, v) = PlayerView(game, Role, v)
    BY DEF RolesHidden
  <2>1. PICK p \in Players \ {v}, q \in Players \ {v} :
          deal = Exchanged(p, q) /\ {Role[p], Role[q]} \in Alike(Role[v])
    BY DEF Alternatives
  <2> QED
    BY <2>1, ExchangeUnseen, ViewUnchanged
<1> QED
  BY <1>1, PTL
-----------------------------------------------------------------------------
\* A configuration a start accepts shows the pool the engine makes of it.
LEMMA PoolShown ==
  ASSUME NEW c \in RoleConfigs, ValidRoleConfig(c, N)
  PROVE  Shown(c) = GenerateRoles(N, c.on)
<1>1. c.on \cap EvilSpecials = c.on \ GoodSpecials
  BY DEF RoleConfigs, Specials, GoodSpecials, EvilSpecials
<1> QED
  BY <1>1 DEF Shown, GenerateRoles, ValidRoleConfig

\* A role of which the pool has a card is somebody's.
LEMMA CardDealt ==
  ASSUME NEW r \in Specials \cup {"LoyalServant", "Minion"}, Cards(Role)[r] = 1
  PROVE  \E p \in Players : Role[p] = r
<1>1. Cardinality(Holding(Role, {r})) = 1
  BY DEF Cards
<1>2. Holding(Role, {r}) # {}
  BY <1>1, FS_EmptySet
<1> QED
  BY <1>2 DEF Holding

\* Every game is played with the roles its settings announce, among them
\* Merlin and an assassin, whichever accepted configuration it started from.
THEOREM SettingsAreKept == Spec => []SettingsKept
<1>1. SettingsKept
  <2> SUFFICES ASSUME NEW c \in RoleConfigs, Startable(c, N),
                      GenerateRoles(N, c.on) = Cards(Role)
               PROVE  /\ Shown(c) = Cards(Role)
                      /\ HasAssassin
                      /\ \E p \in Players : Role[p] = "Merlin"
    BY DEF SettingsKept
  <2>1. Shown(c) = Cards(Role)
    BY PoolShown DEF Startable
  <2>2. {"Merlin", "Assassin"} \subseteq c.on
    BY DEF Startable, CanGenerateRoles
  <2>3. Cards(Role)["Merlin"] = 1 /\ Cards(Role)["Assassin"] = 1
    BY <2>2 DEF GenerateRoles, Specials, GoodSpecials, EvilSpecials
  <2> QED
    BY <2>1, <2>3, CardDealt
       DEF HasAssassin, Specials, GoodSpecials, EvilSpecials
<1> QED
  BY <1>1, PTL
=============================================================================
