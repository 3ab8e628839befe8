------------------------------- MODULE RoleDeal -------------------------------
(***************************************************************************)
(* From the host's settings to the roles on the table: how a room's role   *)
(* configuration is validated when it is set and when a game starts        *)
(* (validateAvalonRoleConfig), how the engine makes its own pool of roles  *)
(* from it (buildAvalonGameConfig, generateRoles), and the same for SGS.   *)
(* Pure operators; a pool of roles is the number of cards of each.         *)
(***************************************************************************)
EXTENDS Integers, FiniteSets, Functions

AvalonSizes == 5 .. 10

FACTION_COUNTS ==
  [n \in AvalonSizes |-> CASE n = 5 -> [good |-> 3, evil |-> 2]
                           [] n = 6 -> [good |-> 4, evil |-> 2]
                           [] n = 7 -> [good |-> 4, evil |-> 3]
                           [] n = 8 -> [good |-> 5, evil |-> 3]
                           [] n = 9 -> [good |-> 6, evil |-> 3]
                           [] n = 10 -> [good |-> 6, evil |-> 4]]

GoodSpecials == {"Merlin", "Percival"}
EvilSpecials == {"Mordred", "Morgana", "Oberon", "Assassin"}
Specials     == GoodSpecials \cup EvilSpecials

\* roleConfigSchema: a switch per special role, a count for the fillers.
RoleConfigs ==
  [on : SUBSET Specials, loyalServants : 0 .. 10, minions : 0 .. 10]

getDefaultConfig ==
  LET standard == {"Merlin", "Percival", "Morgana", "Assassin"}
      Preset(on, servants, minions) ==
        [on |-> on, loyalServants |-> servants, minions |-> minions]
  IN [n \in AvalonSizes |->
        CASE n = 5  -> Preset(standard, 1, 0)
          [] n = 6  -> Preset(standard, 2, 0)
          [] n = 7  -> Preset(standard \cup {"Oberon"}, 2, 0)
          [] n = 8  -> Preset(standard, 3, 1)
          [] n = 9  -> Preset(standard \cup {"Mordred"}, 4, 0)
          [] n = 10 -> Preset(standard \cup {"Mordred", "Oberon"}, 4, 0)]

\* validateAvalonRoleConfig: the fillers are those the engine will add, not
\* merely as many as make up the number.
WrongValidRoleConfig(c, n) ==
  Cardinality(c.on) + c.loyalServants + c.minions = n
ValidRoleConfig(c, n) ==
  LET good == Cardinality(c.on \cap GoodSpecials)
      evil == Cardinality(c.on \cap EvilSpecials)
  IN /\ good <= FACTION_COUNTS[n].good /\ evil <= FACTION_COUNTS[n].evil
     /\ c.loyalServants = FACTION_COUNTS[n].good - good
     /\ c.minions = FACTION_COUNTS[n].evil - evil

\* generateRoles throws without Merlin or the Assassin, or when a faction is
\* overfull.
CanGenerateRoles(n, roles) ==
  /\ {"Merlin", "Assassin"} \subseteq roles
  /\ Cardinality(roles \cap GoodSpecials) <= FACTION_COUNTS[n].good
  /\ Cardinality(roles \ GoodSpecials) <= FACTION_COUNTS[n].evil
GenerateRoles(n, roles) ==
  [r \in Specials \cup {"LoyalServant", "Minion"} |->
     CASE r \in Specials -> IF r \in roles THEN 1 ELSE 0
       [] r = "LoyalServant" ->
            FACTION_COUNTS[n].good - Cardinality(roles \cap GoodSpecials)
       [] r = "Minion" ->
            FACTION_COUNTS[n].evil - Cardinality(roles \ GoodSpecials)]

\* What the settings show the players.
Shown(c) ==
  [r \in Specials \cup {"LoyalServant", "Minion"} |->
     CASE r \in Specials -> IF r \in c.on THEN 1 ELSE 0
       [] r = "LoyalServant" -> c.loyalServants
       [] r = "Minion" -> c.minions]
-----------------------------------------------------------------------------
SgsSizes   == 2 .. 8
SgsRoles   == {"monarch", "loyalist", "rebel", "traitor"}
SgsConfigs ==
  {c \in [SgsRoles -> 0 .. 8] :
     c["monarch"] <= 1 /\ c["loyalist"] <= 5 /\ c["traitor"] <= 3}

getSgsDefaultConfig ==
  LET Preset(m, l, r, t) ==
        [x \in SgsRoles |-> CASE x = "monarch" -> m [] x = "loyalist" -> l
                              [] x = "rebel" -> r [] x = "traitor" -> t]
  IN [n \in SgsSizes |-> CASE n = 2 -> Preset(1, 0, 1, 0)
                           [] n = 3 -> Preset(1, 0, 2, 0)
                           [] n = 4 -> Preset(0, 2, 2, 0)
                           [] n = 5 -> Preset(1, 1, 2, 1)
                           [] n = 6 -> Preset(1, 1, 3, 1)
                           [] n = 7 -> Preset(1, 2, 3, 1)
                           [] n = 8 -> Preset(1, 2, 4, 1)]

SgsTotal(c) == SumFunction(c)

\* assignSgsRoles: two loyalists and two rebels are dealt by the seat number,
\* and the deal throws at a seat beyond the fourth; every other configuration
\* is dealt whatever the seats.
PairingConfig(c) == c = getSgsDefaultConfig[4]
CanDealSgs(c, seats) ==
  /\ SgsTotal(c) = Cardinality(seats)
  /\ PairingConfig(c) => seats \subseteq 1 .. 4
-----------------------------------------------------------------------------
\* What startGame asks of an Avalon room of n players; settings and creation
\* ask less (a switch for Merlin, say, is only missed at the start).
Startable(c, n) == ValidRoleConfig(c, n) /\ CanGenerateRoles(n, c.on)

\* A start accepts every preset, and a room filled in seat order can be dealt
\* its SGS preset.
ASSUME PresetsAssumption ==
  /\ \A n \in AvalonSizes : Startable(getDefaultConfig[n], n)
  /\ \A n \in SgsSizes :
       getSgsDefaultConfig[n] \in SgsConfigs
         /\ CanDealSgs(getSgsDefaultConfig[n], 1 .. n)
=============================================================================
