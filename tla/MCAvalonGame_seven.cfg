\* Seven players without an Assassin: every team is approved, the fourth
\* quest takes two fails, good wins with its third success; the host changes
\* and a player's socket comes and goes.
CONSTANTS
  N = 7
  Role <- MCSevenRoles
  TwoFailsOnFourth = TRUE
  MerlinCanSeeOberon = FALSE
  Proposals <- SevenProposals
  Votes <- AllYes
  Tickets <- AnyTicket
  Roamers = {5}
  Hosts = {0, 3}
SPECIFICATION Spec
INVARIANTS QuestLedger NoDeadEnd RolesHidden
