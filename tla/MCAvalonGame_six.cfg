\* Six players, standard roles: the whole game, tied team votes included.
CONSTANTS
  N = 6
  Role <- MCSixRoles
  TwoFailsOnFourth = TRUE
  MerlinCanSeeOberon = FALSE
  Proposals <- SixProposals
  Votes <- PivotVotes
  Tickets <- AnyTicket
  Roamers = {}
  Hosts = {0}
SPECIFICATION FairSpec
INVARIANTS TypeOK Standing VerdictJustified NoDeadEnd QuestMandate ButtonsHonest SettingsKept
PROPERTIES RecordFinal GameShrinks GameEnds
