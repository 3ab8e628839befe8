\* Votes and quests are resolved and handlers end: one process, one fault.
CONSTANTS
  N = 5
  Role <- MCRole
  TwoFailsOnFourth = TRUE
  Ender = Ender
  Free = Free
  Orphan = Orphan
  NoGame = NoGame
  h1 = h1
  h2 = h2
  p1 = p1
  p2 = p2
  Proposals = {}
  Votes <- RaceVotes
  Tickets <- LastTickets
  Roamers = {}
  Hosts = {}
  Kills = {}
  Starts <- RaceStarts
  Handlers = {h1, h2}
  Processes = {p1}
  Homes <- OneHome
  MaxFaults = 1
SPECIFICATION FairSpec
PROPERTIES VoteResolved QuestResolved EveryRequestEnds
CHECK_DEADLOCK FALSE
