\* From the deal through the first quest, one process, no faults; a player comes and goes.
CONSTANTS
  N = 5
  Role <- MCRole
  TwoFailsOnFourth = TRUE
  Ender = Ender
  Free = Free
  Orphan = Orphan
  NoGame = NoGame
  h1 = h1
  h2 = h2
  p1 = p1
  p2 = p2
  Proposals <- OneProposal
  Votes <- AllApprove
  Tickets <- TeamTickets
  Roamers = {3}
  Hosts = {0}
  Kills = {}
  Starts <- DealtStarts
  Handlers = {h1, h2}
  Processes = {p1}
  Homes <- OneHome
  MaxFaults = 0
SPECIFICATION Spec
SYMMETRY Symmetric
PROPERTIES ImplementsGame
CHECK_DEADLOCK FALSE
