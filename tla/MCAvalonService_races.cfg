\* The last two votes, or the last ticket, the assassination and a handover
\* race, in one process or in two, with two faults.
CONSTANTS
  N = 5
  Role <- MCRole
  TwoFailsOnFourth = TRUE
  Ender = Ender
  Free = Free
  Orphan = Orphan
  NoGame = NoGame
  h1 = h1
  h2 = h2
  p1 = p1
  p2 = p2
  Proposals = {}
  Votes <- LastVotes
  Tickets <- LastTickets
  Roamers = {}
  Hosts = {0}
  Kills <- HitAndMiss
  Starts <- LastStarts
  Handlers = {h1, h2}
  Processes = {p1, p2}
  Homes <- AllHomes
  MaxFaults = 2
SPECIFICATION Spec
SYMMETRY SymmetricHomes
INVARIANTS TypeOK OwnLease SnapshotCurrent
PROPERTIES ImplementsStep NoResurrection
CHECK_DEADLOCK FALSE
