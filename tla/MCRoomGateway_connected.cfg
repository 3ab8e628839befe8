\* A second device may connect while the loss of the first is handled.
CONSTANTS
  u1 = u1
  u2 = u2
  s1 = s1
  s2 = s2
  p1 = p1
  p2 = p2
  h1 = h1
  h2 = h2
  Users = {u1, u2}
  MinPlayers = 2
  MaxSeats = 2
  Sockets = {s1, s2}
  Owner <- TwoDevices
  Server <- TwoServers
  Processes = {p1, p2}
  Handlers = {h1, h2}
  None = None
  MaxOrders = 2
  MaxRequests = 3
  MaxFaults = 1
SPECIFICATION GatewaySpec
PROPERTIES MarkedWhenGone
CHECK_DEADLOCK FALSE
