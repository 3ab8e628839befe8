\* Three users, rooms of two or three seats, two concurrent operations.
CONSTANTS
  w1 = w1
  w2 = w2
  u1 = u1
  u2 = u2
  u3 = u3
  Users = {u1, u2, u3}
  MinPlayers = 2
  MaxSeats = 3
  Workers = {w1, w2}
  Free = Free
  Orphan = Orphan
  None = None
  MaxRequests = 4
  MaxFaults = 1
SPECIFICATION PresenceSpec
SYMMETRY Symmetric
INVARIANTS PresenceTypeOK SeatsSound
PROPERTIES ImplementsMembership Frozen ReturnKept NewHostOnline HostHandedOver
CHECK_DEADLOCK FALSE
