\* A stale starter outlives its row lock: its lease and its transaction expire.
CONSTANTS
  w1 = w1
  w2 = w2
  u1 = u1
  u2 = u2
  c1 = c1
  c2 = c2
  Workers = {w1, w2}
  Users = {u1, u2}
  Configs = {c1}
  MaxGen = 2
  MaxFaults = 2
  TxMayExpire = TRUE
  Free = Free
  Orphan = Orphan
  NoGame = NoGame
  None = None
SPECIFICATION Spec
PROPERTIES FencedInit
CHECK_DEADLOCK FALSE
