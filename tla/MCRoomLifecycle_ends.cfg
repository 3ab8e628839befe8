\* Everything a worker waits for is given up in time; one fault, a transaction
\* timeout included.
CONSTANTS
  w1 = w1
  w2 = w2
  u1 = u1
  u2 = u2
  c1 = c1
  c2 = c2
  Workers = {w1, w2}
  Users = {u1, u2}
  Configs = {c1}
  MaxGen = 1
  MaxFaults = 1
  TxMayExpire = TRUE
  Free = Free
  Orphan = Orphan
  NoGame = NoGame
  None = None
SPECIFICATION FairSpec
PROPERTIES OperationsEnd
CHECK_DEADLOCK FALSE
