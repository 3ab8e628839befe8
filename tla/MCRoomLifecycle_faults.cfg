\* Two workers start, end, transfer and clean up over two games while settings
\* change between and during starts; two faults.
CONSTANTS
  w1 = w1
  w2 = w2
  u1 = u1
  u2 = u2
  c1 = c1
  c2 = c2
  Workers = {w1, w2}
  Users = {u1, u2}
  Configs = {c1, c2}
  MaxGen = 2
  MaxFaults = 2
  TxMayExpire = FALSE
  Free = Free
  Orphan = Orphan
  NoGame = NoGame
  None = None
SPECIFICATION Spec
SYMMETRY Symmetric
INVARIANTS TypeOK DbConsistent DealMatches ActiveGameReadable
PROPERTIES FencedInit
CHECK_DEADLOCK FALSE
