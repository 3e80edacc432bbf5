CONSTANTS
  c1 = c1
  m1 = m1
  m2 = m2
  Conns = {c1}
  Window = 1
  Parts = 2
  Matrices = {m1, m2}
  Bytes <- MCBytes
  Place <- MCPlace
  U64 = 8
  Sets <- MCSets
  MaxBytes = 3
SPECIFICATION FairSpec
INVARIANTS
  Understood
  RefusedMayRetry
PROPERTIES
  ImplementsPeers
  RunsReturn
CHECK_DEADLOCK FALSE
