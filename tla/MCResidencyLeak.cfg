CONSTANTS
  t1 = t1
  t2 = t2
  m1 = m1
  m2 = m2
  m3 = m3
  Threads = {t1, t2}
  Matrices = {m1, m2, m3}
  Bytes <- MCBytes
  MaxBytes = 4
  U64 = 8
  MaxBatch = 3
  MaxClones = 2
SPECIFICATION Spec
INVARIANT EntireReservationReleased
CHECK_DEADLOCK FALSE
