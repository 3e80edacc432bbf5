CONSTANTS
  c1 = c1
  c2 = c2
  m1 = m1
  m2 = m2
  m3 = m3
  Conns = {c1, c2}
  Window = 1
  Parts = 1
  MaxFrames = 2
  Matrices = {m1, m2, m3}
  Bytes <- MCBytes
  Place <- MCPlace
  U64 = 8
  Offers <- MCOffers
  Evaluations <- MCStrangers
  MaxBytes = 3
  Hellos = {"good"}
  Contents = {"good"}
  Misfits = {}
SPECIFICATION Spec
INVARIANTS
  SessionsCharged
  ClosedReleased
  AnswersOwnSet
CHECK_DEADLOCK FALSE
