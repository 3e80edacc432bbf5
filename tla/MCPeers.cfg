CONSTANTS
  c1 = c1
  c2 = c2
  m1 = m1
  m2 = m2
  m3 = m3
  Conns = {c1}
  Window = 2
  Parts = 2
  MaxFrames = 3
  Matrices = {m1, m2, m3}
  Bytes <- MCBytes
  Place <- MCPlace
  U64 = 8
  Offers <- MCOffers
  Evaluations <- MCEvaluations
  MaxBytes = 3
  Hellos = {"good", "foreign", "magic"}
  Contents = {"good", "malformed", "invalid"}
  Misfits = {"UploadAccepted", "Products", "Error", "unknown"}
SPECIFICATION FairSpec
INVARIANTS
  FrameAligned
  AnsweredOnce
PROPERTIES
  LoadOnce
  LeaversReleased
CHECK_DEADLOCK FALSE
