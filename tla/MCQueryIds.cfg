CONSTANTS
  Instances = {i1, i2}
  Plaintexts = {p1, p2}
  Blocks = 2
  WindowWords = 16
  U64 = 6
  MaxBatch = 2
SYMMETRY MCSymmetry
SPECIFICATION Spec
INVARIANTS
  PadsUsedOnce
  MaskUsedOnce
  SeedsApart
