CONSTANTS
  Shapes <- MCShapes
  Lists <- MCLists
  Devices <- MCDevices
  U32 = 16
  WorkgroupSize = 2
  MaxWorkgroups = 3
  TileMin = 4
  Narrow = TRUE
SPECIFICATION Spec
INVARIANTS
  ExactlyOnce
  WithinLimits
  FailsOnlyOnOneQuery
PROPERTIES
  Returns
CHECK_DEADLOCK FALSE
