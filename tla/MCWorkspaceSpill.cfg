CONSTANTS
  Tables <- MCTables
  MaxLen = 3
SPECIFICATION Spec
INVARIANT CapacityHoldsPlan
