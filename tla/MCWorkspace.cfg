CONSTANTS
  Tables <- MCTables
  MaxLen = 3
SPECIFICATION Spec
INVARIANTS
  ReadyForPlan
PROPERTY SteadyState
