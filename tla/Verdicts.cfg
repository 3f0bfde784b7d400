SPECIFICATION Spec
CONSTANTS
  Last = 2
  MaxRows = 4
CHECK_DEADLOCK FALSE
INVARIANTS
  VerdictTable
PROPERTIES
  DoubtIsMonotone
  InconclusiveNeverPads
