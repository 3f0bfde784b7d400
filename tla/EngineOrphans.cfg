SPECIFICATION Spec
CONSTANTS
  NoFile = NoFile
  Torn = Torn
  Last = 0
  Modes = {"api"}
  MaxSteps = 2
  Descendants = TRUE
  MaxLog = 2
  Plans <- MCPlans
CHECK_DEADLOCK FALSE
INVARIANTS
  ProvenSealIsValid
