SPECIFICATION FairSpec
CONSTANTS
  NoFile = NoFile
  Torn = Torn
  Last = 1
  Modes = {"api", "browser", "state"}
  MaxSteps = 2
  Descendants = FALSE
  MaxLog = 3
  Plans <- MCPlans
CHECK_DEADLOCK FALSE
INVARIANTS
  NotebookIsClosed
  IdsNeverReused
  SealedIsIntact
PROPERTIES
  VerifyEnds
