SPECIFICATION Spec
CONSTANTS
  NoFile = NoFile
  Torn = Torn
  Last = 1
  Modes = {"state"}
  MaxSteps = 3
  Descendants = FALSE
  MaxLog = 1
  Plans <- MCPlans
CHECK_DEADLOCK FALSE
INVARIANTS
  TypeOK
  VerdictFollowsEvidence
  ProvenIsWitnessed
  UncoveredNeverPasses
  AbandonedRunClaimsNothing
  JudgedOnLatest
PROPERTIES
  KeepsPromise
