SPECIFICATION Spec
CONSTANTS
  Modes = {"api", "browser", "state"}
  NoIr = NoIr
  Requirements <- MCRequirements
  Verifications <- MCVerifications
  Proposals <- MCProposals
CHECK_DEADLOCK FALSE
INVARIANTS
  TypeOK
  PlanIsExecutable
  DeclaredIrDecides
  FallbackStartsOver
  EveryConstraintIsChecked
  ExpanderJudgesItsOwn
  SessionCheckedInPlace
