SPECIFICATION Spec
CONSTANTS
  Files = {"plan.json", "verdict.json", "server.log"}
  Loaded = {"plan.json", "verdict.json"}
  Verdict = "verdict.json"
  Strange = {"extra"}
  MaxDamage = 1
CHECK_DEADLOCK FALSE
INVARIANTS
  TamperIsReported
