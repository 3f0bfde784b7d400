SPECIFICATION Spec
CONSTANTS
  Files = {"plan.json", "verdict.json", "server.log", "network/A-001.json"}
  Loaded = {"plan.json", "verdict.json"}
  Verdict = "verdict.json"
  Strange = {"extra"}
  MaxDamage = 3
CHECK_DEADLOCK FALSE
INVARIANTS
  TypeOK
  CleanMeansIntact
  SpoiledIsFlagged
  NoFalseAlarm
