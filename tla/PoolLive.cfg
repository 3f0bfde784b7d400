SPECIFICATION FairSpec
CONSTANTS
  r1 = r1
  r2 = r2
  r3 = r3
  Request = {r1, r2}
  Kinds = {"verify", "diff"}
  Workers = 2
  Permits = 1
  MaxRestarts = 1
CHECK_DEADLOCK FALSE
INVARIANTS
  PermitsBalance
  BusyLeavesNothing
PROPERTIES
  EveryRequestAnswered
  PoolComesToRest
