SPECIFICATION Spec
CONSTANTS
  Job = {a, b}
  Port = {p, q}
  Nobody = Nobody
SYMMETRY Symmetry
CHECK_DEADLOCK FALSE
INVARIANTS
  TypeOK
  ForeignNeedsRace
  BundleIsNoOlder
