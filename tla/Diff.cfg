SPECIFICATION Spec
CONSTANTS
  NoFile = NoFile
  Torn = Torn
  Missing = Missing
  Ids = {0, 1}
CHECK_DEADLOCK FALSE
INVARIANTS
  DiffProvenMeans
  DiffFailedMeans
  NotebookBacksVerdict
  CitesBothRuns
