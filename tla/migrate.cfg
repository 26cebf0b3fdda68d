SPECIFICATION Spec
CONSTANTS
  Runner = {r1, r2, r3}
  Version = {1, 2, 3, 4}
  Needs <- MCNeeds
  Again = {1, 4}
  Change = {4}
  None = None
  Faults = {"sql_error", "died", "commit_unknown"}
SYMMETRY Runners
INVARIANTS
  RecordedIsBuilt
  UpMeansUp
  RaceIsWon
CHECK_DEADLOCK FALSE
