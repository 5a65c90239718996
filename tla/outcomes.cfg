\* Deploys of any release; calls on links do not fail.
SPECIFICATION Spec
CONSTANTS
  Operators = {p1, p2}
  Pruners = {}
  Versions = {v1, v2, v3}
  v1 = v1
  v2 = v2
  v3 = v3
  v4 = v4
  NoVersion = NoVersion
  NoOperator = NoOperator
  UsesDb = FALSE
  ShipsDb = {}
  Faults = {"removeall", "systemctl", "kill"}
  DeployScope = {"fresh", "previous", "current"}
  Rank <- RankDef
  KeepReleases = 1
  Keeps = {0}
SYMMETRY Symmetry
INVARIANTS MutualExclusion FailureRestores SuccessIsUndoable OldIsPrevious
PROPERTY AllOrNothing
