\* A pruner between any two steps of a command that may be killed.
SPECIFICATION FairSpec
CONSTANTS
  Operators = {p1}
  Pruners = {q1}
  Versions = {v1, v2}
  v1 = v1
  v2 = v2
  v3 = v3
  v4 = v4
  NoVersion = NoVersion
  NoOperator = NoOperator
  UsesDb = FALSE
  ShipsDb = {}
  Faults = {"removeall", "kill"}
  DeployScope = {"fresh"}
  Rank <- RankDef
  KeepReleases = 1
  Keeps = {0, 2}
PROPERTIES AllOrNothing StepsRunOut CommandsEnd PrunesEnd
