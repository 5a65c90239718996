\* A pruner beside a deploy, no fault at all.
SPECIFICATION Spec
CONSTANTS
  Operators = {p1}
  Pruners = {q1}
  Versions = {v1, v2, v3}
  v1 = v1
  v2 = v2
  v3 = v3
  v4 = v4
  NoVersion = NoVersion
  NoOperator = NoOperator
  UsesDb = FALSE
  ShipsDb = {}
  Faults = {}
  DeployScope = {"fresh"}
  Rank <- RankDef
  KeepReleases = 1
  Keeps = {0}
PROPERTY LinkedReleaseStays
