\* Deploys of the release that is current; nothing fails but the deploy.
SPECIFICATION Spec
CONSTANTS
  Operators = {p1}
  Pruners = {}
  Versions = {v1, v2}
  v1 = v1
  v2 = v2
  v3 = v3
  v4 = v4
  NoVersion = NoVersion
  NoOperator = NoOperator
  UsesDb = FALSE
  ShipsDb = {}
  Faults = {}
  DeployScope = {"fresh", "current"}
  Rank <- RankDef
  KeepReleases = 1
  Keeps = {0}
PROPERTY LinkedReleaseStays
