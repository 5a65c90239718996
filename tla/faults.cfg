\* Deploys of releases no link names, for a service with a database, with
\* every fault there is.
SPECIFICATION Spec
CONSTANTS
  Operators = {p1}
  Pruners = {}
  Versions = {v1, v2, v3}
  v1 = v1
  v2 = v2
  v3 = v3
  v4 = v4
  NoVersion = NoVersion
  NoOperator = NoOperator
  UsesDb = TRUE
  ShipsDb = {}
  Faults = {"remove", "symlink", "rename", "removeall", "systemctl", "kill"}
  DeployScope = {"fresh"}
  Rank <- TiedDef
  KeepReleases = 1
  Keeps = {0}
SYMMETRY AllAlike
INVARIANTS TypeOK SuccessIsServed LinkedCanStart
PROPERTIES
  LinkedReleaseStays LinkedDataStays DeployLinksWhole HalfMadeOnlyByFault
  StepsRunOut StaleOnlyByFault
