\* Every deploy and rollback with the files that they keep: a command may be
\* killed anywhere, and file-system calls do not fail.
SPECIFICATION RecordsSpec
CONSTANTS
  Operators = {p1}
  Pruners = {}
  Versions = {v1, v2}
  v1 = v1
  v2 = v2
  NoVersion = NoVersion
  NoOperator = NoOperator
  UsesDb = FALSE
  ShipsDb = {}
  Faults = {"systemctl", "kill"}
  DeployScope = {"fresh", "previous", "current"}
  Rank <- RankDef
  KeepReleases = 1
  Keeps = {0}
  Configs = {c1}
  NoConfig = NoConfig
  MaxEntries = 2
INVARIANTS RecordsTypeOK LogTellsCurrent ConfigIsServed
