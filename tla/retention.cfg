\* Both pruning loops over every listing of up to four of nine names, or of six.
SPECIFICATION Spec
CONSTANTS
  MaxInt = 10
  NaN = NaN
  Versions <- VersionsDef
  Keeps = {0, 1, 2}
CONSTRAINT FewListed
CHECK_DEADLOCK FALSE
INVARIANTS LoopsTypeOK DeployPrunesVictims PruneRemovesOld RemainingIsTrue
