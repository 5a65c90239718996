\* The loop of prune against the number of releases it is to keep.
SPECIFICATION Spec
CONSTANTS
  MaxInt = 10
  NaN = NaN
  Versions <- VersionsDef
  Keeps = {0, 1, 2}
CONSTRAINT FewListed
CHECK_DEADLOCK FALSE
INVARIANT PruneKeepsExactly
