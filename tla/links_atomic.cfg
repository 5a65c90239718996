\* The symlink manager, one call at a time, with every failure and death,
\* and a `status` that reads the links beside it.
SPECIFICATION StatusSpec
CONSTANTS
  Operators = {p1, p2}
  Versions = {v1, v2, v3}
  NoVersion = NoVersion
  Faults = {"remove", "symlink", "rename"}
SYMMETRY Symmetry
INVARIANTS
  LinkTypeOK
  StatusTypeOK
  StatusIsCoherent
PROPERTY AtomicSwitch
