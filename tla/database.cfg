\* The copy of the database beside a service that writes.
SPECIFICATION DbSpec
CONSTANTS
  NumPages = 2
  MaxTx = 2
  MaxAttempts = 2
  NoFile = NoFile
  Missing = Missing
INVARIANTS
  DbTypeOK
  CopyIsSnapshot
CHECK_DEADLOCK FALSE
