\* The backup, which archives the main file of the database alone.
SPECIFICATION DbSpec
CONSTANTS
  NumPages = 2
  MaxTx = 1
  MaxAttempts = 1
  NoFile = NoFile
  Missing = Missing
INVARIANT BackupIsPreDeploy
CHECK_DEADLOCK FALSE
