\* One process, from its arguments to its exit status.
SPECIFICATION ProcessSpec
CONSTANTS
  MaxArgs = 4
  Files <- FilesDef
  MaxPublished = 2
  NoHash = NoHash
  ClientTimeout = 10
INVARIANTS
  ProcessTypeOK
  FlagsAnywhere
  ConfigIsUsable
  SuccessIsSound
  PollEndsInTime
  NoFalseTimeout
PROPERTIES ProcessAdvances ProcessEnds
CHECK_DEADLOCK FALSE
