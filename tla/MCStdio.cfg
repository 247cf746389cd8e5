SPECIFICATION FairSpec
CONSTANTS
  PipeCap = 1
  LineLimit = 2
  MaxBytes <- MCBytes
INVARIANTS OutputComplete SeenIsPassed
PROPERTIES CommandGoesOn ExitNoticed CloseReachesCommand
