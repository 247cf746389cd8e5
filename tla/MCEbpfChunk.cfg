SPECIFICATION Spec
CONSTANTS
  Fds = {1}
  Cpus = {cpu1}
  ChunkSize = 4
  RingCap = 2
  Texts <- MCOneText
  Garbage <- MCNone
  Lines <- MCNone
  MaxItems = 2
  MaxBytes = 9
  MaxTransfer = 4
  MaxMishaps = 0
INVARIANTS ChunksCopiedWhole
