SPECIFICATION Spec
CONSTANTS
  Fds = {1, 2}
  Cpus = {cpu1, cpu2}
  ChunkSize = 4
  RingCap = 1
  Texts <- MCTexts
  Garbage <- MCGarbage
  Lines <- MCLines
  MaxItems = 2
  MaxBytes = 8
  MaxTransfer = 3
  MaxMishaps = 1
SYMMETRY CpuSymmetry
INVARIANTS CutsDoNotMatter TextsFound
