SPECIFICATION Program
CONSTANTS
  Starts <- FileOnly
INVARIANTS FileSuffices
