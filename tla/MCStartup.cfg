SPECIFICATION Program
CONSTANTS
  Starts <- MCStarts
INVARIANTS RunsAsAsked StoreLeftClosed
