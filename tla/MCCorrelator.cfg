SPECIFICATION Spec
CONSTANTS
  Ids <- MCIds
  Hash <- MCHash
  NumSlots = 2
  NoId = NoId
  NoRequest = NoRequest
  MaxQueued = 2
  MaxMsgs = 4
  Milli = 2
  MaxTime = 2
INVARIANTS PairedWithLatest LatencyCoversExchange
PROPERTY ImplementsCorrelation
