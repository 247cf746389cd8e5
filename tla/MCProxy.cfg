SPECIFICATION Spec
CONSTANTS
  Objects = {"a", "b"}
  Exchanges <- MCExchanges
  MaxPiece = 2
  Limit = 4
  WireBuffer = 1
INVARIANTS CapturedIsPassed OnlyLongLinesAbort RequestFirst
