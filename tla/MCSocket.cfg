SPECIFICATION FairSpec
CONSTANTS
  SockCap = 1
  Texts <- SmallTexts
INVARIANTS SeenIsPassed LastWordsPassed
PROPERTIES LeaverNoticed CancelEndsAll
