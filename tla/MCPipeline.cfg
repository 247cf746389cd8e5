SPECIFICATION FairSpec
CONSTANTS
  Sources = {s1, s2}
  ChanCap = 2
  QueueCap = 2
  BatchSize = 2
  NoMsg = NoMsg
  MaxLines = 2
INVARIANTS  LogKeepsSourceOrder LiveIdsTrue NoneForgotten
PROPERTIES SourcesNeverWait MainStops
