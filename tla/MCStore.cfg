SPECIFICATION FairSpec
CONSTANTS
  Shapes <- MCShapes
  Stamps <- MCOneStamp
  Clearers = {c1, c2}
  QueueCap = 2
  BatchSize = 2
  TxnLimit = 2
  Radix = 3
  IdDigits = 2
  NoStats = NoStats
  NoTxn = NoTxn
  MaxMsgs = 3
  MaxClears = 2
  MaxSessions = 2
INVARIANTS
  StoredOnce IdsFollowArrival RecentAreNewest
  StatsMatchLog StatsReadable ClearedStayUncounted
PROPERTY EventuallyDrained
