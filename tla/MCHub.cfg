SPECIFICATION FairSpec
CONSTANTS
  Conns = {k1, k2}
  Flaky = {k1}
  SendCap = 2
  MaxBroadcasts = 4
INVARIANTS NoPanic FeedComplete
PROPERTIES ImplementsLiveFeed LeaversGone BroadcastReturns
CHECK_DEADLOCK FALSE
