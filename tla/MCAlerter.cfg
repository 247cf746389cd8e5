SPECIFICATION FairAlertSpec
CONSTANTS
  Kinds <- MCKinds
  Window = 3
  Period = 2
  Timeout = 1
  MaxLag = 1
  ErrorRate = 60
  Latency = 2
  MaxFailed = 1
INVARIANTS BreachHeard
PROPERTIES ToldOnce StopsWhenCancelled
