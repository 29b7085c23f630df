SPECIFICATION SceneSpec
CONSTANTS
  a = a  b = b  p1 = p1  p2 = p2  e1 = e1  e2 = e2
  SharedIds <- TwoEntities
  Providers = 2
  Callers <- TwoCallers
  Ones <- FirstOne
  Lists <- ManyOfBoth
  Faults <- AnyFault
  MaxWorkers = 1
  GracePeriod = 1
  RetryDelay = 0
  ChannelSize = 2
  Entries <- TwoEntries
  Start = 2
  MaxTime = 3
  MaxChanges = 1
  Cleans = TRUE
  Stops = TRUE
  NoEntry = NoEntry  NoId = NoId  NoCaller = NoCaller  NoData = NoData  Failed = Failed
INVARIANT OneSubscription
PROPERTIES DataKept EveryCallReturns
CHECK_DEADLOCK FALSE
