SPECIFICATION FairSpec
CONSTANTS
  a = a  b = b  c1 = c1  v1 = v1  p1 = p1  p2 = p2
  e1 = e1  e2 = e2  e3 = e3  e4 = e4
  Players <- TwoPlayers
  Types <- OneType
  Providers <- OneSource
  ProvidersOf <- Single
  Callers <- TwoCallers
  Ones <- BOfOne
  Lists <- AThenB
  Faults <- Errors
  MaxWorkers = 1
  GracePeriod = 1
  RetryDelay = 0
  ChannelSize = 2
  Entries <- TwoEntries
  Start = 2
  MaxTime = 2
  MaxChanges = 0
  Cleans = FALSE
  Stops = TRUE
  NoEntry = NoEntry  NoPlayer = NoPlayer  NoCaller = NoCaller  NoData = NoData
PROPERTIES EveryCallReturns EveryProcessorEnds
CHECK_DEADLOCK FALSE
