SPECIFICATION Spec
CONSTANTS
  a = a  b = b  c1 = c1  v1 = v1  p1 = p1  p2 = p2
  e1 = e1  e2 = e2  e3 = e3  e4 = e4
  Players <- OnePlayer
  Types <- OneType
  Providers <- OneSource
  ProvidersOf <- Single
  Callers <- TwoCallers
  Ones <- JustA
  Lists <- JustListA
  Faults <- NoSubs
  MaxWorkers = 2
  GracePeriod = 1
  RetryDelay = 0
  ChannelSize = 2
  Entries <- TwoEntries
  Start = 2
  MaxTime = 3
  MaxChanges = 1
  Cleans = TRUE
  Stops = FALSE
  NoEntry = NoEntry  NoPlayer = NoPlayer  NoCaller = NoCaller  NoData = NoData
SYMMETRY Symmetry
INVARIANT ClosedOnce
PROPERTIES ReadyStays NeverOlder
CHECK_DEADLOCK FALSE
