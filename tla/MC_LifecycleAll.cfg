SPECIFICATION FairSpec
CONSTANTS
  c1 = c1  c2 = c2  pn = pn  w1 = w1  w2 = w2  x = x  y = y
  Callers <- TwoCallers
  Panicker = pn
  Workers <- TwoWorkers
  Capacity = 1
  JobWorlds <- TwoWorlds
  Rounds = 2
  Hooks = 1
  MaxTicks = 2
  MaxWrites = 1
  Meet = FALSE
INVARIANT NoChannelPanic
PROPERTIES EveryTickEnds EveryShutdownReturns
CHECK_DEADLOCK FALSE
