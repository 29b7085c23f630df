SPECIFICATION FairSpec
CONSTANTS
  c1 = c1  i1 = i1  i2 = i2  p1 = p1  p2 = p2
  Types <- OneType
  Insts <- Two
  TypeOf <- OfOneTwo
  Callers <- Both
  MaxTime = 2
  Untils <- AnyTime
  Mortal = TRUE
  NoInst = NoInst  NoTime = NoTime
INVARIANTS MaskMatches DetachedOnce
PROPERTIES PointerStable EveryLeaseEnds
CHECK_DEADLOCK FALSE
