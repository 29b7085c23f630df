SPECIFICATION PairSpec
CONSTANTS
  s1 = s1  s2 = s2  s3 = s3  w1 = w1  w2 = w2  k1 = k1  k2 = k2
  Sessions <- ThreeSessions
  Worlds <- TwoWorlds
  Indexes <- AllIndexes
  Keys <- TwoKeys
  KeyOf <- PlayerAndFake
  Required <- OptionalNeeded
  SetHolders <- TheFake
  Overlaps = FALSE
  Shutdowns = TRUE
  NoSession = NoSession  NoKey = NoKey  NoWorld = NoWorld
SYMMETRY WorldSymmetry
INVARIANTS OneWorld FoundByKey Unregistered RelationsCleared
CHECK_DEADLOCK FALSE
