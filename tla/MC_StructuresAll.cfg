SPECIFICATION AllSpec
CONSTANTS
  a = a  b = b  u1 = u1  u2 = u2
  g1 = g1  g2 = g2  c1 = c1  c2 = c2  c3 = c3
  Loops <- AnyLoop
  Types <- TypeNames
  Name <- OneName
  Fields <- ManyFields
  NumStages = 1
  MaxPushed = 5
  HeapTimes <- ThreeTimes
  CompactEvery = 2
  CompactAfter = 0
  NoPop = NoPop
  RefIds <- TwoIds
  RefUsers <- TwoUsers
  RefLists <- IdLists
  MaxRefs = 4
  NoCall = NoCall
  CompTypes <- ThreeTypes
  Goroutines <- TwoRoutines
  IdWidth = 2
  MaxAsked = 5
  NoId = NoId  NoType = NoType
  Words = 3
  WordBits = 2
INVARIANTS NoConflictInBatch EachLoopOnce FirstFit MasksAreSets
PROPERTIES QueueImplemented SetImplemented IdsSound
CHECK_DEADLOCK FALSE
