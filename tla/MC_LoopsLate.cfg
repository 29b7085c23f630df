SPECIFICATION Spec
CONSTANTS
  l1 = l1  l2 = l2  l3 = l3  w1 = w1  w2 = w2  s1 = s1  s2 = s2
  Loops <- ThreeLoops
  Interval <- EveryThreeOrTick
  Stages = 2
  Batches <- TwoStages
  GlobalBatches <- GlobalThird
  Worlds <- TwoWorlds
  WorldSeq <- OneInit
  Sessions <- TwoSessions
  QueueSize = 1
  FirstTime = 4
  Built = {1}
  MaxTime = 7
  NoTx = NoTx
  NoLoop = NoLoop
SYMMETRY SessionSymmetry
INVARIANTS NeverBehind OncePerTick
PROPERTY NoBurst
CHECK_DEADLOCK FALSE
