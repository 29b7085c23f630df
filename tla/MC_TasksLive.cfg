SPECIFICATION FairSpec
CONSTANTS
  s1 = s1  s2 = s2  w1 = w1  w2 = w2  t1 = t1  t2 = t2  h1 = h1
  Sessions <- TwoSessions
  Worlds <- TwoWorlds
  Tasks <- OneTask
  Targets <- UpToTwo
  Handles <- NoHandles
  PayloadTasks <- NoTasks
  Fieldless <- NoHandles
  RepeatTimes <- Once
  DefaultWorld = w1
  NumStages = 2
  MaxTime = 1
  MaxMoves = 0
  Mortal <- OneSession
  Cancellable <- NoTasks
  NoWorld = NoWorld  NoTask = NoTask  NoHandle = NoHandle  NoTick = NoTick
PROPERTY EveryTaskEnds
