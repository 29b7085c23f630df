SPECIFICATION Spec
CONSTANTS
  s1 = s1  s2 = s2  w1 = w1  w2 = w2  t1 = t1  t2 = t2  h1 = h1
  Sessions <- OneSession
  Worlds <- TwoWorlds
  Tasks <- TwoTasks
  Targets <- OneByOne
  Handles <- OneHandle
  PayloadTasks <- NoTasks
  Fieldless <- OneHandle
  RepeatTimes <- OnceForever
  DefaultWorld = NoWorld
  NumStages = 1
  MaxTime = 0
  MaxMoves = 1
  Mortal <- OneSession
  Cancellable <- NoTasks
  NoWorld = NoWorld  NoTask = NoTask  NoHandle = NoHandle  NoTick = NoTick
SYMMETRY TaskSymmetry
INVARIANTS TypeOK OneWorldPerSession RepeatsBounded
PROPERTIES ClosedTasksStopped TakenOnce
