SPECIFICATION SceneSpec
CONSTANTS
  s1 = s1  s2 = s2  g1 = g1  g2 = g2  e1 = e1  e2 = e2  A = A  B = B  R = R
  Sessions <- TwoSessions
  Comps <- TwoComps
  Linked <- OneLinked
  Fields <- SomeFields
  Registered <- InOrder
  Loops <- OneLoop
  Tasks <- OneTask
  Resources <- OneResource
  Execs <- TwoExecs
  Parties <- SomeParties
  Excepts <- NoneOrOne
  PoolSize = 2
  Events <- TwoEvents
  MaxCalls = 2
  MaxChanges = 1
  NoSession = NoSession  NoSystem = NoSystem  NoObject = NoObject  NoEvent = NoEvent
  Elsewhere = Elsewhere  Used = Used
INVARIANTS CleanPool Exclusive OwnFields
CHECK_DEADLOCK FALSE
SYMMETRY Same
