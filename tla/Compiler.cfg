SPECIFICATION MCSpec
CONSTANTS
  Resources = {f1}
  Bodies = {t, u}
  MaxStmts = 6
  MaxNest = 2
  MaxThreads = 3
  MaxObjects = 3
  Dynamics = {x, y}
  Strings = {s}
  Files = {f}
  Paths = {p}
  Computed = Computed
  MaxSize = 3
  MaxDepth = 2
  MaxHandles = 3
 
INVARIANT NoWildRelease
INVARIANT ReleasedAtReturn
INVARIANT OwnSlotsOnly
INVARIANT OptimizerKeepsMeaning
CHECK_DEADLOCK FALSE
