SPECIFICATION Spec
CONSTANTS
  Dynamics = {x, y}
  Strings = {s}
  Files = {f}
  Paths = {p}
  Computed = Computed
  MaxSize = 2
  MaxDepth = 2
  MaxHandles = 3
INVARIANT ReleasedOnEveryExit
CHECK_DEADLOCK FALSE
