SPECIFICATION ResourceSpec
CONSTANTS
  Resources = {f}
  Bodies = {t, u}
  MaxStmts = 6
  MaxNest = 1
  MaxThreads = 3
  MaxObjects = 1
INVARIANT TasksAreOrdered
CHECK_DEADLOCK FALSE
