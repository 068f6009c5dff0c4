SPECIFICATION Spec
CONSTANTS
  Workers = {w1, w2}
  Main = main
  Tasks = {t1, t2, t3}
  BatchLimit = 2
  Nested = TRUE
  Faulty = {t1}
  NoTask = NoTask
SYMMETRY Symmetry
INVARIANT OnePlaceEach
INVARIANT NoDangling
INVARIANT NoLostWakeup
INVARIANT CleanExit
CHECK_DEADLOCK FALSE
