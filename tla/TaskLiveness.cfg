SPECIFICATION FairSpec
CONSTANTS
  Workers = {w1, w2}
  Main = main
  Tasks = {t1, t2}
  BatchLimit = 64
  Nested = FALSE
  Faulty = {t1}
  NoTask = NoTask
INVARIANT FailuresAreOwn
PROPERTY ImplementsFuture
PROPERTY EveryTaskCompletes
PROPERTY EverySleeperWakes
PROPERTY ShutdownCompletes
