SPECIFICATION Spec
CONSTANTS
  Workers = {w1}
  Main = main
  Tasks = {t1}
  BatchLimit = 64
  Nested = FALSE
  Faulty = {}
  NoTask = NoTask
PROPERTY FallbackOnlyOnFailure
