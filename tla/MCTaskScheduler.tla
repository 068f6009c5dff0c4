--------------------------- MODULE MCTaskScheduler ---------------------------
(* Small instances of TaskScheduler for TLC.  The workers are alike, and so *)
(* are the tasks whose bodies do not fail.                                  *)
EXTENDS TaskScheduler, TLC

Symmetry == Permutations(Workers) \cup Permutations(Tasks \ Faulty)
=============================================================================
