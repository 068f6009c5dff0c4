SPECIFICATION Spec
INVARIANT EveryProgramKeepsMeaning
CHECK_DEADLOCK FALSE
