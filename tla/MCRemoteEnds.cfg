SPECIFICATION Spec
CONSTANTS
  a = a
  b = b
  t1 = t1
  t2 = t2
  Elements = {a}
  Failing = {}
  Tasks <- MCTasks
  DirsMax = 2
  KillsMax = 2
  LossesMax = 2
  TroublesMax = 2
  EndsMax = 1
  Apart = TRUE
  Carries = TRUE
  Steady = FALSE
  Homed = TRUE
  Whole = FALSE
CHECK_DEADLOCK FALSE
PROPERTY EveryTaskEnds
