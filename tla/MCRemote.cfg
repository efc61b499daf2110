SPECIFICATION Spec
CONSTANTS
  a = a
  b = b
  t1 = t1
  t2 = t2
  Elements <- MCElements
  Failing = {b}
  Tasks <- MCTasks
  DirsMax = 2
  KillsMax = 1
  LossesMax = 1
  TroublesMax = 1
  EndsMax = 1
  Apart = TRUE
  Carries = TRUE
  Steady = TRUE
  Homed = FALSE
  Whole = TRUE
SYMMETRY MCSymmetry
INVARIANTS
  InOnePlace
  NothingLeft
PROPERTIES
  GivesUpInVain
  KeepsContract
CHECK_DEADLOCK FALSE
