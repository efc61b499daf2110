SPECIFICATION Spec
CONSTANTS
  Tasks <- MCTasks
  Mixes <- MCMixes
  Capacity = 2
  Cards = 2
  Room = 3
  Slots = 1
  HarmsMax = 2
  CancelsMax = 1
INVARIANTS
  LostByHarm
  HeldByOne
PROPERTIES
  KeepsContract
  EveryTaskEnds
CHECK_DEADLOCK FALSE
