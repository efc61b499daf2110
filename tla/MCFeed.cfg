SPECIFICATION Spec
CONSTANTS
  Settings <- Suiting
  Capacity = 1
  PackMax = 2
  Largest = 2
  SourceMax = 4
  TripsMax = 1
INVARIANTS
  ReadAhead
  OverMeansOver
PROPERTIES
  BothSidesEnd
CHECK_DEADLOCK FALSE
