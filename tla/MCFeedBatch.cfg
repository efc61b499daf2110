SPECIFICATION Spec
CONSTANTS
  Settings <- BatchFills
  Capacity = 2
  PackMax = 2
  Largest = 3
  SourceMax = 9
  TripsMax = 1
PROPERTIES
  JobEnds
CHECK_DEADLOCK FALSE
