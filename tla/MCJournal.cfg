SPECIFICATION Spec
CONSTANTS
  a = a
  b = b
  Source <- MCSource
  Sour = {b}
  RunsMax = 2
  Unwanted = {1}
  LapsesMax = 1
  Hasty = FALSE
  Firm = TRUE
INVARIANTS
  RecordIsTrue
  NobodyStuck
PROPERTIES
  ImplementsLedger
CHECK_DEADLOCK FALSE
