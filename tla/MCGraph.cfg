SPECIFICATION Spec
CONSTANTS
  a = a
  b = b
  NoRef = NoRef
  Tables <- MCTables
  Relations <- MCRelations
  Upserted <- MCUpserted
  Graphs <- MCGraphs
  Deliveries = {"graph", "rows"}
  Sinks <- MCSinks
  Width = 2
  Callers = {"one", "two"}
  CallsMax = 2
  TroublesMax = 2
  Apart = TRUE
INVARIANTS
  AsDescribed
  WholeAndOnce
  RefusedForCause
CHECK_DEADLOCK FALSE
