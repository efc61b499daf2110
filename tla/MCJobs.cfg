SPECIFICATION Spec
CONSTANTS
  Jobs <- MCJobs
  Tables = {"some", "other"}
  Requests <- MCRequests
  Writes <- MCWrites
  Remembered = 1
  HasFinish = {1}
  Journaled = {1, 2}
  Unwanted = {2}
INVARIANTS
  DependentsWait
  KnownUntilAnnounced
  DetachedQuiet
PROPERTIES
  EveryCallReturns
CHECK_DEADLOCK FALSE
