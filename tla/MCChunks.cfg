SPECIFICATION Spec
CONSTANTS
  j1 = j1
  j2 = j2
  c1 = c1
  c2 = c2
  c3 = c3
  c4 = c4
  Jobs <- MCJobs
  Chunks <- MCChunks
  Line <- MCLine
  JobOf <- MCJobOf
  Cost <- MCCost
  MaxCpu <- MCMaxCpu
  Cpus = 2
  Capacity = 2
  Window = 2
  Batch = 2
  Batched = FALSE
  Retries <- MCRetries
INVARIANTS
  TypeOK
  Accounts
  Isolation
PROPERTIES
  HeadChargedForItsOwn
  JobsEnd
CHECK_DEADLOCK FALSE
