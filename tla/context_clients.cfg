\* Users of the context client, a cumulative sum, a merge and a get, a mean:
\* late answers and timeouts at any moment, crashes of the context manager.
CONSTANTS
  c1 = c1
  c2 = c2
  c3 = c3
  Call = {c1, c2, c3}
  Modes <- AnyModes
  Workloads <- AllWorkloads
  MaxCrashes = 1
  Period = 1
SPECIFICATION MCSpec
INVARIANTS
  ContextMapSound
  ContextIsFold
  WindowSum
  OutputIsSaved
PROPERTIES
  ToldIsDone
  ServerIsReadWriteLock
  ContextsSettle
\* The system stops when every user is served.
CHECK_DEADLOCK FALSE
